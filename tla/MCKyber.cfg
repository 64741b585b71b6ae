SPECIFICATION RowSpec
CONSTANTS
  KYBER_K = 4
  Secrets <- SecretSet
  Ciphertexts <- CipherSet
CHECK_DEADLOCK FALSE
INVARIANTS
  NeverWraps
  Decrypts
  Scalars
