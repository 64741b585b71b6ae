------------------------------ MODULE MCKyber ------------------------------
(***************************************************************************)
(* The arithmetic of Kyber for TLC: decryption with the real N = 256,      *)
(* q = 3329 and k = 4, and the scalar operations for every int16_t, in     *)
(* rows of 256 values.                                                     *)
(***************************************************************************)
EXTENDS KyberDec

VARIABLE row    \* the row of int16_t values looked at

(* Secret polynomials: the largest coefficients of k = 4, with signs of no *)
(* even period, and X^255, which turns every product around.               *)
Wide == [j \in 0 .. 255 |-> IF j % 3 = 0 THEN 2 ELSE -2]
Last == [j \in 0 .. 255 |-> IF j = 255 THEN 1 ELSE 0]

SecretSet == {f \in [1 .. 4 -> {Wide, Last}] : f[1] = f[3] /\ f[2] = Wide /\ f[4] = Wide}

(* Ciphertext polynomials: all ones, which decompress to the largest       *)
(* coefficients, and a dense one.                                          *)
Ones  == [j \in 0 .. 255 |-> 2047]
Dense == [j \in 0 .. 255 |-> (j * j * 17 + 5 * j + 1) % 2048]

CipherSet == [b : {f \in [1 .. 4 -> {Ones, Dense}] : f[1] = f[2] /\ f[3] = f[4]},
              v : {Dense}]

(* One of the decryptions, before its first step, goes through the rows.   *)
FirstStep == pc = "ntt" /\ ~hw /\ len = 128
RowInit == Init /\ row = -128
RowNext ==
  \/ row = -128 /\ Next /\ UNCHANGED row
  \/ FirstStep /\ row < 127 /\ row' = row + 1 /\ UNCHANGED vars
RowSpec == RowInit /\ [][RowNext]_<<vars, row>>

Values == 256 * row .. 256 * row + 255

(* The second factors tried with every first one: the ends of the residues *)
(* the callers multiply by, the largest zetas, and invntt's 1441.          *)
Factors == {-3328, -1664, -1659, -1, 1, 1441, 1628, 3328}

(* Of every int16_t: fqmul of it by a residue is the Montgomery product,   *)
(* in the open interval of q (reduce.h:12-19, reduce.c:5-15); Barrett      *)
(* reduction is centered (reduce.c:25-34); a coefficient and the word that *)
(* stands for it in the burst are congruent, both ways, and 14 bits are    *)
(* enough (ntt_kyber_hw.c:134-189); multiplication by 80635 / 2^28 rounds  *)
(* as division by q would (poly.c:188-207); compression to 4, 5, 10 and 11 *)
(* bits is the division it replaces, and decompression nearly undoes it    *)
(* (poly.c:21-70 and polyvec.c:15-79).                                     *)
Scalars ==
  FirstStep => \A a \in Values :
    /\ \A c \in Factors : MontgomeryAt(a * c)
    /\ BarrettAt(a) /\ PackAt(a) /\ TomsgAt(a) /\ CompressAt(a)
=============================================================================
