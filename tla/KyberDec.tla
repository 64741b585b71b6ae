------------------------------ MODULE KyberDec ------------------------------
(***************************************************************************)
(* Decryption, indcpa_dec of benchmarks/kyber/ref/indcpa.c, and all the    *)
(* arithmetic in Z_q[X]/(X^256 + 1) below it: ntt, invntt and basemul      *)
(* (ntt.c), their use in poly.c and polyvec.c, and poly_tomsg.             *)
(*                                                                         *)
(* The program is sequential.  One step is one pass of an outer loop; the  *)
(* butterflies of a pass touch disjoint pairs, so a pass is one equation.  *)
(* Coefficients are int16_t, and every store converts with I16.  Byte      *)
(* packing is left out: a ciphertext is its compressed coefficients.       *)
(***************************************************************************)
EXTENDS KyberReduce, Sequences, FiniteSetsExt

CONSTANTS
  KYBER_K,       \* 2, 3 or 4
  Secrets,       \* bounds: the secret vectors,
  Ciphertexts    \*         and the ciphertexts, as fractions of 2^11

Coeff == 0 .. 255
Vec == 1 .. KYBER_K
Fraction == 0 .. 2047

ASSUME DecAssumption ==
  /\ KYBER_K \in 2 .. 4
  /\ Secrets \subseteq [Vec -> [Coeff -> -3 .. 3]]
  /\ Ciphertexts \subseteq [b : [Vec -> [Coeff -> Fraction]], v : [Coeff -> Fraction]]

zetas == <<
  -1044,  -758,  -359, -1517,  1493,  1422,   287,   202,
   -171,   622,  1577,   182,   962, -1202, -1474,  1468,
    573, -1325,   264,   383,  -829,  1458, -1602,  -130,
   -681,  1017,   732,   608, -1542,   411,  -205, -1571,
   1223,   652,  -552,  1015, -1293,  1491,  -282, -1544,
    516,    -8,  -320,  -666, -1618, -1162,   126,  1469,
   -853,   -90,  -271,   830,   107, -1421,  -247,  -951,
   -398,   961, -1508,  -725,   448, -1065,   677, -1275,
  -1103,   430,   555,   843, -1251,   871,  1550,   105,
    422,   587,   177,  -235,  -291,  -460,  1574,  1653,
   -246,   778,  1159,  -147,  -777,  1483,  -602,  1119,
  -1590,   644,  -872,   349,   418,   329,  -156,   -75,
    817,  1097,   603,   610,  1322, -1285, -1465,   384,
  -1215,  -136,  1218, -1335,  -874,   220, -1187, -1659,
  -1185, -1530, -1278,   794, -1510,  -854,  -870,   478,
   -108,  -308,   996,   991,   958, -1460,  1522,  1628 >>

zeta(k) == zetas[k + 1]

----------------------------------------------------------------------------
(* The passes.  With distance len, j is the upper of its pair when j / len *)
(* is even; k counts on by one for each group of 2 len coefficients.       *)

Upper(j, len) == (j \div len) % 2 = 0
Group(j, len) == j \div (2 * len)

(* Mutant: the zetas of a pass start one too early.                      *)
ntt_pass_zeta(r, len) ==
  LET t(j) == fqmul(zeta(128 \div len + Group(j, len) - 1), r[j])
  IN  [j \in Coeff |-> IF Upper(j, len) THEN I16(r[j] + t(j + len))
                                        ELSE I16(r[j - len] - t(j))]

ntt_pass(r, len) ==
  LET t(j) == fqmul(zeta(128 \div len + Group(j, len)), r[j])
  IN  [j \in Coeff |-> IF Upper(j, len) THEN I16(r[j] + t(j + len))
                                        ELSE I16(r[j - len] - t(j))]

(* Mutant: the sums are not reduced.                                     *)
invntt_pass_lazy(r, len) ==
  [j \in Coeff |->
     IF Upper(j, len)
       THEN I16(r[j] + r[j + len])
       ELSE fqmul(zeta(256 \div len - 1 - Group(j, len)), I16(r[j] - r[j - len]))]

invntt_pass(r, len) ==
  [j \in Coeff |->
     IF Upper(j, len)
       THEN barrett_reduce(I16(r[j] + r[j + len]))
       ELSE fqmul(zeta(256 \div len - 1 - Group(j, len)), I16(r[j] - r[j - len]))]

poly_reduce(r) == [j \in Coeff |-> barrett_reduce(r[j])]
poly_add(a, b) == [j \in Coeff |-> I16(a[j] + b[j])]
poly_sub(a, b) == [j \in Coeff |-> I16(a[j] - b[j])]

(* basemul on each pair of coefficients, modulo X^2 - zeta and X^2 + zeta. *)
poly_basemul_montgomery(a, b) ==
  [j \in Coeff |->
     LET z == zeta(64 + j \div 4)
     IN  IF j % 2 = 0
           THEN I16(fqmul(fqmul(a[j + 1], b[j + 1]), IF j % 4 = 0 THEN z ELSE -z)
                    + fqmul(a[j], b[j]))
           ELSE I16(fqmul(a[j - 1], b[j]) + fqmul(a[j], b[j - 1]))]

poly_tomsg(a) == [j \in Coeff |-> tomsg_bit(a[j])]

(* Decompression of the coefficients to d bits.                            *)
Decompressed(p, d) == [j \in Coeff |-> decompress(p[j] \div 2 ^ (11 - d), d)]
Du == IF KYBER_K = 4 THEN 11 ELSE 10
Dv == IF KYBER_K = 4 THEN 5 ELSE 4

----------------------------------------------------------------------------
(* Definitions of the results, to compare with.                            *)

(* f[0] + ... + f[127], and to f[255], by fours.                           *)
Fours(f, n) == [k \in 0 .. n - 1 |-> f[4 * k] + f[4 * k + 1] + f[4 * k + 2] + f[4 * k + 3]]
Sum128(f) == LET g == Fours(Fours(Fours(f, 32), 8), 2) IN g[0] + g[1]
Sum256(f) == Fours(Fours(Fours(Fours(f, 64), 16), 4), 1)[0]

bit(e, k) == (e \div 2 ^ k) % 2
br7(j) == 64 * bit(j, 0) + 32 * bit(j, 1) + 16 * bit(j, 2) + 8 * bit(j, 3)
            + 4 * bit(j, 4) + 2 * bit(j, 5) + bit(j, 6)

(* Root[e] = 17^e, by squaring.                                            *)
Square(r, b) == ModQ(r * r * (IF b = 1 THEN 17 ELSE 1))
Root == [e \in 0 .. 255 |->
           LET high == Square(Square(Square(Square(1, bit(e, 7)), bit(e, 6)), bit(e, 5)), bit(e, 4))
           IN  Square(Square(Square(Square(high, bit(e, 3)), bit(e, 2)), bit(e, 1)), bit(e, 0))]

(* Coefficients 2j and 2j+1 are the residue modulo X^2 - 17^(2 br7(j)+1).  *)
Transform(f) ==
  [j \in Coeff |->
     LET z == 2 * br7(j \div 2) + 1
     IN  ModQ(Sum128([k \in 0 .. 127 |-> ModQ(f[2 * k + (j % 2)] * Root[(z * k) % 256])]))]

(* Coefficient n of f * g, where X^256 = -1.                               *)
Product(f, g, n) ==
  Sum256([k \in Coeff |-> IF k <= n THEN f[k] * g[n - k] ELSE -(f[k] * g[256 + n - k])])

----------------------------------------------------------------------------
VARIABLES
  hw,           \* TRUE: poly_ntt of kyber/ref, on the accelerator;
                \* FALSE: that of kyber_sw/ref, which calls ntt
  pc, len, i,
  b, skpv, v,   \* the unpacked ciphertext and secret key
  mp,           \* the product, then the noisy message
  msg,
  s, b0         \* ghost: the secret, and the vector b as it came

given == <<hw, skpv, v, s, b0>>      \* never assigned
vars == <<given, pc, len, i, b, mp, msg>>

(* unpack_ciphertext and unpack_sk: the key that pack_sk stored holds the  *)
(* least residues of the transformed secret.                               *)
Init ==
  /\ pc = "ntt" /\ len = 128 /\ i = 1
  /\ hw \in BOOLEAN /\ s \in Secrets
  /\ skpv = [k \in Vec |-> Transform(s[k])]
  /\ \E c \in Ciphertexts : /\ b = [k \in Vec |-> Decompressed(c.b[k], Du)]
                            /\ v = Decompressed(c.v, Dv)
  /\ mp = [j \in Coeff |-> 0] /\ msg = <<>>
  /\ b0 = b

Pass(l) ==
  /\ pc = "ntt" /\ ~hw /\ len = l
  /\ b' = [k \in Vec |-> ntt_pass(b[k], l)]
  /\ len' = l \div 2
  /\ UNCHANGED <<given, pc, i, mp, msg>>

(* The accelerator answers with least residues of the transform, as        *)
(* README.md says (NttCore has what the core of this tree computes).       *)
ntt_kyber_hw_drive ==
  /\ pc = "ntt" /\ hw /\ len = 128
  /\ b' = [k \in Vec |-> LET out == Transform([j \in Coeff |-> Pack(b[k][j])])
                          IN  [j \in Coeff |-> Unpack(out[j])]]
  /\ len' = 1
  /\ UNCHANGED <<given, pc, i, mp, msg>>

(* The end of poly_ntt.                                                    *)
Reduced ==
  /\ pc = "ntt" /\ len = 1
  /\ b' = [k \in Vec |-> poly_reduce(b[k])]
  /\ pc' = "acc"
  /\ UNCHANGED <<given, len, i, mp, msg>>

(* polyvec_basemul_acc_montgomery: the first product, then the others.     *)
Accumulate ==
  /\ pc = "acc" /\ i <= KYBER_K
  /\ LET t == poly_basemul_montgomery(skpv[i], b[i])
     IN  mp' = IF i = 1 THEN t ELSE poly_add(mp, t)
  /\ i' = i + 1
  /\ UNCHANGED <<given, pc, len, b, msg>>

AccReduced ==
  /\ pc = "acc" /\ i = KYBER_K + 1
  /\ mp' = poly_reduce(mp)
  /\ pc' = "inv" /\ len' = 2
  /\ UNCHANGED <<given, i, b, msg>>

InvPass(l) ==
  /\ pc = "inv" /\ len = l
  /\ mp' = invntt_pass(mp, l)
  /\ len' = 2 * l
  /\ UNCHANGED <<given, pc, i, b, msg>>

(* The last loop of invntt, f = 1441 = mont^2 / 128.                       *)
Scale ==
  /\ pc = "inv" /\ len = 256
  /\ mp' = [j \in Coeff |-> fqmul(mp[j], 1441)]
  /\ pc' = "sub"
  /\ UNCHANGED <<given, len, i, b, msg>>

(* poly_sub, poly_reduce and poly_tomsg.                                   *)
Decode ==
  /\ pc = "sub"
  /\ mp' = poly_reduce(poly_sub(v, mp))
  /\ msg' = poly_tomsg(mp')
  /\ pc' = "done"
  /\ UNCHANGED <<given, len, i, b>>

Lens == {128, 64, 32, 16, 8, 4, 2}
Next ==
  \/ \E l \in Lens : Pass(l) \/ InvPass(l)
  \/ ntt_kyber_hw_drive \/ Reduced \/ Accumulate \/ AccReduced \/ Scale \/ Decode

Spec == Init /\ [][Next]_vars

----------------------------------------------------------------------------
Within(p, bound) == \A j \in Coeff : -bound <= p[j] /\ p[j] <= bound

(* How many passes of ntt are behind a distance.                           *)
Passes == [l \in Lens \union {1} |->
             CASE l = 128 -> 0 [] l = 64 -> 1 [] l = 32 -> 2 [] l = 16 -> 3
               [] l = 8 -> 4 [] l = 4 -> 5 [] l = 2 -> 6 [] l = 1 -> 7]

Poly == [Coeff -> Int16]
TypeOK ==
  /\ hw \in BOOLEAN /\ pc \in {"ntt", "acc", "inv", "sub", "done"}
  /\ i \in 1 .. KYBER_K + 1
  /\ len \in Lens \union (IF pc \in {"ntt", "acc"} THEN {1} ELSE {256})
  /\ b \in [Vec -> Poly] /\ skpv \in [Vec -> Poly] /\ v \in Poly /\ mp \in Poly
  /\ msg \in {<<>>} \union [Coeff -> {0, 1}]

(* The lazy reductions are enough.  Each pass of ntt lets a coefficient    *)
(* grow by less than q and the sum of the products stays below 2 K q, so   *)
(* no sum, difference or Montgomery product the code is about to store     *)
(* leaves the range of an int16_t.                                         *)
NeverWraps ==
  /\ TypeOK
  /\ pc = "ntt" => \A k \in Vec : Within(b[k], (Passes[len] + 1) * (KYBER_Q - 1))
  /\ pc = "acc" => \A k \in Vec : Within(b[k], (KYBER_Q - 1) \div 2)
  /\ pc = "acc" => Within(mp, 2 * (i - 1) * (KYBER_Q - 1))
  /\ pc \in {"inv", "sub"} => Within(mp, KYBER_Q - 1)

(* What comes out of the subtraction is v - s.b in the ring: the transform *)
(* by whichever route, the products and the inverse transform agree, and   *)
(* the Montgomery factors of basemul and invntt have cancelled.  A message *)
(* bit is set exactly when the coefficient is nearer to q/2 than to 0,     *)
(* which is what "decryption" means whatever the noise.                    *)
Noisy(n) == v[n] - MapThenSumSet(LAMBDA k : Product(s[k], b0[k], n), Vec)
Decrypts ==
  pc = "done" => \A n \in Coeff : /\ Cong(mp[n], Noisy(n))
                                  /\ (msg[n] = 1) <=> (ModQ(Noisy(n)) \in 833 .. 2496)
=============================================================================
