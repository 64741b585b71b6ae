---------------------------- MODULE KyberProofs ----------------------------
(***************************************************************************)
(* montgomery_reduce, barrett_reduce and poly_tomsg do what their comments *)
(* say, for every argument the comments admit; and decryption never leaves *)
(* the range of an int16_t, for every secret and every ciphertext.         *)
(***************************************************************************)
EXTENDS KyberDec, TLAPS

(* Membership in an interval, for the provers.                             *)
LEMMA Interval ==
  ASSUME NEW lo \in Int, NEW hi \in Int, NEW x \in lo .. hi
  PROVE  x \in Int /\ x >= lo /\ x <= hi
OBVIOUS

(* I16 changes a value by a multiple of 2^16, into the range of int16_t.   *)
LEMMA I16Range ==
  ASSUME NEW x \in Int
  PROVE  /\ I16(x) \in Int /\ I16(x) >= -32768 /\ I16(x) <= 32767
         /\ \E k \in Int : x = I16(x) + 65536 * k
<1>1. I16(x) \in Int /\ I16(x) >= -32768 /\ I16(x) <= 32767
  BY DEF I16
<1>2. (x + 32768) \div 65536 \in Int
  OBVIOUS
<1>3. x = I16(x) + 65536 * ((x + 32768) \div 65536)
  BY DEF I16
<1> QED
  BY <1>1, <1>2, <1>3

(* I16 leaves a value of int16_t alone.                                    *)
LEMMA I16Same ==
  ASSUME NEW x \in Int, x >= -32768, x <= 32767
  PROVE  I16(x) = x
BY DEF I16

(* I16 brings back a value that is a multiple of 2^16 away.                *)
LEMMA I16Wraps ==
  ASSUME NEW x \in Int, x >= -32768, x <= 32767, NEW k \in Int,
         NEW y \in Int, y = x + 65536 * k
  PROVE  I16(y) = x
BY DEF I16

(* The bounds of an int16_t.                                               *)
LEMMA Int16Range ==
  ASSUME NEW a \in Int
  PROVE  a \in Int16 <=> -32768 <= a /\ a <= 32767
<1> DEFINE least == -32768
           most == 32767
<1>1. least \in Int /\ most \in Int
  OBVIOUS
<1>2. Int16 = least .. most
  BY SMT DEF Int16
<1> HIDE DEF least, most
<1>3. a \in least .. most <=> least <= a /\ a <= most
  BY <1>1
<1>4. a \in Int16 <=> least <= a /\ a <= most
  BY <1>2, <1>3
<1>. QED BY <1>4 DEF least, most

(* An int16_t is an integer.                                               *)
LEMMA Int16Int == \A a \in Int16 : a \in Int
<1> DEFINE least == -32768
           most == 32767
<1>1. least \in Int /\ most \in Int
  OBVIOUS
<1>2. Int16 = least .. most
  BY SMT DEF Int16
<1> HIDE DEF least, most
<1>. QED BY <1>1, <1>2, Interval

(* barrett_reduce: centred and congruent, for every int16_t.  The product  *)
(* t * q may leave int16_t (t = 10 for a > 31625); the subtraction wraps   *)
(* back, which is why the result is right all the same.                    *)
THEOREM BarrettCorrect == \A a \in Int16 : BarrettAt(a)
<1> SUFFICES ASSUME NEW a \in Int16 PROVE BarrettAt(a)
  OBVIOUS
<1>1. a \in Int /\ a >= -32768 /\ a <= 32767
  BY Int16Range, Int16Int
<1> DEFINE t == (20159 * a + 33554432) \div 67108864
           y == I16(t * 3329)
<1>2. V = 20159
  BY DEF V, KYBER_Q
<1>3. t \in Int /\ t >= -10 /\ t <= 10
  BY <1>1
<1>4. a - t * 3329 >= -1664 /\ a - t * 3329 <= 1664
  BY <1>1
<1>5. barrett_reduce(a) = I16(a - I16(I16(t) * 3329))
  BY <1>2 DEF barrett_reduce, KYBER_Q
<1> HIDE DEF t
<1>6. I16(t) = t
  BY <1>3, I16Same
<1>7. PICK k \in Int : t * 3329 = y + 65536 * k
  <2>1. t * 3329 \in Int
    BY <1>3
  <2> QED
    BY <2>1, I16Range
<1>8. y \in Int
  BY <1>3, I16Range
<1> HIDE DEF y
<1>9. a - y = (a - t * 3329) + 65536 * k
  BY <1>1, <1>3, <1>7, <1>8
<1>10. I16(a - y) = a - t * 3329
  <2>1. a - t * 3329 \in Int /\ a - y \in Int
    BY <1>1, <1>3, <1>8
  <2> QED
    BY <2>1, <1>4, <1>9, I16Wraps
<1>11. barrett_reduce(a) = a - t * 3329
  BY <1>5, <1>6, <1>10 DEF y
<1>12. (barrett_reduce(a) - a) % 3329 = 0
  BY <1>1, <1>3, <1>11
<1>13. (3329 - 1) \div 2 = 1664
  OBVIOUS
<1> QED
  BY <1>1, <1>3, <1>4, <1>11, <1>12, <1>13 DEF BarrettAt, Cong, KYBER_Q

----------------------------------------------------------------------------
(* montgomery_reduce: q * QINV is 1 modulo 2^16, so a - t * q is a         *)
(* multiple of 2^16 and the shift loses nothing.                           *)
THEOREM MontgomeryCorrect ==
  ASSUME NEW a \in Int, a >= -(KYBER_Q * 32768), a < KYBER_Q * 32768
  PROVE  MontgomeryAt(a)
<1> DEFINE a16 == I16(a)
           t == I16(a16 * QINV)
<1>1. /\ a16 \in Int /\ a16 >= -32768 /\ a16 <= 32767
      /\ \E k \in Int : a = a16 + 65536 * k
  BY I16Range
<1>2. a16 * QINV \in Int /\ a16 * QINV = -3327 * a16
  BY <1>1 DEF QINV
<1>3. /\ t \in Int /\ t >= -32768 /\ t <= 32767
      /\ \E k \in Int : a16 * QINV = t + 65536 * k
  BY <1>2, I16Range
<1>4. montgomery_reduce(a) = I16((a - t * 3329) \div 65536)
  BY DEF montgomery_reduce, KYBER_Q
<1> HIDE DEF t, a16
<1>5. PICK k1 \in Int : a = a16 + 65536 * k1
  BY <1>1
<1>6. PICK k2 \in Int : -3327 * a16 = t + 65536 * k2
  BY <1>2, <1>3
<1> DEFINE m == 169 * a16 + k1 + 3329 * k2
<1>7. m \in Int
  BY <1>1
<1>8. a - t * 3329 = 65536 * m
  BY <1>1, <1>3, <1>5, <1>6
<1>9. a >= -(3329 * 32768) /\ a < 3329 * 32768
  BY DEF KYBER_Q
<1> HIDE DEF m
<1>10. m >= -3328 /\ m <= 3328
  BY <1>3, <1>7, <1>8, <1>9
<1>11. (a - t * 3329) \div 65536 = m
  BY <1>7, <1>8
<1>12. montgomery_reduce(a) = m
  BY <1>4, <1>7, <1>10, <1>11, I16Same
<1>13. (m * 65536 - a) % 3329 = 0
  BY <1>3, <1>7, <1>8
<1>14. m \in -3329 + 1 .. 3329 - 1
  BY <1>7, <1>10
<1> QED
  BY <1>12, <1>13, <1>14 DEF MontgomeryAt, Cong, KYBER_Q

(* poly_tomsg: the multiplication and shift round to the nearer of 0 and   *)
(* q/2, for every coefficient that poly_reduce leaves.                     *)
THEOREM MessageRounds == \A a \in Int16 : TomsgAt(a)
<1> SUFFICES ASSUME NEW a \in Int16, a >= -1664, a <= 1664
             PROVE  (tomsg_bit(a) = 1) <=> (a < -832 \/ 832 < a)
  BY Int16Range, Int16Int, Interval DEF TomsgAt, KYBER_Q
<1>1. a \in Int
  BY Int16Int
<1> DEFINE d == ((2 * a + 1665) * 80635) \div 268435456
<1>2. CASE a < -832
  <2>1. d = -1
    BY <1>1, <1>2
  <2> QED
    BY <1>1, <1>2, <2>1 DEF tomsg_bit
<1>3. CASE a >= -832 /\ a <= 832
  <2>1. d = 0
    BY <1>1, <1>3
  <2> QED
    BY <1>1, <1>3, <2>1 DEF tomsg_bit
<1>4. CASE a > 832
  <2>1. d = 1
    BY <1>1, <1>4
  <2> QED
    BY <1>1, <1>4, <2>1 DEF tomsg_bit
<1> QED
  BY <1>1, <1>2, <1>3, <1>4

----------------------------------------------------------------------------
(* The passes of the transform.                                            *)

(* The table holds centred residues.                                       *)
LEMMA ZetaRange == \A k \in 0 .. 127 : zeta(k) \in Int /\ -1659 <= zeta(k) /\ zeta(k) <= 1659
<1>1. \A k \in 1 .. 128 : zetas[k] \in Int /\ -1659 <= zetas[k] /\ zetas[k] <= 1659
  BY DEF zetas
<1>2. ASSUME NEW k \in 0 .. 127
      PROVE  zeta(k) \in Int /\ -1659 <= zeta(k) /\ zeta(k) <= 1659
  <2>1. k + 1 \in 1 .. 128
    OBVIOUS
  <2>. QED BY <1>1, <2>1 DEF zeta
<1>. QED BY <1>2

(* Membership in an interval around zero.                                  *)
LEMMA Centred ==
  /\ \A z \in -3328 .. 3328 : z \in Int /\ -3328 <= z /\ z <= 3328
  /\ \A z \in -1664 .. 1664 : z \in Int /\ -1664 <= z /\ z <= 1664
OBVIOUS

(* fqmul, for the products the code forms.                                 *)
LEMMA FqmulRange ==
  ASSUME NEW x \in Int, NEW y \in Int, x * y >= -(3329 * 32768), x * y < 3329 * 32768
  PROVE  fqmul(x, y) \in Int /\ -3328 <= fqmul(x, y) /\ fqmul(x, y) <= 3328
<1>1. x * y \in Int
  OBVIOUS
<1>2. MontgomeryAt(x * y)
  BY <1>1, MontgomeryCorrect DEF KYBER_Q
<1> DEFINE m     == fqmul(x, y)
           least == -KYBER_Q + 1
           most  == KYBER_Q - 1
<1>3. m \in least .. most
  BY <1>2 DEF fqmul, MontgomeryAt
<1>4. least \in Int /\ most \in Int /\ least = -3328 /\ most = 3328
  BY DEF KYBER_Q
<1> HIDE DEF m, least, most
<1>5. m \in Int /\ -3328 <= m /\ m <= 3328
  BY <1>3, <1>4, Interval
<1>. QED BY <1>5 DEF m

(* A residue, and an integer that may be multiplied by one.                *)
Residue(x) == x \in Int /\ -3328 <= x /\ x <= 3328
Fits(y) == y \in Int /\ -32767 <= y /\ y <= 32767

(* A residue times an int16_t.                                             *)
LEMMA FqmulSmall == \A x, y : Residue(x) /\ Fits(y) => Residue(fqmul(x, y))
<1> SUFFICES ASSUME NEW x \in Int, -3328 <= x, x <= 3328,
                    NEW y \in Int, -32767 <= y, y <= 32767
             PROVE  fqmul(x, y) \in Int /\ -3328 <= fqmul(x, y) /\ fqmul(x, y) <= 3328
  BY DEF Residue, Fits
<1>1. x * y <= 3328 * 32767 /\ x * y >= -(3328 * 32767)
  OBVIOUS
<1>. QED BY <1>1, FqmulRange

(* barrett_reduce, as a bound.                                             *)
LEMMA BarrettRange ==
  ASSUME NEW x \in Int, -32768 <= x, x <= 32767
  PROVE  barrett_reduce(x) \in Int /\ -1664 <= barrett_reduce(x) /\ barrett_reduce(x) <= 1664
<1>1. x \in Int16
  BY Int16Range
<1>2. barrett_reduce(x) \in -((KYBER_Q - 1) \div 2) .. (KYBER_Q - 1) \div 2
  BY <1>1, BarrettCorrect DEF BarrettAt
<1>3. (KYBER_Q - 1) \div 2 = 1664
  BY DEF KYBER_Q
<1>. QED BY <1>2, <1>3, Centred

----------------------------------------------------------------------------
(* Polynomials whose coefficients are integers within a bound.             *)
Bounded(p, bound) == /\ p = [j \in Coeff |-> p[j]]
                     /\ \A j \in Coeff : p[j] \in Int /\ -bound <= p[j] /\ p[j] <= bound

(* Within the range of int16_t that is type and bound.                     *)
LEMMA BoundedIsPoly ==
  ASSUME NEW p, NEW bound \in Int, bound <= 32767
  PROVE  Bounded(p, bound) <=> p \in Poly /\ Within(p, bound)
<1>1. ASSUME Bounded(p, bound)  PROVE p \in Poly /\ Within(p, bound)
  <2>1. \A j \in Coeff : p[j] \in Int16
    BY <1>1, Int16Range DEF Bounded
  <2>. QED BY <1>1, <2>1 DEF Bounded, Poly, Within
<1>2. ASSUME p \in Poly, Within(p, bound)  PROVE Bounded(p, bound)
  <2>0. \A j \in Coeff : p[j] \in Int16
    BY <1>2 DEF Poly
  <2>1. \A j \in Coeff : p[j] \in Int
    BY <2>0, Int16Int
  <2>2. p = [j \in Coeff |-> p[j]]
    BY <1>2 DEF Poly
  <2>. QED BY <1>2, <2>1, <2>2 DEF Bounded, Within
<1>. QED BY <1>1, <1>2

(* A larger bound.                                                         *)
LEMMA Widen ==
  ASSUME NEW p, NEW x \in Int, NEW y \in Int, x <= y, Bounded(p, x)
  PROVE  Bounded(p, y)
BY DEF Bounded

(* The pair of a coefficient in a pass, and its group, are there.          *)
LEMMA PairOf ==
  ASSUME NEW j \in Coeff, NEW l \in Lens
  PROVE  /\ Upper(j, l) => j + l \in Coeff
         /\ ~Upper(j, l) => j - l \in Coeff
         /\ 128 \div l + Group(j, l) \in 0 .. 127
         /\ 256 \div l - 1 - Group(j, l) \in 0 .. 127
<1>1. CASE l = 128
  BY <1>1 DEF Coeff, Upper, Group
<1>2. CASE l = 64
  BY <1>2 DEF Coeff, Upper, Group
<1>3. CASE l = 32
  BY <1>3 DEF Coeff, Upper, Group
<1>4. CASE l = 16
  BY <1>4 DEF Coeff, Upper, Group
<1>5. CASE l = 8
  BY <1>5 DEF Coeff, Upper, Group
<1>6. CASE l = 4
  BY <1>6 DEF Coeff, Upper, Group
<1>7. CASE l = 2
  BY <1>7 DEF Coeff, Upper, Group
<1>. QED BY <1>1, <1>2, <1>3, <1>4, <1>5, <1>6, <1>7 DEF Lens

(* A pass of ntt adds less than q to the bound, and no sum wraps.          *)
LEMMA PassBound ==
  ASSUME NEW r, NEW l \in Lens, NEW bound \in Nat, bound + 3328 <= 32767, Bounded(r, bound)
  PROVE  Bounded(ntt_pass(r, l), bound + 3328)
<1>1. ASSUME NEW j \in Coeff
      PROVE  LET x == ntt_pass(r, l)[j]
             IN  x \in Int /\ -(bound + 3328) <= x /\ x <= bound + 3328
  <2> DEFINE t(z) == fqmul(zeta(128 \div l + Group(z, l)), r[z])
  <2>1. ASSUME NEW z \in Coeff
        PROVE  t(z) \in Int /\ -3328 <= t(z) /\ t(z) <= 3328
    <3> DEFINE k == 128 \div l + Group(z, l)
    <3>1. k \in 0 .. 127
      BY PairOf
    <3> HIDE DEF k
    <3>2. Residue(zeta(k))
      BY <3>1, ZetaRange DEF Residue
    <3>3. Fits(r[z])
      BY DEF Bounded, Fits
    <3>4. Residue(fqmul(zeta(k), r[z]))
      BY <3>2, <3>3, FqmulSmall
    <3>. QED BY <3>4 DEF k, Residue
  <2> HIDE DEF t
  <2>2. CASE Upper(j, l)
    <3>1. j + l \in Coeff
      BY <2>2, PairOf
    <3>2. ntt_pass(r, l)[j] = I16(r[j] + t(j + l))
      BY <2>2 DEF ntt_pass, t
    <3>3. r[j] \in Int /\ -bound <= r[j] /\ r[j] <= bound
      BY DEF Bounded
    <3>4. I16(r[j] + t(j + l)) = r[j] + t(j + l)
      BY <2>1, <3>1, <3>3, I16Same
    <3>. QED BY <2>1, <3>1, <3>2, <3>3, <3>4
  <2>3. CASE ~Upper(j, l)
    <3>1. j - l \in Coeff
      BY <2>3, PairOf
    <3>2. ntt_pass(r, l)[j] = I16(r[j - l] - t(j))
      BY <2>3 DEF ntt_pass, t
    <3>3. r[j - l] \in Int /\ -bound <= r[j - l] /\ r[j - l] <= bound
      BY <3>1 DEF Bounded
    <3>4. I16(r[j - l] - t(j)) = r[j - l] - t(j)
      BY <2>1, <3>3, I16Same
    <3>. QED BY <2>1, <3>2, <3>3, <3>4
  <2>. QED BY <2>2, <2>3
<1>2. ntt_pass(r, l) = [j \in Coeff |-> ntt_pass(r, l)[j]]
  BY DEF ntt_pass
<1>. QED BY <1>1, <1>2 DEF Bounded

(* A pass of invntt keeps the bound: the sums are reduced, and the         *)
(* differences multiplied.                                                 *)
LEMMA InvPassBound ==
  ASSUME NEW r, NEW l \in Lens, Bounded(r, 3328)
  PROVE  Bounded(invntt_pass(r, l), 3328)
<1>0. \A j \in Coeff : r[j] \in Int /\ -3328 <= r[j] /\ r[j] <= 3328
  BY DEF Bounded
<1>1. ASSUME NEW j \in Coeff
      PROVE  LET x == invntt_pass(r, l)[j] IN x \in Int /\ -3328 <= x /\ x <= 3328
  <2>1. CASE Upper(j, l)
    <3> DEFINE sum == r[j] + r[j + l]
    <3>1. sum \in Int /\ -6656 <= sum /\ sum <= 6656
      BY <1>0, <2>1, PairOf
    <3>2. invntt_pass(r, l)[j] = barrett_reduce(I16(sum))
      BY <2>1 DEF invntt_pass
    <3> HIDE DEF sum
    <3>3. I16(sum) = sum
      BY <3>1, I16Same
    <3>4. LET x == barrett_reduce(sum) IN x \in Int /\ -1664 <= x /\ x <= 1664
      BY <3>1, BarrettRange
    <3>. QED BY <3>2, <3>3, <3>4
  <2>2. CASE ~Upper(j, l)
    <3> DEFINE k == 256 \div l - 1 - Group(j, l)
               diff == r[j] - r[j - l]
    <3>1. diff \in Int /\ -6656 <= diff /\ diff <= 6656
      BY <1>0, <2>2, PairOf
    <3>2. k \in 0 .. 127
      BY PairOf
    <3>3. invntt_pass(r, l)[j] = fqmul(zeta(k), I16(diff))
      BY <2>2 DEF invntt_pass
    <3> HIDE DEF k, diff
    <3>4. Residue(zeta(k)) /\ Fits(diff)
      BY <3>1, <3>2, ZetaRange DEF Residue, Fits
    <3>5. I16(diff) = diff
      BY <3>1, I16Same
    <3>6. Residue(fqmul(zeta(k), diff))
      BY <3>4, FqmulSmall
    <3>. QED BY <3>3, <3>5, <3>6 DEF Residue
  <2>. QED BY <2>1, <2>2
<1>2. invntt_pass(r, l) = [j \in Coeff |-> invntt_pass(r, l)[j]]
  BY DEF invntt_pass
<1>. QED BY <1>1, <1>2 DEF Bounded

(* poly_reduce.                                                            *)
LEMMA ReduceBound ==
  ASSUME NEW r, Bounded(r, 32767)
  PROVE  Bounded(poly_reduce(r), 1664)
<1>1. \A j \in Coeff : LET x == barrett_reduce(r[j]) IN x \in Int /\ -1664 <= x /\ x <= 1664
  BY BarrettRange DEF Bounded
<1>. QED BY <1>1 DEF Bounded, poly_reduce

(* poly_add and poly_sub, where the sum of the bounds fits.                *)
LEMMA AddBound ==
  ASSUME NEW p, NEW q, NEW x \in Nat, NEW y \in Nat, x + y <= 32767,
         Bounded(p, x), Bounded(q, y)
  PROVE  Bounded(poly_add(p, q), x + y) /\ Bounded(poly_sub(p, q), x + y)
<1>1. ASSUME NEW j \in Coeff
      PROVE  /\ I16(p[j] + q[j]) = p[j] + q[j] /\ I16(p[j] - q[j]) = p[j] - q[j]
             /\ p[j] + q[j] \in Int /\ p[j] - q[j] \in Int
             /\ -(x + y) <= p[j] + q[j] /\ p[j] + q[j] <= x + y
             /\ -(x + y) <= p[j] - q[j] /\ p[j] - q[j] <= x + y
  <2>1. /\ p[j] \in Int /\ -x <= p[j] /\ p[j] <= x
        /\ q[j] \in Int /\ -y <= q[j] /\ q[j] <= y
    BY DEF Bounded
  <2>. QED BY <2>1, I16Same
<1>2. Bounded(poly_add(p, q), x + y)
  BY <1>1 DEF Bounded, poly_add
<1>3. Bounded(poly_sub(p, q), x + y)
  BY <1>1 DEF Bounded, poly_sub
<1>. QED BY <1>2, <1>3

(* A Montgomery product of coefficients.                                   *)
LEMMA Times ==
  ASSUME NEW p, NEW q, Bounded(p, 3328), Bounded(q, 3328)
  PROVE  \A j, k \in Coeff : Residue(fqmul(p[j], q[k]))
<1>1. \A j \in Coeff : Residue(p[j])
  BY DEF Bounded, Residue
<1>2. \A k \in Coeff : Fits(q[k])
  BY DEF Bounded, Fits
<1>. QED BY <1>1, <1>2, FqmulSmall

(* A product modulo X^2 -+ zeta is below 2 q.                              *)
LEMMA BasemulBound ==
  ASSUME NEW p, NEW q, Bounded(p, 3328), Bounded(q, 3328)
  PROVE  Bounded(poly_basemul_montgomery(p, q), 6656)
<1> DEFINE prod == poly_basemul_montgomery(p, q)
<1>1. ASSUME NEW x, NEW y, Residue(x), Residue(y)
      PROVE  I16(x + y) \in Int /\ -6656 <= I16(x + y) /\ I16(x + y) <= 6656
  <2>1. x + y \in Int /\ -6656 <= x + y /\ x + y <= 6656
    BY <1>1 DEF Residue
  <2>2. -32768 <= x + y /\ x + y <= 32767
    BY <2>1
  <2>3. I16(x + y) = x + y
    BY <2>1, <2>2, I16Same
  <2>. QED BY <2>1, <2>3
<1>2. ASSUME NEW j \in Coeff
      PROVE  prod[j] \in Int /\ -6656 <= prod[j] /\ prod[j] <= 6656
  <2>1. CASE j % 2 = 0
    <3> DEFINE z == zeta(64 + j \div 4)
               f == fqmul(p[j + 1], q[j + 1])
               g == IF j % 4 = 0 THEN z ELSE -z
    <3>1. j + 1 \in Coeff /\ 64 + j \div 4 \in 0 .. 127
      BY <2>1 DEF Coeff
    <3>2. Fits(g)
      BY <3>1, ZetaRange DEF Fits
    <3>3. Residue(f)
      BY <3>1, Times
    <3>4. prod[j] = I16(fqmul(f, g) + fqmul(p[j], q[j]))
      BY <2>1 DEF poly_basemul_montgomery
    <3> HIDE DEF f, g, prod
    <3>5. Residue(fqmul(f, g))
      BY <3>2, <3>3, FqmulSmall
    <3>6. Residue(fqmul(p[j], q[j]))
      BY Times
    <3>. QED BY <3>4, <3>5, <3>6, <1>1
  <2>2. CASE j % 2 # 0
    <3>1. j - 1 \in Coeff
      BY <2>2 DEF Coeff
    <3>2. prod[j] = I16(fqmul(p[j - 1], q[j]) + fqmul(p[j], q[j - 1]))
      BY <2>2 DEF poly_basemul_montgomery
    <3>3. Residue(fqmul(p[j - 1], q[j]))
      BY <3>1, Times
    <3>4. Residue(fqmul(p[j], q[j - 1]))
      BY <3>1, Times
    <3> HIDE DEF prod
    <3>. QED BY <3>2, <3>3, <3>4, <1>1
  <2>. QED BY <2>1, <2>2
<1>3. prod = [j \in Coeff |-> prod[j]]
  BY DEF poly_basemul_montgomery
<1>. QED BY <1>2, <1>3 DEF Bounded

(* The last factor of invntt.                                              *)
LEMMA ScaleBound ==
  ASSUME NEW p, Bounded(p, 3328)
  PROVE  Bounded([j \in Coeff |-> fqmul(p[j], 1441)], 3328)
<1>1. \A j \in Coeff : Residue(p[j])
  BY DEF Bounded, Residue
<1>2. Fits(1441)
  BY DEF Fits
<1>3. \A j \in Coeff : Residue(fqmul(p[j], 1441))
  BY <1>1, <1>2, FqmulSmall
<1>. QED BY <1>3 DEF Bounded, Residue

----------------------------------------------------------------------------
(* The transform is made of least residues, whatever it is of.             *)

(* Sums of integers.                                                       *)
LEMMA FoursInt ==
  ASSUME NEW n \in Nat, NEW f, \A k \in 0 .. 4 * n - 1 : f[k] \in Int
  PROVE  \A k \in 0 .. n - 1 : Fours(f, n)[k] \in Int
<1> TAKE k \in 0 .. n - 1
<1>1. /\ 4 * k \in 0 .. 4 * n - 1 /\ 4 * k + 1 \in 0 .. 4 * n - 1
      /\ 4 * k + 2 \in 0 .. 4 * n - 1 /\ 4 * k + 3 \in 0 .. 4 * n - 1
  OBVIOUS
<1>. QED BY <1>1 DEF Fours

(* Sums of 128 integers are integers: five levels of sums of four.        *)
LEMMA SumInt ==
  ASSUME NEW f, \A k \in 0 .. 127 : f[k] \in Int
  PROVE  Sum128(f) \in Int
<1> DEFINE a == Fours(f, 32)
           c == Fours(a, 8)
           e == Fours(c, 2)
<1>1. \A k \in 0 .. 4 * 8 - 1 : a[k] \in Int
  BY SMTT(30), FoursInt, 4 * 32 - 1 = 127, 4 * 8 - 1 = 32 - 1
<1> HIDE DEF a
<1>2. \A k \in 0 .. 4 * 2 - 1 : c[k] \in Int
  BY <1>1, FoursInt, 4 * 2 - 1 = 8 - 1
<1> HIDE DEF c
<1>3. \A k \in 0 .. 2 - 1 : e[k] \in Int
  BY <1>2, FoursInt
<1>. QED BY <1>3 DEF Sum128, a, c, e

(* Bits of an index.                                                       *)
LEMMA BitIs ==
  \A e \in Nat, k \in 0 .. 7 : bit(e, k) \in {0, 1}
<1> TAKE e \in Nat, k \in 0 .. 7
<1>1. CASE k \in {0, 1, 2, 3}
  BY <1>1 DEF bit
<1>2. CASE k \in {4, 5, 6, 7}
  BY <1>2 DEF bit
<1>. QED BY <1>1, <1>2

(* A least residue, of any integer.                                        *)
Least(x) == x \in Int /\ 0 <= x /\ x <= 3328

(* The value of ModQ is a least residue.                                  *)
LEMMA ModQLeast == \A x \in Int : Least(ModQ(x))
BY DEF ModQ, KYBER_Q, Least

(* A step of square-and-multiply gives an integer.                        *)
LEMMA SquareInt == \A x \in Int : \A c : Square(x, c) \in Int
<1> TAKE x \in Int
<1> TAKE c
<1>1. x * x * (IF c = 1 THEN 17 ELSE 1) \in Int
  OBVIOUS
<1>. QED BY <1>1, ModQLeast DEF Square, Least

(* The powers of the root of unity are integers.                          *)
LEMMA RootInt == \A e \in 0 .. 255 : Root[e] \in Int
BY SquareInt, 1 \in Int DEF Root

(* The reversal of bits gives a natural number.                           *)
LEMMA br7Nat == \A j \in Nat : br7(j) \in Nat
<1> TAKE j \in Nat
<1>1. \A k \in 0 .. 6 : bit(j, k) \in Nat
  BY BitIs
<1>. QED BY <1>1 DEF br7

(* A transform, which is what the accelerator answers, is a vector of       *)
(* least residues.                                                         *)
LEMMA TransformLeast ==
  ASSUME NEW f, \A j \in Coeff : f[j] \in Int
  PROVE  /\ Transform(f) = [j \in Coeff |-> Transform(f)[j]]
         /\ \A j \in Coeff : Least(Transform(f)[j])
<1>1. Transform(f) = [j \in Coeff |-> Transform(f)[j]]
  BY DEF Transform
<1>2. ASSUME NEW j \in Coeff  PROVE Least(Transform(f)[j])
  <2> DEFINE z == 2 * br7(j \div 2) + 1
             g == [k \in 0 .. 127 |-> ModQ(f[2 * k + (j % 2)] * Root[(z * k) % 256])]
  <2>1. z \in Nat
    <3>1. j \div 2 \in Nat
      BY DEF Coeff
    <3>. QED BY <3>1, br7Nat
  <2>2. Transform(f)[j] = ModQ(Sum128(g))
    BY DEF Transform
  <2> HIDE DEF z
  <2>3. ASSUME NEW k \in 0 .. 127  PROVE g[k] \in Int
    <3>1. 2 * k + (j % 2) \in Coeff
      BY DEF Coeff
    <3>2. z * k \in Nat
      BY <2>1
    <3>3. (z * k) % 256 \in 0 .. 255
      BY <3>2
    <3>4. f[2 * k + (j % 2)] \in Int /\ Root[(z * k) % 256] \in Int
      BY <3>1, <3>3, RootInt
    <3>5. f[2 * k + (j % 2)] * Root[(z * k) % 256] \in Int
      BY <3>4
    <3>. QED BY <3>5, ModQLeast DEF Least
  <2> HIDE DEF g
  <2>4. Sum128(g) \in Int
    BY <2>3, SumInt
  <2>. QED BY <2>2, <2>4, ModQLeast
<1>. QED BY <1>1, <1>2

(* What the accelerator answers, as coefficients.                          *)
LEMMA PackInt == \A x \in Int : Pack(x) \in Int
BY DEF Pack, KYBER_Q

(* A least residue stays one on its way back from the accelerator.        *)
(* A least residue stays one on its way back from the accelerator.         *)
LEMMA UnpackLeast == \A x : Least(x) => Least(Unpack(x))
BY DEF Least, Unpack, I16

(* Decompressed coefficients are least residues too.                       *)
LEMMA DecompressedLeast ==
  ASSUME NEW p \in [Coeff -> Fraction], NEW d \in {4, 5, 10, 11}
  PROVE  Bounded(Decompressed(p, d), 3328)
<1>1. ASSUME NEW j \in Coeff
      PROVE  LET x == Decompressed(p, d)[j] IN x \in Int /\ -3328 <= x /\ x <= 3328
  <2>1. p[j] \in 0 .. 2047
    BY DEF Fraction
  <2>2. Decompressed(p, d)[j] = decompress(p[j] \div 2 ^ (11 - d), d)
    BY DEF Decompressed
  <2>3. CASE d = 4
    BY SMTT(30), <2>1, <2>2, <2>3, 2 ^ 7 = 128, 2 ^ 3 = 8, 2 ^ 4 = 16 DEF decompress, KYBER_Q
  <2>4. CASE d = 5
    BY SMTT(30), <2>1, <2>2, <2>4, 2 ^ 6 = 64, 2 ^ 4 = 16, 2 ^ 5 = 32 DEF decompress, KYBER_Q
  <2>5. CASE d = 10
    <3>1. 2 ^ (11 - d) = 2 /\ 2 ^ (d - 1) = 512 /\ 2 ^ d = 1024
      BY <2>5, 2 ^ 1 = 2, 2 ^ 9 = 512, 2 ^ 10 = 1024
    <3>2. Decompressed(p, d)[j] = ((p[j] \div 2) * 3329 + 512) \div 1024
      BY <2>2, <3>1 DEF decompress, KYBER_Q
    <3>3. \A c \in 0 .. 1023 : LET x == (c * 3329 + 512) \div 1024 IN x \in Int /\ 0 <= x /\ x <= 3328
      OBVIOUS
    <3>4. p[j] \div 2 \in 0 .. 1023
      BY SMTT(30), <2>1
    <3>. QED BY SMTT(30), <3>2, <3>3, <3>4
  <2>6. CASE d = 11
    <3>1. 2 ^ (11 - d) = 1 /\ 2 ^ (d - 1) = 1024 /\ 2 ^ d = 2048
      BY <2>6, 2 ^ 0 = 1, 2 ^ 10 = 1024, 2 ^ 11 = 2048
    <3>2. PICK c \in 0 .. 2047 : p[j] = c
      BY <2>1
    <3>3. c \div 2 ^ (11 - d) = c
      BY <3>1
    <3>4. Decompressed(p, d)[j] = (c * 3329 + 1024) \div 2048
      BY <2>2, <3>1, <3>2, <3>3 DEF decompress, KYBER_Q
    <3>. QED BY <3>4
  <2>. QED BY <2>3, <2>4, <2>5, <2>6
<1>. QED BY <1>1 DEF Bounded, Decompressed

----------------------------------------------------------------------------
(* NeverWraps says how far the coefficients of b and of mp have grown; what *)
(* it does not say, and the steps need, is that the accumulation starts at *)
(* zero, that b stays reduced, and that the key and v are residues.        *)
Control ==
  /\ hw \in BOOLEAN /\ pc \in {"ntt", "acc", "inv", "sub", "done"}
  /\ i \in 1 .. KYBER_K + 1 /\ (pc = "ntt" => i = 1)
  /\ len \in Lens \union (IF pc \in {"ntt", "acc"} THEN {1} ELSE {256})
  /\ msg \in {<<>>} \union [Coeff -> {0, 1}]

SizeOfB == IF pc = "ntt" THEN (Passes[len] + 1) * 3328 ELSE 1664
SizeOfMp == CASE pc = "ntt" -> 0
              [] pc = "acc" -> 2 * (i - 1) * 3328
              [] OTHER -> 3328

Grown ==
  /\ b = [k \in Vec |-> b[k]] /\ \A k \in Vec : Bounded(b[k], SizeOfB)
  /\ Bounded(mp, SizeOfMp)
Inputs ==
  /\ skpv = [k \in Vec |-> skpv[k]] /\ \A k \in Vec : Bounded(skpv[k], 3328)
  /\ Bounded(v, 3328)

IInv == Control /\ Grown /\ Inputs

(* The passes of ntt are counted by their distance.                        *)
LEMMA PassCount ==
  /\ \A l \in Lens : Passes[l] \in 0 .. 6 /\ l \div 2 \in Lens \union {1}
                    /\ Passes[l \div 2] = Passes[l] + 1
  /\ Passes[1] = 7 /\ Passes[128] = 0
<1>1. ASSUME NEW l \in Lens
      PROVE  Passes[l] \in 0 .. 6 /\ l \div 2 \in Lens \union {1} /\ Passes[l \div 2] = Passes[l] + 1
  <2>1. CASE l = 128
    BY <2>1, 128 \div 2 = 64 DEF Passes, Lens
  <2>2. CASE l = 64
    BY <2>2, 64 \div 2 = 32 DEF Passes, Lens
  <2>3. CASE l = 32
    BY <2>3, 32 \div 2 = 16 DEF Passes, Lens
  <2>4. CASE l = 16
    BY <2>4, 16 \div 2 = 8 DEF Passes, Lens
  <2>5. CASE l = 8
    BY <2>5, 8 \div 2 = 4 DEF Passes, Lens
  <2>6. CASE l = 4
    BY <2>6, 4 \div 2 = 2 DEF Passes, Lens
  <2>7. CASE l = 2
    BY <2>7, 2 \div 2 = 1 DEF Passes, Lens
  <2>. QED BY <2>1, <2>2, <2>3, <2>4, <2>5, <2>6, <2>7 DEF Lens
<1>2. Passes[1] = 7 /\ Passes[128] = 0
  BY DEF Passes, Lens
<1>. QED BY <1>1, <1>2

(* The sizes are small enough for an int16_t.                              *)
LEMMA SizesFit ==
  ASSUME Control
  PROVE  /\ SizeOfB \in Nat /\ SizeOfB <= 32767
         /\ SizeOfMp \in Nat /\ SizeOfMp <= 32767
<1>1. SizeOfB \in Nat /\ SizeOfB <= 32767
  <2>1. CASE pc = "ntt"
    <3>1. Passes[len] \in 0 .. 7
      BY <2>1, PassCount DEF Control
    <3>. QED BY <2>1, <3>1 DEF SizeOfB
  <2>2. CASE pc # "ntt"
    BY <2>2 DEF SizeOfB
  <2>. QED BY <2>1, <2>2
<1>2. SizeOfMp \in Nat /\ SizeOfMp <= 32767
  <2>1. i \in 1 .. 5
    BY DecAssumption DEF Control
  <2>. QED BY <2>1 DEF SizeOfMp
<1>. QED BY <1>1, <1>2

(* The bounds of NeverWraps, in numbers.                                   *)
LEMMA QNumbers == KYBER_Q - 1 = 3328 /\ (KYBER_Q - 1) \div 2 = 1664
BY DEF KYBER_Q

(* The invariant says what NeverWraps says.                                *)
LEMMA InvImplies == IInv => NeverWraps
<1> SUFFICES ASSUME IInv  PROVE NeverWraps
  OBVIOUS
<1> USE DEF IInv
<1>1. \A k \in Vec : b[k] \in Poly /\ Within(b[k], SizeOfB)
  BY SizesFit, BoundedIsPoly DEF Grown
<1>2. mp \in Poly /\ Within(mp, SizeOfMp)
  BY SizesFit, BoundedIsPoly DEF Grown
<1>3. v \in Poly /\ \A k \in Vec : skpv[k] \in Poly
  BY BoundedIsPoly DEF Inputs
<1>4. TypeOK
  BY <1>1, <1>2, <1>3 DEF TypeOK, Control, Grown, Inputs
<1>5. pc = "ntt" => \A k \in Vec : Within(b[k], (Passes[len] + 1) * (KYBER_Q - 1))
  BY <1>1, QNumbers DEF SizeOfB
<1>6. pc = "acc" => \A k \in Vec : Within(b[k], (KYBER_Q - 1) \div 2)
  BY <1>1, QNumbers DEF SizeOfB
<1>7. pc = "acc" => Within(mp, 2 * (i - 1) * (KYBER_Q - 1))
  BY <1>2, QNumbers DEF SizeOfMp
<1>8. pc \in {"inv", "sub"} => Within(mp, KYBER_Q - 1)
  BY <1>2, QNumbers DEF SizeOfMp
<1>. QED BY <1>4, <1>5, <1>6, <1>7, <1>8 DEF NeverWraps

(* A fresh ciphertext and key.                                             *)
LEMMA InitOK == Init => IInv
<1> SUFFICES ASSUME Init  PROVE IInv
  OBVIOUS
<1>0. 3328 \in Int /\ 3328 <= 32767
  OBVIOUS
<1>1. Control
  BY SMTT(30), DecAssumption DEF Init, Control, Lens
<1>2. PICK c \in Ciphertexts : /\ b = [k \in Vec |-> Decompressed(c.b[k], Du)]
                              /\ v = Decompressed(c.v, Dv)
  BY DEF Init
<1>3. Du \in {4, 5, 10, 11} /\ Dv \in {4, 5, 10, 11}
  BY DEF Du, Dv
<1>4. c.v \in [Coeff -> Fraction] /\ \A k \in Vec : c.b[k] \in [Coeff -> Fraction]
  <2>1. c \in [b : [Vec -> [Coeff -> Fraction]], v : [Coeff -> Fraction]]
    BY DecAssumption
  <2>. QED BY <2>1
<1>5. Bounded(v, 3328) /\ \A k \in Vec : Bounded(b[k], 3328)
  BY <1>2, <1>3, <1>4, DecompressedLeast
<1>6. SizeOfB = 3328 /\ SizeOfMp = 0
  BY PassCount DEF Init, SizeOfB, SizeOfMp
<1>7. Bounded(mp, 0)
  BY DEF Init, Bounded
<1>8. ASSUME NEW k \in Vec  PROVE Bounded(skpv[k], 3328)
  <2>1. \A j \in Coeff : s[k][j] \in Int
    <3>1. s \in [Vec -> [Coeff -> -3 .. 3]]
      BY SMTT(30), DecAssumption DEF Init
    <3>2. \A j \in Coeff : s[k][j] \in -3 .. 3
      BY <3>1
    <3>. QED BY <3>2
  <2>2. skpv[k] = Transform(s[k])
    BY DEF Init
  <2>. QED BY <2>1, <2>2, TransformLeast DEF Bounded, Least
<1>9. skpv = [k \in Vec |-> skpv[k]]
  BY DEF Init
<1>10. b = [k \in Vec |-> b[k]]
  BY <1>2
<1>. QED BY <1>1, <1>5, <1>6, <1>7, <1>8, <1>9, <1>10 DEF IInv, Grown, Inputs

(* Every pass preserves it.                                                *)
LEMMA StepOK == IInv /\ [Next]_vars => IInv'
<1> SUFFICES ASSUME IInv, [Next]_vars  PROVE IInv'
  OBVIOUS
<1> USE DEF IInv
<1>k. KYBER_K \in {2, 3, 4}
  BY DecAssumption
<1>0. ASSUME UNCHANGED given  PROVE Inputs'
  BY <1>0 DEF given, Inputs
<1>1. ASSUME NEW l \in Lens, Pass(l)  PROVE IInv'
  <2>1. /\ pc = "ntt" /\ len = l /\ len' = l \div 2
        /\ b' = [k \in Vec |-> ntt_pass(b[k], l)]
        /\ UNCHANGED <<given, pc, i, mp, msg>>
    BY <1>1 DEF Pass
  <2>2. Control'
    BY <2>1, PassCount DEF Control, given
  <2>3. /\ SizeOfB \in Nat /\ SizeOfB + 3328 <= 32767 /\ SizeOfB' = SizeOfB + 3328
        /\ SizeOfMp' = SizeOfMp
    <3>1. Passes[l] \in 0 .. 6 /\ Passes[l \div 2] = Passes[l] + 1
      BY PassCount
    <3>. QED BY <2>1, <3>1 DEF SizeOfB, SizeOfMp
  <2>4. \A k \in Vec : Bounded(b'[k], SizeOfB')
    BY <2>1, <2>3, PassBound DEF Grown
  <2>. QED BY <2>1, <2>2, <2>3, <2>4, <1>0 DEF Grown
<1>2. ASSUME ntt_kyber_hw_drive  PROVE IInv'
  <2>1. /\ pc = "ntt" /\ len' = 1 /\ UNCHANGED <<given, pc, i, mp, msg>>
        /\ b' = [k \in Vec |-> LET out == Transform([j \in Coeff |-> Pack(b[k][j])])
                               IN  [j \in Coeff |-> Unpack(out[j])]]
    BY <1>2 DEF ntt_kyber_hw_drive
  <2>2. Control'
    BY <2>1 DEF Control, given
  <2>3. SizeOfB' = 26624 /\ SizeOfMp' = SizeOfMp
    BY <2>1, PassCount DEF SizeOfB, SizeOfMp
  <2>4. ASSUME NEW k \in Vec  PROVE Bounded(b'[k], 26624)
    <3> DEFINE words == [j \in Coeff |-> Pack(b[k][j])]
    <3>1. \A j \in Coeff : words[j] \in Int
      BY PackInt DEF Grown, Bounded
    <3> HIDE DEF words
    <3>2. \A j \in Coeff : Least(Unpack(Transform(words)[j]))
      BY <3>1, TransformLeast, UnpackLeast
    <3>3. b'[k] = [j \in Coeff |-> Unpack(Transform(words)[j])]
      BY <2>1 DEF words
    <3>. QED BY <3>2, <3>3 DEF Bounded, Least
  <2>. QED BY <2>1, <2>2, <2>3, <2>4, <1>0 DEF Grown
<1>3. ASSUME Reduced  PROVE IInv'
  <2>1. /\ pc = "ntt" /\ len = 1 /\ pc' = "acc" /\ UNCHANGED <<given, len, i, mp, msg>>
        /\ b' = [k \in Vec |-> poly_reduce(b[k])]
    BY <1>3 DEF Reduced
  <2>2. Control'
    BY <2>1 DEF Control, given
  <2>3. SizeOfB' = 1664 /\ SizeOfMp' = SizeOfMp
    BY <2>1 DEF SizeOfB, SizeOfMp, Control
  <2>4. \A k \in Vec : Bounded(b[k], 32767)
    BY SizesFit, Widen DEF Grown
  <2>5. \A k \in Vec : Bounded(b'[k], 1664)
    BY <2>1, <2>4, ReduceBound
  <2>. QED BY <2>1, <2>2, <2>3, <2>5, <1>0 DEF Grown
<1>4. ASSUME Accumulate  PROVE IInv'
  <2> DEFINE t == poly_basemul_montgomery(skpv[i], b[i])
  <2>1. /\ pc = "acc" /\ i <= KYBER_K /\ i' = i + 1
        /\ mp' = IF i = 1 THEN t ELSE poly_add(mp, t)
        /\ UNCHANGED <<given, pc, len, b, msg>>
    BY <1>4 DEF Accumulate
  <2>2. i \in Vec /\ i \in 1 .. 4
    BY <2>1, <1>k DEF Control, Vec
  <2>3. Control'
    BY <1>k, <2>1, <2>2 DEF Control, given
  <2>4. /\ SizeOfB = 1664 /\ SizeOfB' = 1664
        /\ SizeOfMp \in Nat /\ SizeOfMp + 6656 <= 32767 /\ SizeOfMp' = SizeOfMp + 6656
        /\ i = 1 => SizeOfMp = 0
    BY <2>1, <2>2 DEF SizeOfB, SizeOfMp
  <2>5. Bounded(t, 6656)
    <3>1. Bounded(skpv[i], 3328)
      BY <2>2 DEF Inputs
    <3>2. Bounded(b[i], 3328)
      BY <2>2, <2>4, Widen, 1664 <= 3328 DEF Grown
    <3>. QED BY <3>1, <3>2, BasemulBound
  <2> HIDE DEF t
  <2>6. Bounded(mp', SizeOfMp')
    <3>1. CASE i = 1
      BY <2>1, <2>4, <2>5, <3>1
    <3>2. CASE i # 1
      <4>1. Bounded(poly_add(mp, t), SizeOfMp + 6656)
        BY <2>4, <2>5, AddBound DEF Grown
      <4>. QED BY <2>1, <2>4, <3>2, <4>1
    <3>. QED BY <3>1, <3>2
  <2>. QED BY <2>1, <2>3, <2>4, <2>6, <1>0 DEF Grown
<1>5. ASSUME AccReduced  PROVE IInv'
  <2>1. /\ pc = "acc" /\ pc' = "inv" /\ len' = 2 /\ mp' = poly_reduce(mp)
        /\ UNCHANGED <<given, i, b, msg>>
    BY <1>5 DEF AccReduced
  <2>2. Control'
    BY <2>1 DEF Control, given, Lens
  <2>3. SizeOfB = 1664 /\ SizeOfB' = 1664 /\ SizeOfMp' = 3328
    BY <2>1 DEF SizeOfB, SizeOfMp
  <2>4. Bounded(mp, 32767)
    BY SizesFit, Widen DEF Grown
  <2>5. Bounded(mp', 1664)
    BY <2>1, <2>4, ReduceBound
  <2>6. Bounded(mp', 3328)
    BY <2>5, Widen, 1664 <= 3328
  <2>. QED BY <2>1, <2>2, <2>3, <2>6, <1>0 DEF Grown
<1>6. ASSUME NEW l \in Lens, InvPass(l)  PROVE IInv'
  <2>1. /\ pc = "inv" /\ len = l /\ len' = 2 * l /\ mp' = invntt_pass(mp, l)
        /\ UNCHANGED <<given, pc, i, b, msg>>
    BY <1>6 DEF InvPass
  <2>2. Control'
    BY <2>1 DEF Control, given, Lens
  <2>3. SizeOfB' = SizeOfB /\ SizeOfMp = 3328 /\ SizeOfMp' = 3328
    BY <2>1 DEF SizeOfB, SizeOfMp
  <2>4. Bounded(mp', 3328)
    BY <2>1, <2>3, InvPassBound DEF Grown
  <2>. QED BY <2>1, <2>2, <2>3, <2>4, <1>0 DEF Grown
<1>7. ASSUME Scale  PROVE IInv'
  <2>1. /\ pc = "inv" /\ len = 256 /\ pc' = "sub"
        /\ mp' = [j \in Coeff |-> fqmul(mp[j], 1441)]
        /\ UNCHANGED <<given, len, i, b, msg>>
    BY <1>7 DEF Scale
  <2>2. Control'
    BY <2>1 DEF Control, given
  <2>3. SizeOfB' = SizeOfB /\ SizeOfMp = 3328 /\ SizeOfMp' = 3328
    BY <2>1 DEF SizeOfB, SizeOfMp
  <2>4. Bounded(mp', 3328)
    BY <2>1, <2>3, ScaleBound DEF Grown
  <2>. QED BY <2>1, <2>2, <2>3, <2>4, <1>0 DEF Grown
<1>8. ASSUME Decode  PROVE IInv'
  <2>1. /\ pc = "sub" /\ pc' = "done" /\ mp' = poly_reduce(poly_sub(v, mp))
        /\ msg' = poly_tomsg(mp')
        /\ UNCHANGED <<given, len, i, b>>
    BY <1>8 DEF Decode
  <2>2. SizeOfB' = SizeOfB /\ SizeOfMp = 3328 /\ SizeOfMp' = 3328
    BY <2>1 DEF SizeOfB, SizeOfMp
  <2>3. Bounded(poly_sub(v, mp), 6656)
    <3>1. \A x, y \in Nat : x + y <= 32767 /\ Bounded(v, x) /\ Bounded(mp, y)
            => Bounded(poly_sub(v, mp), x + y)
      BY AddBound
    <3>2. 3328 \in Nat /\ 3328 + 3328 = 6656 /\ 6656 <= 32767
      OBVIOUS
    <3>3. Bounded(v, 3328) /\ Bounded(mp, 3328)
      BY <2>2 DEF Grown, Inputs
    <3>. QED BY <3>1, <3>2, <3>3
  <2>4. Bounded(poly_sub(v, mp), 32767)
    BY <2>3, Widen, 6656 <= 32767
  <2>5. Bounded(mp', 1664)
    BY <2>1, <2>4, ReduceBound
  <2>6. Bounded(mp', 3328)
    BY <2>5, Widen, 1664 <= 3328
  <2>7. msg' \in [Coeff -> {0, 1}]
    <3>1. \A j \in Coeff : tomsg_bit(mp'[j]) \in {0, 1}
      BY <2>5 DEF Bounded, tomsg_bit
    <3>. QED BY <2>1, <3>1 DEF poly_tomsg
  <2>8. Control'
    BY <2>1, <2>7 DEF Control, given
  <2>. QED BY <2>1, <2>2, <2>6, <2>8, <1>0 DEF Grown
<1>9. CASE UNCHANGED vars
  <2>1. Control' /\ Inputs'
    BY <1>9, <1>0 DEF vars, given, Control
  <2>2. SizeOfB' = SizeOfB /\ SizeOfMp' = SizeOfMp
    BY <1>9 DEF vars, SizeOfB, SizeOfMp
  <2>. QED BY <1>9, <2>1, <2>2 DEF vars, Grown
<1>. QED BY <1>1, <1>2, <1>3, <1>4, <1>5, <1>6, <1>7, <1>8, <1>9 DEF Next

(* The lazy reductions of decryption are enough for every secret and every *)
(* ciphertext: no coefficient the code stores leaves the range of an       *)
(* int16_t (ntt.c, poly.c, polyvec.c, indcpa_dec), on the accelerator's    *)
(* route as on the software's.                                             *)
THEOREM NoOverflow == Spec => []NeverWraps
<1>. QED BY InitOK, StepOK, InvImplies, PTL DEF Spec
=============================================================================
