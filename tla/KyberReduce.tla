---------------------------- MODULE KyberReduce ----------------------------
(***************************************************************************)
(* The modular arithmetic of the software side of Kyber:                   *)
(* benchmarks/kyber/ref/reduce.c, fqmul of ntt.c, and the conversions of   *)
(* ntt_kyber_hw.c between int16_t coefficients and accelerator words.      *)
(* Values of type int16_t are integers in Int16, and I16 is the conversion *)
(* to that type.  int32_t intermediates stay in range for the arguments    *)
(* the comments admit, so they need no conversion.                         *)
(***************************************************************************)
EXTENDS Integers

KYBER_Q == 3329
QINV == -3327

Int16 == -32768 .. 32767
I16(x) == ((x + 32768) % 65536) - 32768

(* The least non-negative residue, and congruence.                         *)
ModQ(x) == x % KYBER_Q
Cong(x, y) == (x - y) % KYBER_Q = 0

(* `>> 16' and `>> 26' of a negative int32_t round down, as \div does.     *)
montgomery_reduce(a) ==
  LET t == I16(I16(a) * QINV) IN I16((a - t * KYBER_Q) \div 65536)

V == (67108864 + KYBER_Q \div 2) \div KYBER_Q      \* ((1<<26) + q/2) / q
barrett_reduce(a) ==
  LET t == I16((V * a + 33554432) \div 67108864) IN I16(a - I16(t * KYBER_Q))

fqmul(a, b) == montgomery_reduce(a * b)

(* pack_data_in_burst writes positive residues as 32-bit words; the core   *)
(* keeps 14 bits.  unpack_data_out_burst masks 16 bits and casts.          *)
Pack(v) == (IF v < 0 THEN v + KYBER_Q ELSE v) % 16384
Unpack(word) == I16(word % 65536)

(* The bit of poly_tomsg.  The uint32_t product may wrap, which leaves bit *)
(* 28 as it is.                                                            *)
tomsg_bit(a) == (((2 * a + 1665) * 80635) \div 268435456) % 2

(* floor(x * c / 2^n) for n >= 16 and x < 2^24, by bytes of x: what the    *)
(* products of compression leave, which do not fit TLC's integers.  Those  *)
(* of d0 that wrap a uint32_t lose bits above the ones kept.               *)
Shifted(x, c, n) ==
  LET low == (x % 256) * c
      mid == ((x \div 256) % 256) * c + low \div 256
  IN  ((x \div 65536) * c + mid \div 256) \div 2 ^ (n - 16)

(* poly_compress and polyvec_compress of a coefficient to d bits: the      *)
(* rounding addend, the factor and the shift stand for + q/2 and / q.      *)
Division == [d \in {4, 5, 10, 11} |->
               CASE d = 4 -> [add |-> 1665, factor |-> 80635, shift |-> 28]
                 [] d = 5 -> [add |-> 1664, factor |-> 40318, shift |-> 27]
                 [] d = 10 -> [add |-> 1665, factor |-> 1290167, shift |-> 32]
                 [] d = 11 -> [add |-> 1664, factor |-> 645084, shift |-> 31]]
(* Mutant: the addend is q/2 for every size.                               *)
compress_half(v, d) ==
  Shifted((IF v < 0 THEN v + KYBER_Q ELSE v) * 2 ^ d + 1664, Division[d].factor, Division[d].shift)
    % 2 ^ d
compress(v, d) ==
  Shifted((IF v < 0 THEN v + KYBER_Q ELSE v) * 2 ^ d + Division[d].add, Division[d].factor, Division[d].shift)
    % 2 ^ d
decompress(c, d) == (c * KYBER_Q + 2 ^ (d - 1)) \div 2 ^ d

----------------------------------------------------------------------------
(* What the comments promise.                                              *)

(* "integer in {-q+1,...,q-1} congruent to a * R^-1 modulo q" for every a  *)
(* in {-q2^15,...,q2^15-1}.                                                *)
MontgomeryAt(a) ==
  /\ montgomery_reduce(a) \in -KYBER_Q + 1 .. KYBER_Q - 1
  /\ Cong(montgomery_reduce(a) * 65536, a)

(* "integer in {-(q-1)/2,...,(q-1)/2} congruent to a modulo q".            *)
BarrettAt(a) ==
  /\ barrett_reduce(a) \in -((KYBER_Q - 1) \div 2) .. (KYBER_Q - 1) \div 2
  /\ Cong(barrett_reduce(a), a)

(* The word written is the positive residue, for the coefficients above -q *)
(* that the callers pass, and comes back as a congruent coefficient.       *)
PackAt(v) ==
  v \in -KYBER_Q .. 16383 => /\ Pack(v) >= 0 /\ Cong(Pack(v), v)
                             /\ Cong(Unpack(Pack(v)), v)

(* The bit is 1 when a, reduced, is nearer to q/2 than to 0.               *)
TomsgAt(a) ==
  a \in -((KYBER_Q - 1) \div 2) .. (KYBER_Q - 1) \div 2
    => ((tomsg_bit(a) = 1) <=> (a < -832 \/ 832 < a))

(* "((((uint16_t)u << 4) + KYBER_Q/2)/KYBER_Q) & 15", the comment over the *)
(* multiplication, and its like; and "approximate inverse": the coefficient *)
(* comes back within q / 2^(d+1), rounded up, around the ring.             *)
CompressAt(v) ==
  -KYBER_Q < v /\ v < KYBER_Q =>
    \A d \in DOMAIN Division :
      /\ compress(v, d) = ((ModQ(v) * 2 ^ d + KYBER_Q \div 2) \div KYBER_Q) % 2 ^ d
      /\ LET e == ModQ(decompress(compress(v, d), d) - v)
             bound == (KYBER_Q + 2 ^ d) \div 2 ^ (d + 1) + 1
         IN  e <= bound \/ KYBER_Q - e <= bound
============================================================================
