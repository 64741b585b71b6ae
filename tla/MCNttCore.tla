----------------------------- MODULE MCNttCore -----------------------------
(***************************************************************************)
(* NttCore for TLC: a core of 4 points modulo 5 (ROOT 2 has order 4) with  *)
(* 3-bit words, against the transform of Kyber.                            *)
(***************************************************************************)
EXTENDS NttCore, FiniteSetsExt

(* The transform is linear: every unit vector, and vectors of extremes,    *)
(* words that are not reduced among them.                                  *)
SmallInputs ==
  {[j \in 0 .. 3 |-> IF j = k THEN 1 ELSE 0] : k \in 0 .. 3} \union
  {[j \in 0 .. 3 |-> 7], [j \in 0 .. 3 |-> 4], [j \in 0 .. 3 |-> 7 - 2 * j]}

(* README.md: the core is a "7-stage negacyclic NTT core", Kyber's: the    *)
(* residues modulo the X^2 - ROOT^(2 br(i) + 1), br of LOGN - 1 bits.      *)
KyberSum(x, i, p) ==
  LET br == bit_reverse(2 * i + 1) - N \div 2    \* bit_reverse(2i+1) = N/2 + br(i)
  IN  MapThenSumSet(LAMBDA j : x[2 * j + p] * Pow((2 * br + 1) * j), 0 .. N \div 2 - 1) % Q

OutputIsKyberNtt ==
  done /\ ~inverse => \A i \in 0 .. N \div 2 - 1, p \in {0, 1} :
                        data_out[2 * i + p] % Q = KyberSum(given, i, p)
============================================================================
