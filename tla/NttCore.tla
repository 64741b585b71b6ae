------------------------------ MODULE NttCore ------------------------------
(***************************************************************************)
(* ntt_iterative_optimized of benchmarks/kyber/ntt.v: the transform core,  *)
(* an FSM that does one butterfly in each clock cycle.  One action is one  *)
(* posedge in one state; the arithmetic keeps the widths of the registers. *)
(* `inverse' is driven from outside and held while the core is busy;       *)
(* data_in is sampled in the cycle after `start'.                          *)
(***************************************************************************)
EXTENDS Integers

CONSTANTS
  LOGN,        \* $clog2(N); the core has N = 256
  Q, ROOT,     \* the modulus 3329 and an element of order N, 17
  DATA_WIDTH,  \* 14
  Inputs       \* bound: the vectors presented on data_in

N == 2 ^ LOGN
Idx == 0 .. N - 1
Word == 0 .. 2 ^ DATA_WIDTH - 1

----------------------------------------------------------------------------
(* The functions of the module.                                            *)

Trunc(x, w) == x % 2 ^ w
modmul(a, b) == Trunc(Trunc(a * b, 2 * DATA_WIDTH) % Q, DATA_WIDTH)

modadd(a, b) ==
  LET sum == Trunc(a + b, DATA_WIDTH + 1)
  IN  Trunc(IF sum >= Q THEN sum - Q ELSE sum, DATA_WIDTH)

(* Mutant: no correction of a negative difference.                       *)
modsub_uncorrected(a, b) == Trunc(Trunc(a - b, DATA_WIDTH + 1), DATA_WIDTH)

(* The borrow is the top bit of the difference.                            *)
modsub(a, b) ==
  LET diff == Trunc(a - b, DATA_WIDTH + 1)
  IN  Trunc(IF diff >= 2 ^ DATA_WIDTH THEN diff + Q ELSE diff, DATA_WIDTH)

(* The loop: one bit of `val' at a time, the lowest first.                 *)
bit_reverse(val) ==
  LET result[i \in 0 .. LOGN] ==
        IF i = 0 THEN 0 ELSE 2 * result[i - 1] + ((val \div 2 ^ (i - 1)) % 2)
  IN  result[LOGN]

(* The loop of mod_inverse: extended Euclid on <<temp_a, temp_m, x0, x1>>. *)
Euclid[e \in Nat \X Nat \X Int \X Int] ==
  IF e[1] > 1
    THEN Euclid[<<e[2], e[1] % e[2], e[4] - (e[1] \div e[2]) * e[3], e[3]>>]
    ELSE e[4]
mod_inverse(a, m) ==
  LET x1 == Euclid[<<a, m, 0, 1>>] IN IF x1 < 0 THEN x1 + m ELSE x1

N_INV == mod_inverse(N, Q)

twiddle[k \in Idx] == IF k = 0 THEN 1 ELSE modmul(twiddle[k - 1], ROOT)

(* The powers of ROOT modulo Q, of any exponent.                           *)
power[k \in Idx] == IF k = 0 THEN 1 ELSE (power[k - 1] * ROOT) % Q
Pow(e) == power[e % N]

(* What a module that uses this one assumes: ROOT is an element of order   *)
(* N, and mod_inverse returns the inverse of N.                            *)
CoreConstants ==
  /\ LOGN \in Nat \ {0} /\ DATA_WIDTH \in Nat /\ Q \in Nat /\ Q > 1 /\ Q < 2 ^ DATA_WIDTH
  /\ ROOT \in 1 .. Q - 1 /\ Pow(N \div 2) = Q - 1
  /\ N_INV \in 1 .. Q - 1 /\ (N * N_INV) % Q = 1
  /\ Inputs \subseteq [Idx -> Word]

----------------------------------------------------------------------------
VARIABLES
  state, stage, group, butterfly, mem, data_out, done,
  inverse,   \* the input pin
  given,     \* ghost: the data_in of the current or last run
  orig       \* ghost: the input and output of the last forward run

ctl  == <<state, stage, group, butterfly>>
vars == <<ctl, mem, data_out, done, inverse, given, orig>>

Zero == [k \in Idx |-> 0]

Init ==
  /\ state = 0 /\ done = FALSE
  /\ stage = 0 /\ group = 0 /\ butterfly = 0
  /\ mem = Zero /\ data_out = Zero
  /\ inverse \in BOOLEAN /\ given = Zero /\ orig = [in |-> Zero, out |-> Zero]

(* rst_n, at any time.                                                     *)
Reset ==
  /\ state' = 0 /\ done' = FALSE
  /\ stage' = 0 /\ group' = 0 /\ butterfly' = 0
  /\ mem' = Zero /\ data_out' = Zero
  /\ UNCHANGED <<inverse, given, orig>>

Idle(start) ==
  /\ state = 0
  /\ done' = FALSE
  /\ IF start THEN state' = 1 /\ stage' = 0 /\ group' = 0 /\ butterfly' = 0
              ELSE UNCHANGED ctl
  /\ inverse' \in BOOLEAN
  /\ UNCHANGED <<mem, data_out, given, orig>>

(* An inverse run may also be given the result that is still on data_out.  *)
Load ==
  /\ state = 1
  /\ mem' \in Inputs \union (IF inverse THEN {data_out} ELSE {})
  /\ given' = mem'
  /\ state' = 2
  /\ UNCHANGED <<stage, group, butterfly, data_out, done, inverse, orig>>

M == 2 ^ stage
Groups == N \div (2 * M)
idx1 == group * 2 * M + butterfly
idx2 == idx1 + M
twiddle_idx == LET k == butterfly * Groups IN IF inverse THEN (N - k) % N ELSE k

(* Mutant: one group too many.                                           *)
Advance_long ==
  IF butterfly < M - 1
    THEN butterfly' = Trunc(butterfly + 1, LOGN) /\ UNCHANGED <<group, stage>>
    ELSE /\ butterfly' = 0
         /\ IF group < Groups
              THEN group' = Trunc(group + 1, LOGN) /\ UNCHANGED stage
              ELSE group' = 0 /\ stage' = Trunc(stage + 1, LOGN)

(* butterfly, then group, then stage, registers of LOGN bits.              *)
Advance ==
  IF butterfly < M - 1
    THEN butterfly' = Trunc(butterfly + 1, LOGN) /\ UNCHANGED <<group, stage>>
    ELSE /\ butterfly' = 0
         /\ IF group < Groups - 1
              THEN group' = Trunc(group + 1, LOGN) /\ UNCHANGED stage
              ELSE group' = 0 /\ stage' = Trunc(stage + 1, LOGN)

Butterfly ==
  /\ state = 2 /\ stage # LOGN
  /\ LET u == mem[idx1]
         v_twiddled == modmul(mem[idx2], twiddle[twiddle_idx])
     IN  mem' = [mem EXCEPT ![idx1] = modadd(u, v_twiddled),
                            ![idx2] = modsub(u, v_twiddled)]
  /\ Advance
  /\ UNCHANGED <<state, data_out, done, inverse, given, orig>>

StagesDone ==
  /\ state = 2 /\ stage = LOGN
  /\ state' = IF inverse THEN 3 ELSE 4
  /\ UNCHANGED <<stage, group, butterfly, mem, data_out, done, inverse, given, orig>>

(* Mutant: the products go to the output register as well.               *)
Scale_early ==
  /\ state = 3 /\ state' = 4
  /\ mem' = [k \in Idx |-> modmul(mem[k], N_INV)]
  /\ data_out' = mem'
  /\ UNCHANGED <<stage, group, butterfly, done, inverse, given, orig>>

Scale ==
  /\ state = 3
  /\ mem' = [k \in Idx |-> modmul(mem[k], N_INV)]
  /\ state' = 4
  /\ UNCHANGED <<stage, group, butterfly, data_out, done, inverse, given, orig>>

Store ==
  /\ state = 4
  /\ data_out' = [k \in Idx |-> mem[bit_reverse(k)]]
  /\ done' = TRUE /\ state' = 0
  /\ orig' = IF inverse THEN orig ELSE [in |-> given, out |-> data_out']
  /\ UNCHANGED <<stage, group, butterfly, mem, inverse, given>>

Clock == (\E start \in BOOLEAN : Idle(start)) \/ Load \/ Butterfly \/ StagesDone \/ Scale \/ Store
Next == Reset \/ Clock

Spec == Init /\ [][Next]_vars

(* The clock ticks.                                                        *)
FairSpec == Spec /\ WF_vars(Clock)

----------------------------------------------------------------------------
(* The registers keep their widths, and every butterfly works on two words *)
(* and a twiddle factor inside the arrays.                                 *)
TypeOK ==
  /\ state \in 0 .. 4 /\ stage \in 0 .. LOGN /\ done \in BOOLEAN /\ inverse \in BOOLEAN
  /\ mem \in [Idx -> Word] /\ data_out \in [Idx -> Word] /\ given \in [Idx -> Word]
  /\ state \in {1, 2} /\ stage < LOGN => /\ butterfly < M /\ group < Groups
                                         /\ idx2 \in Idx /\ twiddle_idx \in Idx

(* The transform, by its definition.  The butterflies take their input in  *)
(* natural order, so both indices come out bit-reversed.                   *)
Sum(x, k, sign) ==
  LET sum[j \in 0 .. N] ==
        IF j = 0 THEN 0
        ELSE sum[j - 1] + x[j - 1] * Pow(sign * bit_reverse(j - 1) * bit_reverse(k))
  IN  sum[N] % Q

(* `done' comes with the transform of the vector that was sampled, modulo  *)
(* Q, also for words that were not reduced; words that were give words     *)
(* that are; and the inverse core undoes the forward core.                 *)
Transformed ==
  done => \A k \in Idx :
            IF inverse THEN (N * data_out[k]) % Q = Sum(given, k, -1)
                       ELSE data_out[k] % Q = Sum(given, k, 1)

Reduced(x) == \A k \in Idx : x[k] < Q
StaysReduced == done /\ Reduced(given) => Reduced(data_out)

RoundTrip ==
  done /\ inverse /\ given = orig.out => \A k \in Idx : data_out[k] % Q = orig.in[k] % Q
OutputIsTransform == Transformed /\ StaysReduced /\ RoundTrip

(* `done' is a pulse of one cycle, after which data_out keeps the result   *)
(* until the next pulse or a reset, the window a reader of it has; and     *)
(* whatever was started comes back to idle.                                *)
ResultHeld == [][/\ done => ~done'
                 /\ data_out' # data_out => done' \/ data_out' = Zero]_vars
Terminates == (state # 0) ~> (state = 0)
ResultComes == ResultHeld /\ Terminates
============================================================================
