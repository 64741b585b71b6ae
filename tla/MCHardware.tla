----------------------------- MODULE MCHardware -----------------------------
(***************************************************************************)
(* Two clocked devices for TLC: the interrupt controller, and the NTT core *)
(* of 8 points modulo 17 (ROOT 2 has order 8) with 5-bit words.  They      *)
(* share no state: a behaviour is one of the controller or of the core.    *)
(***************************************************************************)
EXTENDS Plic, Integers

CONSTANTS LOGN, Q, ROOT, DATA_WIDTH, Inputs

VARIABLES
  part,   \* "core" or "plic"; never changes
  fsm, stage, group, butterfly, mem, data_out, done, inverse, given, orig

cvars == <<fsm, stage, group, butterfly, mem, data_out, done, inverse, given, orig>>
C == INSTANCE NttCore WITH state <- fsm

ASSUME CoreAssumption == C!CoreConstants

(* Unit vectors, and one of extremes, words that are not reduced among     *)
(* them.                                                                   *)
LargeInputs ==
  {[j \in 0 .. 7 |-> IF j = k THEN 1 ELSE 0] : k \in {1, 2, 4}} \union
  {[j \in 0 .. 7 |-> 31 - j]}

MCEnables    == {{}, {1, 2}}
MCPriorities == <<{1}, {1, 2}>>

HInit == part \in {"core", "plic"} /\ Init /\ C!Init
HNext == /\ UNCHANGED part
         /\ \/ part = "core" /\ C!Next /\ UNCHANGED vars
            \/ part = "plic" /\ Next /\ UNCHANGED cvars

(* The clock of the core ticks in its own part; in the core's part nothing *)
(* is pending in the controller, and its fairness asks for nothing.        *)
HSpec == /\ HInit /\ [][HNext]_<<vars, cvars, part>>
         /\ WF_cvars(part = "core" /\ C!Clock) /\ Fairness

(* The properties of NttCore, which states them.                           *)

(* The registers of both hold what they can, and the core's butterflies    *)
(* stay inside the arrays.                                                 *)
TypesOK == TypeOK /\ C!TypeOK

(* done comes with the transform of the vector that was sampled, and the   *)
(* inverse core undoes the forward core.                                   *)
OutputIsTransform == C!OutputIsTransform

(* The result of a run comes, and stays until the next.                    *)
ResultComes == C!ResultComes
=============================================================================
