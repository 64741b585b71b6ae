---------------------------- MODULE InOrderPorts ----------------------------
(***************************************************************************)
(* What the crossbar promises each master, with everything between the     *)
(* master and the slaves left out: a port's requests are answered in the   *)
(* order it issued them, each with exactly the number of beats it asked    *)
(* for, by the slave it addressed, and every request is answered.          *)
(***************************************************************************)
EXTENDS Naturals, Sequences

CONSTANTS Ports,      \* the masters of the crossbar
          Requests,   \* what a master can ask for
          Beats       \* Beats[q]: how many answers request q gets

VARIABLES asked,      \* asked[p]: the unanswered requests of p, oldest first
          got         \* got[p]: answers p has for the oldest of them

vars == <<asked, got>>

Init == /\ asked = [p \in Ports |-> <<>>]
        /\ got = [p \in Ports |-> 0]

Ask(p) == /\ \E q \in Requests : asked' = [asked EXCEPT ![p] = Append(@, q)]
          /\ UNCHANGED got

Answer(p) ==
  /\ asked[p] # <<>>
  /\ \/ /\ got[p] + 1 < Beats[Head(asked[p])]
        /\ got' = [got EXCEPT ![p] = @ + 1]
        /\ UNCHANGED asked
     \/ /\ got[p] + 1 = Beats[Head(asked[p])]
        /\ got' = [got EXCEPT ![p] = 0]
        /\ asked' = [asked EXCEPT ![p] = Tail(@)]

Next == \E p \in Ports : Ask(p) \/ Answer(p)

(* In order, and no answer that was not asked for.                         *)
Safe == Init /\ [][Next]_vars

Spec == Safe /\ \A p \in Ports : WF_vars(Answer(p))
============================================================================
