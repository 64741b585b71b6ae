----------------------------- MODULE RoutePair -----------------------------
(***************************************************************************)
(* The route-information FIFOs of the AXI4 crossbar.                       *)
(*                                                                         *)
(* Each channel of fabrics/axi4/axi4_fabric.bsv keeps two FIFOs per        *)
(* transaction: f_s_*_route_info[mi] remembers, in the order master mi     *)
(* issued, the slaves its outstanding transactions went to, and            *)
(* f_m_*_route_info[sj] remembers, in the order slave sj accepted, the     *)
(* masters they came from.  The address rule enqueues both in one atomic   *)
(* rule; the response (or write-data) rule dequeues both when their heads  *)
(* name each other.  The read channel has one such pair, the write channel *)
(* two (W and B).  This module states that protocol once.                  *)
(***************************************************************************)
EXTENDS RrArbiter, Sequences

CONSTANT NS
ASSUME NSAssumption == NS \in Nat \ {0}

Slaves == 0 .. NS - 1

(* fS[m] is f_s_*_route_info[m]; fM[s] is f_m_*_route_info[s].             *)
RouteEmpty == [fS |-> [m \in Masters |-> <<>>], fM |-> [s \in Slaves |-> <<>>]]

RouteType(r) ==
  /\ r.fS \in [Masters -> Seq(Slaves)]
  /\ r.fM \in [Slaves -> Seq(Masters)]
  /\ r = [fS |-> r.fS, fM |-> r.fM]

(* No FIFO of the pair holds more than `depth' entries.                    *)
RouteWithin(r, depth) ==
  /\ \A m \in Masters : Len(r.fS[m]) <= depth
  /\ \A s \in Slaves : Len(r.fM[s]) <= depth

(* Mutant: only the FIFO of the master is looked at.                     *)
RouteRoom_half(r, m, s, depth) == Len(r.fS[m]) < depth

(* Room for one more transaction of m at s, with FIFOs of `depth' entries. *)
RouteRoom(r, m, s, depth) == Len(r.fS[m]) < depth /\ Len(r.fM[s]) < depth

(* Both enqueues of an address rule.                                       *)
RouteEnq(r, m, s) ==
  [fS |-> [r.fS EXCEPT ![m] = Append(@, s)],
   fM |-> [r.fM EXCEPT ![s] = Append(@, m)]]

(* Mutant: the order in which the master issued is not compared.         *)
RouteMeet_half(r, m, s) == r.fM[s] # <<>> /\ Head(r.fM[s]) = m

(* The guard of a response rule: the two heads name each other.            *)
RouteMeet(r, m, s) ==
  /\ r.fS[m] # <<>> /\ Head(r.fS[m]) = s
  /\ r.fM[s] # <<>> /\ Head(r.fM[s]) = m

(* Mutant: the dequeue of the slave side is missing.                     *)
RouteDeq_half(r, m, s) == [fS |-> [r.fS EXCEPT ![m] = Tail(@)], fM |-> r.fM]

(* Both dequeues of the last beat of a response rule.                      *)
RouteDeq(r, m, s) ==
  [fS |-> [r.fS EXCEPT ![m] = Tail(@)],
   fM |-> [r.fM EXCEPT ![s] = Tail(@)]]

----------------------------------------------------------------------------
(* While anything is outstanding, some master and some slave have each     *)
(* other at the head: two masters that talk to the same two slaves in      *)
(* opposite orders can never leave every response rule waiting.            *)
HeadsMeet(r) ==
  (\E m \in Masters : r.fS[m] # <<>>) \/ (\E s \in Slaves : r.fM[s] # <<>>)
     => \E m \in Masters, s \in Slaves : RouteMeet(r, m, s)

(* Why: the FIFOs are projections of one global order of transactions.     *)
(* tS and tM date the entries; an entry of fS[m] and its twin in the fM of *)
(* the slave it names carry the same date.                                 *)
Ordered(X, t, now) ==
  \A x \in X : \A i \in 1..Len(t[x]) :
    t[x][i] < now /\ \A j \in 1..Len(t[x]) : i < j => t[x][i] < t[x][j]

TwinOfS(fS, fM, tS, tM, m, i) ==
  \E j \in 1..Len(fM[fS[m][i]]) :
    fM[fS[m][i]][j] = m /\ tM[fS[m][i]][j] = tS[m][i]

TwinOfM(fS, fM, tS, tM, s, j) ==
  \E i \in 1..Len(fS[fM[s][j]]) :
    fS[fM[s][j]][i] = s /\ tS[fM[s][j]][i] = tM[s][j]

Dated(fS, fM, tS, tM, now) ==
  /\ tS \in [Masters -> Seq(Nat)] /\ tM \in [Slaves -> Seq(Nat)] /\ now \in Nat
  /\ \A m \in Masters : Len(tS[m]) = Len(fS[m])
  /\ \A s \in Slaves : Len(tM[s]) = Len(fM[s])
  /\ Ordered(Masters, tS, now) /\ Ordered(Slaves, tM, now)
  /\ \A m \in Masters : \A i \in 1..Len(fS[m]) : TwinOfS(fS, fM, tS, tM, m, i)
  /\ \A s \in Slaves : \A j \in 1..Len(fM[s]) : TwinOfM(fS, fM, tS, tM, s, j)

OneOrder(r) == \E tS, tM, now : Dated(r.fS, r.fM, tS, tM, now)
============================================================================
