--------------------------- MODULE MCAxi4FabricRd ---------------------------
(***************************************************************************)
(* Axi4FabricRd for TLC, with a history variable that records who was      *)
(* passed over: passed[s] has <<k, m>> when k was served by s while m      *)
(* waited for s, and m still waits.                                        *)
(***************************************************************************)
EXTENDS Axi4FabricRd

VARIABLE passed

hvars == <<vars, passed>>

Served(s)  == {k \in Masters : fv_mi_has_rd_for_sj(k, s) /\ Len(arQ'[k]) < Len(arQ[k])}
Waiting(s) == {m \in Masters : fv_mi_has_rd_for_sj(m, s) /\ Len(arQ'[m]) >= Len(arQ[m])}

HInit == Init /\ passed = [s \in Slaves |-> {}]
HNext == /\ Next
         /\ passed' = [s \in Slaves |->
                         {p \in passed[s] : p[2] \in Waiting(s)}
                           \union (Served(s) \X Waiting(s))]

HFairSpec == HInit /\ [][HNext]_hvars /\ Fairness

(* Of the masters that take part in round robin on a slave, none is served *)
(* twice while another one waits: axi4_crossbar.rst, fixed_priority_rd.    *)
NotPassedTwice ==
  [][\A s \in Slaves : \A k \in Served(s) \ FixedRd, m \in Waiting(s) \ FixedRd :
        <<k, m>> \notin passed[s]]_hvars
=============================================================================
