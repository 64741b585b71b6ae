---------------------------- MODULE Axi4FabricWr ----------------------------
(***************************************************************************)
(* The write half (AW, W and B channels) of the AXI4 crossbar,             *)
(* fabrics/axi4/axi4_fabric.bsv.  As in Axi4FabricRd a rule is an action,  *)
(* an address is the slave it maps to, and the masters and slaves are the  *)
(* environment.  W beats carry no address: which slave a beat goes to is   *)
(* known only from the order of the write-data route FIFOs.                *)
(***************************************************************************)
EXTENDS RoutePair

CONSTANTS
  WriteSlaves,  \* the bits set in the parameter write_slave
  FixedWr,      \* the bits set in the parameter fixed_priority_wr
  Variant,      \* 1: mkaxi4_fabric, 2: mkaxi4_fabric_2
  FifoDepth,    \* depth of a transactor FIFO (QueueSize 2; the _2 ones hold 1)
  WdDepth,      \* depth of f_s_wd_route_info and f_m_wd_route_info (2)
  RouteDepth,   \* depth of f_s_wr_route_info and f_m_wr_route_info (8)
  SlaveDepth,   \* addresses, and data bursts, a slave holds (environment)
  Lens,         \* the awlen values masters use (environment)
  MaxOut        \* writes a master leaves unanswered (environment)

(* What a module that instantiates this one assumes.                       *)
WriteConstants ==
  /\ WriteSlaves \subseteq Slaves /\ FixedWr \subseteq Masters
  /\ Variant \in {1, 2} /\ Lens \subseteq Nat /\ MaxOut \in Nat \ {0}
  /\ FifoDepth \in Nat \ {0} /\ WdDepth \in Nat \ {0}
  /\ RouteDepth \in Nat \ {0} /\ SlaveDepth \in Nat \ {0}

Requests == [src : Masters, dst : WriteSlaves, len : Lens]
WBeats   == [req : Requests, n : Nat]      \* beat n of 0 .. len; wlast is n = len

VARIABLES
  awQ, wQ,    \* o_wr_addr and o_wr_data of the transactor facing master m
  bRsp,       \* its i_wr_resp
  sAwQ, sWQ,  \* i_wr_addr and i_wr_data of the transactor facing slave s
  bQ,         \* its o_wr_resp
  wdRoute,    \* the pair f_s_wd_route_info, f_m_wd_route_info
  wrRoute,    \* the pair f_s_wr_route_info, f_m_wr_route_info
  sel,        \* sel[s]: rg_wr_master_select[s]
  out,        \* out[m]: writes master m waits for, oldest first
  todo,       \* todo[m]: those of them whose data it has not finished sending
  beat,       \* beat[m]: the next beat of the oldest of those
  srv, data,  \* addresses and complete data bursts slave s holds
  nbeat       \* nbeat[s]: beats of an unfinished burst slave s has received

vars == <<awQ, wQ, bRsp, sAwQ, sWQ, bQ, wdRoute, wrRoute, sel, out, todo, beat,
          srv, data, nbeat>>

Init ==
  /\ awQ = [m \in Masters |-> <<>>] /\ wQ = [m \in Masters |-> <<>>]
  /\ bRsp = [m \in Masters |-> <<>>]
  /\ sAwQ = [s \in Slaves |-> <<>>] /\ sWQ = [s \in Slaves |-> <<>>]
  /\ bQ = [s \in Slaves |-> <<>>]
  /\ wdRoute = RouteEmpty /\ wrRoute = RouteEmpty
  /\ sel = [s \in Slaves |-> 0]
  /\ out = [m \in Masters |-> <<>>] /\ todo = [m \in Masters |-> <<>>]
  /\ beat = [m \in Masters |-> 0]
  /\ srv = [s \in Slaves |-> <<>>] /\ data = [s \in Slaves |-> <<>>]
  /\ nbeat = [s \in Slaves |-> 0]

----------------------------------------------------------------------------
fv_mi_has_wr_for_sj(mi, sj) == awQ[mi] # <<>> /\ Head(awQ[mi]).dst = sj

(* Column sj of wr_master_wr_reqs, as rl_capture_wr_slave_contention set it. *)
wr_master_wr_reqs(sj) == {m \in Masters : fv_mi_has_wr_for_sj(m, sj)}

(* The guard of rl_wr_round_robin_arbiter in the two modules.              *)
ArbiterRuns == IF Variant = 1 THEN FixedWr # Masters ELSE FixedWr = Masters

wr_wr_grant(sj, mi) ==
  ArbiterRuns => \/ mi \in fn_rr_arbiter(wr_master_wr_reqs(sj), sel[sj])
                 \/ mi \in FixedWr

CanSend(mi, sj) ==
  /\ fv_mi_has_wr_for_sj(mi, sj)
  /\ wr_wr_grant(sj, mi)
  /\ sj \in WriteSlaves
  /\ Len(sAwQ[sj]) < FifoDepth
  /\ RouteRoom(wdRoute, mi, sj, WdDepth)
  /\ RouteRoom(wrRoute, mi, sj, RouteDepth)

rl_wr_xaction_master_to_slave(mi, sj) ==
  /\ CanSend(mi, sj)
  /\ \A k \in Masters : k < mi => ~CanSend(k, sj)
  /\ awQ' = [awQ EXCEPT ![mi] = Tail(@)]
  /\ sAwQ' = [sAwQ EXCEPT ![sj] = Append(@, Head(awQ[mi]))]
  /\ wdRoute' = RouteEnq(wdRoute, mi, sj)
  /\ wrRoute' = RouteEnq(wrRoute, mi, sj)
  /\ sel' = IF FixedWr # Masters
              THEN [sel EXCEPT ![sj] = NextSelect(mi)]
              ELSE sel
  /\ UNCHANGED <<wQ, bRsp, sWQ, bQ, out, todo, beat, srv, data, nbeat>>

(* One W beat; the last one ends the burst in both data-route FIFOs.       *)
rl_wr_xaction_master_to_slave_data(mi, sj) ==
  /\ RouteMeet(wdRoute, mi, sj)
  /\ sj \in WriteSlaves
  /\ wQ[mi] # <<>> /\ Len(sWQ[sj]) < FifoDepth
  /\ LET d == Head(wQ[mi])
     IN  /\ sWQ' = [sWQ EXCEPT ![sj] = Append(@, d)]
         /\ wdRoute' = IF d.n = d.req.len THEN RouteDeq(wdRoute, mi, sj) ELSE wdRoute
  /\ wQ' = [wQ EXCEPT ![mi] = Tail(@)]
  /\ UNCHANGED <<awQ, bRsp, sAwQ, bQ, wrRoute, sel, out, todo, beat, srv, data, nbeat>>

rl_wr_resp_slave_to_master(mi, sj) ==
  /\ RouteMeet(wrRoute, mi, sj)
  /\ sj \in WriteSlaves
  /\ bQ[sj] # <<>> /\ Len(bRsp[mi]) < FifoDepth
  /\ wrRoute' = RouteDeq(wrRoute, mi, sj)
  /\ bQ' = [bQ EXCEPT ![sj] = Tail(@)]
  /\ bRsp' = [bRsp EXCEPT ![mi] = Append(@, Head(bQ[sj]))]
  /\ UNCHANGED <<awQ, wQ, sAwQ, sWQ, wdRoute, sel, out, todo, beat, srv, data, nbeat>>

----------------------------------------------------------------------------
(* The environment.  A master puts the address on AW and the beats on W in *)
(* the same order, the data not before the address.  A slave takes AW and  *)
(* W independently and answers a write once it has both.                   *)

MasterIssue(m) ==
  /\ Len(awQ[m]) < FifoDepth /\ Len(out[m]) < MaxOut
  /\ \E d \in WriteSlaves, l \in Lens :
       LET q == [src |-> m, dst |-> d, len |-> l]
       IN  /\ awQ' = [awQ EXCEPT ![m] = Append(@, q)]
           /\ out' = [out EXCEPT ![m] = Append(@, q)]
           /\ todo' = [todo EXCEPT ![m] = Append(@, q)]
  /\ UNCHANGED <<wQ, bRsp, sAwQ, sWQ, bQ, wdRoute, wrRoute, sel, beat, srv, data, nbeat>>

MasterBeat(m) ==
  /\ todo[m] # <<>> /\ Len(wQ[m]) < FifoDepth
  /\ wQ' = [wQ EXCEPT ![m] = Append(@, [req |-> Head(todo[m]), n |-> beat[m]])]
  /\ IF beat[m] = Head(todo[m]).len
       THEN /\ beat' = [beat EXCEPT ![m] = 0]
            /\ todo' = [todo EXCEPT ![m] = Tail(@)]
       ELSE /\ beat' = [beat EXCEPT ![m] = @ + 1]
            /\ UNCHANGED todo
  /\ UNCHANGED <<awQ, bRsp, sAwQ, sWQ, bQ, wdRoute, wrRoute, sel, out, srv, data, nbeat>>

(* A master knows by the id which of its writes a response answers, and    *)
(* would notice any other order.                                           *)
MasterTake(m) ==
  /\ bRsp[m] # <<>>
  /\ bRsp' = [bRsp EXCEPT ![m] = Tail(@)]
  /\ \E i \in 1 .. Len(out[m]) :
       /\ out[m][i] = Head(bRsp[m])
       /\ \A j \in 1 .. i - 1 : out[m][j] # out[m][i]
       /\ out' = [out EXCEPT ![m] = SubSeq(@, 1, i - 1) \o SubSeq(@, i + 1, Len(@))]
  /\ UNCHANGED <<awQ, wQ, sAwQ, sWQ, bQ, wdRoute, wrRoute, sel, todo, beat, srv, data, nbeat>>

SlaveAddr(s) ==
  /\ sAwQ[s] # <<>> /\ Len(srv[s]) < SlaveDepth
  /\ srv' = [srv EXCEPT ![s] = Append(@, Head(sAwQ[s]))]
  /\ sAwQ' = [sAwQ EXCEPT ![s] = Tail(@)]
  /\ UNCHANGED <<awQ, wQ, bRsp, sWQ, bQ, wdRoute, wrRoute, sel, out, todo, beat, data, nbeat>>

SlaveData(s) ==
  /\ sWQ[s] # <<>> /\ Len(data[s]) < SlaveDepth
  /\ LET d == Head(sWQ[s])
     IN  IF d.n = d.req.len
           THEN /\ data' = [data EXCEPT ![s] = Append(@, d.req)]
                /\ nbeat' = [nbeat EXCEPT ![s] = 0]
           ELSE /\ nbeat' = [nbeat EXCEPT ![s] = @ + 1]
                /\ UNCHANGED data
  /\ sWQ' = [sWQ EXCEPT ![s] = Tail(@)]
  /\ UNCHANGED <<awQ, wQ, bRsp, sAwQ, bQ, wdRoute, wrRoute, sel, out, todo, beat, srv>>

SlaveAnswer(s) ==
  /\ srv[s] # <<>> /\ data[s] # <<>> /\ Len(bQ[s]) < FifoDepth
  /\ bQ' = [bQ EXCEPT ![s] = Append(@, Head(srv[s]))]
  /\ srv' = [srv EXCEPT ![s] = Tail(@)]
  /\ data' = [data EXCEPT ![s] = Tail(@)]
  /\ UNCHANGED <<awQ, wQ, bRsp, sAwQ, sWQ, wdRoute, wrRoute, sel, out, todo, beat, nbeat>>

----------------------------------------------------------------------------
SendTo(s)     == \E m \in Masters : rl_wr_xaction_master_to_slave(m, s)
SendData(m, s) == rl_wr_xaction_master_to_slave_data(m, s)
Respond(m, s) == rl_wr_resp_slave_to_master(m, s)

Next ==
  \/ \E s \in Slaves : SendTo(s)
  \/ \E m \in Masters, s \in Slaves : SendData(m, s) \/ Respond(m, s)
  \/ \E m \in Masters : MasterIssue(m) \/ MasterBeat(m) \/ MasterTake(m)
  \/ \E s \in Slaves : SlaveAddr(s) \/ SlaveData(s) \/ SlaveAnswer(s)

Spec == Init /\ [][Next]_vars

(* A rule that can fire fires, one of those that conflict; a master sends  *)
(* the data of a write it began and takes responses; slaves serve.         *)
Fairness ==
  /\ \A s \in Slaves : /\ WF_vars(SendTo(s)) /\ WF_vars(SlaveAddr(s))
                       /\ WF_vars(SlaveData(s)) /\ WF_vars(SlaveAnswer(s))
  /\ \A m \in Masters : WF_vars(MasterBeat(m)) /\ WF_vars(MasterTake(m))
  /\ \A m \in Masters, s \in Slaves : WF_vars(SendData(m, s)) /\ WF_vars(Respond(m, s))

FairSpec == Spec /\ Fairness

----------------------------------------------------------------------------
(* Every FIFO holds what the code puts in it and never more than it has    *)
(* entries.                                                                *)
TypeOK ==
  /\ awQ \in [Masters -> Seq(Requests)]  /\ out \in [Masters -> Seq(Requests)]
  /\ todo \in [Masters -> Seq(Requests)] /\ bRsp \in [Masters -> Seq(Requests)]
  /\ sAwQ \in [Slaves -> Seq(Requests)]  /\ srv \in [Slaves -> Seq(Requests)]
  /\ data \in [Slaves -> Seq(Requests)]  /\ bQ \in [Slaves -> Seq(Requests)]
  /\ wQ \in [Masters -> Seq(WBeats)]     /\ sWQ \in [Slaves -> Seq(WBeats)]
  /\ RouteType(wdRoute) /\ RouteType(wrRoute)
  /\ sel \in [Slaves -> Masters]
  /\ beat \in [Masters -> Nat] /\ nbeat \in [Slaves -> Nat]
  /\ RouteWithin(wdRoute, WdDepth) /\ RouteWithin(wrRoute, RouteDepth)
  /\ \A m \in Masters :
       Len(awQ[m]) <= FifoDepth /\ Len(wQ[m]) <= FifoDepth /\ Len(bRsp[m]) <= FifoDepth
  /\ \A s \in Slaves :
       Len(sAwQ[s]) <= FifoDepth /\ Len(sWQ[s]) <= FifoDepth /\ Len(bQ[s]) <= FifoDepth

(* Neither the write data nor the write responses of any set of masters    *)
(* and slaves wait for each other in a circle.                             *)
RoutesMeet == HeadsMeet(wdRoute) /\ HeadsMeet(wrRoute)

(* Data bursts reach a slave in the order of their addresses, not mixed    *)
(* with the beats of another burst: the slave pairs the k-th burst with    *)
(* the k-th address it got, and every write goes where its address says.   *)
DataFollowsAddress ==
  \A s \in Slaves :
    /\ \A i \in 1 .. Len(srv[s]) : i <= Len(data[s]) => data[s][i] = srv[s][i]
    /\ sWQ[s] # <<>> => Head(sWQ[s]).n = nbeat[s] /\ Head(sWQ[s]).req.dst = s
=============================================================================
