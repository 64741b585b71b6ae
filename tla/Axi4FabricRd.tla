---------------------------- MODULE Axi4FabricRd ----------------------------
(***************************************************************************)
(* The read half (AR and R channels) of the AXI4 crossbar,                 *)
(* fabrics/axi4/axi4_fabric.bsv, between NM masters and NS slaves.         *)
(*                                                                         *)
(* A BSV rule is a guarded atomic action, so each rule is one action here. *)
(* An address stands for the slave the memory map sends it to.  The        *)
(* transactors at both sides (fabrics/axi4/axi4_types.bsv) are FIFOs that  *)
(* the fabric guards on its side and the AXI handshake on the other.  The  *)
(* masters and the slaves themselves are the environment.                  *)
(***************************************************************************)
EXTENDS RoutePair

CONSTANTS
  ReadSlaves,   \* the bits set in the parameter read_slave
  FixedRd,      \* the bits set in the parameter fixed_priority_rd
  Variant,      \* 1: mkaxi4_fabric, 2: mkaxi4_fabric_2
  FifoDepth,    \* depth of a transactor FIFO (QueueSize 2; the _2 ones hold 1)
  RouteDepth,   \* depth of f_s_rd_route_info and f_m_rd_route_info (8)
  SlaveDepth,   \* requests a slave device holds (environment)
  Lens,         \* the arlen values masters use (environment)
  MaxOut        \* reads a master leaves unanswered (environment)

ASSUME FabricAssumption ==
  /\ ReadSlaves \subseteq Slaves /\ FixedRd \subseteq Masters
  /\ Variant \in {1, 2} /\ Lens \subseteq Nat
  /\ FifoDepth \in Nat \ {0} /\ RouteDepth \in Nat \ {0} /\ SlaveDepth \in Nat \ {0}
  /\ MaxOut \in Nat \ {0}

(* An AR and the R beats it causes carry the same id, hence the same src.  *)
Requests == [src : Masters, dst : ReadSlaves, len : Lens]
RBeats   == [req : Requests, last : BOOLEAN]

VARIABLES
  arQ,      \* arQ[m]: o_rd_addr of the transactor facing master m
  rspQ,     \* rspQ[m]: i_rd_data of the same transactor
  toS,      \* toS[s]: i_rd_addr of the transactor facing slave s
  rdQ,      \* rdQ[s]: o_rd_data of the same transactor
  route,    \* the pair f_s_rd_route_info, f_m_rd_route_info
  sel,      \* sel[s]: rg_rd_master_select[s]
  srv,      \* srv[s]: requests slave device s has accepted, oldest first
  sent,     \* sent[s]: beats it has sent for the oldest of them
  out,      \* out[m]: requests master m waits for, oldest first
  got       \* got[m]: beats it has received for the oldest of them

fabricVars == <<route, sel>>
vars == <<arQ, rspQ, toS, rdQ, route, sel, srv, sent, out, got>>

Init ==
  /\ arQ = [m \in Masters |-> <<>>] /\ rspQ = [m \in Masters |-> <<>>]
  /\ toS = [s \in Slaves |-> <<>>]  /\ rdQ = [s \in Slaves |-> <<>>]
  /\ route = RouteEmpty
  /\ sel = [s \in Slaves |-> 0]
  /\ srv = [s \in Slaves |-> <<>>]  /\ sent = [s \in Slaves |-> 0]
  /\ out = [m \in Masters |-> <<>>] /\ got = [m \in Masters |-> 0]

----------------------------------------------------------------------------
(* The grants: wires recomputed in every cycle from the heads of the AR    *)
(* FIFOs and the select registers.                                         *)

fv_mi_has_rd_for_sj(mi, sj) == arQ[mi] # <<>> /\ Head(arQ[mi]).dst = sj

(* Column sj of wr_master_rd_reqs, as rl_capture_rd_slave_contention set it. *)
wr_master_rd_reqs(sj) == {m \in Masters : fv_mi_has_rd_for_sj(m, sj)}

(* `&fixed_priority_rd' is 1 when every bit is set.  It guards the arbiter *)
(* in both modules, with the opposite sense in mkaxi4_fabric_2; when the   *)
(* arbiter does not run the grant wires keep their default, True.          *)
ArbiterRuns == IF Variant = 1 THEN FixedRd # Masters ELSE FixedRd = Masters

wr_rd_grant(sj, mi) ==
  ArbiterRuns => \/ mi \in fn_rr_arbiter(wr_master_rd_reqs(sj), sel[sj])
                 \/ mi \in FixedRd

(* The explicit and implicit conditions of rl_rd_xaction_master_to_slave.  *)
CanSend(mi, sj) ==
  /\ fv_mi_has_rd_for_sj(mi, sj)
  /\ wr_rd_grant(sj, mi)
  /\ sj \in ReadSlaves
  /\ Len(toS[sj]) < FifoDepth
  /\ RouteRoom(route, mi, sj, RouteDepth)

(* The rules of one slave conflict on its FIFO; the compiler gives the     *)
(* cycle to the one that comes first, the lowest master.                   *)
rl_rd_xaction_master_to_slave(mi, sj) ==
  /\ CanSend(mi, sj)
  /\ \A k \in Masters : k < mi => ~CanSend(k, sj)
  /\ arQ' = [arQ EXCEPT ![mi] = Tail(@)]
  /\ toS' = [toS EXCEPT ![sj] = Append(@, Head(arQ[mi]))]
  /\ route' = RouteEnq(route, mi, sj)
  /\ sel' = IF FixedRd # Masters
              THEN [sel EXCEPT ![sj] = NextSelect(mi)]
              ELSE sel
  /\ UNCHANGED <<rspQ, rdQ, srv, sent, out, got>>

(* Mutant: the route is dropped at every beat, not at the last.          *)
rl_rd_resp_every_beat(mi, sj) ==
  /\ RouteMeet(route, mi, sj)
  /\ sj \in ReadSlaves
  /\ rdQ[sj] # <<>> /\ Len(rspQ[mi]) < FifoDepth
  /\ rdQ' = [rdQ EXCEPT ![sj] = Tail(@)]
  /\ rspQ' = [rspQ EXCEPT ![mi] = Append(@, Head(rdQ[sj]))]
  /\ route' = RouteDeq(route, mi, sj)
  /\ UNCHANGED <<arQ, toS, sel, srv, sent, out, got>>

rl_rd_resp_slave_to_master(mi, sj) ==
  /\ RouteMeet(route, mi, sj)
  /\ sj \in ReadSlaves
  /\ rdQ[sj] # <<>> /\ Len(rspQ[mi]) < FifoDepth
  /\ rdQ' = [rdQ EXCEPT ![sj] = Tail(@)]
  /\ rspQ' = [rspQ EXCEPT ![mi] = Append(@, Head(rdQ[sj]))]
  /\ route' = IF Head(rdQ[sj]).last THEN RouteDeq(route, mi, sj) ELSE route
  /\ UNCHANGED <<arQ, toS, sel, srv, sent, out, got>>

----------------------------------------------------------------------------
(* The environment on the AXI sides: a handshake moves one item when the   *)
(* sender is valid and the receiver ready.  The memory map sends no read   *)
(* to a slave without the read bit (it would go to the error slave).       *)

MasterIssue(m) ==
  /\ Len(arQ[m]) < FifoDepth /\ Len(out[m]) < MaxOut
  /\ \E d \in ReadSlaves, l \in Lens :
       LET q == [src |-> m, dst |-> d, len |-> l]
       IN  /\ arQ' = [arQ EXCEPT ![m] = Append(@, q)]
           /\ out' = [out EXCEPT ![m] = Append(@, q)]
  /\ UNCHANGED <<rspQ, toS, rdQ, route, sel, srv, sent, got>>

(* The master counts beats up to the one marked last.  It knows by the id  *)
(* which of its reads they answer, and would notice any other order.       *)
MasterTake(m) ==
  /\ rspQ[m] # <<>>
  /\ rspQ' = [rspQ EXCEPT ![m] = Tail(@)]
  /\ \E i \in 1 .. Len(out[m]) :
       /\ out[m][i] = Head(rspQ[m]).req
       /\ \A j \in 1 .. i - 1 : out[m][j] # out[m][i]
       /\ IF Head(rspQ[m]).last
            THEN /\ got' = [got EXCEPT ![m] = 0]
                 /\ out' = [out EXCEPT ![m] = SubSeq(@, 1, i - 1) \o SubSeq(@, i + 1, Len(@))]
            ELSE /\ got' = [got EXCEPT ![m] = @ + 1]
                 /\ UNCHANGED out
  /\ UNCHANGED <<arQ, toS, rdQ, route, sel, srv, sent>>

SlaveAccept(s) ==
  /\ toS[s] # <<>> /\ Len(srv[s]) < SlaveDepth
  /\ srv' = [srv EXCEPT ![s] = Append(@, Head(toS[s]))]
  /\ toS' = [toS EXCEPT ![s] = Tail(@)]
  /\ UNCHANGED <<arQ, rspQ, rdQ, route, sel, sent, out, got>>

(* Slaves answer in the order they accepted, arlen + 1 beats a request.    *)
SlaveBeat(s) ==
  /\ srv[s] # <<>> /\ Len(rdQ[s]) < FifoDepth
  /\ LET q == Head(srv[s])
         last == sent[s] = q.len
     IN  /\ rdQ' = [rdQ EXCEPT ![s] = Append(@, [req |-> q, last |-> last])]
         /\ sent' = [sent EXCEPT ![s] = IF last THEN 0 ELSE @ + 1]
         /\ srv' = IF last THEN [srv EXCEPT ![s] = Tail(@)] ELSE srv
  /\ UNCHANGED <<arQ, rspQ, toS, route, sel, out, got>>

----------------------------------------------------------------------------
SendTo(s) == \E m \in Masters : rl_rd_xaction_master_to_slave(m, s)
Respond(m, s) == rl_rd_resp_slave_to_master(m, s)

Next ==
  \/ \E s \in Slaves : SendTo(s)
  \/ \E m \in Masters, s \in Slaves : Respond(m, s)
  \/ \E m \in Masters : MasterIssue(m) \/ MasterTake(m)
  \/ \E s \in Slaves : SlaveAccept(s) \/ SlaveBeat(s)

Spec == Init /\ [][Next]_vars

(* In every cycle the hardware fires each rule that can fire, one of those *)
(* that conflict; masters accept data and slaves serve.  A master is never *)
(* obliged to issue.                                                       *)
Fairness ==
  /\ \A s \in Slaves : WF_vars(SendTo(s)) /\ WF_vars(SlaveAccept(s)) /\ WF_vars(SlaveBeat(s))
  /\ \A m \in Masters : WF_vars(MasterTake(m))
  /\ \A m \in Masters, s \in Slaves : WF_vars(Respond(m, s))

FairSpec == Spec /\ Fairness

----------------------------------------------------------------------------
(* Every FIFO holds what the code puts in it and never more than it has    *)
(* entries.                                                                *)
TypeOK ==
  /\ arQ \in [Masters -> Seq(Requests)] /\ out \in [Masters -> Seq(Requests)]
  /\ toS \in [Slaves -> Seq(Requests)]  /\ srv \in [Slaves -> Seq(Requests)]
  /\ rspQ \in [Masters -> Seq(RBeats)]  /\ rdQ \in [Slaves -> Seq(RBeats)]
  /\ RouteType(route)
  /\ sel \in [Slaves -> Masters]
  /\ sent \in [Slaves -> Nat] /\ got \in [Masters -> Nat]
  /\ RouteWithin(route, RouteDepth)
  /\ \A m \in Masters : Len(arQ[m]) <= FifoDepth /\ Len(rspQ[m]) <= FifoDepth
  /\ \A s \in Slaves : /\ Len(toS[s]) <= FifoDepth /\ Len(rdQ[s]) <= FifoDepth
                       /\ Len(srv[s]) <= SlaveDepth

(* The two response guards never wait for each other in a circle: while a  *)
(* read is outstanding some master and some slave name each other.         *)
RoutesMeet == HeadsMeet(route)

(* Each time the arbiter serves slave s, every other master that waits for *)
(* s comes strictly closer to its turn, so it is passed over fewer than NM *)
(* times.  Stated for fixed_priority_rd = 0, pure round robin.             *)
TurnComes ==
  [][FixedRd = {} =>
       \A s \in Slaves, m \in Masters :
         ( /\ fv_mi_has_rd_for_sj(m, s) /\ arQ'[m] = arQ[m]
           /\ Len(route'.fM[s]) > Len(route.fM[s]) )
         => Turns(sel'[s], m) < Turns(sel[s], m)]_vars

(* What a master sees: its reads are answered in order, by the slave it    *)
(* addressed, with arlen + 1 beats of which only the last is marked, and   *)
(* under the fairness of the hardware's schedule they are all answered,    *)
(* although the fabric forwards by FIFO position and never compares ids.   *)
Port == INSTANCE InOrderPorts WITH
          Ports <- Masters, Beats <- [q \in Requests |-> q.len + 1],
          asked <- out, got <- got
InOrderReads == Port!Spec
=============================================================================
