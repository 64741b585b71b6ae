-------------------------------- MODULE Plic --------------------------------
(***************************************************************************)
(* The interrupt controller, devices/plic/plic.bsv, with the gateways of   *)
(* devices/plic/gateway.v before it.  A step is a clock cycle: the bus     *)
(* makes one access or none (dc2apb has one request), and in every cycle   *)
(* the gateways look at their lines and the controller at the gateways.    *)
(* Which gateway a system connects is not in this tree; this one has the   *)
(* port for sb_to_gateway.                                                 *)
(***************************************************************************)
EXTENDS Naturals, FiniteSetsExt

CONSTANTS
  NSources, NTargets,  \* sources and targets of mkplic; source 0 is none
  MaxPriority,         \* lg_priority bits hold 0 .. MaxPriority
  Priorities,          \* bound: what software writes to the priority of a source,
  Enables,             \* to the enables of a target, a set of sources,
  Thresholds           \* and to a threshold

Sources == 1 .. NSources
Targets == 0 .. NTargets - 1

ASSUME PlicAssumption ==
  /\ {NSources, NTargets, MaxPriority} \subseteq Nat \ {0}
  /\ Priorities \in [Sources -> SUBSET (0 .. MaxPriority)] /\ Thresholds \subseteq 0 .. MaxPriority
  /\ \A e \in Enables : e \subseteq Sources

VARIABLES
  line,        \* the lines of the devices, active high
  latch,       \* Q_OUT of interpt_latch
  vrg_source_priority, v_target_ie, v_target_threshold,  \* v_target_ie as a set
  vrg_source_pending, v_reg_source_busy,
  v_reg_source_complete,  \* DReg: set for one cycle
  v_target_servicing,     \* 0 when a target has claimed nothing
  served       \* ghost: the request in the latch has been claimed

gateway == <<line, latch>>
config  == <<vrg_source_priority, v_target_ie, v_target_threshold>>
state   == <<vrg_source_pending, v_reg_source_busy, v_reg_source_complete, v_target_servicing>>
vars    == <<gateway, config, state, served>>

Init ==
  /\ line = [s \in Sources |-> FALSE] /\ latch = [s \in Sources |-> FALSE]
  /\ vrg_source_priority = [s \in Sources |-> 0]
  /\ v_target_ie = [t \in Targets |-> {}]
  /\ v_target_threshold = [t \in Targets |-> MaxPriority]
  /\ vrg_source_pending = [s \in Sources |-> FALSE]
  /\ v_reg_source_busy = [s \in Sources |-> FALSE]
  /\ v_reg_source_complete = [s \in Sources |-> FALSE]
  /\ v_target_servicing = [t \in Targets |-> 0]
  /\ served = [s \in Sources |-> FALSE]

----------------------------------------------------------------------------
(* fn_target_max_prio_and_max_id: the first of the greatest.               *)
lv_prios(t, s) == IF s \in v_target_ie[t] /\ vrg_source_pending[s] THEN vrg_source_priority[s] ELSE 0
max_prio(t) == Max({lv_prios(t, s) : s \in Sources})

max_id(t) ==
  IF max_prio(t) = 0 THEN 0 ELSE Min({s \in Sources : lv_prios(t, s) = max_prio(t)})

(* fn_mk_target_ifc: the interrupt request to target t.                    *)
eip(t) == max_prio(t) > v_target_threshold[t]

(* Mutant: a line that is still up wins over COMPLETE.                     *)
irq_set(s) == line[s] \/ (latch[s] /\ ~v_reg_source_complete[s])

(* interpt_latch behind src_latch: cleared while COMPLETE, set by the line.*)
irq(s) == ~v_reg_source_complete[s] /\ (latch[s] \/ line[s])

(* Mutant: of the two writes of a source that is claimed the gateway's is  *)
(* the one that stays.                                                     *)
pending_after_gateway(s, claimed) ==
  IF v_reg_source_busy[s] THEN s # claimed /\ vrg_source_pending[s] ELSE irq(s)

(* sb_frm_gateway, and the claim, which is taken to be the later of the    *)
(* two writes of its cycle.                                                *)
pending_after(s, claimed) ==
  s # claimed /\ IF v_reg_source_busy[s] THEN vrg_source_pending[s] ELSE irq(s)

(* Mutant: truncate instead of truncateLSB, which takes source 0 for 1.    *)
sb_to_gateway_low(s, completed) == s = completed + 1
sb_to_gateway(s, completed) == s = completed

(* What happens in every cycle, beside the access.                         *)
Clock(claimed, completed) ==
  /\ vrg_source_pending' = [s \in Sources |-> pending_after(s, claimed)]
  /\ v_reg_source_complete' = [s \in Sources |-> sb_to_gateway(s, completed)]
  /\ latch' = [s \in Sources |-> irq(s)]
  /\ served' = [s \in Sources |-> irq(s) /\ (served[s] \/ s = claimed)]
  /\ line' \in [Sources -> BOOLEAN]

----------------------------------------------------------------------------
(* The accesses.  A claim with nothing pending returns 0, one of a target  *)
(* that has not completed its last claim an error, and so does a           *)
(* completion of nothing: they are Idle.                                   *)
Idle == Clock(0, 0) /\ UNCHANGED <<config, v_reg_source_busy, v_target_servicing>>

SetPriority ==
  /\ \E s \in Sources : \E p \in Priorities[s] : vrg_source_priority' = [vrg_source_priority EXCEPT ![s] = p]
  /\ Clock(0, 0)
  /\ UNCHANGED <<v_target_ie, v_target_threshold, v_reg_source_busy, v_target_servicing>>

SetEnables ==
  /\ \E t \in Targets, e \in Enables : v_target_ie' = [v_target_ie EXCEPT ![t] = e]
  /\ Clock(0, 0)
  /\ UNCHANGED <<vrg_source_priority, v_target_threshold, v_reg_source_busy, v_target_servicing>>

SetThreshold ==
  /\ \E t \in Targets, p \in Thresholds : v_target_threshold' = [v_target_threshold EXCEPT ![t] = p]
  /\ Clock(0, 0)
  /\ UNCHANGED <<vrg_source_priority, v_target_ie, v_reg_source_busy, v_target_servicing>>

(* A read of claim/complete.  The threshold does not matter to it.         *)
Claim(t) ==
  /\ v_target_servicing[t] = 0 /\ max_id(t) # 0
  /\ v_reg_source_busy' = [v_reg_source_busy EXCEPT ![max_id(t)] = TRUE]
  /\ v_target_servicing' = [v_target_servicing EXCEPT ![t] = max_id(t)]
  /\ Clock(max_id(t), 0)
  /\ UNCHANGED config

(* Mutant: the target is left servicing the source.                        *)
CompleteSource(t) ==
  LET s == v_target_servicing[t]
  IN  /\ s # 0 /\ v_reg_source_busy[s]
      /\ v_reg_source_busy' = [v_reg_source_busy EXCEPT ![s] = FALSE]
      /\ Clock(0, s)
      /\ UNCHANGED <<config, v_target_servicing>>

(* A write of claim/complete.  The id that is written is not looked at.    *)
Complete(t) ==
  LET s == v_target_servicing[t]
  IN  /\ s # 0 /\ v_reg_source_busy[s]
      /\ v_reg_source_busy' = [v_reg_source_busy EXCEPT ![s] = FALSE]
      /\ v_target_servicing' = [v_target_servicing EXCEPT ![t] = 0]
      /\ Clock(0, s)
      /\ UNCHANGED config

Next ==
  \/ Idle \/ SetPriority \/ SetEnables \/ SetThreshold
  \/ \E t \in Targets : Claim(t) \/ Complete(t)

(* A hart claims when it is interrupted, and completes what it claimed;    *)
(* the bus serves every hart.                                              *)
Fairness == \A t \in Targets : WF_vars(Claim(t) /\ eip(t)) /\ WF_vars(Complete(t))
Spec == Init /\ [][Next]_vars /\ Fairness

----------------------------------------------------------------------------
(* The registers hold what their widths admit.                             *)
TypeOK ==
  /\ {line, latch, vrg_source_pending, v_reg_source_busy, v_reg_source_complete, served}
       \subseteq [Sources -> BOOLEAN]
  /\ vrg_source_priority \in [Sources -> 0 .. MaxPriority]
  /\ v_target_ie \in [Targets -> SUBSET Sources]
  /\ v_target_threshold \in [Targets -> 0 .. MaxPriority]
  /\ v_target_servicing \in [Targets -> 0 .. NSources]

(* A source that is busy is serviced by exactly one target, and one that   *)
(* is not by none, though a completion looks at no id and a claim not at   *)
(* busy: two targets never run the handler of one interrupt, and no target *)
(* is left with a source that it can no longer complete.                   *)
OneServer ==
  \A s \in Sources :
    Cardinality({t \in Targets : v_target_servicing[t] = s}) = IF v_reg_source_busy[s] THEN 1 ELSE 0

(* What is pending is a request that a gateway holds and nobody has        *)
(* claimed: the cycle between the end of busy and the clearing of the      *)
(* latch does not make a serviced interrupt pending again.                 *)
PendingIsNew ==
  \A s \in Sources : vrg_source_pending[s] => latch[s] /\ ~served[s]

(* A gateway drops a request only after a target has claimed it, and so    *)
(* none is lost, whatever is completed meanwhile.                          *)
NoneIsLost == [][\A s \in Sources : latch[s] /\ ~latch'[s] => served[s]]_vars

(* An interrupt request that a target sees is claimed, or gives way to     *)
(* another one: no target is stuck with an interrupt, because each claim   *)
(* can be completed and frees the target for the next.                     *)
ChosenIsTaken == \A t \in Targets, s \in Sources : []<>~(eip(t) /\ max_id(t) = s)
=============================================================================
