-------------------------- MODULE MCHardwareProofs --------------------------
(***************************************************************************)
(* The interrupt controller, for every number of sources and targets, all  *)
(* priorities and every order of accesses: who services an interrupt, and  *)
(* that none is serviced twice or lost.  The NTT core, for every size of   *)
(* transform, modulus and width: its counters never leave the arrays, its  *)
(* result stays, reduced words stay reduced, the result is the transform   *)
(* and the inverse core undoes the forward core.                           *)
(***************************************************************************)
EXTENDS MCHardware, FiniteSetTheorems, WellFoundedInduction, TLAPS

(* A source is claimed by one target at a time, and it is busy meanwhile.  *)
Serviced ==
  /\ \A t, u \in Targets :
       v_target_servicing[t] # 0 /\ v_target_servicing[t] = v_target_servicing[u] => t = u
  /\ \A t \in Targets : v_target_servicing[t] # 0 => v_reg_source_busy[v_target_servicing[t]]
  /\ \A s \in Sources :
       v_reg_source_busy[s] => \E t \in Targets : v_target_servicing[t] = s

(* The life of a request: it is pending before it is claimed; it is busy   *)
(* and stays in the latch until its completion; the cycle in which the     *)
(* gateway is told, it is neither, and is not taken for a new one.         *)
Lives(s) ==
  /\ vrg_source_pending[s] =>
       latch[s] /\ ~served[s] /\ ~v_reg_source_busy[s] /\ ~v_reg_source_complete[s]
  /\ v_reg_source_busy[s] => latch[s] /\ served[s] /\ ~v_reg_source_complete[s]
  /\ served[s] => v_reg_source_busy[s] \/ v_reg_source_complete[s]
  /\ v_reg_source_complete[s] /\ latch[s] => served[s]

IInv == TypeOK /\ Serviced /\ \A s \in Sources : Lives(s)

----------------------------------------------------------------------------
(* A set of natural numbers that is not empty has a least element.         *)
LEMMA LeastExists ==
  ASSUME NEW S \in SUBSET Nat, S # {}
  PROVE  Min(S) \in S /\ \A e \in S : Min(S) <= e
<1>1. PICK d \in S : \A e \in S : ~(<<e, d>> \in OpToRel(<, Nat))
  BY NatLessThanWellFounded, WFMin
<1>2. \A e \in S : e < d => <<e, d>> \in OpToRel(<, Nat)
  BY DEF OpToRel
<1>3. \A e \in S : ~(e < d)
  BY <1>1, <1>2
<1>4. \A e \in S : d <= e
  BY <1>3
<1>. QED BY <1>4 DEF Min

(* One that is bounded has a greatest.                                     *)
LEMMA GreatestExists ==
  ASSUME NEW n \in Nat, NEW S \in SUBSET (0 .. n), S # {}
  PROVE  Max(S) \in S
<1> DEFINE D == {n - x : x \in S}
<1>1. \A x \in S : n - x \in Nat
  OBVIOUS
<1>2. D \in SUBSET Nat /\ D # {}
  BY <1>1
<1>3. Min(D) \in D /\ \A e \in D : Min(D) <= e
  BY <1>2, LeastExists
<1>4. PICK g \in S : Min(D) = n - g
  BY <1>3
<1>5. \A x \in S : x <= g
  <2> TAKE x \in S
  <2>1. Min(D) <= n - x
    BY <1>3
  <2>2. n - g <= n - x /\ g \in 0 .. n /\ x \in 0 .. n
    BY <1>4, <2>1
  <2>. QED BY <2>2
<1>. QED BY <1>4, <1>5 DEF Max

(* The source a target is given is one that is pending.                    *)
LEMMA ChosenIsPending ==
  ASSUME TypeOK, NEW t \in Targets, max_id(t) # 0
  PROVE  max_id(t) \in Sources /\ vrg_source_pending[max_id(t)]
<1> DEFINE P == {lv_prios(t, s) : s \in Sources}
           F == {s \in Sources : lv_prios(t, s) = max_prio(t)}
<1>1. \A s \in Sources : lv_prios(t, s) \in 0 .. MaxPriority
  BY PlicAssumption DEF TypeOK, lv_prios, Sources
<1>2. Sources # {} /\ Sources \subseteq Nat
  BY PlicAssumption DEF Sources
<1>p. P \in SUBSET (0 .. MaxPriority) /\ P # {} /\ MaxPriority \in Nat
  BY <1>1, <1>2, PlicAssumption
<1>3. max_prio(t) \in P
  BY <1>p, GreatestExists DEF max_prio
<1>4. max_prio(t) # 0 /\ max_id(t) = Min(F)
  BY DEF max_id
<1>5. F # {} /\ F \in SUBSET Nat
  BY <1>2, <1>3
<1>6. max_id(t) \in F
  BY <1>4, <1>5, LeastExists
<1>7. lv_prios(t, max_id(t)) # 0
  BY <1>4, <1>6
<1>. QED BY <1>6, <1>7 DEF lv_prios

----------------------------------------------------------------------------
(* Reset establishes the invariant.                                        *)
LEMMA InitOK == Init => IInv
<1> SUFFICES ASSUME Init PROVE IInv
  OBVIOUS
<1>1. TypeOK
  BY PlicAssumption DEF Init, TypeOK, Sources, Targets
<1>2. Serviced /\ \A s \in Sources : Lives(s)
  BY DEF Init, Serviced, Lives, Sources
<1>. QED BY <1>1, <1>2 DEF IInv

(* The gateways and the pending bits keep their types in every cycle.      *)
LEMMA ClockTypes ==
  ASSUME TypeOK, NEW claimed, NEW completed, Clock(claimed, completed)
  PROVE  {line', latch', vrg_source_pending', v_reg_source_complete', served'}
           \subseteq [Sources -> BOOLEAN]
<1>1. \A s \in Sources : /\ irq(s) \in BOOLEAN /\ pending_after(s, claimed) \in BOOLEAN
                         /\ sb_to_gateway(s, completed) \in BOOLEAN
  BY DEF TypeOK, irq, pending_after, sb_to_gateway
<1>. QED BY <1>1 DEF Clock

(* And the requests go on with their lives, when a claim is of a pending   *)
(* source and a completion of a busy one.                                  *)
LEMMA ClockLives ==
  ASSUME TypeOK, NEW s \in Sources, Lives(s),
         NEW claimed, NEW completed, Clock(claimed, completed),
         s = claimed => vrg_source_pending[s] /\ s # completed,
         s = completed => v_reg_source_busy[s],
         v_reg_source_busy'[s] = (s = claimed \/ (v_reg_source_busy[s] /\ s # completed))
  PROVE  Lives(s)'
<1>1. /\ vrg_source_pending'[s] = (s # claimed /\ IF v_reg_source_busy[s] THEN vrg_source_pending[s]
                                                  ELSE irq(s))
      /\ v_reg_source_complete'[s] = (s = completed)
      /\ latch'[s] = irq(s)
      /\ served'[s] = (irq(s) /\ (served[s] \/ s = claimed))
  BY DEF Clock, pending_after, sb_to_gateway
<1>2. irq(s) = (~v_reg_source_complete[s] /\ (latch[s] \/ line[s]))
  BY DEF irq
<1>. QED BY <1>1, <1>2, Zenon DEF Lives

(* The same for the whole of a step that claims and completes nothing.     *)
LEMMA QuietOK ==
  ASSUME IInv, Clock(0, 0), UNCHANGED <<v_reg_source_busy, v_target_servicing>>,
         vrg_source_priority' \in [Sources -> 0 .. MaxPriority],
         v_target_ie' \in [Targets -> SUBSET Sources],
         v_target_threshold' \in [Targets -> 0 .. MaxPriority]
  PROVE  IInv'
<1>1. TypeOK'
  BY ClockTypes DEF IInv, TypeOK
<1>2. Serviced'
  BY DEF IInv, Serviced
<1>3. ASSUME NEW s \in Sources  PROVE Lives(s)'
  <2>1. TypeOK /\ Lives(s) /\ s # 0
    BY DEF Sources, IInv
  <2>2. v_reg_source_busy \in [Sources -> BOOLEAN]
    BY <2>1 DEF TypeOK
  <2>3. v_reg_source_busy'[s] = (s = 0 \/ (v_reg_source_busy[s] /\ s # 0))
    BY <2>1, <2>2
  <2>. QED BY <2>1, <2>3, ClockLives
<1>. QED BY <1>1, <1>2, <1>3 DEF IInv

(* Every access, and every cycle without one, preserves the invariant.     *)
LEMMA StepOK == IInv /\ [Next]_vars => IInv'
<1> SUFFICES ASSUME IInv, [Next]_vars  PROVE IInv'
  OBVIOUS
<1>t. TypeOK /\ Serviced /\ \A s \in Sources : Lives(s)
  BY DEF IInv
<1>c. /\ vrg_source_priority \in [Sources -> 0 .. MaxPriority]
      /\ v_target_ie \in [Targets -> SUBSET Sources]
      /\ v_target_threshold \in [Targets -> 0 .. MaxPriority]
      /\ v_reg_source_busy \in [Sources -> BOOLEAN]
      /\ v_target_servicing \in [Targets -> 0 .. NSources]
  BY <1>t DEF TypeOK
<1>1. CASE Idle
  BY <1>1, <1>c, QuietOK DEF Idle, config
<1>2. CASE SetPriority
  <2>1. PICK s \in Sources : \E p \in Priorities[s] :
          vrg_source_priority' = [vrg_source_priority EXCEPT ![s] = p]
    BY <1>2 DEF SetPriority
  <2>2. vrg_source_priority' \in [Sources -> 0 .. MaxPriority]
    BY <2>1, <1>c, PlicAssumption
  <2>. QED BY <1>2, <1>c, <2>2, QuietOK DEF SetPriority
<1>3. CASE SetEnables
  <2>1. v_target_ie' \in [Targets -> SUBSET Sources]
    BY <1>3, <1>c, PlicAssumption DEF SetEnables
  <2>. QED BY <1>3, <1>c, <2>1, QuietOK DEF SetEnables
<1>4. CASE SetThreshold
  <2>1. v_target_threshold' \in [Targets -> 0 .. MaxPriority]
    BY <1>4, <1>c, PlicAssumption DEF SetThreshold
  <2>. QED BY <1>4, <1>c, <2>1, QuietOK DEF SetThreshold
<1>5. ASSUME NEW t \in Targets, Claim(t)  PROVE IInv'
  <2> DEFINE id == max_id(t)
  <2>1. /\ v_target_servicing[t] = 0 /\ id # 0 /\ Clock(id, 0) /\ UNCHANGED config
        /\ v_reg_source_busy' = [v_reg_source_busy EXCEPT ![id] = TRUE]
        /\ v_target_servicing' = [v_target_servicing EXCEPT ![t] = id]
    BY <1>5 DEF Claim
  <2>2. id \in Sources /\ vrg_source_pending[id]
    BY <1>t, <2>1, ChosenIsPending
  <2> HIDE DEF id
  <2>3. ~v_reg_source_busy[id]
    BY <1>t, <2>2 DEF Lives
  <2>4. id \in 0 .. NSources
    BY <2>2 DEF Sources
  <2>5. TypeOK'
    BY <1>t, <1>c, <2>1, <2>4, ClockTypes DEF TypeOK, config
  <2>6. Serviced'
    <3>1. \A u \in Targets : u # t => v_target_servicing'[u] = v_target_servicing[u]
      BY <1>c, <2>1
    <3>2. v_target_servicing'[t] = id
      BY <1>c, <2>1
    <3>3. \A u \in Targets : v_target_servicing[u] # id
      BY <1>t, <2>1, <2>3 DEF Serviced
    <3>4. \A s \in Sources : v_reg_source_busy'[s] = IF s = id THEN TRUE ELSE v_reg_source_busy[s]
      BY <1>c, <2>1
    <3>5. \A u \in Targets : v_target_servicing[u] # 0 => v_target_servicing[u] \in Sources
      BY <1>c DEF Sources
    <3>6. \A u, w \in Targets :
            v_target_servicing'[u] # 0 /\ v_target_servicing'[u] = v_target_servicing'[w] => u = w
      BY <1>t, <3>1, <3>2, <3>3 DEF Serviced
    <3>7. \A u \in Targets : v_target_servicing'[u] # 0 => v_reg_source_busy'[v_target_servicing'[u]]
      BY ZenonT(30), <1>t, <2>2, <3>1, <3>2, <3>4, <3>5 DEF Serviced
    <3>8. \A s \in Sources : v_reg_source_busy'[s] => \E u \in Targets : v_target_servicing'[u] = s
      <4> SUFFICES ASSUME NEW s \in Sources, v_reg_source_busy'[s]
                   PROVE  \E u \in Targets : v_target_servicing'[u] = s
        OBVIOUS
      <4>1. CASE s = id
        BY <3>2, <4>1
      <4>2. CASE s # id
        <5>1. PICK u \in Targets : v_target_servicing[u] = s
          BY <1>t, <3>4, <4>2 DEF Serviced
        <5>2. u # t
          BY <2>1, <5>1 DEF Sources
        <5>. QED BY <3>1, <5>1, <5>2
      <4>. QED BY <4>1, <4>2
    <3>. QED BY <3>6, <3>7, <3>8 DEF Serviced
  <2>7. ASSUME NEW s \in Sources  PROVE Lives(s)'
    <3>1. s # 0 /\ v_reg_source_busy[s] \in BOOLEAN
      BY SMTT(30), <1>c DEF Sources
    <3>2. v_reg_source_busy'[s] = (s = id \/ (v_reg_source_busy[s] /\ s # 0))
      BY <1>c, <2>1, <3>1
    <3>3. s = id => vrg_source_pending[s] /\ s # 0
      BY <2>2, <3>1
    <3>4. Lives(s) /\ Clock(id, 0) /\ (s = 0 => v_reg_source_busy[s])
      BY <1>t, <2>1, <3>1
    <3>. QED BY <1>t, <3>2, <3>3, <3>4, ClockLives
  <2>. QED BY <2>5, <2>6, <2>7 DEF IInv
<1>6. ASSUME NEW t \in Targets, Complete(t)  PROVE IInv'
  <2> DEFINE id == v_target_servicing[t]
  <2>1. /\ id # 0 /\ v_reg_source_busy[id] /\ Clock(0, id) /\ UNCHANGED config
        /\ v_reg_source_busy' = [v_reg_source_busy EXCEPT ![id] = FALSE]
        /\ v_target_servicing' = [v_target_servicing EXCEPT ![t] = 0]
    BY <1>6 DEF Complete
  <2>2. id \in Sources
    BY <1>c, <2>1 DEF Sources
  <2>3. TypeOK'
    <3>1. 0 \in 0 .. NSources
      BY PlicAssumption
    <3>. QED BY <1>t, <1>c, <2>1, <3>1, ClockTypes DEF TypeOK, config
  <2>4. Serviced'
    <3>1. \A u \in Targets : u # t => v_target_servicing'[u] = v_target_servicing[u]
      BY <1>c, <2>1
    <3>2. v_target_servicing'[t] = 0
      BY <1>c, <2>1
    <3>3. \A u \in Targets : u # t => v_target_servicing[u] # id
      BY <1>t, <2>1 DEF Serviced
    <3>4. \A s \in Sources : v_reg_source_busy'[s] = IF s = id THEN FALSE ELSE v_reg_source_busy[s]
      BY <1>c, <2>1
    <3>5. \A u \in Targets : v_target_servicing[u] # 0 => v_target_servicing[u] \in Sources
      BY <1>c DEF Sources
    <3> HIDE DEF id
    <3>6. \A u, w \in Targets :
            v_target_servicing'[u] # 0 /\ v_target_servicing'[u] = v_target_servicing'[w] => u = w
      BY <1>t, <3>1, <3>2 DEF Serviced
    <3>7. \A u \in Targets : v_target_servicing'[u] # 0 => v_reg_source_busy'[v_target_servicing'[u]]
      BY <1>t, <3>1, <3>2, <3>3, <3>4, <3>5 DEF Serviced
    <3>8. \A s \in Sources : v_reg_source_busy'[s] => \E u \in Targets : v_target_servicing'[u] = s
      <4> SUFFICES ASSUME NEW s \in Sources, v_reg_source_busy'[s]
                   PROVE  \E u \in Targets : v_target_servicing'[u] = s
        OBVIOUS
      <4>1. s # id /\ v_reg_source_busy[s]
        BY <3>4
      <4>2. PICK u \in Targets : v_target_servicing[u] = s
        BY <1>t, <4>1 DEF Serviced
      <4>3. u # t
        BY <4>1, <4>2 DEF id
      <4>. QED BY <3>1, <4>2, <4>3
    <3>. QED BY <3>6, <3>7, <3>8 DEF Serviced
  <2> HIDE DEF id
  <2>5. ASSUME NEW s \in Sources  PROVE Lives(s)'
    <3>1. s # 0 /\ v_reg_source_busy[s] \in BOOLEAN
      BY SMTT(30), <1>c DEF Sources
    <3>2. v_reg_source_busy'[s] = (s = 0 \/ (v_reg_source_busy[s] /\ s # id))
      BY <1>c, <2>1, <3>1
    <3>. QED BY <1>t, <2>1, <3>1, <3>2, ClockLives
  <2>. QED BY <2>3, <2>4, <2>5 DEF IInv
<1>7. CASE UNCHANGED vars
  BY <1>7 DEF vars, gateway, config, state, IInv, TypeOK, Serviced, Lives
<1>. QED BY <1>1, <1>2, <1>3, <1>4, <1>5, <1>6, <1>7 DEF Next

(* The invariant holds in every run.                                       *)
LEMMA Invariance == Spec => []IInv
  BY InitOK, StepOK, PTL DEF Spec

(* The registers hold what their widths admit.                             *)
THEOREM TypeCorrect == Spec => []TypeOK
<1>1. IInv => TypeOK
  BY DEF IInv
<1>. QED BY Invariance, <1>1, PTL

(* A source is busy exactly while one target services it: no interrupt is  *)
(* handled by two targets, none can be left that no target completes.      *)
THEOREM ServedByOne == Spec => []OneServer
<1>1. IInv => OneServer
  <2> SUFFICES ASSUME IInv, NEW s \in Sources
               PROVE  Cardinality({t \in Targets : v_target_servicing[t] = s})
                        = IF v_reg_source_busy[s] THEN 1 ELSE 0
    BY DEF OneServer
  <2> DEFINE T == {t \in Targets : v_target_servicing[t] = s}
  <2>0. s # 0 /\ Serviced
    BY DEF IInv, Sources
  <2>1. CASE v_reg_source_busy[s]
    <3>1. PICK t \in Targets : v_target_servicing[t] = s
      BY <2>0, <2>1 DEF Serviced
    <3>2. T = {t}
      BY <2>0, <3>1 DEF Serviced
    <3>. QED BY <2>1, <3>2, FS_Singleton
  <2>2. CASE ~v_reg_source_busy[s]
    <3>1. T = {}
      BY <2>0, <2>2 DEF Serviced
    <3>. QED BY <2>2, <3>1, FS_EmptySet
  <2>. QED BY <2>1, <2>2
<1>. QED BY Invariance, <1>1, PTL

(* Whatever is pending waits in its gateway and nobody has claimed it: a   *)
(* serviced interrupt does not become pending again by itself.             *)
THEOREM PendingUnclaimed == Spec => []PendingIsNew
<1>1. IInv => PendingIsNew
  BY DEF IInv, Lives, PendingIsNew
<1>. QED BY Invariance, <1>1, PTL

(* A gateway drops a request only when a target has claimed it.            *)
THEOREM KeptUntilClaimed == Spec => NoneIsLost
<1> DEFINE Kept == \A s \in Sources : latch[s] /\ ~latch'[s] => served[s]
<1>1. ASSUME IInv, NEW claimed, NEW completed, Clock(claimed, completed)  PROVE Kept
  <2> SUFFICES ASSUME NEW s \in Sources, latch[s], ~latch'[s]  PROVE served[s]
    OBVIOUS
  <2>1. ~irq(s)
    BY <1>1 DEF Clock
  <2>. QED BY <1>1, <2>1 DEF IInv, Lives, irq
<1>2. IInv /\ [Next]_vars => [Kept]_vars
  BY <1>1 DEF Next, Idle, SetPriority, SetEnables, SetThreshold, Claim, Complete
<1>3. Spec => [][Kept]_vars
  BY <1>2, Invariance, PTL DEF Spec
<1>. QED BY <1>3 DEF NoneIsLost

----------------------------------------------------------------------------
(* Numbers.                                                                *)
LEMMA NatInduct ==
  ASSUME NEW T, T \subseteq Nat, 0 \in T, \A n \in T : n + 1 \in T
  PROVE  \A n \in Nat : n \in T
<1> SUFFICES ASSUME Nat \ T # {} PROVE FALSE
  OBVIOUS
<1>1. PICK x \in Nat \ T : \A y \in Nat \ T : ~(<<y, x>> \in OpToRel(<, Nat))
  BY NatLessThanWellFounded, WFMin
<1>2. \A y \in Nat \ T : ~(y < x)
  BY <1>1 DEF OpToRel
<1>3. \A y \in Nat \ T : x <= y
  BY <1>2
<1>4. x # 0 /\ x - 1 \in Nat /\ x - 1 \in T
  BY <1>3
<1>5. (x - 1) + 1 \in T
  BY <1>4
<1>6. (x - 1) + 1 = x
  OBVIOUS
<1>. QED BY <1>5, <1>6

(* A power of two is the number of subsets of a set, so it doubles with    *)
(* each element.                                                           *)
LEMMA PowerIs == \A n \in Nat : 2 ^ n \in Nat /\ 2 ^ n > 0 /\ 2 ^ n = Cardinality(SUBSET (1 .. n))
                                  /\ IsFiniteSet(SUBSET (1 .. n))
<1> TAKE n \in Nat
<1>1. IsFiniteSet(1 .. n) /\ Cardinality(1 .. n) = n
  BY FS_Interval
<1>2. IsFiniteSet(SUBSET (1 .. n)) /\ Cardinality(SUBSET (1 .. n)) = 2 ^ n
  BY <1>1, FS_SUBSET
<1>3. Cardinality(SUBSET (1 .. n)) \in Nat
  BY <1>2, FS_CardinalityType
<1>4. {} \in SUBSET (1 .. n)
  OBVIOUS
<1>5. Cardinality(SUBSET (1 .. n)) # 0
  BY <1>2, <1>4, FS_EmptySet
<1>. QED BY <1>2, <1>3, <1>5

LEMMA PowerNext == \A n \in Nat : 2 ^ (n + 1) = 2 * 2 ^ n
<1> TAKE n \in Nat
<1> DEFINE S == SUBSET (1 .. n)
           T == {s \union {n + 1} : s \in S}
<1>1. ~(n + 1 \in 1 .. n) /\ 1 .. n + 1 = (1 .. n) \union {n + 1}
  OBVIOUS
<1>2. SUBSET (1 .. n + 1) = S \union T
  <2>1. ASSUME NEW x \in SUBSET (1 .. n + 1)  PROVE x \in S \union T
    <3>1. CASE n + 1 \in x
      <4>1. x = (x \ {n + 1}) \union {n + 1} /\ x \ {n + 1} \in S
        BY <1>1, <3>1
      <4>. QED BY <4>1
    <3>2. CASE ~(n + 1 \in x)
      BY <1>1, <3>2
    <3>. QED BY <3>1, <3>2
  <2>2. ASSUME NEW x \in S \union T  PROVE x \in SUBSET (1 .. n + 1)
    BY <1>1
  <2>. QED BY <2>1, <2>2
<1>3. S \cap T = {}
  BY <1>1
<1>4. ExistsBijection(S, T)
  <2> DEFINE f == [s \in S |-> s \union {n + 1}]
  <2>1. f \in [S -> T]
    OBVIOUS
  <2>2. \A s, t \in S : f[s] = f[t] => s = t
    <3> TAKE s, t \in S
    <3>1. s = (s \union {n + 1}) \ {n + 1} /\ t = (t \union {n + 1}) \ {n + 1}
      BY <1>1
    <3>. QED BY <3>1
  <2>3. \A x \in T : \E s \in S : f[s] = x
    OBVIOUS
  <2> HIDE DEF f, S, T
  <2>. QED BY <2>1, <2>2, <2>3 DEF ExistsBijection, Bijection, Injection, Surjection, IsInjective
<1>5. IsFiniteSet(S) /\ Cardinality(S) = 2 ^ n /\ 2 ^ n \in Nat
  BY PowerIs
<1>6. 2 ^ (n + 1) = Cardinality(SUBSET (1 .. n + 1))
  BY PowerIs
<1> HIDE DEF S, T
<1>7. IsFiniteSet(T) /\ Cardinality(T) = Cardinality(S)
  BY <1>4, <1>5, FS_Bijection
<1>8. Cardinality(S \union T) = Cardinality(S) + Cardinality(T) - Cardinality(S \cap T)
  BY <1>5, <1>7, FS_Union
<1>9. Cardinality(S \cap T) = 0
  BY <1>3, FS_EmptySet
<1>10. 2 ^ (n + 1) = Cardinality(S \union T)
  BY <1>2, <1>6
<1>11. PICK c \in Nat : c = 2 ^ n
  BY <1>5
<1>12. 2 ^ (n + 1) = c + c - 0
  BY <1>5, <1>7, <1>8, <1>9, <1>10, <1>11
<1>. QED BY <1>11, <1>12

LEMMA PowerMore == \A n \in Nat : n < 2 ^ n
<1> DEFINE T == {n \in Nat : n < 2 ^ n}
<1>1. 0 \in T
  <2>1. 2 ^ 0 = 1
    OBVIOUS
  <2>. QED BY <2>1
<1>2. ASSUME NEW n \in T  PROVE n + 1 \in T
  BY PowerNext, PowerIs
<1>3. T \subseteq Nat
  OBVIOUS
<1> HIDE DEF T
<1>4. \A n \in Nat : n \in T
  BY <1>1, <1>2, <1>3, NatInduct
<1>. QED BY <1>4 DEF T

LEMMA PowerSum == \A a, b \in Nat : 2 ^ (a + b) = 2 ^ a * 2 ^ b
<1> TAKE a \in Nat
<1> DEFINE T == {b \in Nat : 2 ^ (a + b) = 2 ^ a * 2 ^ b}
<1>1. 0 \in T
  <2>1. 2 ^ 0 = 1
    OBVIOUS
  <2>2. a + 0 = a
    OBVIOUS
  <2>3. PICK x \in Nat : x = 2 ^ a
    BY PowerIs
  <2>4. x * 1 = x
    OBVIOUS
  <2>. QED BY <2>1, <2>2, <2>3, <2>4
<1>2. ASSUME NEW b \in T  PROVE b + 1 \in T
  <2>1. b \in Nat /\ a + b \in Nat /\ 2 ^ (a + b) = 2 ^ a * 2 ^ b /\ (a + b) + 1 = a + (b + 1)
    OBVIOUS
  <2>2. 2 ^ ((a + b) + 1) = 2 * 2 ^ (a + b) /\ 2 ^ (b + 1) = 2 * 2 ^ b
    BY <2>1, PowerNext
  <2>3. PICK x \in Nat, y \in Nat : x = 2 ^ a /\ y = 2 ^ b
    BY <2>1, PowerIs
  <2>4. 2 * (x * y) = x * (2 * y)
    OBVIOUS
  <2>5. 2 ^ (a + (b + 1)) = 2 ^ a * 2 ^ (b + 1)
    BY <2>1, <2>2, <2>3, <2>4
  <2>. QED BY <2>1, <2>5
<1>3. T \subseteq Nat
  OBVIOUS
<1> HIDE DEF T
<1>4. \A b \in Nat : b \in T
  BY <1>1, <1>2, <1>3, NatInduct
<1>. QED BY <1>4 DEF T

(* What holds at 0 and passes to the next holds up to n.                   *)
LEMMA IndexInduction ==
  ASSUME NEW n \in Nat, NEW P, 0 \in P, \A i \in 1 .. n : i - 1 \in P => i \in P
  PROVE  \A i \in 0 .. n : i \in P
<1> DEFINE T == {i \in Nat : i <= n => i \in P}
<1>1. 0 \in T
  OBVIOUS
<1>2. ASSUME NEW i \in T  PROVE i + 1 \in T
  <2>1. (i + 1) - 1 = i /\ (i + 1 <= n => i + 1 \in 1 .. n /\ i \in P)
    OBVIOUS
  <2>. QED BY <2>1
<1>3. T \subseteq Nat
  OBVIOUS
<1> HIDE DEF T
<1>4. \A i \in Nat : i \in T
  BY <1>1, <1>2, <1>3, NatInduct
<1>. QED BY <1>4 DEF T

(* A function on 0 .. n can be defined from the value before.              *)
LEMMA Recursion ==
  ASSUME NEW n \in Nat, NEW b \in Int, NEW h \in [(0 .. n) \X Int -> Int]
  PROVE  \E f \in [0 .. n -> Int] : f[0] = b /\ \A i \in 1 .. n : f[i] = h[<<i, f[i - 1]>>]
<1> DEFINE OK(f, k) == f \in [0 .. k -> Int] /\ f[0] = b /\ \A i \in 1 .. k : f[i] = h[<<i, f[i - 1]>>]
           P == {k \in 0 .. n : \E f : OK(f, k)}
<1>1. 0 \in P
  <2> DEFINE f == [i \in 0 .. 0 |-> b]
  <2>1. f \in [0 .. 0 -> Int] /\ f[0] = b /\ 1 .. 0 = {} /\ 0 \in 0 .. n
    OBVIOUS
  <2> HIDE DEF f
  <2>2. OK(f, 0)
    BY <2>1
  <2>. QED BY <2>1, <2>2
<1>2. ASSUME NEW k \in 1 .. n, k - 1 \in P  PROVE k \in P
  <2>1. PICK f : OK(f, k - 1)
    BY <1>2
  <2> DEFINE g == [i \in 0 .. k |-> IF i = k THEN h[<<k, f[k - 1]>>] ELSE f[i]]
  <2>2. f[k - 1] \in Int /\ k \in 0 .. n
    BY <2>1
  <2>3. h[<<k, f[k - 1]>>] \in Int
    BY <2>2
  <2>4. g \in [0 .. k -> Int]
    <3> SUFFICES ASSUME NEW i \in 0 .. k  PROVE g[i] \in Int
      OBVIOUS
    <3>. QED BY <2>1, <2>3
  <2>5. g[0] = b
    BY <2>1
  <2>6. ASSUME NEW i \in 1 .. k  PROVE g[i] = h[<<i, g[i - 1]>>]
    <3>1. i - 1 \in 0 .. k /\ i - 1 # k /\ i \in 0 .. k
      OBVIOUS
    <3>2. g[i - 1] = f[i - 1]
      BY <3>1
    <3>3. CASE i = k
      BY <3>1, <3>2, <3>3
    <3>4. CASE i # k
      <4>1. i \in 1 .. k - 1
        BY <3>4
      <4>2. f[i] = h[<<i, f[i - 1]>>]
        BY <2>1, <4>1
      <4>. QED BY <3>1, <3>2, <3>4, <4>2
    <3>. QED BY <3>3, <3>4
  <2> HIDE DEF g
  <2>7. OK(g, k)
    BY <2>4, <2>5, <2>6
  <2>. QED BY <2>7
<1> HIDE DEF P
<1>3. n \in P
  BY <1>1, <1>2, IndexInduction
<1>. QED BY <1>3 DEF P

----------------------------------------------------------------------------
(* The words of the core.                                                  *)
LEMMA CoreSizes ==
  /\ LOGN \in Nat /\ LOGN > 0 /\ Q \in Nat /\ Q > 1 /\ DATA_WIDTH \in Nat /\ ROOT \in Int
  /\ Inputs \subseteq [C!Idx -> C!Word]
  /\ C!N \in Nat /\ C!N > LOGN /\ 0 \in C!Idx /\ 0 \in C!Word
<1>1. /\ LOGN \in Nat /\ LOGN > 0 /\ Q \in Nat /\ Q > 1 /\ DATA_WIDTH \in Nat /\ ROOT \in Int
      /\ Inputs \subseteq [C!Idx -> C!Word]
  BY CoreAssumption DEF C!CoreConstants
<1>2. C!N \in Nat /\ C!N > LOGN
  BY <1>1, PowerIs, PowerMore DEF C!N
<1>3. PICK p \in Nat : p = 2 ^ DATA_WIDTH /\ p > 0
  BY <1>1, PowerIs
<1>4. 0 \in C!Word
  BY <1>3 DEF C!Word
<1>5. PICK n \in Nat : n = C!N /\ n > LOGN
  BY <1>2
<1>6. 0 \in C!Idx
  BY <1>1, <1>5 DEF C!Idx
<1>. QED BY <1>1, <1>2, <1>4, <1>6

LEMMA Truncated ==
  /\ \A x \in Int, w \in Nat : C!Trunc(x, w) \in Nat
  /\ \A x \in Int : C!Trunc(x, DATA_WIDTH) \in C!Word
  /\ \A x \in 0 .. C!N - 1 : C!Trunc(x, LOGN) = x
<1>1. ASSUME NEW x \in Int, NEW w \in Nat  PROVE C!Trunc(x, w) \in 0 .. 2 ^ w - 1
  <2>1. PICK p \in Nat : p = 2 ^ w /\ p > 0
    BY PowerIs
  <2>2. x % p \in 0 .. p - 1
    BY <2>1
  <2>. QED BY <2>1, <2>2 DEF C!Trunc
<1>2. ASSUME NEW x \in 0 .. C!N - 1  PROVE C!Trunc(x, LOGN) = x
  <2>1. PICK p \in Nat : p = 2 ^ LOGN /\ p > 0
    BY CoreSizes, PowerIs
  <2>2. x \in 0 .. p - 1
    BY <2>1 DEF C!N
  <2>3. x % p = x
    BY <2>1, <2>2
  <2>. QED BY <2>1, <2>3 DEF C!Trunc
<1>3. ASSUME NEW x \in Int, NEW w \in Nat  PROVE C!Trunc(x, w) \in Nat
  <2>1. 2 ^ w \in Nat
    BY PowerIs
  <2>. QED BY <1>1, <2>1
<1>. QED BY <1>1, <1>2, <1>3, CoreSizes DEF C!Word

LEMMA Arithmetic ==
  ASSUME NEW a \in Int, NEW b \in Int
  PROVE  C!modmul(a, b) \in C!Word /\ C!modadd(a, b) \in C!Word /\ C!modsub(a, b) \in C!Word
<1>1. DATA_WIDTH \in Nat /\ Q \in Nat /\ Q > 1
  BY CoreSizes
<1>2. 2 * DATA_WIDTH \in Nat /\ DATA_WIDTH + 1 \in Nat
  BY <1>1
<1>3. a * b \in Int /\ a + b \in Int /\ a - b \in Int
  OBVIOUS
<1>4. C!modmul(a, b) \in C!Word
  <2>1. PICK m \in Nat : m = C!Trunc(a * b, 2 * DATA_WIDTH)
    BY <1>2, <1>3, Truncated
  <2>2. m % Q \in Int
    BY <1>1
  <2>3. C!Trunc(m % Q, DATA_WIDTH) \in C!Word
    BY <2>2, Truncated
  <2>. QED BY <2>1, <2>3 DEF C!modmul
<1>5. C!modadd(a, b) \in C!Word
  <2>1. PICK m \in Nat : m = C!Trunc(a + b, DATA_WIDTH + 1)
    BY <1>2, <1>3, Truncated
  <2>2. (IF m >= Q THEN m - Q ELSE m) \in Int
    BY <1>1
  <2>3. C!Trunc(IF m >= Q THEN m - Q ELSE m, DATA_WIDTH) \in C!Word
    BY <2>2, Truncated
  <2>. QED BY <2>1, <2>3 DEF C!modadd
<1>6. C!modsub(a, b) \in C!Word
  <2>1. PICK m \in Nat : m = C!Trunc(a - b, DATA_WIDTH + 1)
    BY <1>2, <1>3, Truncated
  <2>2. PICK p \in Nat : p = 2 ^ DATA_WIDTH
    BY <1>1, PowerIs
  <2>3. (IF m >= p THEN m + Q ELSE m) \in Int
    BY <1>1
  <2>4. C!Trunc(IF m >= p THEN m + Q ELSE m, DATA_WIDTH) \in C!Word
    BY <2>3, Truncated
  <2>. QED BY <2>1, <2>2, <2>4 DEF C!modsub
<1>. QED BY <1>4, <1>5, <1>6

LEMMA WordsAreInt == \A x \in C!Word : x \in Nat /\ x \in Int
<1>1. PICK p \in Nat : p = 2 ^ DATA_WIDTH
  BY CoreSizes, PowerIs
<1>. QED BY <1>1 DEF C!Word

(* The twiddle factors are computed one from the other.                    *)
LEMMA TwiddleIs ==
  /\ \A k \in C!Idx : C!twiddle[k] \in Int
  /\ C!twiddle[0] = 1
  /\ \A k \in 1 .. C!N - 1 : C!twiddle[k] = C!modmul(C!twiddle[k - 1], ROOT)
<1>1. PICK n \in Nat : n = C!N - 1 /\ C!Idx = 0 .. n
  <2>1. C!N - 1 \in Nat
    BY CoreSizes
  <2>. QED BY <2>1 DEF C!Idx
<1> DEFINE h == [p \in (0 .. n) \X Int |-> C!modmul(p[2], ROOT)]
           Eq(f) == f = [k \in C!Idx |-> IF k = 0 THEN 1 ELSE C!modmul(f[k - 1], ROOT)]
<1>2. \A x \in Int : C!modmul(x, ROOT) \in Int
  BY Arithmetic, WordsAreInt, CoreSizes
<1>3. h \in [(0 .. n) \X Int -> Int]
  BY <1>2
<1>4. PICK f \in [0 .. n -> Int] : f[0] = 1 /\ \A i \in 1 .. n : f[i] = h[<<i, f[i - 1]>>]
  <2>1. 1 \in Int
    OBVIOUS
  <2> HIDE DEF h
  <2>. QED BY <1>3, <2>1, Recursion
<1>5. \A i \in 1 .. n : f[i] = C!modmul(f[i - 1], ROOT)
  <2> TAKE i \in 1 .. n
  <2>1. <<i, f[i - 1]>> \in (0 .. n) \X Int
    BY <1>4
  <2>. QED BY <1>4, <2>1
<1>6. Eq(f)
  BY <1>1, <1>4, <1>5
<1>7. Eq(C!twiddle)
  <2>1. C!twiddle = CHOOSE t : Eq(t)
    BY DEF C!twiddle
  <2> HIDE DEF Eq
  <2>. QED BY <1>6, <2>1
<1>8. PICK t : t = C!twiddle
  OBVIOUS
<1>9. t[0] = 1 /\ \A k \in 1 .. n : t[k] = C!modmul(t[k - 1], ROOT)
  BY <1>1, <1>7, <1>8
<1> DEFINE P == {k \in 0 .. n : t[k] \in Int}
<1>10. 0 \in P /\ \A k \in 1 .. n : k - 1 \in P => k \in P
  <2>1. 0 \in P
    BY <1>9
  <2>2. ASSUME NEW k \in 1 .. n, k - 1 \in P  PROVE k \in P
    <3>1. t[k - 1] \in Int
      BY <2>2
    <3>2. t[k] \in Int
      BY <1>2, <1>9, <3>1
    <3>. QED BY <3>2
  <2>. QED BY <2>1, <2>2
<1> HIDE DEF P
<1>11. \A k \in 0 .. n : k \in P
  BY <1>10, IndexInduction
<1>12. \A k \in C!Idx : t[k] \in Int
  BY <1>1, <1>11 DEF P
<1>. QED BY <1>1, <1>8, <1>9, <1>12

(* A reversed index is an index.                                           *)
LEMMA BitOfIndex ==
  ASSUME NEW val \in Nat, NEW i \in Nat, i > 0
  PROVE  (val \div 2 ^ (i - 1)) % 2 \in {0, 1}
<1>1. i - 1 \in Nat
  OBVIOUS
<1>2. PICK p \in Nat : p = 2 ^ (i - 1) /\ p > 0
  BY <1>1, PowerIs
<1>3. val \div p \in Int
  BY <1>2
<1>4. PICK q \in Int : q = val \div p
  BY <1>3
<1>5. q % 2 \in {0, 1}
  OBVIOUS
<1>. QED BY <1>2, <1>4, <1>5

LEMMA ReversedBits ==
  ASSUME NEW val \in C!Idx
  PROVE  \E t : /\ C!bit_reverse(val) = t[LOGN] /\ t[0] = 0
                /\ \A i \in 0 .. LOGN : t[i] \in 0 .. 2 ^ i - 1
                /\ \A i \in 1 .. LOGN : t[i] = 2 * t[i - 1] + ((val \div 2 ^ (i - 1)) % 2)
<1> DEFINE bit == [k \in 0 .. LOGN |-> IF k = 0 THEN 0 ELSE (val \div 2 ^ (k - 1)) % 2]
           h == [p \in (0 .. LOGN) \X Int |-> 2 * p[2] + bit[p[1]]]
           Eq(f) == f = [i \in 0 .. LOGN |->
                           IF i = 0 THEN 0 ELSE 2 * f[i - 1] + ((val \div 2 ^ (i - 1)) % 2)]
<1>1. val \in Nat /\ LOGN \in Nat
  <2>1. PICK n \in Nat : n = C!N
    BY CoreSizes
  <2>. QED BY <2>1, CoreSizes DEF C!Idx
<1>2. \A k \in 1 .. LOGN : bit[k] \in {0, 1} /\ bit[k] = (val \div 2 ^ (k - 1)) % 2
  <2> TAKE k \in 1 .. LOGN
  <2>1. k \in Nat /\ k > 0 /\ k \in 0 .. LOGN
    BY <1>1
  <2>2. (val \div 2 ^ (k - 1)) % 2 \in {0, 1}
    BY <1>1, <2>1, BitOfIndex
  <2>. QED BY <2>1, <2>2
<1>3. bit[0] = 0
  BY <1>1
<1> HIDE DEF bit
<1>4. h \in [(0 .. LOGN) \X Int -> Int]
  <2>1. ASSUME NEW p \in (0 .. LOGN) \X Int  PROVE 2 * p[2] + bit[p[1]] \in Int
    <3>1. p[1] \in 0 .. LOGN /\ p[2] \in Int
      OBVIOUS
    <3>2. p[1] = 0 \/ p[1] \in 1 .. LOGN
      BY <1>1, <3>1
    <3>3. bit[p[1]] \in Int
      BY <1>2, <1>3, <3>2
    <3>. QED BY <3>1, <3>3
  <2>. QED BY <2>1
<1>5. PICK f \in [0 .. LOGN -> Int] : f[0] = 0 /\ \A i \in 1 .. LOGN : f[i] = h[<<i, f[i - 1]>>]
  <2>1. 0 \in Int
    OBVIOUS
  <2> HIDE DEF h
  <2>. QED BY <1>1, <1>4, <2>1, Recursion
<1>6. \A i \in 1 .. LOGN : f[i] = 2 * f[i - 1] + bit[i]
  <2> TAKE i \in 1 .. LOGN
  <2>1. <<i, f[i - 1]>> \in (0 .. LOGN) \X Int
    BY <1>1, <1>5
  <2>2. h[<<i, f[i - 1]>>] = 2 * f[i - 1] + bit[i]
    BY <2>1
  <2>. QED BY <1>5, <2>2
<1>7. Eq(f)
  <2>1. ASSUME NEW i \in 0 .. LOGN
        PROVE  f[i] = IF i = 0 THEN 0 ELSE 2 * f[i - 1] + ((val \div 2 ^ (i - 1)) % 2)
    <3>1. CASE i = 0
      BY <1>5, <3>1
    <3>2. CASE i # 0
      <4>1. i \in 1 .. LOGN
        BY <1>1, <3>2
      <4>. QED BY <1>2, <1>6, <3>2, <4>1
    <3>. QED BY <3>1, <3>2
  <2>. QED BY <1>5, <2>1
<1>8. PICK t : t = CHOOSE r : Eq(r)
  OBVIOUS
<1>9. Eq(t)
  <2> HIDE DEF Eq
  <2>. QED BY <1>7, <1>8
<1>10. C!bit_reverse(val) = t[LOGN]
  BY <1>8 DEF C!bit_reverse
<1> DEFINE P == {i \in 0 .. LOGN : t[i] \in 0 .. 2 ^ i - 1}
<1>11. 0 \in P
  <2>1. t[0] = 0
    BY <1>1, <1>9
  <2>2. PICK p \in Nat : p = 2 ^ 0 /\ p > 0
    BY PowerIs
  <2>3. t[0] \in 0 .. 2 ^ 0 - 1
    BY <2>1, <2>2
  <2>. QED BY <1>1, <2>3
<1>12. ASSUME NEW e \in 1 .. LOGN, e - 1 \in P  PROVE e \in P
  <2>1. e \in 0 .. LOGN /\ e # 0 /\ e - 1 \in Nat /\ (e - 1) + 1 = e
    BY <1>1
  <2>2. PICK p \in Nat : p = 2 ^ (e - 1)
    BY <2>1, PowerIs
  <2>3. 2 ^ e = 2 * p
    BY <2>1, <2>2, PowerNext
  <2>4. PICK b \in 0 .. p - 1 : b = t[e - 1]
    BY <1>12, <2>2
  <2>5. PICK c \in {0, 1} : c = bit[e]
    BY <1>2
  <2>6. t[e] = 2 * t[e - 1] + ((val \div 2 ^ (e - 1)) % 2)
    BY <1>9, <2>1
  <2>7. t[e] = 2 * b + c
    BY <1>2, <2>4, <2>5, <2>6
  <2>8. 2 * b + c \in 0 .. 2 * p - 1
    OBVIOUS
  <2>. QED BY <2>1, <2>3, <2>7, <2>8
<1> HIDE DEF P
<1>13. \A i \in 0 .. LOGN : i \in P
  BY <1>1, <1>11, <1>12, IndexInduction
<1>14. t[0] = 0 /\ \A i \in 1 .. LOGN : t[i] = 2 * t[i - 1] + ((val \div 2 ^ (i - 1)) % 2)
  BY <1>1, <1>9
<1>15. \A i \in 0 .. LOGN : t[i] \in 0 .. 2 ^ i - 1
  BY <1>13 DEF P
<1>. QED BY <1>10, <1>14, <1>15

LEMMA ReversedIsIndex ==
  ASSUME NEW val \in C!Idx
  PROVE  C!bit_reverse(val) \in C!Idx
<1>1. PICK t : C!bit_reverse(val) = t[LOGN] /\ \A i \in 0 .. LOGN : t[i] \in 0 .. 2 ^ i - 1
  BY ReversedBits
<1>2. LOGN \in 0 .. LOGN
  BY CoreSizes
<1>. QED BY <1>1, <1>2 DEF C!Idx, C!N

----------------------------------------------------------------------------
(* The butterflies of a stage: groups of two halves of M words.            *)
LEMMA ExactDivision ==
  ASSUME NEW d \in Nat, NEW g \in Nat, d > 0
  PROVE  (g * d) \div d = g
<1>1. PICK n \in Nat : n = g * d
  OBVIOUS
<1>2. PICK q \in Int, r \in Int : q = n \div d /\ r = n % d /\ n = d * q + r /\ 0 <= r /\ r < d
  OBVIOUS
<1>3. d * (g - q) = r
  BY <1>1, <1>2
<1>4. PICK e \in Int : e = g - q
  OBVIOUS
<1>5. d * e = r
  BY <1>3, <1>4
<1>6. CASE e >= 1
  <2>1. d * e >= d
    BY <1>6
  <2>. QED BY <1>2, <1>5, <2>1
<1>7. CASE e <= -1
  <2>1. d * e <= -d
    BY <1>7
  <2>. QED BY <1>2, <1>5, <2>1
<1>8. CASE e = 0
  BY <1>1, <1>2, <1>4, <1>8
<1>. QED BY <1>6, <1>7, <1>8

LEMMA HalvesOf ==
  ASSUME NEW st \in 0 .. LOGN - 1
  PROVE  \E m \in Nat, g \in Nat :
           /\ 2 ^ st = m /\ m > 0 /\ 2 ^ (LOGN - st - 1) = g /\ g > 0
           /\ C!N = g * (2 * m) /\ C!N \div (2 * m) = g /\ m <= C!N /\ g <= C!N
<1>1. st \in Nat /\ LOGN \in Nat /\ LOGN - st - 1 \in Nat
  BY CoreSizes
<1>2. PICK m \in Nat : m = 2 ^ st /\ m > 0
  BY <1>1, PowerIs
<1>3. PICK a \in Nat : a = LOGN - st - 1
  BY <1>1
<1>4. PICK g \in Nat : g = 2 ^ a /\ g > 0
  BY PowerIs
<1>5. 2 ^ (st + 1) = 2 * m
  BY <1>1, <1>2, PowerNext
<1>6. a + (st + 1) = LOGN /\ st + 1 \in Nat
  BY <1>1, <1>3
<1>7. 2 ^ LOGN = g * (2 * m)
  BY <1>4, <1>5, <1>6, PowerSum
<1>8. C!N = g * (2 * m)
  BY <1>7 DEF C!N
<1>9. (g * (2 * m)) \div (2 * m) = g
  <2>1. PICK d \in Nat : d = 2 * m /\ d > 0
    BY <1>2
  <2>. QED BY <2>1, ExactDivision
<1>10. m <= g * (2 * m) /\ g <= g * (2 * m)
  BY <1>2, <1>4
<1>. QED BY <1>2, <1>3, <1>4, <1>8, <1>9, <1>10

LEMMA Halves ==
  ASSUME stage \in 0 .. LOGN - 1
  PROVE  \E m \in Nat, g \in Nat :
           /\ C!M = m /\ m > 0 /\ C!Groups = g /\ g > 0 /\ C!N = g * (2 * m) /\ m <= C!N /\ g <= C!N
<1>1. PICK m \in Nat, g \in Nat :
           /\ 2 ^ stage = m /\ m > 0 /\ g > 0
           /\ C!N = g * (2 * m) /\ C!N \div (2 * m) = g /\ m <= C!N /\ g <= C!N
  BY HalvesOf
<1>. QED BY <1>1 DEF C!M, C!Groups

(* Every counter of a stage stays below its bound.                         *)
Working == butterfly < C!M /\ group < C!Groups

LEMMA InsideArrays ==
  ASSUME stage \in 0 .. LOGN - 1, butterfly \in Nat, group \in Nat, Working
  PROVE  C!idx1 \in C!Idx /\ C!idx2 \in C!Idx /\ C!twiddle_idx \in C!Idx
<1>1. PICK m \in Nat, g \in Nat :
        C!M = m /\ m > 0 /\ C!Groups = g /\ g > 0 /\ C!N = g * (2 * m) /\ m <= C!N /\ g <= C!N
  BY Halves
<1>2. PICK n \in Nat : n = C!N /\ n > 0
  BY CoreSizes
<1>3. PICK b \in Nat, c \in Nat : b = butterfly /\ c = group /\ b < m /\ c < g
  BY <1>1 DEF Working
<1>4. c * 2 * m + b \in 0 .. n - 1 /\ c * 2 * m + b + m \in 0 .. n - 1
  <2>1. PICK d \in Nat : d = 2 * m /\ b + m < d
    BY <1>3
  <2>2. c * 2 * m = c * d
    BY <2>1
  <2>3. c * d + d <= g * d
    <3>1. PICK e \in Nat : g = c + 1 + e
      <4>1. g - c - 1 \in Nat
        BY <1>3
      <4>. QED BY <4>1
    <3>2. g * d = c * d + d + e * d
      BY <3>1
    <3>3. e * d >= 0
      OBVIOUS
    <3>. QED BY <3>2, <3>3
  <2>4. n = g * d
    BY <1>1, <1>2, <2>1
  <2>5. PICK x \in Nat : x = c * d
    OBVIOUS
  <2>6. x + b + m < n
    BY <2>1, <2>3, <2>4, <2>5
  <2>. QED BY <2>2, <2>5, <2>6
<1>5. b * g \in 0 .. n - 1
  <2>1. PICK e \in Nat : m = b + 1 + e
    <3>1. m - b - 1 \in Nat
      BY <1>3
    <3>. QED BY <3>1
  <2>2. n = 2 * (g * m)
    BY <1>1, <1>2
  <2>3. g * m = b * g + g + e * g
    BY <2>1
  <2>4. PICK x \in Nat, y \in Nat : x = b * g /\ y = e * g
    OBVIOUS
  <2>. QED BY <1>1, <2>2, <2>3, <2>4
<1>6. C!idx1 = c * 2 * m + b /\ C!idx2 = c * 2 * m + b + m
  BY <1>1, <1>3 DEF C!idx1, C!idx2
<1>7. C!twiddle_idx = IF inverse THEN (n - b * g) % n ELSE b * g
  BY <1>1, <1>2, <1>3 DEF C!twiddle_idx
<1>8. (n - b * g) % n \in 0 .. n - 1
  <2>1. PICK x \in Int : x = n - b * g
    OBVIOUS
  <2>2. x % n \in 0 .. n - 1
    BY <1>2
  <2>. QED BY <2>1, <2>2
<1>. QED BY <1>2, <1>4, <1>5, <1>6, <1>7, <1>8 DEF C!Idx

----------------------------------------------------------------------------
(* The core between two clock edges: the counters are those of a butterfly *)
(* that exists, and `done' is high only while the core is idle.            *)
CoreInv ==
  /\ fsm \in 0 .. 4 /\ stage \in 0 .. LOGN /\ done \in BOOLEAN /\ inverse \in BOOLEAN
  /\ butterfly \in Nat /\ group \in Nat
  /\ mem \in [C!Idx -> C!Word] /\ data_out \in [C!Idx -> C!Word] /\ given \in [C!Idx -> C!Word]
  /\ fsm \in {1, 2} /\ stage < LOGN => Working
  /\ done => fsm = 0

(* The first butterfly of a stage exists.                                  *)
LEMMA FirstExists == ASSUME stage \in 0 .. LOGN - 1, butterfly = 0, group = 0  PROVE Working
  BY Halves DEF Working

LEMMA ZeroIsVector == C!Zero \in [C!Idx -> C!Word]
  BY CoreSizes DEF C!Zero

LEMMA CoreInitOK == C!Init => CoreInv
<1> SUFFICES ASSUME C!Init PROVE CoreInv
  OBVIOUS
<1>1. stage \in 0 .. LOGN
  BY CoreSizes DEF C!Init
<1>2. fsm = 0 /\ ~done /\ done \in BOOLEAN /\ inverse \in BOOLEAN
  BY DEF C!Init
<1>3. fsm \in 0 .. 4 /\ ~(fsm \in {1, 2}) /\ butterfly \in Nat /\ group \in Nat
  BY DEF C!Init
<1>4. mem \in [C!Idx -> C!Word] /\ data_out \in [C!Idx -> C!Word] /\ given \in [C!Idx -> C!Word]
  BY ZeroIsVector DEF C!Init
<1>. QED BY <1>1, <1>2, <1>3, <1>4 DEF CoreInv

(* The counters go through the butterflies of a group, the groups of a     *)
(* stage and the stages.                                                   *)
LEMMA AdvanceIs ==
  ASSUME CoreInv, fsm = 2, stage # LOGN, C!Advance
  PROVE  \/ butterfly < C!M - 1 /\ butterfly' = butterfly + 1 /\ group' = group /\ stage' = stage
         \/ /\ butterfly + 1 = C!M /\ group < C!Groups - 1
            /\ butterfly' = 0 /\ group' = group + 1 /\ stage' = stage
         \/ /\ butterfly + 1 = C!M /\ group + 1 = C!Groups
            /\ butterfly' = 0 /\ group' = 0 /\ stage' = stage + 1
<1>1. stage \in 0 .. LOGN - 1 /\ butterfly \in Nat /\ group \in Nat /\ Working
  BY CoreSizes DEF CoreInv
<1>2. PICK m \in Nat, g \in Nat :
        C!M = m /\ m > 0 /\ C!Groups = g /\ g > 0 /\ C!N = g * (2 * m) /\ m <= C!N /\ g <= C!N
  BY <1>1, Halves
<1>3. PICK n \in Nat : n = C!N /\ n > LOGN
  BY CoreSizes
<1>4. butterfly < m /\ group < g
  BY <1>1, <1>2 DEF Working
<1>5. CASE butterfly < m - 1
  <2>1. butterfly + 1 \in 0 .. n - 1
    BY <1>1, <1>2, <1>3, <1>5
  <2>. QED BY <1>2, <1>3, <1>5, <2>1, Truncated DEF C!Advance
<1>6. CASE ~(butterfly < m - 1) /\ group < g - 1
  <2>1. group + 1 \in 0 .. n - 1 /\ butterfly + 1 = m
    BY <1>1, <1>2, <1>3, <1>4, <1>6
  <2>. QED BY <1>2, <1>3, <1>6, <2>1, Truncated DEF C!Advance
<1>7. CASE ~(butterfly < m - 1) /\ ~(group < g - 1)
  <2>1. stage + 1 \in 0 .. n - 1 /\ butterfly + 1 = m /\ group + 1 = g
    BY <1>1, <1>2, <1>3, <1>4, <1>7, CoreSizes
  <2>. QED BY <1>2, <1>3, <1>7, <2>1, Truncated DEF C!Advance
<1>. QED BY <1>5, <1>6, <1>7

LEMMA AdvanceOK ==
  ASSUME CoreInv, fsm = 2, stage # LOGN, C!Advance
  PROVE  /\ stage' \in 0 .. LOGN /\ butterfly' \in Nat /\ group' \in Nat
         /\ stage' < LOGN => Working'
<1>1. stage \in 0 .. LOGN - 1 /\ butterfly \in Nat /\ group \in Nat /\ Working
  BY CoreSizes DEF CoreInv
<1>2. PICK m \in Nat, g \in Nat :
        C!M = m /\ m > 0 /\ C!Groups = g /\ g > 0 /\ C!N = g * (2 * m) /\ m <= C!N /\ g <= C!N
  BY <1>1, Halves
<1>3. stage' = stage => C!M' = m /\ C!Groups' = g
  BY <1>2 DEF C!M, C!Groups
<1>4. CASE butterfly < m - 1 /\ butterfly' = butterfly + 1 /\ group' = group /\ stage' = stage
  <2>1. Working'
    BY <1>1, <1>2, <1>3, <1>4 DEF Working
  <2>. QED BY <1>1, <1>4, <2>1, CoreSizes
<1>5. CASE group < g - 1 /\ butterfly' = 0 /\ group' = group + 1 /\ stage' = stage
  <2>1. Working'
    BY <1>1, <1>2, <1>3, <1>5 DEF Working
  <2>. QED BY <1>1, <1>5, <2>1, CoreSizes
<1>6. CASE butterfly' = 0 /\ group' = 0 /\ stage' = stage + 1
  <2>1. stage + 1 \in 0 .. LOGN
    BY <1>1, CoreSizes
  <2>2. ASSUME stage' < LOGN  PROVE Working'
    <3>1. stage' \in 0 .. LOGN - 1
      BY <1>6, <2>1, <2>2, CoreSizes
    <3>2. (stage \in 0 .. LOGN - 1 /\ butterfly = 0 /\ group = 0 => Working)'
      BY FirstExists, PTL
    <3>. QED BY <1>6, <3>1, <3>2
  <2>. QED BY <1>6, <2>1, <2>2
<1>. QED BY <1>2, <1>4, <1>5, <1>6, AdvanceIs

LEMMA CoreStepOK == CoreInv /\ [C!Next]_(C!vars) => CoreInv'
<1> SUFFICES ASSUME CoreInv, [C!Next]_(C!vars)  PROVE CoreInv'
  OBVIOUS
<1>1. CASE C!Reset
  <2>1. stage' \in 0 .. LOGN
    BY <1>1, CoreSizes DEF C!Reset
  <2>2. fsm' = 0 /\ ~done' /\ done' \in BOOLEAN /\ inverse' \in BOOLEAN
    BY <1>1 DEF C!Reset, CoreInv
  <2>3. fsm' \in 0 .. 4 /\ ~(fsm' \in {1, 2}) /\ butterfly' \in Nat /\ group' \in Nat
    BY <1>1 DEF C!Reset
  <2>4. mem' \in [C!Idx -> C!Word] /\ data_out' \in [C!Idx -> C!Word] /\ given' \in [C!Idx -> C!Word]
    BY <1>1, ZeroIsVector DEF C!Reset, CoreInv
  <2>. QED BY <2>1, <2>2, <2>3, <2>4 DEF CoreInv
<1>2. ASSUME NEW start \in BOOLEAN, C!Idle(start)  PROVE CoreInv'
  <2>1. /\ done' = FALSE /\ done' \in BOOLEAN /\ inverse' \in BOOLEAN
        /\ mem' \in [C!Idx -> C!Word] /\ data_out' \in [C!Idx -> C!Word] /\ given' \in [C!Idx -> C!Word]
    BY <1>2 DEF C!Idle, CoreInv
  <2>2. CASE start
    <3>1. stage' \in 0 .. LOGN /\ stage' = 0 /\ butterfly' = 0 /\ group' = 0 /\ fsm' = 1
      BY <1>2, <2>2, CoreSizes DEF C!Idle
    <3>2. (stage \in 0 .. LOGN - 1 /\ butterfly = 0 /\ group = 0 => Working)'
      BY FirstExists, PTL
    <3>3. stage' \in 0 .. LOGN - 1
      BY <3>1, CoreSizes
    <3>4. fsm' \in 0 .. 4 /\ butterfly' \in Nat /\ group' \in Nat
      BY <3>1
    <3>. QED BY <2>1, <3>1, <3>2, <3>3, <3>4 DEF CoreInv
  <2>3. CASE ~start
    <3>1. fsm = 0 /\ fsm' = fsm /\ stage' = stage /\ group' = group /\ butterfly' = butterfly
      BY <1>2, <2>3 DEF C!Idle, C!ctl
    <3>2. fsm' \in 0 .. 4 /\ ~(fsm' \in {1, 2}) /\ stage' \in 0 .. LOGN
          /\ butterfly' \in Nat /\ group' \in Nat
      BY <3>1 DEF CoreInv
    <3>. QED BY <2>1, <3>2 DEF CoreInv
  <2>. QED BY <2>2, <2>3
<1>3. CASE C!Load
  <2>1. mem' \in [C!Idx -> C!Word]
    BY <1>3, CoreSizes DEF C!Load, CoreInv
  <2>2. Working => Working'
    BY <1>3 DEF C!Load, Working, C!M, C!Groups
  <2>. QED BY <1>3, <2>1, <2>2 DEF C!Load, CoreInv
<1>4. CASE C!Butterfly
  <2>1. /\ stage' \in 0 .. LOGN /\ butterfly' \in Nat /\ group' \in Nat
        /\ stage' < LOGN => Working'
    BY <1>4, AdvanceOK DEF C!Butterfly
  <2>2. mem' \in [C!Idx -> C!Word]
    <3>1. C!idx1 \in C!Idx /\ C!idx2 \in C!Idx /\ C!twiddle_idx \in C!Idx
      <4>1. stage \in 0 .. LOGN - 1 /\ butterfly \in Nat /\ group \in Nat /\ Working
        BY <1>4, CoreSizes DEF C!Butterfly, CoreInv
      <4>. QED BY <4>1, InsideArrays
    <3>2. PICK u \in Int, w \in Int, k \in Int :
            u = mem[C!idx1] /\ w = mem[C!idx2] /\ k = C!twiddle[C!twiddle_idx]
      <4>1. mem[C!idx1] \in C!Word /\ mem[C!idx2] \in C!Word
        BY <3>1 DEF CoreInv
      <4>2. C!twiddle[C!twiddle_idx] \in Int
        BY <3>1, TwiddleIs
      <4>. QED BY <4>1, <4>2, WordsAreInt
    <3>3. PICK v \in Int : v = C!modmul(w, k)
      BY Arithmetic, WordsAreInt
    <3>4. PICK x \in C!Word, y \in C!Word : x = C!modadd(u, v) /\ y = C!modsub(u, v)
      BY Arithmetic
    <3>5. mem' = [mem EXCEPT ![C!idx1] = x, ![C!idx2] = y]
      BY <1>4, <3>2, <3>3, <3>4 DEF C!Butterfly
    <3>. QED BY <3>1, <3>5 DEF CoreInv
  <2>. QED BY <1>4, <2>1, <2>2 DEF C!Butterfly, CoreInv
<1>5. CASE C!StagesDone
  BY <1>5 DEF C!StagesDone, CoreInv
<1>6. CASE C!Scale
  <2>1. \A k \in C!Idx : C!modmul(mem[k], C!N_INV) \in C!Word
    <3>1. C!N_INV \in Int
      BY CoreAssumption DEF C!CoreConstants
    <3>2. \A k \in C!Idx : mem[k] \in Int
      BY WordsAreInt DEF CoreInv
    <3>. QED BY <3>1, <3>2, Arithmetic
  <2>. QED BY <1>6, <2>1 DEF C!Scale, CoreInv
<1>7. CASE C!Store
  <2>1. \A k \in C!Idx : mem[C!bit_reverse(k)] \in C!Word
    BY ReversedIsIndex DEF CoreInv
  <2>2. data_out' \in [C!Idx -> C!Word]
    BY <1>7, <2>1 DEF C!Store
  <2>. QED BY <1>7, <2>2 DEF C!Store, CoreInv
<1>8. CASE UNCHANGED C!vars
  BY <1>8 DEF C!vars, C!ctl, CoreInv, Working, C!M, C!Groups
<1>. QED BY <1>1, <1>2, <1>3, <1>4, <1>5, <1>6, <1>7, <1>8 DEF C!Next, C!Clock

----------------------------------------------------------------------------
(* A step of the two devices is a step, or nothing, of each.               *)
LEMMA CoreMoves == [HNext]_<<vars, cvars, part>> => [C!Next]_(C!vars)
  BY DEF HNext, cvars, C!vars, C!ctl

LEMMA CoreInvariance == HSpec => []CoreInv
<1>1. HInit => CoreInv
  BY CoreInitOK DEF HInit
<1>2. CoreInv /\ [HNext]_<<vars, cvars, part>> => CoreInv'
  BY CoreMoves, CoreStepOK
<1>. QED BY <1>1, <1>2, PTL DEF HSpec

LEMMA CoreInvariant == CoreInv => C!TypeOK
<1> SUFFICES ASSUME CoreInv PROVE C!TypeOK
  OBVIOUS
<1>1. ASSUME fsm \in {1, 2}, stage < LOGN
      PROVE  butterfly < C!M /\ group < C!Groups /\ C!idx2 \in C!Idx /\ C!twiddle_idx \in C!Idx
  <2>1. stage \in 0 .. LOGN - 1 /\ butterfly \in Nat /\ group \in Nat /\ Working
    BY <1>1, CoreSizes DEF CoreInv
  <2>. QED BY <2>1, InsideArrays DEF Working
<1>. QED BY <1>1 DEF C!TypeOK, CoreInv

(* `done' is high for one cycle, and data_out keeps the result until the   *)
(* next one or a reset.                                                    *)
THEOREM ResultStays == HSpec => C!ResultHeld
<1> DEFINE Held == /\ done => ~done'
                   /\ data_out' # data_out => done' \/ data_out' = C!Zero
<1>1. CoreInv /\ [C!Next]_(C!vars) => [Held]_(C!vars)
  <2> SUFFICES ASSUME CoreInv, C!Next  PROVE Held
    OBVIOUS
  <2>1. CASE C!Reset
    BY <2>1 DEF C!Reset
  <2>2. ASSUME NEW start \in BOOLEAN, C!Idle(start)  PROVE Held
    BY <2>2 DEF C!Idle
  <2>3. CASE C!Load \/ C!Butterfly \/ C!StagesDone \/ C!Scale
    BY <2>3 DEF CoreInv, C!Load, C!Butterfly, C!StagesDone, C!Scale
  <2>4. CASE C!Store
    BY <2>4 DEF CoreInv, C!Store
  <2>. QED BY <2>1, <2>2, <2>3, <2>4 DEF C!Next, C!Clock
<1>2. HSpec => [][Held]_(C!vars)
  <2>1. HSpec => [][HNext]_<<vars, cvars, part>>
    BY PTL DEF HSpec
  <2>. QED BY <1>1, <2>1, CoreMoves, CoreInvariance, PTL
<1>. QED BY <1>2 DEF C!ResultHeld

----------------------------------------------------------------------------
(* Whatever the words, the product is reduced; sum and difference are for  *)
(* words that are.                                                         *)
LEMMA ReducedArithmetic ==
  /\ \A a, b \in Int : C!modmul(a, b) \in 0 .. Q - 1
  /\ \A a, b \in 0 .. Q - 1 : C!modadd(a, b) \in 0 .. Q - 1 /\ C!modsub(a, b) \in 0 .. Q - 1
<1>1. PICK p \in Nat : p = 2 ^ DATA_WIDTH /\ Q < p /\ Q \in Nat /\ Q > 1 /\ DATA_WIDTH \in Nat
  BY CoreAssumption, PowerIs DEF C!CoreConstants
<1>2. 2 ^ (DATA_WIDTH + 1) = 2 * p
  BY <1>1, PowerNext
<1>3. ASSUME NEW x \in 0 .. p - 1  PROVE C!Trunc(x, DATA_WIDTH) = x
  <2>1. x % p = x
    BY <1>1
  <2>. QED BY <1>1, <2>1 DEF C!Trunc
<1>4. ASSUME NEW a \in Int, NEW b \in Int  PROVE C!modmul(a, b) \in 0 .. Q - 1
  <2>1. PICK m \in Nat : m = C!Trunc(a * b, 2 * DATA_WIDTH)
    BY <1>1, Truncated
  <2>2. m % Q \in 0 .. Q - 1
    BY <1>1
  <2>3. C!Trunc(m % Q, DATA_WIDTH) = m % Q
    BY <1>1, <1>3, <2>2
  <2>. QED BY <2>1, <2>2, <2>3 DEF C!modmul
<1>5. ASSUME NEW a \in 0 .. Q - 1, NEW b \in 0 .. Q - 1  PROVE C!modadd(a, b) \in 0 .. Q - 1
  <2>1. PICK m \in 0 .. 2 * p - 1 : m = a + b
    BY <1>1
  <2>2. m % (2 * p) = m
    BY <1>1
  <2>3. C!Trunc(a + b, DATA_WIDTH + 1) = m
    BY <1>2, <2>1, <2>2 DEF C!Trunc
  <2>4. (IF m >= Q THEN m - Q ELSE m) \in 0 .. Q - 1
    BY <1>1, <2>1
  <2>5. C!Trunc(IF m >= Q THEN m - Q ELSE m, DATA_WIDTH) \in 0 .. Q - 1
    BY <1>1, <1>3, <2>4
  <2>. QED BY <2>3, <2>5 DEF C!modadd
<1>6. ASSUME NEW a \in 0 .. Q - 1, NEW b \in 0 .. Q - 1  PROVE C!modsub(a, b) \in 0 .. Q - 1
  <2>1. CASE a >= b
    <3>1. PICK m \in 0 .. Q - 1 : m = a - b
      BY <1>1, <2>1
    <3>2. m % (2 * p) = m
      BY <1>1
    <3>3. C!Trunc(a - b, DATA_WIDTH + 1) = m
      BY <1>2, <3>1, <3>2 DEF C!Trunc
    <3>4. C!modsub(a, b) = C!Trunc(m, DATA_WIDTH)
      BY <1>1, <3>1, <3>3 DEF C!modsub
    <3>. QED BY <1>1, <1>3, <3>4
  <2>2. CASE a < b
    <3>1. PICK m \in -(Q - 1) .. -1 : m = a - b
      BY <1>1, <2>2
    <3>2. m % (2 * p) = m + 2 * p
      BY <1>1
    <3>3. C!Trunc(a - b, DATA_WIDTH + 1) = m + 2 * p
      BY <1>2, <3>1, <3>2 DEF C!Trunc
    <3>4. m + 2 * p >= p
      BY <1>1
    <3>5. C!modsub(a, b) = C!Trunc(m + 2 * p + Q, DATA_WIDTH)
      BY <1>1, <3>3, <3>4 DEF C!modsub
    <3>6. (m + 2 * p + Q) % p = m + Q
      <4>1. PICK r \in 0 .. Q - 1 : r = m + Q
        BY <1>1
      <4>2. (r + 2 * p) % p = r
        BY <1>1
      <4>3. m + 2 * p + Q = r + 2 * p
        BY <1>1, <4>1
      <4>. QED BY <4>1, <4>2, <4>3
    <3>7. C!modsub(a, b) = m + Q
      BY <1>1, <3>5, <3>6 DEF C!Trunc
    <3>. QED BY <1>1, <3>7
  <2>. QED BY <1>1, <2>1, <2>2
<1>. QED BY <1>4, <1>5, <1>6

Residues(x) == \A k \in C!Idx : x[k] \in 0 .. Q - 1
ReducedInv == Residues(given) => /\ fsm \in {2, 3, 4} => Residues(mem)
                                 /\ done => Residues(data_out)

LEMMA ReducedStepOK == CoreInv /\ ReducedInv /\ [C!Next]_(C!vars) => ReducedInv'
<1> SUFFICES ASSUME CoreInv, ReducedInv, [C!Next]_(C!vars), Residues(given)'
             PROVE  /\ fsm' \in {2, 3, 4} => Residues(mem)'
                    /\ done' => Residues(data_out)'
  BY DEF ReducedInv
<1>1. CASE C!Reset
  BY <1>1 DEF C!Reset
<1>2. ASSUME NEW start \in BOOLEAN, C!Idle(start)
      PROVE  ~done' /\ ~(fsm' \in {2, 3, 4})
  <2>1. ~done' /\ (fsm' = 1 \/ fsm' = 0)
    BY <1>2 DEF C!Idle, C!ctl
  <2>. QED BY <2>1
<1>3. CASE C!Load
  <2>1. ~done /\ done' = done /\ mem' = given'
    BY <1>3 DEF C!Load, CoreInv
  <2>. QED BY <2>1 DEF Residues
<1>4. CASE C!Butterfly
  <2>1. ~done /\ done' = done /\ given' = given /\ fsm = 2
    BY <1>4 DEF C!Butterfly, CoreInv
  <2>2. Residues(mem)
    BY <2>1 DEF ReducedInv, Residues
  <2>3. C!idx1 \in C!Idx /\ C!idx2 \in C!Idx /\ C!twiddle_idx \in C!Idx
    <3>1. stage \in 0 .. LOGN - 1 /\ butterfly \in Nat /\ group \in Nat /\ Working
      BY <1>4, CoreSizes DEF C!Butterfly, CoreInv
    <3>. QED BY <3>1, InsideArrays
  <2>4. PICK u \in 0 .. Q - 1, w \in Int, k \in Int :
          u = mem[C!idx1] /\ w = mem[C!idx2] /\ k = C!twiddle[C!twiddle_idx]
    BY <2>2, <2>3, TwiddleIs DEF Residues
  <2>5. PICK v \in 0 .. Q - 1 : v = C!modmul(w, k)
    BY ReducedArithmetic
  <2>6. PICK x \in 0 .. Q - 1, y \in 0 .. Q - 1 : x = C!modadd(u, v) /\ y = C!modsub(u, v)
    BY ReducedArithmetic
  <2>7. mem' = [mem EXCEPT ![C!idx1] = x, ![C!idx2] = y]
    BY <1>4, <2>4, <2>5, <2>6 DEF C!Butterfly
  <2>8. \A i \in C!Idx : mem'[i] \in 0 .. Q - 1
    BY <2>2, <2>3, <2>7 DEF Residues, CoreInv
  <2>. QED BY <2>1, <2>8 DEF Residues
<1>5. CASE C!StagesDone
  <2>1. ~done /\ done' = done /\ given' = given /\ mem' = mem /\ fsm = 2
    BY <1>5 DEF C!StagesDone, CoreInv
  <2>. QED BY <2>1 DEF ReducedInv, Residues
<1>6. CASE C!Scale
  <2>1. ~done /\ done' = done
    BY <1>6 DEF C!Scale, CoreInv
  <2>2. C!N_INV \in Int /\ \A k \in C!Idx : mem[k] \in Int
    BY CoreAssumption, WordsAreInt DEF C!CoreConstants, CoreInv
  <2>3. \A k \in C!Idx : mem'[k] \in 0 .. Q - 1
    BY <1>6, <2>2, ReducedArithmetic DEF C!Scale
  <2>. QED BY <2>1, <2>3 DEF Residues
<1>7. CASE C!Store
  <2>1. fsm = 4 /\ fsm' = 0 /\ given' = given
    BY <1>7 DEF C!Store
  <2>2. Residues(mem)
    BY <2>1 DEF ReducedInv, Residues
  <2>3. \A k \in C!Idx : data_out'[k] \in 0 .. Q - 1
    BY <1>7, <2>2, ReversedIsIndex DEF C!Store, Residues
  <2>. QED BY <2>1, <2>3 DEF Residues
<1>8. CASE UNCHANGED C!vars
  BY <1>8 DEF C!vars, C!ctl, ReducedInv, Residues
<1>. QED BY <1>1, <1>2, <1>3, <1>4, <1>5, <1>6, <1>7, <1>8 DEF C!Next, C!Clock

(* What was sampled reduced comes out reduced, after every stage and the   *)
(* scaling: `done' comes with residues modulo Q.                           *)
THEOREM OutputReduced == HSpec => []C!StaysReduced
<1>1. HInit => ReducedInv
  BY DEF HInit, C!Init, ReducedInv
<1>2. CoreInv /\ ReducedInv /\ [HNext]_<<vars, cvars, part>> => ReducedInv'
  BY CoreMoves, ReducedStepOK
<1>3. CoreInv /\ ReducedInv => C!StaysReduced
  <2> SUFFICES ASSUME CoreInv, ReducedInv, done, C!Reduced(given)  PROVE C!Reduced(data_out)
    BY DEF C!StaysReduced
  <2>1. \A k \in C!Idx : given[k] \in Nat /\ given[k] < Q
    BY WordsAreInt DEF CoreInv, C!Reduced
  <2>2. \A k \in C!Idx : given[k] \in 0 .. Q - 1
    BY <2>1, CoreSizes
  <2>3. \A k \in C!Idx : data_out[k] \in 0 .. Q - 1
    BY <2>2 DEF ReducedInv, Residues
  <2>. QED BY <2>3, CoreSizes DEF C!Reduced
<1>. QED BY <1>1, <1>2, <1>3, CoreInvariance, PTL DEF HSpec

(* Both devices keep their types; the core's counters are always those of  *)
(* a butterfly on two words and a twiddle factor inside the arrays.        *)
THEOREM HardwareTypes == HSpec => []TypesOK
<1>1. HSpec => Spec
  <2>1. HInit => Init
    BY DEF HInit
  <2>2. [HNext]_<<vars, cvars, part>> => [Next]_vars
    BY DEF HNext
  <2>. QED BY <2>1, <2>2, PTL DEF HSpec, Spec
<1>2. C!TypeOK /\ TypeOK => TypesOK
  BY DEF TypesOK
<1>. QED BY <1>1, <1>2, TypeCorrect, CoreInvariance, CoreInvariant, PTL

----------------------------------------------------------------------------
(* Congruence modulo Q.                                                    *)
Cong(a, b) == \E k \in Int : a = b + k * Q

LEMMA CongSame == \A a \in Int : Cong(a, a)
<1> TAKE a \in Int
<1>1. Q \in Nat
  BY CoreSizes
<1>2. a = a + 0 * Q
  BY <1>1
<1>. QED BY <1>2 DEF Cong

LEMMA CongSym == ASSUME NEW a \in Int, NEW b \in Int, Cong(a, b)  PROVE Cong(b, a)
<1>1. PICK k \in Int : a = b + k * Q
  BY DEF Cong
<1>2. Q \in Nat
  BY CoreSizes
<1>3. b = a + (-k) * Q
  BY <1>1, <1>2
<1>4. -k \in Int
  OBVIOUS
<1>. QED BY <1>3, <1>4 DEF Cong

LEMMA CongTrans ==
  ASSUME NEW a \in Int, NEW b \in Int, NEW c \in Int, Cong(a, b), Cong(b, c)
  PROVE  Cong(a, c)
<1>1. PICK k \in Int : a = b + k * Q
  BY DEF Cong
<1>2. PICK l \in Int : b = c + l * Q
  BY DEF Cong
<1>3. Q \in Nat
  BY CoreSizes
<1>4. a = c + (k + l) * Q
  BY <1>1, <1>2, <1>3
<1>5. k + l \in Int
  OBVIOUS
<1>. QED BY <1>4, <1>5 DEF Cong

LEMMA CongPlus ==
  ASSUME NEW a \in Int, NEW b \in Int, NEW c \in Int, NEW d \in Int, Cong(a, b), Cong(c, d)
  PROVE  Cong(a + c, b + d) /\ Cong(a - c, b - d)
<1>1. PICK k \in Int : a = b + k * Q
  BY DEF Cong
<1>2. PICK l \in Int : c = d + l * Q
  BY DEF Cong
<1>3. Q \in Nat
  BY CoreSizes
<1>4. a + c = (b + d) + (k + l) * Q
  BY <1>1, <1>2, <1>3
<1>5. a - c = (b - d) + (k - l) * Q
  BY <1>1, <1>2, <1>3
<1>6. k + l \in Int /\ k - l \in Int
  OBVIOUS
<1>. QED BY <1>4, <1>5, <1>6 DEF Cong

LEMMA CongTimes ==
  ASSUME NEW a \in Int, NEW b \in Int, NEW c \in Int, NEW d \in Int, Cong(a, b), Cong(c, d)
  PROVE  Cong(a * c, b * d)
<1>1. PICK k \in Int : a = b + k * Q
  BY DEF Cong
<1>2. PICK l \in Int : c = d + l * Q
  BY DEF Cong
<1>3. PICK q \in Nat : q = Q
  BY CoreSizes
<1>4. a * c = b * d + (b * l + k * d + k * l * q) * q
  <2>1. (b + k * q) * (d + l * q) = b * d + (b * l + k * d + k * l * q) * q
    OBVIOUS
  <2>. QED BY <1>1, <1>2, <1>3, <2>1
<1>5. b * l + k * d + k * l * q \in Int
  OBVIOUS
<1>. QED BY <1>3, <1>4, <1>5 DEF Cong

(* Quotient and remainder are determined.                                  *)
LEMMA Remainder ==
  ASSUME NEW n \in Nat, n > 0, NEW q \in Int, NEW r \in 0 .. n - 1
  PROVE  (q * n + r) % n = r /\ (q * n + r) \div n = q
<1>1. PICK x \in Int : x = q * n + r
  OBVIOUS
<1>2. PICK a \in Int, b \in Int : a = x \div n /\ b = x % n /\ x = n * a + b /\ 0 <= b /\ b < n
  OBVIOUS
<1>3. PICK e \in Int : e = q - a
  OBVIOUS
<1>4. n * e = b - r
  <2>1. n * (q - a) = n * q - n * a
    OBVIOUS
  <2>. QED BY <1>1, <1>2, <1>3, <2>1
<1>5. CASE e >= 1
  <2>1. n * e >= n
    BY <1>5
  <2>. QED BY <1>2, <1>4, <2>1
<1>6. CASE e <= -1
  <2>1. n * e <= -n
    BY <1>6
  <2>. QED BY <1>2, <1>4, <2>1
<1>7. CASE e = 0
  <2>1. n * e = 0
    BY <1>7
  <2>. QED BY <1>1, <1>2, <1>3, <1>4, <1>7, <2>1
<1>. QED BY <1>5, <1>6, <1>7

LEMMA CongMod ==
  /\ \A a \in Int : a % Q \in 0 .. Q - 1 /\ Cong(a % Q, a)
  /\ \A a, b \in Int : Cong(a, b) => a % Q = b % Q
  /\ \A a, b \in 0 .. Q - 1 : Cong(a, b) => a = b
<1>1. PICK q \in Nat : q = Q /\ q > 1
  BY CoreSizes
<1>2. ASSUME NEW a \in Int  PROVE a % Q \in 0 .. Q - 1 /\ Cong(a % Q, a)
  <2>1. PICK d \in Int, r \in Int : d = a \div q /\ r = a % q /\ a = q * d + r /\ 0 <= r /\ r < q
    BY <1>1
  <2>2. r = a + (-d) * q /\ -d \in Int
    BY <2>1
  <2>3. r \in 0 .. q - 1
    BY <1>1, <2>1
  <2>4. Cong(r, a)
    BY <1>1, <2>2 DEF Cong
  <2>. QED BY <1>1, <2>1, <2>3, <2>4
<1>3. ASSUME NEW a \in Int, NEW b \in Int, Cong(a, b)  PROVE a % Q = b % Q
  <2>1. PICK k \in Int : a = b + k * q
    BY <1>1, <1>3 DEF Cong
  <2>2. PICK d \in Int, r \in 0 .. q - 1 : b = q * d + r /\ r = b % q
    <3>1. PICK d \in Int, r \in Int : d = b \div q /\ r = b % q /\ b = q * d + r /\ 0 <= r /\ r < q
      BY <1>1
    <3>. QED BY <3>1
  <2>3. a = (d + k) * q + r /\ d + k \in Int
    BY <2>1, <2>2
  <2>4. a % q = r
    BY <1>1, <2>3, Remainder
  <2>. QED BY <1>1, <2>2, <2>4
<1>4. ASSUME NEW a \in 0 .. Q - 1, NEW b \in 0 .. Q - 1, Cong(a, b)  PROVE a = b
  <2>1. a \in Int /\ b \in Int /\ a % Q = a /\ b % Q = b
    BY <1>1
  <2>. QED BY <1>3, <1>4, <2>1
<1>. QED BY <1>2, <1>3, <1>4

----------------------------------------------------------------------------
(* The butterfly, on words that need not be reduced.                       *)
LEMMA ExactProduct ==
  ASSUME NEW a \in C!Word, NEW b \in 0 .. Q - 1
  PROVE  C!modmul(a, b) = (a * b) % Q
<1>1. PICK p \in Nat : p = 2 ^ DATA_WIDTH /\ p > 0 /\ Q < p /\ Q \in Nat /\ Q > 1 /\ DATA_WIDTH \in Nat
  BY CoreAssumption, PowerIs DEF C!CoreConstants
<1>2. 2 ^ (2 * DATA_WIDTH) = p * p
  <2>1. 2 * DATA_WIDTH = DATA_WIDTH + DATA_WIDTH
    BY <1>1
  <2>. QED BY <1>1, <2>1, PowerSum
<1>3. a \in 0 .. p - 1 /\ b \in 0 .. p - 1
  BY <1>1 DEF C!Word
<1>4. PICK x \in Nat : x = a * b
  BY <1>3
<1>5. x < p * p
  <2>1. PICK c \in Nat, d \in Nat : c = a /\ d = b /\ c <= p - 1 /\ d <= p - 1
    BY <1>3
  <2>2. c * d <= (p - 1) * (p - 1)
    <3>1. c * d <= (p - 1) * d
      BY <1>1, <2>1
    <3>2. (p - 1) * d <= (p - 1) * (p - 1)
      BY <1>1, <2>1
    <3>3. PICK y \in Int, z \in Int : y = (p - 1) * d /\ z = (p - 1) * (p - 1)
      OBVIOUS
    <3>. QED BY <3>1, <3>2, <3>3
  <2>3. (p - 1) * (p - 1) = p * p - 2 * p + 1
    OBVIOUS
  <2>4. PICK z \in Int, y \in Int : z = p * p /\ y = c * d
    OBVIOUS
  <2>. QED BY <1>1, <1>4, <2>1, <2>2, <2>3, <2>4
<1>6. C!Trunc(x, 2 * DATA_WIDTH) = x
  <2>1. PICK n \in Nat : n = p * p
    OBVIOUS
  <2>2. x % n = x
    BY <1>5, <2>1
  <2>. QED BY <1>2, <2>1, <2>2 DEF C!Trunc
<1>7. PICK r \in 0 .. Q - 1 : r = x % Q
  BY CongMod
<1>8. C!Trunc(r, DATA_WIDTH) = r
  <2>1. r % p = r
    BY <1>1
  <2>. QED BY <1>1, <2>1 DEF C!Trunc
<1>. QED BY <1>4, <1>6, <1>7, <1>8 DEF C!modmul

LEMMA ExactSums ==
  ASSUME NEW a \in C!Word, NEW b \in 0 .. Q - 1
  PROVE  Cong(C!modadd(a, b), a + b) /\ Cong(C!modsub(a, b), a - b)
<1>1. PICK p \in Nat : p = 2 ^ DATA_WIDTH /\ p > 0 /\ Q < p /\ Q \in Nat /\ Q > 1 /\ DATA_WIDTH \in Nat
  BY CoreAssumption, PowerIs DEF C!CoreConstants
<1>2. 2 ^ (DATA_WIDTH + 1) = 2 * p
  BY <1>1, PowerNext
<1>3. a \in 0 .. p - 1
  BY <1>1 DEF C!Word
<1>4. ASSUME NEW x \in 0 .. p - 1  PROVE C!Trunc(x, DATA_WIDTH) = x
  <2>1. x % p = x
    BY <1>1
  <2>. QED BY <1>1, <2>1 DEF C!Trunc
<1>5. Cong(C!modadd(a, b), a + b)
  <2>1. PICK x \in 0 .. 2 * p - 1 : x = a + b
    BY <1>1, <1>3
  <2>2. x % (2 * p) = x
    BY <1>1
  <2>3. C!Trunc(a + b, DATA_WIDTH + 1) = x
    BY <1>2, <2>1, <2>2 DEF C!Trunc
  <2>4. CASE x >= Q
    <3>1. x - Q \in 0 .. p - 1
      BY <1>1, <1>3, <2>1, <2>4
    <3>2. C!modadd(a, b) = x - Q
      BY <1>4, <2>3, <2>4, <3>1 DEF C!modadd
    <3>3. x - Q = (a + b) + (-1) * Q
      BY <1>1, <2>1
    <3>. QED BY <3>2, <3>3 DEF Cong
  <2>5. CASE x < Q
    <3>1. x \in 0 .. p - 1 /\ ~(x >= Q)
      BY <1>1, <2>5
    <3>2. C!modadd(a, b) = x
      BY <1>4, <2>3, <3>1 DEF C!modadd
    <3>. QED BY <2>1, <3>2, CongSame
  <2>. QED BY <1>1, <2>4, <2>5
<1>6. Cong(C!modsub(a, b), a - b)
  <2>1. CASE a >= b
    <3>1. PICK x \in 0 .. p - 1 : x = a - b
      BY <1>1, <1>3, <2>1
    <3>2. x % (2 * p) = x /\ ~(x >= p)
      BY <1>1
    <3>3. C!Trunc(a - b, DATA_WIDTH + 1) = x
      BY <1>2, <3>1, <3>2 DEF C!Trunc
    <3>4. C!modsub(a, b) = x
      BY <1>1, <1>4, <3>2, <3>3 DEF C!modsub
    <3>. QED BY <3>1, <3>4, CongSame
  <2>2. CASE a < b
    <3>1. PICK x \in -(Q - 1) .. -1 : x = a - b
      BY <1>1, <1>3, <2>2
    <3>2. x % (2 * p) = x + 2 * p
      BY <1>1
    <3>3. C!Trunc(a - b, DATA_WIDTH + 1) = x + 2 * p
      BY <1>2, <3>1, <3>2 DEF C!Trunc
    <3>4. x + 2 * p >= p
      BY <1>1
    <3>5. C!modsub(a, b) = C!Trunc(x + 2 * p + Q, DATA_WIDTH)
      BY <1>1, <3>3, <3>4 DEF C!modsub
    <3>6. PICK r \in 0 .. Q - 1 : r = x + Q
      BY <1>1
    <3>7. (r + 2 * p) % p = r
      BY <1>1
    <3>8. x + 2 * p + Q = r + 2 * p
      BY <1>1, <3>6
    <3>9. C!modsub(a, b) = r
      BY <1>1, <3>5, <3>7, <3>8 DEF C!Trunc
    <3>10. r = (a - b) + 1 * Q
      BY <1>1, <3>1, <3>6
    <3>. QED BY <3>9, <3>10 DEF Cong
  <2>. QED BY <1>1, <1>3, <2>1, <2>2
<1>. QED BY <1>5, <1>6

----------------------------------------------------------------------------
(* The powers of ROOT: the table of twiddle factors is theirs, and they    *)
(* repeat after N, with the other sign after N/2.                          *)
LEMMA PowerTable ==
  /\ \A k \in C!Idx : C!power[k] \in 0 .. Q - 1
  /\ C!power[0] = 1
  /\ \A k \in 1 .. C!N - 1 : C!power[k] = (C!power[k - 1] * ROOT) % Q
<1>1. PICK n \in Nat : n = C!N - 1 /\ C!Idx = 0 .. n
  <2>1. C!N - 1 \in Nat
    BY CoreSizes
  <2>. QED BY <2>1 DEF C!Idx
<1> DEFINE h == [p \in (0 .. n) \X Int |-> (p[2] * ROOT) % Q]
           Eq(f) == f = [k \in C!Idx |-> IF k = 0 THEN 1 ELSE (f[k - 1] * ROOT) % Q]
<1>2. \A x \in Int : (x * ROOT) % Q \in 0 .. Q - 1 /\ (x * ROOT) % Q \in Int
  <2> TAKE x \in Int
  <2>1. x * ROOT \in Int
    BY CoreSizes
  <2>2. (x * ROOT) % Q \in 0 .. Q - 1
    BY <2>1, CongMod
  <2>. QED BY <2>2, CoreSizes
<1>3. h \in [(0 .. n) \X Int -> Int]
  <2>1. ASSUME NEW p \in (0 .. n) \X Int  PROVE (p[2] * ROOT) % Q \in Int
    BY <1>2
  <2>. QED BY <2>1
<1>4. PICK f \in [0 .. n -> Int] : f[0] = 1 /\ \A i \in 1 .. n : f[i] = h[<<i, f[i - 1]>>]
  <2>1. 1 \in Int
    OBVIOUS
  <2> HIDE DEF h
  <2>. QED BY <1>3, <2>1, Recursion
<1>5. \A i \in 1 .. n : f[i] = (f[i - 1] * ROOT) % Q
  <2> TAKE i \in 1 .. n
  <2>1. <<i, f[i - 1]>> \in (0 .. n) \X Int
    BY <1>4
  <2>. QED BY <1>4, <2>1
<1>6. Eq(f)
  BY <1>1, <1>4, <1>5
<1>7. Eq(C!power)
  <2>1. C!power = CHOOSE t : Eq(t)
    BY DEF C!power
  <2> HIDE DEF Eq
  <2>. QED BY <1>6, <2>1
<1>8. PICK t : t = C!power
  OBVIOUS
<1>9. t[0] = 1 /\ \A k \in 1 .. n : t[k] = (t[k - 1] * ROOT) % Q
  BY <1>1, <1>7, <1>8
<1> DEFINE P == {k \in 0 .. n : t[k] \in 0 .. Q - 1}
<1>10. 0 \in P /\ \A k \in 1 .. n : k - 1 \in P => k \in P
  <2>1. 0 \in P
    BY <1>9, CoreSizes
  <2>2. ASSUME NEW k \in 1 .. n, k - 1 \in P  PROVE k \in P
    <3>1. t[k - 1] \in Int
      BY <2>2
    <3>2. t[k] \in 0 .. Q - 1
      BY <1>2, <1>9, <3>1
    <3>. QED BY <3>2
  <2>. QED BY <2>1, <2>2
<1> HIDE DEF P
<1>11. \A k \in 0 .. n : k \in P
  BY <1>10, IndexInduction
<1>12. \A k \in C!Idx : t[k] \in 0 .. Q - 1
  BY <1>1, <1>11 DEF P
<1>. QED BY <1>1, <1>8, <1>9, <1>12

LEMMA TwiddleIsPower == \A k \in C!Idx : C!twiddle[k] = C!power[k]
<1>1. PICK n \in Nat : n = C!N - 1 /\ C!Idx = 0 .. n
  <2>1. C!N - 1 \in Nat
    BY CoreSizes
  <2>. QED BY <2>1 DEF C!Idx
<1> DEFINE P == {k \in 0 .. n : C!twiddle[k] = C!power[k]}
<1>2. 0 \in P
  BY PowerTable, TwiddleIs
<1>3. ASSUME NEW k \in 1 .. n, k - 1 \in P  PROVE k \in P
  <2>1. PICK x \in 0 .. Q - 1 : x = C!power[k - 1] /\ x = C!twiddle[k - 1]
    BY <1>1, <1>3, PowerTable
  <2>2. ROOT \in 0 .. Q - 1
    BY CoreAssumption DEF C!CoreConstants
  <2>3. x \in C!Word
    <3>1. PICK p \in Nat : p = 2 ^ DATA_WIDTH /\ Q < p /\ Q \in Nat
      BY CoreAssumption, PowerIs DEF C!CoreConstants
    <3>. QED BY <3>1 DEF C!Word
  <2>4. C!twiddle[k] = C!modmul(x, ROOT)
    BY <1>1, <2>1, TwiddleIs
  <2>5. C!power[k] = (x * ROOT) % Q
    BY <1>1, <2>1, PowerTable
  <2>. QED BY <2>2, <2>3, <2>4, <2>5, ExactProduct
<1> HIDE DEF P
<1>4. \A k \in 0 .. n : k \in P
  BY <1>2, <1>3, IndexInduction
<1>. QED BY <1>1, <1>4 DEF P

LEMMA PowType == \A e \in Int : C!Pow(e) \in 0 .. Q - 1 /\ C!Pow(e) \in Int
<1> TAKE e \in Int
<1>1. PICK n \in Nat : n = C!N /\ n > 0
  BY CoreSizes
<1>2. e % n \in 0 .. n - 1
  BY <1>1
<1>3. C!power[e % n] \in 0 .. Q - 1
  BY <1>1, <1>2, PowerTable DEF C!Idx
<1>. QED BY <1>1, <1>3, CoreSizes DEF C!Pow

LEMMA PowPeriod == \A e, c \in Int : C!Pow(e + c * C!N) = C!Pow(e)
<1> TAKE e, c \in Int
<1>1. PICK n \in Nat : n = C!N /\ n > 0
  BY CoreSizes
<1>2. PICK d \in Int, r \in Int : d = e \div n /\ r = e % n /\ e = n * d + r /\ 0 <= r /\ r < n
  BY <1>1
<1>3. r \in 0 .. n - 1
  BY <1>1, <1>2
<1>4. PICK q \in Int : q = d + c
  OBVIOUS
<1>5. e + c * n = q * n + r
  BY <1>2, <1>4
<1>6. (q * n + r) % n = r
  BY <1>1, <1>3, Remainder
<1>7. (e + c * n) % n = r
  BY <1>5, <1>6
<1>. QED BY <1>1, <1>2, <1>7 DEF C!Pow

LEMMA PowOnce == C!Pow(0) = 1 /\ \A k \in C!Idx : C!Pow(k) = C!power[k]
<1>1. PICK n \in Nat : n = C!N /\ n > 0
  BY CoreSizes
<1>2. \A k \in 0 .. n - 1 : k % n = k
  BY <1>1
<1>. QED BY <1>1, <1>2, PowerTable DEF C!Pow, C!Idx

(* Half of the exponents give the other sign.                              *)
LEMMA HalfTurn ==
  \E h \in Nat : /\ h > 0 /\ C!N = 2 * h /\ C!Pow(h) = Q - 1
                 /\ \A i \in 0 .. h - 1 : Cong(C!power[h + i], (Q - 1) * C!power[i])
<1>1. PICK h \in Nat : h > 0 /\ C!N = 2 * h /\ C!N \div 2 = h
  <2>1. PICK a \in Nat : a = LOGN - 1 /\ LOGN = a + 1
    <3>1. LOGN - 1 \in Nat
      BY CoreSizes
    <3>. QED BY <3>1, CoreSizes
  <2>2. PICK h \in Nat : h = 2 ^ a /\ h > 0
    BY PowerIs
  <2>3. C!N = 2 * h
    BY <2>1, <2>2, PowerNext DEF C!N
  <2>4. (2 * h) \div 2 = h
    OBVIOUS
  <2>. QED BY <2>2, <2>3, <2>4
<1>2. C!Pow(h) = Q - 1
  BY <1>1, CoreAssumption DEF C!CoreConstants
<1>3. Q \in Nat /\ Q > 1 /\ ROOT \in Int
  BY CoreSizes
<1> DEFINE P == {i \in 0 .. h - 1 : Cong(C!power[h + i], (Q - 1) * C!power[i])}
<1>4. 0 \in P
  <2>1. h \in C!Idx
    BY <1>1 DEF C!Idx
  <2>2. C!power[h] = Q - 1 /\ C!power[0] = 1
    BY <1>2, <2>1, PowOnce, PowerTable
  <2>3. (Q - 1) * 1 = Q - 1 /\ h + 0 = h /\ Q - 1 \in Int
    BY <1>1, <1>3
  <2>4. Cong(C!power[h + 0], (Q - 1) * C!power[0])
    BY <2>2, <2>3, CongSame
  <2>. QED BY <1>1, <2>4
<1>5. ASSUME NEW i \in 1 .. h - 1, i - 1 \in P  PROVE i \in P
  <2>1. /\ i \in C!Idx /\ i - 1 \in C!Idx /\ h + i \in C!Idx /\ h + (i - 1) \in C!Idx
        /\ i \in 1 .. C!N - 1 /\ h + i \in 1 .. C!N - 1
    BY <1>1 DEF C!Idx
  <2>2. PICK x \in Int, y \in Int, u \in Int, v \in Int :
          x = C!power[i - 1] /\ y = C!power[i] /\ u = C!power[h + (i - 1)] /\ v = C!power[h + i]
    BY <2>1, <1>3, PowerTable
  <2>3. (h + i) - 1 = h + (i - 1)
    BY <1>1
  <2>4. y = (x * ROOT) % Q /\ v = (u * ROOT) % Q
    BY <2>1, <2>2, <2>3, PowerTable
  <2>5. PICK m \in Int : m = Q - 1
    BY <1>3
  <2>6. Cong(u, m * x)
    BY <1>5, <2>2, <2>5
  <2>7. u * ROOT \in Int /\ x * ROOT \in Int /\ m * x \in Int /\ m * y \in Int /\ (m * x) * ROOT \in Int
    BY <1>3
  <2>8. Cong(v, u * ROOT) /\ Cong(y, x * ROOT)
    BY <2>4, <2>7, CongMod
  <2>9. Cong(u * ROOT, (m * x) * ROOT)
    BY <1>3, <2>6, <2>7, CongSame, CongTimes
  <2>10. Cong(m * y, m * (x * ROOT))
    BY <2>7, <2>8, CongSame, CongTimes
  <2>11. (m * x) * ROOT = m * (x * ROOT)
    BY <1>3
  <2>12. Cong(m * (x * ROOT), m * y)
    BY <2>7, <2>10, <2>11, CongSym
  <2>13. Cong(v, (m * x) * ROOT)
    BY <2>7, <2>8, <2>9, CongTrans
  <2>14. Cong(v, m * y)
    BY <2>7, <2>11, <2>12, <2>13, CongTrans
  <2>15. i \in 0 .. h - 1
    OBVIOUS
  <2>. QED BY <2>2, <2>5, <2>14, <2>15
<1> HIDE DEF P
<1>6. h - 1 \in Nat
  BY <1>1
<1>7. \A i \in 0 .. h - 1 : i \in P
  BY <1>4, <1>5, <1>6, IndexInduction
<1>. QED BY <1>1, <1>2, <1>7 DEF P

LEMMA PowNext == \A e \in Int : Cong(C!Pow(e + 1), C!Pow(e) * ROOT)
<1> TAKE e \in Int
<1>1. PICK n \in Nat : n = C!N /\ n > 0
  BY CoreSizes
<1>2. PICK d \in Int, r \in Int : d = e \div n /\ r = e % n /\ e = n * d + r /\ 0 <= r /\ r < n
  BY <1>1
<1>3. r \in C!Idx /\ C!Pow(e) = C!power[r]
  BY <1>1, <1>2 DEF C!Idx, C!Pow
<1>4. Q \in Nat /\ Q > 1 /\ ROOT \in Int
  BY CoreSizes
<1>5. PICK x \in Int : x = C!power[r]
  BY <1>3, <1>4, PowerTable
<1>6. CASE r + 1 < n
  <2>1. e + 1 = (r + 1) + d * n
    BY <1>2
  <2>2. r + 1 \in Int /\ r + 1 \in C!Idx /\ r + 1 \in 1 .. C!N - 1 /\ (r + 1) - 1 = r
    BY <1>1, <1>2, <1>6 DEF C!Idx
  <2>3. C!Pow(e + 1) = C!power[r + 1]
    <3>1. C!Pow((r + 1) + d * n) = C!Pow(r + 1)
      BY <1>1, <2>2, PowPeriod
    <3>. QED BY <2>1, <2>2, <3>1, PowOnce
  <2>4. C!power[r + 1] = (x * ROOT) % Q
    BY <1>5, <2>2, PowerTable
  <2>5. x * ROOT \in Int
    BY <1>4
  <2>. QED BY <1>3, <1>5, <2>3, <2>4, <2>5, CongMod
<1>7. CASE r + 1 = n
  <2>1. e + 1 = 0 + (d + 1) * n
    BY <1>2, <1>7
  <2>2. C!Pow(e + 1) = 1
    <3>1. d + 1 \in Int /\ 0 \in Int
      OBVIOUS
    <3>. QED BY <1>1, <2>1, <3>1, PowPeriod, PowOnce
  <2>3. PICK h \in Nat : /\ h > 0 /\ C!N = 2 * h /\ C!Pow(h) = Q - 1
                         /\ \A i \in 0 .. h - 1 : Cong(C!power[h + i], (Q - 1) * C!power[i])
    BY HalfTurn
  <2>4. h - 1 \in 0 .. h - 1 /\ h + (h - 1) = r /\ h \in C!Idx /\ h - 1 \in C!Idx
        /\ h \in 1 .. C!N - 1
    BY <1>1, <1>2, <1>7, <2>3 DEF C!Idx
  <2>5. PICK y \in Int, m \in Int : y = C!power[h - 1] /\ m = Q - 1
    BY <1>4, <2>4, PowerTable
  <2>6. Cong(x, m * y)
    BY <1>5, <2>3, <2>4, <2>5
  <2>7. m = (y * ROOT) % Q
    <3>1. C!power[h] = C!Pow(h)
      BY <2>4, PowOnce
    <3>. QED BY <2>3, <2>4, <2>5, <3>1, PowerTable
  <2>8. x * ROOT \in Int /\ m * y \in Int /\ (m * y) * ROOT \in Int /\ y * ROOT \in Int
        /\ m * (y * ROOT) \in Int /\ m * m \in Int
    BY <1>4
  <2>9. Cong(x * ROOT, (m * y) * ROOT)
    BY <1>4, <2>6, <2>8, CongSame, CongTimes
  <2>10. (m * y) * ROOT = m * (y * ROOT)
    BY <1>4
  <2>11. Cong(m, y * ROOT)
    BY <2>7, <2>8, CongMod
  <2>12. Cong(m * m, m * (y * ROOT))
    BY <2>8, <2>11, CongSame, CongTimes
  <2>13. Cong(m * m, 1)
    <3>1. (Q - 1) * (Q - 1) = 1 + (Q - 2) * Q /\ Q - 2 \in Int
      BY <1>4
    <3>. QED BY <2>5, <3>1 DEF Cong
  <2>14. Cong(m * (y * ROOT), m * m)
    BY <2>8, <2>12, CongSym
  <2>15. Cong(x * ROOT, m * m)
    BY <2>8, <2>9, <2>10, <2>14, CongTrans
  <2>16. 1 \in Int
    OBVIOUS
  <2>17. Cong(x * ROOT, 1)
    BY <2>8, <2>13, <2>15, <2>16, CongTrans
  <2>18. Cong(1, x * ROOT)
    BY <2>8, <2>16, <2>17, CongSym
  <2>. QED BY <1>3, <1>5, <2>2, <2>18
<1>. QED BY <1>1, <1>2, <1>6, <1>7

LEMMA PowPlus == \A a, b \in Int : Cong(C!Pow(a + b), C!Pow(a) * C!Pow(b))
<1> TAKE a, b \in Int
<1>1. PICK n \in Nat : n = C!N /\ n > 0 /\ n - 1 \in Nat
  BY CoreSizes
<1>2. PICK d \in Int, r \in Int : d = b \div n /\ r = b % n /\ b = n * d + r /\ 0 <= r /\ r < n
  BY <1>1
<1>3. PICK x \in Int : x = C!Pow(a)
  BY PowType
<1>4. ROOT \in Int
  BY CoreSizes
<1> DEFINE P == {i \in 0 .. n - 1 : Cong(C!Pow(a + i), x * C!Pow(i))}
<1>5. 0 \in P
  <2>1. a + 0 = a /\ x * 1 = x
    OBVIOUS
  <2>2. Cong(C!Pow(a + 0), x * C!Pow(0))
    BY <1>3, <2>1, PowOnce, CongSame
  <2>. QED BY <1>1, <2>2
<1>6. ASSUME NEW i \in 1 .. n - 1, i - 1 \in P  PROVE i \in P
  <2>1. i - 1 \in Int /\ (i - 1) + 1 = i /\ a + (i - 1) \in Int /\ (a + (i - 1)) + 1 = a + i
        /\ a + i \in Int /\ i \in Int /\ i \in 0 .. n - 1
    OBVIOUS
  <2>2. PICK p \in Int, q \in Int, u \in Int, v \in Int :
          p = C!Pow(i - 1) /\ q = C!Pow(i) /\ u = C!Pow(a + (i - 1)) /\ v = C!Pow(a + i)
    BY <2>1, PowType
  <2>3. Cong(u, x * p)
    BY <1>6, <2>2
  <2>4. Cong(q, p * ROOT) /\ Cong(v, u * ROOT)
    BY <2>1, <2>2, PowNext
  <2>5. p * ROOT \in Int /\ u * ROOT \in Int /\ x * p \in Int /\ (x * p) * ROOT \in Int
        /\ x * (p * ROOT) \in Int /\ x * q \in Int
    BY <1>4
  <2>6. Cong(u * ROOT, (x * p) * ROOT)
    BY <1>4, <2>3, <2>5, CongSame, CongTimes
  <2>7. Cong(v, (x * p) * ROOT)
    BY <2>4, <2>5, <2>6, CongTrans
  <2>8. (x * p) * ROOT = x * (p * ROOT)
    BY <1>4
  <2>9. Cong(x * q, x * (p * ROOT))
    BY <2>4, <2>5, CongSame, CongTimes
  <2>10. Cong(x * (p * ROOT), x * q)
    BY <2>5, <2>9, CongSym
  <2>11. Cong(v, x * q)
    BY <2>5, <2>7, <2>8, <2>10, CongTrans
  <2>. QED BY <2>1, <2>2, <2>11
<1> HIDE DEF P
<1>7. \A i \in 0 .. n - 1 : i \in P
  BY <1>1, <1>5, <1>6, IndexInduction
<1>8. r \in 0 .. n - 1
  BY <1>1, <1>2
<1>9. Cong(C!Pow(a + r), x * C!Pow(r))
  BY <1>7, <1>8 DEF P
<1>10. b = r + d * n /\ a + b = (a + r) + d * n /\ a + r \in Int
  BY <1>2
<1>11. C!Pow(b) = C!Pow(r) /\ C!Pow(a + b) = C!Pow(a + r)
  BY <1>1, <1>10, PowPeriod
<1>. QED BY <1>3, <1>9, <1>11

----------------------------------------------------------------------------
(* The bits of an index.                                                   *)
LEMMA HighBit ==
  ASSUME NEW j \in Nat, NEW val \in 0 .. 2 ^ j - 1
  PROVE  (val \div 2 ^ j) % 2 = 0
<1>1. PICK p \in Nat : p = 2 ^ j /\ p > 0
  BY PowerIs
<1>2. val \in 0 .. p - 1 /\ 0 * p + val = val
  BY <1>1
<1>3. (0 * p + val) \div p = 0
  BY <1>1, <1>2, Remainder
<1>4. 0 % 2 = 0
  OBVIOUS
<1>. QED BY <1>1, <1>2, <1>3, <1>4

LEMMA TopBit ==
  ASSUME NEW s \in Nat, NEW r \in 0 .. 2 ^ s - 1
  PROVE  ((r + 2 ^ s) \div 2 ^ s) % 2 = 1
<1>1. PICK p \in Nat : p = 2 ^ s /\ p > 0
  BY PowerIs
<1>2. r \in 0 .. p - 1 /\ 1 * p + r = r + p
  BY <1>1
<1>3. (1 * p + r) \div p = 1
  BY <1>1, <1>2, Remainder
<1>4. 1 % 2 = 1
  OBVIOUS
<1>. QED BY <1>1, <1>2, <1>3, <1>4

LEMMA LowBit ==
  ASSUME NEW s \in Nat, NEW r \in Nat, NEW j \in 0 .. s - 1
  PROVE  ((r + 2 ^ s) \div 2 ^ j) % 2 = (r \div 2 ^ j) % 2
<1>0. j \in Nat
  OBVIOUS
<1>1. PICK p \in Nat : p = 2 ^ j /\ p > 0
  BY <1>0, PowerIs
<1>2. PICK a \in Nat : a = s - j - 1 /\ s = j + (a + 1)
  <2>1. s - j - 1 \in Nat
    OBVIOUS
  <2>. QED BY <2>1
<1>3. PICK e \in Nat : e = 2 ^ a
  BY PowerIs
<1>4. 2 ^ s = p * (2 * e)
  <2>1. j \in Nat /\ a + 1 \in Nat
    OBVIOUS
  <2>2. 2 ^ s = 2 ^ j * 2 ^ (a + 1)
    BY <1>2, <2>1, PowerSum
  <2>3. 2 ^ (a + 1) = 2 * e
    BY <1>3, PowerNext
  <2>. QED BY <1>1, <2>2, <2>3
<1>5. PICK d \in Int, q \in Int : d = r \div p /\ r = p * d + q /\ 0 <= q /\ q < p
  BY <1>1
<1>6. PICK c \in Int, b \in 0 .. 1 : b = d % 2 /\ d = 2 * c + b
  OBVIOUS
<1>7. q \in 0 .. p - 1 /\ d + 2 * e \in Int /\ c + e \in Int
  BY <1>1, <1>5
<1>8. r + p * (2 * e) = (d + 2 * e) * p + q
  <2>1. p * d + q + p * (2 * e) = (d + 2 * e) * p + q
    OBVIOUS
  <2>. QED BY <1>5, <2>1
<1>9. ((d + 2 * e) * p + q) \div p = d + 2 * e
  BY <1>1, <1>7, Remainder
<1>10. d + 2 * e = (c + e) * 2 + b
  BY <1>6
<1>11. ((c + e) * 2 + b) % 2 = b
  OBVIOUS
<1>. QED BY <1>1, <1>4, <1>5, <1>6, <1>8, <1>9, <1>10, <1>11

(* An index of fewer bits reversed is a multiple.                          *)
LEMMA ReversedShort ==
  ASSUME NEW s \in 0 .. LOGN, NEW r \in C!Idx, r < 2 ^ s
  PROVE  \E c \in Int : C!bit_reverse(r) * 2 ^ s = c * C!N
<1>1. PICK t : /\ C!bit_reverse(r) = t[LOGN] /\ t[0] = 0
               /\ \A i \in 0 .. LOGN : t[i] \in 0 .. 2 ^ i - 1
               /\ \A i \in 1 .. LOGN : t[i] = 2 * t[i - 1] + ((r \div 2 ^ (i - 1)) % 2)
  BY ReversedBits
<1>2. LOGN \in Nat /\ s \in Nat
  BY CoreSizes
<1>3. PICK m \in Nat : m = 2 ^ s
  BY <1>2, PowerIs
<1>4. r \in Nat /\ r < m
  <2>1. PICK n \in Nat : n = C!N
    BY CoreSizes
  <2>. QED BY <1>3, <2>1 DEF C!Idx
<1>5. PICK c \in Nat : c = t[s]
  <2>1. PICK x \in Nat : x = 2 ^ s
    BY <1>2, PowerIs
  <2>. QED BY <1>1, <2>1
<1> DEFINE P == {i \in 0 .. LOGN : s <= i => t[i] * m = c * 2 ^ i}
<1>6. 0 \in P
  <2>1. CASE s = 0
    <3>1. m = 2 ^ 0 /\ 0 \in 0 .. LOGN
      BY <1>2, <1>3, <2>1
    <3>. QED BY <1>5, <2>1, <3>1
  <2>. QED BY <1>2, <2>1
<1>7. ASSUME NEW i \in 1 .. LOGN, i - 1 \in P  PROVE i \in P
  <2>1. i \in 0 .. LOGN /\ i - 1 \in Nat /\ (i - 1) + 1 = i /\ i - 1 \in 0 .. LOGN
    BY <1>2
  <2>2. CASE i = s
    BY <1>3, <1>5, <2>1, <2>2
  <2>3. CASE s < i
    <3>1. s <= i - 1
      BY <1>2, <2>3
    <3>2. PICK p \in Nat : p = 2 ^ (i - 1) /\ p > 0
      BY <2>1, PowerIs
    <3>3. 2 ^ i = 2 * p
      BY <2>1, <3>2, PowerNext
    <3>4. PICK x \in Nat : x = t[i - 1]
      BY <1>1, <2>1, <3>2
    <3>5. x * m = c * p
      BY <1>7, <3>1, <3>2, <3>4
    <3>6. r \in 0 .. p - 1
      <4>1. PICK a \in Nat : i - 1 = s + a
        <5>1. i - 1 - s \in Nat
          BY <1>2, <2>1, <3>1
        <5>. QED BY <1>2, <2>1, <5>1
      <4>2. PICK y \in Nat : y = 2 ^ a /\ y > 0
        BY PowerIs
      <4>3. p = m * y
        BY <1>2, <1>3, <3>2, <4>1, <4>2, PowerSum
      <4>4. m * y >= m
        BY <4>2
      <4>5. PICK z \in Nat : z = m * y
        OBVIOUS
      <4>. QED BY <1>4, <4>3, <4>4, <4>5
    <3>7. (r \div 2 ^ (i - 1)) % 2 = 0
      <4>1. r \in 0 .. 2 ^ (i - 1) - 1
        BY <3>2, <3>6
      <4>. QED BY <2>1, <4>1, HighBit
    <3>8. t[i] = 2 * x
      BY <1>1, <3>4, <3>7
    <3>9. (2 * x) * m = c * (2 * p)
      <4>1. (2 * x) * m = 2 * (x * m) /\ c * (2 * p) = 2 * (c * p)
        OBVIOUS
      <4>. QED BY <3>5, <4>1
    <3>. QED BY <2>1, <3>3, <3>8, <3>9
  <2>4. CASE i < s
    BY <1>2, <2>1, <2>4
  <2>. QED BY <1>2, <2>2, <2>3, <2>4
<1> HIDE DEF P
<1>8. LOGN \in P
  <2>1. LOGN \in 0 .. LOGN
    BY <1>2
  <2>. QED BY <1>2, <1>6, <1>7, <2>1, IndexInduction
<1>9. t[LOGN] * m = c * 2 ^ LOGN
  BY <1>2, <1>8 DEF P
<1>. QED BY <1>1, <1>3, <1>9 DEF C!N

(* The next bit of an index, reversed.                                     *)
LEMMA ReversedNext ==
  ASSUME NEW s \in 0 .. LOGN - 1, NEW r \in C!Idx, r < 2 ^ s
  PROVE  /\ r + 2 ^ s \in C!Idx
         /\ C!bit_reverse(r + 2 ^ s) = C!bit_reverse(r) + 2 ^ (LOGN - s - 1)
<1>1. LOGN \in Nat /\ s \in Nat /\ LOGN - s - 1 \in Nat /\ LOGN > s
  BY CoreSizes
<1>2. PICK m \in Nat, g \in Nat : 2 ^ s = m /\ m > 0 /\ g > 0 /\ C!N = g * (2 * m)
  BY HalvesOf
<1>3. r \in Nat /\ r < m
  <2>1. PICK n \in Nat : n = C!N
    BY CoreSizes
  <2>. QED BY <1>2, <2>1 DEF C!Idx
<1>4. r + m \in C!Idx
  <2>1. g * (2 * m) >= 2 * m
    BY <1>2
  <2>2. PICK n \in Nat : n = g * (2 * m)
    OBVIOUS
  <2>3. r + m \in 0 .. n - 1
    BY <1>3, <2>1, <2>2
  <2>. QED BY <1>2, <2>2, <2>3 DEF C!Idx
<1>5. PICK t : /\ C!bit_reverse(r) = t[LOGN] /\ t[0] = 0
               /\ \A i \in 0 .. LOGN : t[i] \in 0 .. 2 ^ i - 1
               /\ \A i \in 1 .. LOGN : t[i] = 2 * t[i - 1] + ((r \div 2 ^ (i - 1)) % 2)
  BY ReversedBits
<1>6. PICK u : /\ C!bit_reverse(r + m) = u[LOGN] /\ u[0] = 0
               /\ \A i \in 0 .. LOGN : u[i] \in 0 .. 2 ^ i - 1
               /\ \A i \in 1 .. LOGN : u[i] = 2 * u[i - 1] + (((r + m) \div 2 ^ (i - 1)) % 2)
  BY <1>4, ReversedBits
<1> DEFINE P == {i \in 0 .. LOGN : u[i] = t[i] + (IF i <= s THEN 0 ELSE 2 ^ (i - s - 1))}
<1>7. 0 \in P
  BY <1>1, <1>5, <1>6
<1>8. ASSUME NEW i \in 1 .. LOGN, i - 1 \in P  PROVE i \in P
  <2>1. i \in 0 .. LOGN /\ i - 1 \in Nat /\ (i - 1) + 1 = i /\ i - 1 \in 0 .. LOGN /\ i \in Nat
    BY <1>1
  <2>2. PICK p \in Nat : p = 2 ^ (i - 1) /\ p > 0
    BY <2>1, PowerIs
  <2>3. PICK x \in Nat, y \in Nat : x = t[i - 1] /\ y = u[i - 1]
    BY <1>5, <1>6, <2>1, <2>2
  <2>4. t[i] = 2 * x + ((r \div 2 ^ (i - 1)) % 2) /\ u[i] = 2 * y + (((r + m) \div 2 ^ (i - 1)) % 2)
    BY <1>5, <1>6, <2>3
  <2>5. CASE i <= s
    <3>1. i - 1 \in 0 .. s - 1 /\ i - 1 <= s
      BY <1>1, <2>5
    <3>2. ((r + m) \div 2 ^ (i - 1)) % 2 = (r \div 2 ^ (i - 1)) % 2
      BY <1>1, <1>2, <1>3, <3>1, LowBit
    <3>3. y = x + 0
      BY <1>8, <2>3, <3>1
    <3>4. u[i] = t[i] /\ t[i] \in Int
      <4>1. t[i] \in Int
        <5>1. PICK z \in Nat : z = 2 ^ i
          BY <2>1, PowerIs
        <5>. QED BY <1>5, <2>1, <5>1
      <4>. QED BY <2>4, <3>2, <3>3, <4>1
    <3>. QED BY <2>1, <2>5, <3>4
  <2>6. CASE i = s + 1
    <3>1. i - 1 = s /\ i - s - 1 = 0 /\ ~(i <= s)
      BY <1>1, <2>6
    <3>2. r \in 0 .. 2 ^ s - 1
      BY <1>2, <1>3
    <3>3. (r \div 2 ^ s) % 2 = 0 /\ ((r + m) \div 2 ^ s) % 2 = 1
      BY <1>1, <1>2, <3>2, HighBit, TopBit
    <3>4. y = x + 0
      BY <1>1, <1>8, <2>3, <3>1
    <3>5. t[i] = 2 * x /\ u[i] = 2 * y + 1
      BY <2>4, <3>1, <3>3
    <3>6. 2 ^ (i - s - 1) = 1
      BY <3>1
    <3>. QED BY <2>1, <3>1, <3>4, <3>5, <3>6
  <2>7. CASE i > s + 1
    <3>1. ~(i - 1 <= s) /\ ~(i <= s) /\ (i - 1) - s - 1 \in Nat /\ ((i - 1) - s - 1) + 1 = i - s - 1
      BY <1>1, <2>1, <2>7
    <3>2. PICK e \in Nat : e = 2 ^ ((i - 1) - s - 1)
      BY <3>1, PowerIs
    <3>3. 2 ^ (i - s - 1) = 2 * e
      BY <3>1, <3>2, PowerNext
    <3>4. y = x + e
      BY <1>8, <2>3, <3>1, <3>2
    <3>5. 2 * m <= p
      <4>1. PICK a \in Nat : i - 1 = (s + 1) + a
        <5>1. i - 1 - (s + 1) \in Nat
          BY <1>1, <2>1, <2>7
        <5>. QED BY <1>1, <2>1, <5>1
      <4>2. PICK z \in Nat : z = 2 ^ a /\ z > 0
        BY PowerIs
      <4>3. 2 ^ (s + 1) = 2 * m
        BY <1>1, <1>2, PowerNext
      <4>4. s + 1 \in Nat
        BY <1>1
      <4>5. p = (2 * m) * z
        BY <2>2, <4>1, <4>2, <4>3, <4>4, PowerSum
      <4>6. (2 * m) * z >= 2 * m
        BY <4>2
      <4>. QED BY <4>5, <4>6
    <3>6. r \in 0 .. 2 ^ (i - 1) - 1 /\ r + m \in 0 .. 2 ^ (i - 1) - 1
      BY <1>3, <2>2, <3>5
    <3>7. (r \div 2 ^ (i - 1)) % 2 = 0 /\ ((r + m) \div 2 ^ (i - 1)) % 2 = 0
      BY <2>1, <3>6, HighBit
    <3>8. t[i] = 2 * x /\ u[i] = 2 * y
      BY <2>4, <3>7
    <3>. QED BY <2>1, <3>1, <3>3, <3>4, <3>8
  <2>. QED BY <1>1, <2>1, <2>5, <2>6, <2>7
<1> HIDE DEF P
<1>9. LOGN \in P
  <2>1. LOGN \in 0 .. LOGN
    BY <1>1
  <2>. QED BY <1>1, <1>7, <1>8, <2>1, IndexInduction
<1>10. u[LOGN] = t[LOGN] + 2 ^ (LOGN - s - 1)
  <2>1. ~(LOGN <= s)
    BY <1>1
  <2>. QED BY <1>9, <2>1 DEF P
<1>. QED BY <1>2, <1>4, <1>5, <1>6, <1>10

----------------------------------------------------------------------------
(* v is, modulo Q, the sum of the first n values of t.                     *)
Adds(t, n, v) ==
  \E f \in [0 .. n -> Int] :
    /\ f[0] = 0
    /\ \A i \in 1 .. n : Cong(f[i], f[i - 1] + t[i - 1])
    /\ Cong(v, f[n])

LEMMA AddsOne ==
  ASSUME NEW t, NEW v \in Int, t[0] \in Int, Cong(v, t[0])
  PROVE  Adds(t, 1, v)
<1> DEFINE f == [i \in 0 .. 1 |-> IF i = 0 THEN 0 ELSE t[0]]
<1>1. f \in [0 .. 1 -> Int] /\ f[0] = 0 /\ f[1] = t[0]
  OBVIOUS
<1> HIDE DEF f
<1>2. 0 + t[0] = t[0] /\ Cong(t[0], t[0])
  BY CongSame
<1>3. ASSUME NEW i \in 1 .. 1  PROVE Cong(f[i], f[i - 1] + t[i - 1])
  <2>1. i = 1 /\ i - 1 = 0
    OBVIOUS
  <2>. QED BY <1>1, <1>2, <2>1
<1>. QED BY <1>1, <1>3 DEF Adds

LEMMA AddsSame ==
  ASSUME NEW t, NEW n \in Nat, NEW v \in Int, NEW w \in Int, Adds(t, n, v), Cong(w, v)
  PROVE  Adds(t, n, w)
<1>1. PICK f \in [0 .. n -> Int] :
        f[0] = 0 /\ (\A i \in 1 .. n : Cong(f[i], f[i - 1] + t[i - 1])) /\ Cong(v, f[n])
  BY DEF Adds
<1>2. n \in 0 .. n /\ f[n] \in Int
  BY <1>1
<1>3. Cong(w, f[n])
  BY <1>1, <1>2, CongTrans
<1>. QED BY <1>1, <1>3 DEF Adds

(* A sum goes on with a multiple of another.                               *)
LEMMA AddsMore ==
  ASSUME NEW n \in Nat, NEW m \in Nat, NEW c \in Int,
         NEW t, NEW a, NEW b, NEW v \in Int, NEW w \in Int,
         \A i \in 0 .. n - 1 : a[i] \in Int /\ t[i] = a[i],
         \A i \in 0 .. m - 1 : b[i] \in Int /\ t[n + i] \in Int /\ Cong(t[n + i], c * b[i]),
         Adds(a, n, v), Adds(b, m, w)
  PROVE  Adds(t, n + m, v + c * w)
<1>1. PICK f \in [0 .. n -> Int] :
        f[0] = 0 /\ (\A i \in 1 .. n : Cong(f[i], f[i - 1] + a[i - 1])) /\ Cong(v, f[n])
  BY DEF Adds
<1>2. PICK g \in [0 .. m -> Int] :
        g[0] = 0 /\ (\A i \in 1 .. m : Cong(g[i], g[i - 1] + b[i - 1])) /\ Cong(w, g[m])
  BY DEF Adds
<1>3. PICK x \in Int : x = f[n]
  <2>1. n \in 0 .. n
    OBVIOUS
  <2>. QED BY <1>1, <2>1
<1> DEFINE h == [i \in 0 .. n + m |-> IF i <= n THEN f[i] ELSE x + c * g[i - n]]
<1>4. h \in [0 .. n + m -> Int]
  <2>1. ASSUME NEW i \in 0 .. n + m  PROVE h[i] \in Int
    <3>1. CASE i <= n
      <4>1. i \in 0 .. n
        BY <3>1
      <4>. QED BY <1>1, <3>1, <4>1
    <3>2. CASE ~(i <= n)
      <4>1. i - n \in 0 .. m
        BY <3>2
      <4>2. PICK y \in Int : y = g[i - n]
        BY <1>2, <4>1
      <4>3. x + c * y \in Int
        OBVIOUS
      <4>. QED BY <3>2, <4>2, <4>3
    <3>. QED BY <3>1, <3>2
  <2>. QED BY <2>1
<1>5. h[0] = 0
  BY <1>1
<1>6. \A i \in 0 .. m : h[n + i] = x + c * g[i]
  <2> TAKE i \in 0 .. m
  <2>1. n + i \in 0 .. n + m /\ (n + i) - n = i
    OBVIOUS
  <2>2. CASE i = 0
    <3>1. h[n + i] = f[n]
      BY <2>1, <2>2
    <3>2. c * 0 = 0 /\ x + 0 = x
      OBVIOUS
    <3>. QED BY <1>2, <1>3, <2>2, <3>1, <3>2
  <2>3. CASE i # 0
    <3>1. ~(n + i <= n)
      BY <2>3
    <3>. QED BY <2>1, <3>1
  <2>. QED BY <2>2, <2>3
<1>7. \A i \in 0 .. n : h[i] = f[i]
  <2> TAKE i \in 0 .. n
  <2>1. i \in 0 .. n + m /\ i <= n
    OBVIOUS
  <2>. QED BY <2>1
<1> HIDE DEF h
<1>8. ASSUME NEW i \in 1 .. n + m  PROVE Cong(h[i], h[i - 1] + t[i - 1])
  <2>1. CASE i <= n
    <3>1. i \in 1 .. n /\ i \in 0 .. n /\ i - 1 \in 0 .. n /\ i - 1 \in 0 .. n - 1
      BY <2>1
    <3>2. h[i] = f[i] /\ h[i - 1] = f[i - 1] /\ t[i - 1] = a[i - 1]
      BY <1>7, <3>1
    <3>. QED BY <1>1, <3>1, <3>2
  <2>2. CASE ~(i <= n)
    <3>1. PICK j \in 1 .. m : j = i - n /\ i = n + j /\ i - 1 = n + (j - 1)
      <4>1. i - n \in 1 .. m
        BY <2>2
      <4>. QED BY <4>1
    <3>2. j \in 0 .. m /\ j - 1 \in 0 .. m /\ j - 1 \in 0 .. m - 1
      OBVIOUS
    <3>3. PICK y \in Int, z \in Int, d \in Int, e \in Int :
            y = g[j] /\ z = g[j - 1] /\ d = b[j - 1] /\ e = t[n + (j - 1)]
      BY <1>2, <3>2
    <3>4. h[i] = x + c * y /\ h[i - 1] = x + c * z
      BY <1>6, <3>1, <3>2, <3>3
    <3>5. Cong(y, z + d) /\ Cong(e, c * d)
      BY <1>2, <3>2, <3>3
    <3>6. c * y \in Int /\ c * z \in Int /\ c * d \in Int /\ z + d \in Int /\ c * (z + d) \in Int
          /\ x + c * y \in Int /\ (x + c * z) + c * d \in Int /\ (x + c * z) + e \in Int
          /\ x + c * z \in Int /\ x + c * (z + d) \in Int
      OBVIOUS
    <3>7. Cong(c * y, c * (z + d))
      BY <3>5, <3>6, CongSame, CongTimes
    <3>8. Cong(x + c * y, x + c * (z + d))
      BY <3>6, <3>7, CongSame, CongPlus
    <3>9. x + c * (z + d) = (x + c * z) + c * d
      OBVIOUS
    <3>10. Cong(c * d, e)
      BY <3>5, <3>6, CongSym
    <3>11. Cong((x + c * z) + c * d, (x + c * z) + e)
      BY <3>6, <3>10, CongSame, CongPlus
    <3>12. Cong(x + c * y, (x + c * z) + e)
      BY <3>6, <3>8, <3>9, <3>11, CongTrans
    <3>. QED BY <3>1, <3>3, <3>4, <3>12
  <2>. QED BY <2>1, <2>2
<1>9. Cong(v + c * w, h[n + m])
  <2>1. m \in 0 .. m
    OBVIOUS
  <2>2. PICK y \in Int : y = g[m]
    BY <1>2, <2>1
  <2>3. h[n + m] = x + c * y
    BY <1>6, <2>1, <2>2
  <2>4. c * w \in Int /\ c * y \in Int
    OBVIOUS
  <2>5. Cong(c * w, c * y)
    BY <1>2, <2>2, <2>4, CongSame, CongTimes
  <2>6. Cong(v + c * w, x + c * y)
    BY <1>1, <1>3, <2>4, <2>5, CongPlus
  <2>. QED BY <2>3, <2>6
<1>. QED BY <1>4, <1>5, <1>8, <1>9 DEF Adds

----------------------------------------------------------------------------
(* v is, modulo Q, the sum at b of the part of x that begins at base.      *)
Term(x, sg, base, b, r) == x[base + r] * C!Pow(sg * C!bit_reverse(r) * b)
Terms(x, sg, base, len, b) == [r \in 0 .. len - 1 |-> Term(x, sg, base, b, r)]
Part(x, sg, base, len, b, v) == Adds(Terms(x, sg, base, len, b), len, v)

Signs == {1, -1}

LEMMA ReversedInt == \A r \in C!Idx : C!bit_reverse(r) \in Nat /\ C!bit_reverse(r) \in Int
<1> TAKE r \in C!Idx
<1>1. PICK n \in Nat : n = C!N
  BY CoreSizes
<1>. QED BY <1>1, ReversedIsIndex DEF C!Idx

LEMMA IndexInt == \A r \in C!Idx : r \in Nat /\ r \in Int /\ r < C!N
<1>1. PICK n \in Nat : n = C!N
  BY CoreSizes
<1>. QED BY <1>1 DEF C!Idx

LEMMA TermInt ==
  ASSUME NEW x \in [C!Idx -> C!Word], NEW sg \in Signs, NEW base \in Nat, NEW b \in Int,
         NEW r \in C!Idx, base + r \in C!Idx
  PROVE  Term(x, sg, base, b, r) \in Int
<1>1. PICK br \in Int : br = C!bit_reverse(r)
  BY ReversedInt
<1>2. sg * br * b \in Int
  BY DEF Signs
<1>3. PICK p \in Int : p = C!Pow(sg * br * b)
  BY <1>2, PowType
<1>4. PICK a \in Int : a = x[base + r]
  BY WordsAreInt
<1>5. a * p \in Int
  OBVIOUS
<1>. QED BY <1>1, <1>3, <1>4, <1>5 DEF Term

(* A part of one word is that word.                                        *)
LEMMA PartOne ==
  ASSUME NEW x \in [C!Idx -> C!Word], NEW sg \in Signs, NEW base \in C!Idx
  PROVE  Part(x, sg, base, 1, 0, x[base])
<1>1. base \in Nat /\ base + 0 = base /\ 0 \in C!Idx
  BY IndexInt, CoreSizes
<1>2. PICK br \in Int : br = C!bit_reverse(0)
  BY <1>1, ReversedInt
<1>3. sg * br * 0 = 0
  BY DEF Signs
<1>4. PICK a \in Int : a = x[base]
  BY WordsAreInt
<1>5. Term(x, sg, base, 0, 0) = a
  <2>1. a * 1 = a
    OBVIOUS
  <2>. QED BY <1>1, <1>2, <1>3, <1>4, <2>1, PowOnce DEF Term
<1>6. Terms(x, sg, base, 1, 0)[0] = a
  BY <1>5 DEF Terms
<1>. QED BY <1>4, <1>6, CongSame, AddsOne DEF Part

----------------------------------------------------------------------------
(* Half a turn more is the other sign.                                     *)
LEMMA PowHalf ==
  ASSUME NEW h \in Int, C!N = 2 * h, NEW e \in Int, NEW sg \in Signs
  PROVE  Cong(C!Pow(e + sg * h), (-1) * C!Pow(e))
<1>1. C!Pow(h) = Q - 1
  <2>1. PICK k \in Nat : C!N = 2 * k /\ C!Pow(k) = Q - 1
    BY HalfTurn
  <2>2. k = h
    BY <2>1
  <2>. QED BY <2>1, <2>2
<1>2. PICK q \in Nat : q = Q
  BY CoreSizes
<1>3. PICK p \in Int, x \in Int : p = C!Pow(e) /\ x = C!Pow(e + h)
  BY PowType
<1>4. Cong(x, p * (q - 1))
  BY <1>1, <1>2, <1>3, PowPlus
<1>5. p * (q - 1) = (-1) * p + p * q
  BY <1>2
<1>6. Cong(p * (q - 1), (-1) * p)
  BY <1>2, <1>5 DEF Cong
<1>7. p * (q - 1) \in Int /\ (-1) * p \in Int
  OBVIOUS
<1>8. Cong(x, (-1) * p)
  BY <1>4, <1>6, <1>7, CongTrans
<1>9. CASE sg = 1
  <2>1. e + sg * h = e + h
    BY <1>9
  <2>. QED BY <1>3, <1>8, <2>1
<1>10. CASE sg = -1
  <2>1. e + sg * h = (e + h) + (-1) * (2 * h) /\ e + h \in Int /\ -1 \in Int
    BY <1>10
  <2>2. C!Pow((e + h) + (-1) * C!N) = C!Pow(e + h)
    BY <2>1, PowPeriod
  <2>3. C!Pow(e + sg * h) = x
    BY <1>3, <2>1, <2>2
  <2>. QED BY <1>3, <1>8, <2>3
<1>. QED BY <1>9, <1>10 DEF Signs

(* A stage works on g groups of two halves of m words.                     *)
Sizes(st, m, g) ==
  /\ st \in 0 .. LOGN - 1 /\ m \in Nat /\ m > 0 /\ g \in Nat /\ g > 0
  /\ m = 2 ^ st /\ g = 2 ^ (LOGN - st - 1) /\ C!N = g * (2 * m)

(* The terms of a part of 2m words, from those of its halves.              *)
LEMMA TermsJoin ==
  ASSUME NEW x \in [C!Idx -> C!Word], NEW sg \in Signs,
         NEW st, NEW m, NEW g, Sizes(st, m, g),
         NEW base \in Nat, base + 2 * m <= C!N, NEW b \in Int,
         NEW r \in 0 .. m - 1
  PROVE  /\ {r, m + r, base + r, base + m + r} \subseteq C!Idx
         /\ Term(x, sg, base, b, r) \in Int /\ Term(x, sg, base, b, m + r) \in Int
         /\ Term(x, sg, base + m, b, r) \in Int /\ Term(x, sg, base, b + m, m + r) \in Int
         /\ Term(x, sg, base, b + m, r) = Term(x, sg, base, b, r)
         /\ Cong(Term(x, sg, base, b, m + r),
                 C!Pow(sg * b * g) * Term(x, sg, base + m, b, r))
         /\ Cong(Term(x, sg, base, b + m, m + r),
                 (-1) * C!Pow(sg * b * g) * Term(x, sg, base + m, b, r))
<1>0. /\ st \in 0 .. LOGN - 1 /\ m \in Nat /\ m > 0 /\ g \in Nat
      /\ m = 2 ^ st /\ g = 2 ^ (LOGN - st - 1) /\ C!N = g * (2 * m)
  BY DEF Sizes
<1>1. PICK n \in Nat : n = C!N
  BY CoreSizes
<1>2. r \in Nat /\ m + r \in Nat /\ base + m \in Nat /\ b + m \in Int /\ sg \in Int
  BY <1>0 DEF Signs
<1>3. /\ r \in C!Idx /\ m + r \in C!Idx /\ base + r \in C!Idx /\ base + m + r \in C!Idx
      /\ base + (m + r) = base + m + r
  BY <1>0, <1>1 DEF C!Idx
<1>4. r < 2 ^ st /\ st \in 0 .. LOGN
  BY <1>0, CoreSizes
<1>5. PICK k \in Nat : k = C!bit_reverse(r)
  BY <1>3, ReversedInt
<1>6. C!bit_reverse(m + r) = k + g
  <2>1. C!bit_reverse(r + 2 ^ st) = C!bit_reverse(r) + 2 ^ (LOGN - st - 1)
    BY <1>0, <1>3, <1>4, ReversedNext
  <2>2. r + m = m + r
    BY <1>0, <1>2
  <2>. QED BY <1>0, <1>5, <2>1, <2>2
<1>7. PICK c \in Int : k * m = c * n
  <2>1. \E c \in Int : C!bit_reverse(r) * 2 ^ st = c * C!N
    BY <1>0, <1>3, <1>4, ReversedShort
  <2>. QED BY <1>0, <1>1, <1>5, <2>1
<1>8. PICK e \in Int, f \in Int, h \in Int : e = sg * k * b /\ f = sg * b * g /\ h = g * m
  BY <1>0, <1>2
<1>9. C!N = 2 * h
  BY <1>0, <1>8
<1>10. sg * c \in Int
  BY <1>2
<1>11. sg * k * (b + m) = e + (sg * c) * n
  <2>1. sg * k * (b + m) = sg * k * b + sg * (k * m)
    BY <1>0, <1>2
  <2>2. sg * (c * n) = (sg * c) * n
    BY <1>0, <1>2
  <2>. QED BY <1>0, <1>7, <1>8, <2>1, <2>2
<1>12. sg * (k + g) * b = e + f
  <2>1. sg * (k + g) * b = sg * k * b + sg * b * g
    BY <1>0, <1>2
  <2>. QED BY <1>0, <1>8, <2>1
<1>13. sg * (k + g) * (b + m) = ((e + f) + sg * h) + (sg * c) * n
  <2>1. sg * (k + g) * (b + m) = ((sg * k * b + sg * b * g) + sg * (g * m)) + sg * (k * m)
    BY <1>0, <1>2
  <2>2. sg * (c * n) = (sg * c) * n
    BY <1>0, <1>2
  <2>. QED BY <1>0, <1>7, <1>8, <2>1, <2>2
<1>14. e + f \in Int /\ (e + f) + sg * h \in Int
  BY <1>2
<1>15. PICK pe \in Int, pf \in Int, ps \in Int, ph \in Int :
         pe = C!Pow(e) /\ pf = C!Pow(f) /\ ps = C!Pow(e + f) /\ ph = C!Pow((e + f) + sg * h)
  BY <1>14, PowType
<1>16. Cong(ps, pe * pf) /\ Cong(ph, (-1) * ps)
  BY <1>9, <1>14, <1>15, PowPlus, PowHalf
<1>17. C!Pow(sg * k * (b + m)) = pe
  BY <1>1, <1>10, <1>11, <1>15, PowPeriod
<1>18. C!Pow(sg * (k + g) * (b + m)) = ph
  BY <1>1, <1>10, <1>13, <1>14, <1>15, PowPeriod
<1>19. PICK u \in Int, v \in Int : u = x[base + r] /\ v = x[base + m + r]
  BY <1>3, WordsAreInt
<1>20. /\ Term(x, sg, base, b, r) = u * pe
       /\ Term(x, sg, base, b + m, r) = u * pe
       /\ Term(x, sg, base + m, b, r) = v * pe
       /\ Term(x, sg, base, b, m + r) = v * ps
       /\ Term(x, sg, base, b + m, m + r) = v * ph
  <2>1. Term(x, sg, base, b, r) = u * pe
    BY <1>5, <1>8, <1>15, <1>19 DEF Term
  <2>2. Term(x, sg, base, b + m, r) = u * pe
    BY <1>5, <1>17, <1>19 DEF Term
  <2>3. Term(x, sg, base + m, b, r) = v * pe
    BY <1>5, <1>8, <1>15, <1>19 DEF Term
  <2>4. Term(x, sg, base, b, m + r) = v * ps
    BY <1>3, <1>6, <1>12, <1>15, <1>19 DEF Term
  <2>5. Term(x, sg, base, b + m, m + r) = v * ph
    BY <1>3, <1>6, <1>18, <1>19 DEF Term
  <2>. QED BY <2>1, <2>2, <2>3, <2>4, <2>5
<1>21. /\ u * pe \in Int /\ v * pe \in Int /\ v * ps \in Int /\ v * ph \in Int /\ pe * pf \in Int
       /\ (-1) * ps \in Int /\ pf * (v * pe) \in Int /\ (-1) * pf \in Int
       /\ v * (pe * pf) = pf * (v * pe) /\ v * (pe * pf) \in Int
       /\ v * ((-1) * ps) = (-1) * (v * ps) /\ v * ((-1) * ps) \in Int
       /\ (-1) * (pf * (v * pe)) = (-1) * pf * (v * pe) /\ (-1) * pf * (v * pe) \in Int
  OBVIOUS
<1>22. Cong(v * ps, pf * (v * pe))
  BY <1>16, <1>21, CongSame, CongTimes
<1>23. Cong(v * ph, (-1) * pf * (v * pe))
  <2>1. Cong(v * ph, v * ((-1) * ps))
    BY <1>16, <1>21, CongSame, CongTimes
  <2>2. -1 \in Int /\ Cong(-1, -1)
    BY CongSame
  <2>3. Cong((-1) * (v * ps), (-1) * (pf * (v * pe)))
    BY <1>21, <1>22, <2>2, CongTimes
  <2>. QED BY <1>21, <2>1, <2>3, CongTrans
<1>24. C!Pow(sg * b * g) = pf
  BY <1>8, <1>15
<1>25. {r, m + r, base + r, base + m + r} \subseteq C!Idx
  BY <1>3
<1>26. /\ Term(x, sg, base, b, r) \in Int /\ Term(x, sg, base, b, m + r) \in Int
       /\ Term(x, sg, base + m, b, r) \in Int /\ Term(x, sg, base, b + m, m + r) \in Int
  BY <1>20, <1>21
<1>. QED BY <1>20, <1>22, <1>23, <1>24, <1>25, <1>26

(* The butterfly joins two parts.                                          *)
LEMMA PartJoin ==
  ASSUME NEW x \in [C!Idx -> C!Word], NEW sg \in Signs,
         NEW st, NEW m, NEW g, Sizes(st, m, g),
         NEW base \in Nat, base + 2 * m <= C!N, NEW b \in Int, NEW u \in Int, NEW v \in Int,
         Part(x, sg, base, m, b, u), Part(x, sg, base + m, m, b, v)
  PROVE  /\ Part(x, sg, base, 2 * m, b, u + C!Pow(sg * b * g) * v)
         /\ Part(x, sg, base, 2 * m, b + m, u + ((-1) * C!Pow(sg * b * g)) * v)
<1>0. m \in Nat /\ g \in Nat
  BY DEF Sizes
<1>1. PICK c \in Int, d \in Int : c = C!Pow(sg * b * g) /\ d = (-1) * c
  <2>1. sg * b * g \in Int
    BY <1>0 DEF Signs
  <2>. QED BY <2>1, PowType
<1>2. m + m = 2 * m
  BY <1>0
<1> DEFINE lo == Terms(x, sg, base, m, b)
           hi == Terms(x, sg, base + m, m, b)
           t == Terms(x, sg, base, 2 * m, b)
           s == Terms(x, sg, base, 2 * m, b + m)
<1>3. Adds(lo, m, u) /\ Adds(hi, m, v)
  BY DEF Part
<1>4. ASSUME NEW i \in 0 .. m - 1
      PROVE  /\ lo[i] \in Int /\ hi[i] \in Int /\ t[i] = lo[i] /\ s[i] = lo[i]
             /\ t[m + i] \in Int /\ s[m + i] \in Int
             /\ Cong(t[m + i], c * hi[i]) /\ Cong(s[m + i], d * hi[i])
  <2>1. i \in 0 .. 2 * m - 1 /\ m + i \in 0 .. 2 * m - 1
    BY <1>0
  <2>2. /\ lo[i] = Term(x, sg, base, b, i) /\ hi[i] = Term(x, sg, base + m, b, i)
        /\ t[i] = Term(x, sg, base, b, i) /\ t[m + i] = Term(x, sg, base, b, m + i)
        /\ s[i] = Term(x, sg, base, b + m, i) /\ s[m + i] = Term(x, sg, base, b + m, m + i)
    BY <2>1 DEF Terms
  <2>3. /\ Term(x, sg, base, b, i) \in Int /\ Term(x, sg, base, b, m + i) \in Int
        /\ Term(x, sg, base + m, b, i) \in Int /\ Term(x, sg, base, b + m, m + i) \in Int
        /\ Term(x, sg, base, b + m, i) = Term(x, sg, base, b, i)
        /\ Cong(Term(x, sg, base, b, m + i), c * Term(x, sg, base + m, b, i))
        /\ Cong(Term(x, sg, base, b + m, m + i), d * Term(x, sg, base + m, b, i))
    <3>1. /\ Term(x, sg, base, b, i) \in Int /\ Term(x, sg, base, b, m + i) \in Int
          /\ Term(x, sg, base + m, b, i) \in Int /\ Term(x, sg, base, b + m, m + i) \in Int
          /\ Term(x, sg, base, b + m, i) = Term(x, sg, base, b, i)
          /\ Cong(Term(x, sg, base, b, m + i),
                  C!Pow(sg * b * g) * Term(x, sg, base + m, b, i))
          /\ Cong(Term(x, sg, base, b + m, m + i),
                  (-1) * C!Pow(sg * b * g) * Term(x, sg, base + m, b, i))
      BY TermsJoin
    <3>. QED BY <1>1, <3>1
  <2> HIDE DEF lo, hi, t, s
  <2>. QED BY <2>2, <2>3
<1> HIDE DEF lo, hi, t, s
<1>5. Adds(t, m + m, u + c * v)
  <2>1. (\A i \in 0 .. m - 1 : lo[i] \in Int /\ t[i] = lo[i])
        /\ \A i \in 0 .. m - 1 : hi[i] \in Int /\ t[m + i] \in Int /\ Cong(t[m + i], c * hi[i])
    BY <1>4
  <2>. QED BY <1>0, <1>1, <1>3, <2>1, AddsMore
<1>6. Adds(s, m + m, u + d * v)
  <2>1. (\A i \in 0 .. m - 1 : lo[i] \in Int /\ s[i] = lo[i])
        /\ \A i \in 0 .. m - 1 : hi[i] \in Int /\ s[m + i] \in Int /\ Cong(s[m + i], d * hi[i])
    BY <1>4
  <2>. QED BY <1>0, <1>1, <1>3, <2>1, AddsMore
<1>. QED BY <1>1, <1>2, <1>5, <1>6 DEF Part, t, s

----------------------------------------------------------------------------
(* The array between two butterflies: those before butterfly b0 of group   *)
(* G0 have joined their parts, the others have not.                        *)
Joined(x, sg, m, G, c, y) ==
  /\ Part(x, sg, G * (2 * m), 2 * m, c, y[G * (2 * m) + c])
  /\ Part(x, sg, G * (2 * m), 2 * m, c + m, y[G * (2 * m) + c + m])
Apart(x, sg, m, G, c, y) ==
  /\ Part(x, sg, G * (2 * m), m, c, y[G * (2 * m) + c])
  /\ Part(x, sg, G * (2 * m) + m, m, c, y[G * (2 * m) + c + m])
Crossed(x, sg, m, g, G0, b0, y) ==
  \A G \in 0 .. g - 1, c \in 0 .. m - 1 :
    IF G < G0 \/ (G = G0 /\ c < b0) THEN Joined(x, sg, m, G, c, y)
                                    ELSE Apart(x, sg, m, G, c, y)

(* And between two stages: n blocks of len words, all of them joined.      *)
Blocks(x, sg, len, n, y) ==
  \A B \in 0 .. n - 1, c \in 0 .. len - 1 : Part(x, sg, B * len, len, c, y[B * len + c])

LEMMA PartSame ==
  ASSUME NEW x, NEW sg, NEW base, NEW len \in Nat, NEW b, NEW v \in Int, NEW w \in Int,
         Part(x, sg, base, len, b, v), Cong(w, v)
  PROVE  Part(x, sg, base, len, b, w)
  BY AddsSame DEF Part

(* A word is in one block only, at one place.                              *)
LEMMA SameWord ==
  ASSUME NEW w \in Nat, w > 0, NEW H \in Int, NEW G \in Int, NEW d \in 0 .. w - 1, NEW e \in 0 .. w - 1,
         H * w + d = G * w + e
  PROVE  H = G /\ d = e
<1>1. (H * w + d) % w = d /\ (H * w + d) \div w = H
  BY Remainder
<1>2. (G * w + e) % w = e /\ (G * w + e) \div w = G
  BY Remainder
<1>. QED BY <1>1, <1>2

(* The two words of a butterfly are its own.                               *)
LEMMA OwnWords ==
  ASSUME NEW st, NEW m, NEW g, Sizes(st, m, g),
         NEW G \in 0 .. g - 1, NEW c \in 0 .. m - 1
  PROVE  /\ G * (2 * m) + c \in C!Idx /\ G * (2 * m) + c + m \in C!Idx
         /\ G * (2 * m) \in Nat /\ G * (2 * m) + 2 * m <= C!N
         /\ \A H \in 0 .. g - 1, d \in 0 .. m - 1 :
              ~(H = G /\ d = c) =>
                {H * (2 * m) + d, H * (2 * m) + d + m}
                  \cap {G * (2 * m) + c, G * (2 * m) + c + m} = {}
<1>1. m \in Nat /\ m > 0 /\ g \in Nat /\ C!N = g * (2 * m)
  BY DEF Sizes
<1>2. PICK w \in Nat : w = 2 * m /\ w > 0
  BY <1>1
<1>3. PICK n \in Nat : n = C!N /\ n = g * w
  BY <1>1, <1>2
<1>4. G * w + w <= n /\ G * w \in Nat
  <2>1. PICK e \in Nat : g = G + 1 + e
    <3>1. g - G - 1 \in Nat
      BY <1>1
    <3>. QED BY <1>1, <3>1
  <2>2. (G + 1 + e) * w = G * w + w + e * w
    OBVIOUS
  <2>3. PICK y \in Nat, z \in Nat : y = e * w /\ z = G * w
    OBVIOUS
  <2>. QED BY <1>3, <2>1, <2>2, <2>3
<1>5. G * w + c \in 0 .. n - 1 /\ G * w + c + m \in 0 .. n - 1
  <2>1. PICK z \in Nat : z = G * w
    OBVIOUS
  <2>. QED BY <1>1, <1>2, <1>4, <2>1
<1>6. ASSUME NEW H \in 0 .. g - 1, NEW d \in 0 .. w - 1, NEW e \in 0 .. w - 1, H * w + d = G * w + e
      PROVE  H = G /\ d = e
  <2>1. H \in Int /\ G \in Int
    BY <1>1
  <2>. QED BY <1>2, <1>6, <2>1, SameWord
<1>7. ASSUME NEW H \in 0 .. g - 1, NEW d \in 0 .. m - 1, ~(H = G /\ d = c)
      PROVE  {H * w + d, H * w + d + m} \cap {G * w + c, G * w + c + m} = {}
  <2>1. /\ d \in 0 .. w - 1 /\ d + m \in 0 .. w - 1 /\ c \in 0 .. w - 1 /\ c + m \in 0 .. w - 1
        /\ H * w + (d + m) = H * w + d + m /\ G * w + (c + m) = G * w + c + m
        /\ d # c + m /\ d + m # c /\ (d + m = c + m => d = c)
    BY <1>1, <1>2
  <2>2. H * w + d # G * w + c
    BY <1>6, <1>7, <2>1
  <2>3. H * w + d # G * w + (c + m)
    BY <1>6, <1>7, <2>1
  <2>4. H * w + (d + m) # G * w + c
    BY <1>6, <1>7, <2>1
  <2>5. H * w + (d + m) # G * w + (c + m)
    BY <1>6, <1>7, <2>1
  <2>6. H * w + d + m # G * w + c /\ H * w + d + m # G * w + c + m /\ H * w + d # G * w + c + m
    BY <2>1, <2>3, <2>4, <2>5
  <2>. QED BY <2>2, <2>6
<1>. QED BY <1>2, <1>3, <1>4, <1>5, <1>7 DEF C!Idx

(* One butterfly more.                                                     *)
LEMMA CrossOne ==
  ASSUME NEW x \in [C!Idx -> C!Word], NEW sg \in Signs,
         NEW st, NEW m, NEW g, Sizes(st, m, g),
         NEW G0 \in 0 .. g - 1, NEW b0 \in 0 .. m - 1,
         NEW y \in [C!Idx -> C!Word], NEW z \in [C!Idx -> C!Word],
         Crossed(x, sg, m, g, G0, b0, y),
         NEW lo, NEW hi, lo = G0 * (2 * m) + b0, hi = G0 * (2 * m) + b0 + m,
         Cong(z[lo], y[lo] + C!Pow(sg * b0 * g) * y[hi]),
         Cong(z[hi], y[lo] + ((-1) * C!Pow(sg * b0 * g)) * y[hi]),
         \A k \in C!Idx : k # lo /\ k # hi => z[k] = y[k]
  PROVE  Crossed(x, sg, m, g, G0, b0 + 1, z)
<1>1. m \in Nat /\ m > 0 /\ g \in Nat /\ b0 \in Int /\ 2 * m \in Nat
  BY DEF Sizes
<1>2. /\ lo \in C!Idx /\ hi \in C!Idx
      /\ G0 * (2 * m) \in Nat /\ G0 * (2 * m) + 2 * m <= C!N
      /\ \A H \in 0 .. g - 1, d \in 0 .. m - 1 :
           ~(H = G0 /\ d = b0) => {H * (2 * m) + d, H * (2 * m) + d + m} \cap {lo, hi} = {}
  BY OwnWords
<1>3. Joined(x, sg, m, G0, b0, z)
  <2>1. ~(G0 < G0 \/ (G0 = G0 /\ b0 < b0))
    BY <1>1
  <2>2. Apart(x, sg, m, G0, b0, y)
    BY <2>1 DEF Crossed
  <2>3. PICK u \in Int, v \in Int, p \in Int, q \in Int : u = y[lo] /\ v = y[hi] /\ p = z[lo] /\ q = z[hi]
    BY <1>2, WordsAreInt
  <2>4. PICK base \in Nat : base = G0 * (2 * m)
    BY <1>2
  <2>5. PICK c \in Int : c = C!Pow(sg * b0 * g)
    <3>1. sg * b0 * g \in Int
      BY <1>1 DEF Signs
    <3>. QED BY <3>1, PowType
  <2>6. Part(x, sg, base, m, b0, u) /\ Part(x, sg, base + m, m, b0, v)
    BY <2>2, <2>3, <2>4 DEF Apart
  <2>7. /\ Part(x, sg, base, 2 * m, b0, u + c * v)
        /\ Part(x, sg, base, 2 * m, b0 + m, u + ((-1) * c) * v)
    BY <1>1, <1>2, <2>4, <2>5, <2>6, PartJoin
  <2>8. u + c * v \in Int /\ u + ((-1) * c) * v \in Int
    OBVIOUS
  <2>9. Cong(p, u + c * v) /\ Cong(q, u + ((-1) * c) * v)
    BY <2>3, <2>5
  <2>10. Part(x, sg, base, 2 * m, b0, p) /\ Part(x, sg, base, 2 * m, b0 + m, q)
    BY <1>1, <2>7, <2>8, <2>9, PartSame
  <2>. QED BY <2>3, <2>4, <2>10 DEF Joined
<1>4. ASSUME NEW G \in 0 .. g - 1, NEW c \in 0 .. m - 1, ~(G = G0 /\ c = b0)
      PROVE  IF G < G0 \/ (G = G0 /\ c < b0 + 1) THEN Joined(x, sg, m, G, c, z)
                                                 ELSE Apart(x, sg, m, G, c, z)
  <2>1. G * (2 * m) + c \in C!Idx /\ G * (2 * m) + c + m \in C!Idx
    BY OwnWords
  <2>2. {G * (2 * m) + c, G * (2 * m) + c + m} \cap {lo, hi} = {}
    BY <1>2, <1>4
  <2>3. z[G * (2 * m) + c] = y[G * (2 * m) + c] /\ z[G * (2 * m) + c + m] = y[G * (2 * m) + c + m]
    BY <2>1, <2>2
  <2>4. (G < G0 \/ (G = G0 /\ c < b0 + 1)) = (G < G0 \/ (G = G0 /\ c < b0))
    BY <1>1, <1>4
  <2>5. IF G < G0 \/ (G = G0 /\ c < b0) THEN Joined(x, sg, m, G, c, y) ELSE Apart(x, sg, m, G, c, y)
    BY DEF Crossed
  <2>. QED BY <2>3, <2>4, <2>5 DEF Joined, Apart
<1>5. ASSUME NEW G \in 0 .. g - 1, NEW c \in 0 .. m - 1, G = G0 /\ c = b0
      PROVE  IF G < G0 \/ (G = G0 /\ c < b0 + 1) THEN Joined(x, sg, m, G, c, z)
                                                 ELSE Apart(x, sg, m, G, c, z)
  <2>1. c < b0 + 1
    BY <1>1, <1>5
  <2>. QED BY <1>3, <1>5, <2>1
<1>. QED BY <1>4, <1>5 DEF Crossed

(* One group more; a group has m butterflies.                              *)
LEMMA NextGroup ==
  ASSUME NEW x, NEW sg, NEW m \in Nat, NEW g \in Nat, NEW G0 \in Nat, NEW y,
         Crossed(x, sg, m, g, G0, m, y)
  PROVE  Crossed(x, sg, m, g, G0 + 1, 0, y)
<1>1. ASSUME NEW G \in 0 .. g - 1, NEW c \in 0 .. m - 1
      PROVE  IF G < G0 + 1 \/ (G = G0 + 1 /\ c < 0) THEN Joined(x, sg, m, G, c, y)
                                                    ELSE Apart(x, sg, m, G, c, y)
  <2>1. (G < G0 + 1 \/ (G = G0 + 1 /\ c < 0)) = (G < G0 \/ (G = G0 /\ c < m))
    OBVIOUS
  <2>2. IF G < G0 \/ (G = G0 /\ c < m) THEN Joined(x, sg, m, G, c, y) ELSE Apart(x, sg, m, G, c, y)
    BY DEF Crossed
  <2>. QED BY <2>1, <2>2
<1>. QED BY <1>1 DEF Crossed

(* After the last group the blocks are twice as long.                      *)
LEMMA AllCrossed ==
  ASSUME NEW x, NEW sg, NEW m \in Nat, NEW g \in Nat, NEW y,
         Crossed(x, sg, m, g, g, 0, y)
  PROVE  Blocks(x, sg, 2 * m, g, y)
<1> SUFFICES ASSUME NEW B \in 0 .. g - 1, NEW c \in 0 .. 2 * m - 1
             PROVE  Part(x, sg, B * (2 * m), 2 * m, c, y[B * (2 * m) + c])
  BY DEF Blocks
<1>1. \A d \in 0 .. m - 1 : Joined(x, sg, m, B, d, y)
  BY DEF Crossed
<1>2. CASE c < m
  <2>1. c \in 0 .. m - 1
    BY <1>2
  <2>. QED BY <1>1, <2>1 DEF Joined
<1>3. CASE c >= m
  <2>1. PICK d \in 0 .. m - 1 : d + m = c
    <3>1. c - m \in 0 .. m - 1
      BY <1>3
    <3>. QED BY <3>1
  <2>2. PICK z \in Nat : z = B * (2 * m)
    OBVIOUS
  <2>3. z + d + m = z + c
    BY <2>1
  <2>4. Part(x, sg, z, 2 * m, d + m, y[z + d + m])
    BY <1>1, <2>2 DEF Joined
  <2>. QED BY <2>1, <2>2, <2>3, <2>4
<1>. QED BY <1>2, <1>3

(* And the next stage begins.                                              *)
LEMMA StageBegins ==
  ASSUME NEW x, NEW sg, NEW m \in Nat, NEW g \in Nat, NEW y,
         Blocks(x, sg, m, 2 * g, y)
  PROVE  Crossed(x, sg, m, g, 0, 0, y)
<1> SUFFICES ASSUME NEW G \in 0 .. g - 1, NEW c \in 0 .. m - 1
             PROVE  Apart(x, sg, m, G, c, y)
  BY DEF Crossed
<1>1. 2 * G \in 0 .. 2 * g - 1 /\ 2 * G + 1 \in 0 .. 2 * g - 1
  OBVIOUS
<1>2. (2 * G) * m = G * (2 * m) /\ (2 * G + 1) * m = G * (2 * m) + m
  OBVIOUS
<1>3. Part(x, sg, (2 * G) * m, m, c, y[(2 * G) * m + c])
  BY <1>1 DEF Blocks
<1>4. Part(x, sg, (2 * G + 1) * m, m, c, y[(2 * G + 1) * m + c])
  BY <1>1 DEF Blocks
<1>5. G * (2 * m) + m + c = G * (2 * m) + c + m
  OBVIOUS
<1>. QED BY <1>2, <1>3, <1>4, <1>5 DEF Apart

(* The input is blocks of one word, the result is one block.               *)
LEMMA FirstStage ==
  ASSUME NEW x \in [C!Idx -> C!Word], NEW sg \in Signs
  PROVE  Blocks(x, sg, 1, C!N, x)
<1> SUFFICES ASSUME NEW B \in 0 .. C!N - 1, NEW c \in 0 .. 1 - 1
             PROVE  Part(x, sg, B * 1, 1, c, x[B * 1 + c])
  BY DEF Blocks
<1>1. B \in C!Idx /\ B \in Nat /\ c = 0
  BY IndexInt DEF C!Idx
<1>2. B * 1 = B /\ B + 0 = B
  BY <1>1
<1>. QED BY <1>1, <1>2, PartOne

LEMMA LastStage ==
  ASSUME NEW x, NEW sg, NEW y, Blocks(x, sg, C!N, 1, y)
  PROVE  \A k \in C!Idx : Part(x, sg, 0, C!N, k, y[k])
<1> TAKE k \in C!Idx
<1>1. PICK n \in Nat : n = C!N
  BY CoreSizes
<1>2. k \in 0 .. n - 1 /\ 0 \in 0 .. 1 - 1 /\ 0 * n = 0 /\ 0 + k = k
  BY <1>1 DEF C!Idx
<1>3. Part(x, sg, 0 * n, n, k, y[0 * n + k])
  BY <1>1, <1>2 DEF Blocks
<1>. QED BY <1>1, <1>2, <1>3

----------------------------------------------------------------------------
(* The sum that defines the transform is the whole of the vector.          *)
LEMMA SumIs ==
  ASSUME NEW x \in [C!Idx -> C!Word], NEW sg \in Signs, NEW k \in C!Idx, NEW v \in Int,
         Part(x, sg, 0, C!N, C!bit_reverse(k), v)
  PROVE  v % Q = C!Sum(x, k, sg)
<1>1. PICK n \in Nat : n = C!N /\ C!Idx = 0 .. n - 1
  BY CoreSizes DEF C!Idx
<1>2. PICK b \in Nat : b = C!bit_reverse(k)
  BY ReversedInt
<1> DEFINE a == Terms(x, sg, 0, n, b)
           at == [i \in 0 .. n |-> IF i = 0 THEN 0 ELSE a[i - 1]]
           h == [p \in (0 .. n) \X Int |-> p[2] + at[p[1]]]
           Eq(f) == f = [j \in 0 .. C!N |->
                           IF j = 0 THEN 0
                           ELSE f[j - 1] + x[j - 1] * C!Pow(sg * C!bit_reverse(j - 1) * C!bit_reverse(k))]
<1>3. ASSUME NEW i \in 1 .. n
      PROVE  /\ a[i - 1] \in Int
             /\ a[i - 1] = x[i - 1] * C!Pow(sg * C!bit_reverse(i - 1) * C!bit_reverse(k))
  <2>1. PICK r \in 0 .. n - 1 : r = i - 1
    BY <1>1
  <2>2. r \in C!Idx /\ 0 + r = r /\ 0 \in Nat /\ b \in Int /\ 0 + r \in C!Idx
    BY <1>1
  <2>3. a[r] = Term(x, sg, 0, b, r)
    BY DEF Terms
  <2> HIDE DEF a
  <2>4. Term(x, sg, 0, b, r) \in Int
    BY <2>2, TermInt
  <2>. QED BY <1>2, <2>1, <2>2, <2>3, <2>4 DEF Term
<1> HIDE DEF a
<1>4. at[0] = 0 /\ \A i \in 1 .. n : at[i] = a[i - 1]
  BY <1>1
<1>5. \A i \in 0 .. n : at[i] \in Int
  <2> TAKE i \in 0 .. n
  <2>1. i = 0 \/ i \in 1 .. n
    BY <1>1
  <2> HIDE DEF at
  <2>. QED BY <1>3, <1>4, <2>1
<1> HIDE DEF at
<1>6. h \in [(0 .. n) \X Int -> Int]
  <2>1. ASSUME NEW p \in (0 .. n) \X Int  PROVE p[2] + at[p[1]] \in Int
    <3>1. p[1] \in 0 .. n /\ p[2] \in Int
      OBVIOUS
    <3>2. at[p[1]] \in Int
      BY <1>5, <3>1
    <3>. QED BY <3>1, <3>2
  <2>. QED BY <2>1
<1>7. PICK f \in [0 .. n -> Int] : f[0] = 0 /\ \A i \in 1 .. n : f[i] = h[<<i, f[i - 1]>>]
  <2>1. 0 \in Int
    OBVIOUS
  <2> HIDE DEF h
  <2>. QED BY <1>1, <1>6, <2>1, Recursion
<1>8. \A i \in 1 .. n : f[i] = f[i - 1] + a[i - 1]
  <2> TAKE i \in 1 .. n
  <2>1. <<i, f[i - 1]>> \in (0 .. n) \X Int
    BY <1>1, <1>7
  <2>2. h[<<i, f[i - 1]>>] = f[i - 1] + at[i]
    BY <2>1
  <2>. QED BY <1>4, <1>7, <2>2
<1>9. Eq(f)
  <2>1. ASSUME NEW j \in 0 .. n
        PROVE  f[j] = IF j = 0 THEN 0
                      ELSE f[j - 1] + x[j - 1] * C!Pow(sg * C!bit_reverse(j - 1) * C!bit_reverse(k))
    <3>1. CASE j = 0
      BY <1>7, <3>1
    <3>2. CASE j # 0
      <4>1. j \in 1 .. n
        BY <1>1, <3>2
      <4>2. f[j] = f[j - 1] + a[j - 1]
        BY <1>8, <4>1
      <4>3. a[j - 1] = x[j - 1] * C!Pow(sg * C!bit_reverse(j - 1) * C!bit_reverse(k))
        BY <1>3, <4>1
      <4>. QED BY <3>2, <4>2, <4>3
    <3>. QED BY <3>1, <3>2
  <2>2. f = [j \in 0 .. n |-> f[j]]
    BY <1>7
  <2>. QED BY <1>1, <2>1, <2>2
<1>10. PICK t : t = CHOOSE r : Eq(r)
  OBVIOUS
<1>11. Eq(t)
  <2> HIDE DEF Eq
  <2>. QED BY <1>9, <1>10
<1>12. C!Sum(x, k, sg) = t[C!N] % Q
  BY <1>10 DEF C!Sum
<1>13. t[0] = 0 /\ \A i \in 1 .. n : t[i] = t[i - 1] + a[i - 1]
  <2>1. t[0] = 0
    <3>1. 0 \in 0 .. C!N
      BY <1>1
    <3>. QED BY <1>11, <3>1
  <2>2. ASSUME NEW i \in 1 .. n  PROVE t[i] = t[i - 1] + a[i - 1]
    <3>1. i \in 0 .. C!N /\ i # 0
      BY <1>1
    <3>2. t[i] = t[i - 1] + x[i - 1] * C!Pow(sg * C!bit_reverse(i - 1) * C!bit_reverse(k))
      BY <1>11, <3>1
    <3>. QED BY <1>3, <3>2
  <2>. QED BY <2>1, <2>2
<1> HIDE DEF Eq
<1>14. PICK d \in [0 .. n -> Int] :
         d[0] = 0 /\ (\A i \in 1 .. n : Cong(d[i], d[i - 1] + a[i - 1])) /\ Cong(v, d[n])
  BY <1>1, <1>2 DEF Part, Adds, a
<1> DEFINE P == {i \in 0 .. n : t[i] \in Int /\ Cong(d[i], t[i])}
<1>15. 0 \in P
  <2>1. Cong(0, 0)
    BY CongSame
  <2>. QED BY <1>1, <1>13, <1>14, <2>1
<1>16. ASSUME NEW i \in 1 .. n, i - 1 \in P  PROVE i \in P
  <2>1. i \in 0 .. n /\ i - 1 \in 0 .. n
    BY <1>1
  <2>2. PICK p \in Int, q \in Int, r \in Int, s \in Int :
          p = t[i - 1] /\ q = d[i - 1] /\ r = a[i - 1] /\ s = d[i]
    BY <1>3, <1>14, <1>16, <2>1
  <2>3. Cong(q, p) /\ Cong(s, q + r) /\ t[i] = p + r
    BY <1>13, <1>14, <1>16, <2>2
  <2>4. Cong(q + r, p + r)
    BY <2>3, CongSame, CongPlus
  <2>5. q + r \in Int /\ p + r \in Int
    OBVIOUS
  <2>6. Cong(s, p + r)
    BY <2>3, <2>4, <2>5, CongTrans
  <2>. QED BY <2>1, <2>2, <2>3, <2>5, <2>6
<1> HIDE DEF P
<1>17. n \in P
  <2>1. n \in 0 .. n
    BY <1>1
  <2>. QED BY <1>1, <1>15, <1>16, <2>1, IndexInduction
<1>18. PICK p \in Int, q \in Int : p = t[n] /\ q = d[n] /\ Cong(q, p)
  BY <1>14, <1>17 DEF P
<1>19. Cong(v, p)
  BY <1>14, <1>18, CongTrans
<1>. QED BY <1>1, <1>12, <1>18, <1>19, CongMod

----------------------------------------------------------------------------
(* The sizes of the stages.                                                *)
LEMMA SizesOf ==
  ASSUME NEW st \in 0 .. LOGN - 1
  PROVE  /\ Sizes(st, 2 ^ st, 2 ^ (LOGN - st - 1))
         /\ C!N \div (2 * 2 ^ st) = 2 ^ (LOGN - st - 1)
<1>1. PICK m \in Nat, g \in Nat :
        /\ 2 ^ st = m /\ m > 0 /\ 2 ^ (LOGN - st - 1) = g /\ g > 0
        /\ C!N = g * (2 * m) /\ C!N \div (2 * m) = g /\ m <= C!N /\ g <= C!N
  BY HalvesOf
<1>. QED BY <1>1 DEF Sizes

(* The groups of the next stage, of which there are half as many.          *)
LEMMA SizesNext ==
  ASSUME NEW st \in 0 .. LOGN - 1, NEW m, NEW g, Sizes(st, m, g)
  PROVE  /\ st + 1 = LOGN => 2 * m = C!N /\ g = 1
         /\ st + 1 < LOGN => \E k \in Nat : Sizes(st + 1, 2 * m, k) /\ g = 2 * k
<1>1. /\ m \in Nat /\ g \in Nat /\ m = 2 ^ st /\ g = 2 ^ (LOGN - st - 1) /\ C!N = g * (2 * m)
      /\ LOGN \in Nat /\ st \in Nat
  BY CoreSizes DEF Sizes
<1>2. CASE st + 1 = LOGN
  <2>1. LOGN - st - 1 = 0
    BY <1>1, <1>2
  <2>2. g = 1
    BY <1>1, <2>1
  <2>3. 1 * (2 * m) = 2 * m
    BY <1>1
  <2>4. ~(st + 1 < LOGN)
    BY <1>1, <1>2
  <2>. QED BY <1>1, <2>2, <2>3, <2>4
<1>3. CASE st + 1 < LOGN
  <2>1. /\ st + 1 \in 0 .. LOGN - 1 /\ LOGN - (st + 1) - 1 \in Nat
        /\ (LOGN - (st + 1) - 1) + 1 = LOGN - st - 1 /\ st + 1 # LOGN
    BY <1>1, <1>3
  <2>2. PICK k \in Nat : k = 2 ^ (LOGN - (st + 1) - 1)
    BY <2>1, PowerIs
  <2>3. g = 2 * k
    BY <1>1, <2>1, <2>2, PowerNext
  <2>4. 2 ^ (st + 1) = 2 * m
    BY <1>1, PowerNext
  <2>5. Sizes(st + 1, 2 * m, k)
    BY <2>1, <2>2, <2>4, SizesOf
  <2>. QED BY <2>1, <2>3, <2>5
<1>. QED BY <1>1, <1>2, <1>3

----------------------------------------------------------------------------
(* The core on its way to the transform of `given'.                        *)
Sg == IF inverse THEN -1 ELSE 1
Whole(x, sg, y) == \A k \in C!Idx : Part(x, sg, 0, C!N, k, y[k])
Scaled(x, sg, y) == \A k \in C!Idx : Part(x, sg, 0, C!N, k, C!N * y[k])
Output(x, sg, inv, y) ==
  \A k \in C!Idx : Part(x, sg, 0, C!N, C!bit_reverse(k), IF inv THEN C!N * y[k] ELSE y[k])
Onward(x, sg, st, gr, bf, y) ==
  IF st = LOGN THEN Whole(x, sg, y)
               ELSE Crossed(x, sg, 2 ^ st, C!N \div (2 * 2 ^ st), gr, bf, y)

TransInv ==
  /\ fsm = 1 => stage = 0 /\ group = 0 /\ butterfly = 0
  /\ fsm = 2 => Onward(given, Sg, stage, group, butterfly, mem)
  /\ fsm = 3 => inverse /\ Whole(given, Sg, mem)
  /\ fsm = 4 => IF inverse THEN Scaled(given, Sg, mem) ELSE Whole(given, Sg, mem)
  /\ done => Output(given, Sg, inverse, data_out)

LEMMA SgIs == Sg \in Signs
  BY DEF Sg, Signs

LEMMA Begins ==
  ASSUME NEW x \in [C!Idx -> C!Word], NEW sg \in Signs
  PROVE  Onward(x, sg, 0, 0, 0, x)
<1>1. 0 \in 0 .. LOGN - 1 /\ 0 # LOGN
  BY CoreSizes
<1>2. PICK m, g : m = 2 ^ 0 /\ g = C!N \div (2 * 2 ^ 0) /\ Sizes(0, m, g)
  BY <1>1, SizesOf
<1>3. m = 1 /\ g \in Nat /\ C!N = g * (2 * m)
  BY <1>2 DEF Sizes
<1>4. C!N = 2 * g
  BY <1>3
<1>5. Blocks(x, sg, m, 2 * g, x)
  BY <1>3, <1>4, FirstStage
<1>6. m \in Nat
  BY <1>3
<1>7. Crossed(x, sg, m, g, 0, 0, x)
  BY <1>3, <1>5, <1>6, StageBegins
<1>. QED BY <1>1, <1>2, <1>7 DEF Onward

(* The factor of a butterfly is the one that joins its parts.              *)
LEMMA FactorIs ==
  ASSUME CoreInv, fsm = 2, stage # LOGN
  PROVE  C!twiddle[C!twiddle_idx] = C!Pow(Sg * butterfly * C!Groups)
<1>1. stage \in 0 .. LOGN - 1 /\ butterfly \in Nat /\ group \in Nat /\ Working
  BY CoreSizes DEF CoreInv
<1>2. PICK g \in Nat : g = C!Groups
  BY <1>1, Halves
<1>3. C!twiddle_idx \in C!Idx
  BY <1>1, InsideArrays
<1>4. C!twiddle[C!twiddle_idx] = C!power[C!twiddle_idx] /\ C!power[C!twiddle_idx] = C!Pow(C!twiddle_idx)
  BY <1>3, TwiddleIsPower, PowOnce
<1>5. PICK k \in Int : k = butterfly * g
  BY <1>1
<1>6. CASE ~inverse
  <2>1. C!twiddle_idx = k
    BY <1>2, <1>5, <1>6 DEF C!twiddle_idx
  <2>2. Sg * butterfly * g = k
    BY <1>1, <1>5, <1>6 DEF Sg
  <2>. QED BY <1>2, <1>4, <2>1, <2>2
<1>7. CASE inverse
  <2>1. PICK n \in Nat : n = C!N /\ n > 0
    BY CoreSizes
  <2>2. C!twiddle_idx = (n - k) % n
    BY <1>2, <1>5, <1>7, <2>1 DEF C!twiddle_idx
  <2>3. PICK j \in Int : j = n - k /\ j = -k + 1 * n
    BY <2>1
  <2>4. j % n \in 0 .. n - 1
    BY <2>1
  <2>5. C!Pow(j % n) = C!power[j % n]
    BY <2>1, <2>4, PowOnce DEF C!Idx
  <2>6. C!Pow(j) = C!power[j % n]
    BY <2>1 DEF C!Pow
  <2>7. C!Pow(-k + 1 * n) = C!Pow(-k)
    <3>1. -k \in Int /\ 1 \in Int
      OBVIOUS
    <3>. QED BY <2>1, <3>1, PowPeriod
  <2>8. Sg * butterfly * g = -k
    <3>1. Sg = -1
      BY <1>7 DEF Sg
    <3>2. (-1) * butterfly * g = -(butterfly * g)
      BY <1>1
    <3>. QED BY <1>5, <3>1, <3>2
  <2>. QED BY <1>2, <1>4, <2>2, <2>3, <2>5, <2>6, <2>7, <2>8
<1>. QED BY <1>6, <1>7

(* A butterfly that crosses its two words brings the whole one further.    *)
LEMMA OneFurther ==
  ASSUME NEW x \in [C!Idx -> C!Word], NEW sg \in Signs,
         NEW st \in 0 .. LOGN - 1, NEW m, NEW g, m = 2 ^ st, g = C!N \div (2 * 2 ^ st),
         NEW G0 \in 0 .. g - 1, NEW b0 \in 0 .. m - 1, NEW z,
         Crossed(x, sg, m, g, G0, b0 + 1, z),
         NEW st1, NEW G1, NEW b1,
         \/ b1 = b0 + 1 /\ G1 = G0 /\ st1 = st
         \/ b0 + 1 = m /\ b1 = 0 /\ G1 = G0 + 1 /\ st1 = st
         \/ b0 + 1 = m /\ G0 + 1 = g /\ b1 = 0 /\ G1 = 0 /\ st1 = st + 1
  PROVE  Onward(x, sg, st1, G1, b1, z)
<1>1. Sizes(st, m, g) /\ st # LOGN /\ LOGN \in Nat /\ st \in Nat
  BY SizesOf, CoreSizes
<1>2. m \in Nat /\ g \in Nat /\ G0 \in Nat
  BY <1>1 DEF Sizes
<1>3. CASE b1 = b0 + 1 /\ G1 = G0 /\ st1 = st
  BY <1>1, <1>3 DEF Onward
<1>4. CASE b0 + 1 = m /\ b1 = 0 /\ G1 = G0 + 1 /\ st1 = st
  <2>1. Crossed(x, sg, m, g, G1, b1, z)
    BY <1>2, <1>4, NextGroup
  <2>. QED BY <1>1, <1>4, <2>1 DEF Onward
<1>5. CASE b0 + 1 = m /\ G0 + 1 = g /\ b1 = 0 /\ G1 = 0 /\ st1 = st + 1
  <2>1. Crossed(x, sg, m, g, g, 0, z)
    <3>1. Crossed(x, sg, m, g, G0 + 1, 0, z)
      BY <1>2, <1>5, NextGroup
    <3>. QED BY <1>5, <3>1
  <2>2. Blocks(x, sg, 2 * m, g, z)
    BY <1>2, <2>1, AllCrossed
  <2>3. CASE st + 1 = LOGN
    <3>1. 2 * m = C!N /\ g = 1
      BY <1>1, <2>3, SizesNext
    <3>2. Whole(x, sg, z)
      BY <2>2, <3>1, LastStage DEF Whole
    <3>. QED BY <1>5, <2>3, <3>2 DEF Onward
  <2>4. CASE st + 1 < LOGN
    <3>1. PICK k \in Nat : Sizes(st + 1, 2 * m, k) /\ g = 2 * k
      BY <1>1, <2>4, SizesNext
    <3>2. 2 * m \in Nat
      BY <1>2
    <3>3. Crossed(x, sg, 2 * m, k, 0, 0, z)
      BY <2>2, <3>1, <3>2, StageBegins
    <3>4. st + 1 \in 0 .. LOGN - 1 /\ st + 1 # LOGN
      BY <1>1, <2>4
    <3>5. 2 * m = 2 ^ (st + 1) /\ k = 2 ^ (LOGN - (st + 1) - 1)
      BY <3>1 DEF Sizes
    <3>6. C!N \div (2 * 2 ^ (st + 1)) = k
      BY <3>4, <3>5, SizesOf
    <3>. QED BY <1>5, <3>3, <3>4, <3>5, <3>6 DEF Onward
  <2>. QED BY <1>1, <2>3, <2>4
<1>. QED BY <1>3, <1>4, <1>5

LEMMA ButterflyFurther ==
  ASSUME CoreInv, TransInv, C!Butterfly
  PROVE  Onward(given, Sg, stage', group', butterfly', mem')
<1>1. /\ fsm = 2 /\ stage # LOGN /\ C!Advance
      /\ stage \in 0 .. LOGN - 1 /\ butterfly \in Nat /\ group \in Nat /\ Working
  BY CoreSizes DEF C!Butterfly, CoreInv
<1>2. PICK m, g : m = C!M /\ g = C!Groups /\ m = 2 ^ stage /\ g = C!N \div (2 * 2 ^ stage)
  BY DEF C!M, C!Groups
<1>3. Sizes(stage, m, g) /\ m \in Nat /\ g \in Nat /\ m > 0
  BY <1>1, <1>2, SizesOf DEF Sizes
<1>4. group \in 0 .. g - 1 /\ butterfly \in 0 .. m - 1
  BY <1>1, <1>2, <1>3 DEF Working
<1>5. Crossed(given, Sg, m, g, group, butterfly, mem)
  BY <1>1, <1>2 DEF TransInv, Onward
<1>6. PICK i, j : i = C!idx1 /\ j = C!idx2 /\ i \in C!Idx /\ j \in C!Idx
  BY <1>1, InsideArrays
<1>7. i = group * (2 * m) + butterfly /\ j = group * (2 * m) + butterfly + m /\ i # j
  <2>1. PICK G \in Nat, b \in Nat : G = group /\ b = butterfly
    BY <1>1
  <2>2. G * 2 * m = G * (2 * m)
    BY <1>3
  <2>3. PICK y \in Nat : y = G * (2 * m)
    BY <1>3
  <2>4. i = y + b /\ j = y + b + m
    BY <1>2, <1>6, <2>1, <2>2, <2>3 DEF C!idx1, C!idx2
  <2>. QED BY <1>3, <2>1, <2>3, <2>4
<1>8. PICK c \in 0 .. Q - 1 : c = C!twiddle[C!twiddle_idx] /\ c = C!Pow(Sg * butterfly * g)
  <2>1. Sg * butterfly * g \in Int
    BY <1>1, <1>3 DEF Sg
  <2>. QED BY <1>1, <1>2, <2>1, FactorIs, PowType
<1>9. PICK u \in C!Word, w \in C!Word : u = mem[i] /\ w = mem[j]
  BY <1>6 DEF CoreInv
<1>10. u \in Int /\ w \in Int /\ c \in Int
  BY WordsAreInt, CoreSizes
<1>11. PICK v \in 0 .. Q - 1 : v = C!modmul(w, c) /\ Cong(v, c * w)
  <2>1. w * c = c * w /\ w * c \in Int
    BY <1>10
  <2>. QED BY <2>1, ExactProduct, CongMod
<1>12. v \in Int /\ c * w \in Int /\ u + v \in Int /\ u - v \in Int /\ u + c * w \in Int
       /\ u - c * w = u + ((-1) * c) * w /\ u - c * w \in Int
  BY <1>10, CoreSizes
<1>13. PICK a \in C!Word, s \in C!Word : a = C!modadd(u, v) /\ s = C!modsub(u, v)
  BY <1>10, <1>12, Arithmetic
<1>14. Cong(a, u + c * w) /\ Cong(s, u + ((-1) * c) * w)
  <2>1. Cong(a, u + v) /\ Cong(s, u - v)
    BY <1>13, ExactSums
  <2>2. Cong(u + v, u + c * w) /\ Cong(u - v, u - c * w)
    BY <1>10, <1>11, <1>12, CongSame, CongPlus
  <2>3. a \in Int /\ s \in Int
    BY WordsAreInt
  <2>. QED BY <1>12, <2>1, <2>2, <2>3, CongTrans
<1>15. mem' = [mem EXCEPT ![i] = a, ![j] = s]
  BY <1>6, <1>8, <1>9, <1>11, <1>13 DEF C!Butterfly
<1>16. PICK z \in [C!Idx -> C!Word] :
         z = mem' /\ z[i] = a /\ z[j] = s /\ \A k \in C!Idx : k # i /\ k # j => z[k] = mem[k]
  BY <1>6, <1>7, <1>15 DEF CoreInv
<1>17. Crossed(given, Sg, m, g, group, butterfly + 1, z)
  <2>1. given \in [C!Idx -> C!Word] /\ mem \in [C!Idx -> C!Word] /\ Sg \in Signs
    BY SgIs DEF CoreInv
  <2>2. Cong(z[i], mem[i] + c * mem[j]) /\ Cong(z[j], mem[i] + ((-1) * c) * mem[j])
    BY <1>9, <1>14, <1>16
  <2>. QED BY <1>3, <1>4, <1>5, <1>7, <1>8, <1>16, <2>1, <2>2, CrossOne
<1>18. \/ butterfly' = butterfly + 1 /\ group' = group /\ stage' = stage
       \/ butterfly + 1 = m /\ butterfly' = 0 /\ group' = group + 1 /\ stage' = stage
       \/ butterfly + 1 = m /\ group + 1 = g /\ butterfly' = 0 /\ group' = 0 /\ stage' = stage + 1
  BY <1>1, <1>2, AdvanceIs
<1>19. given \in [C!Idx -> C!Word] /\ Sg \in Signs
  BY SgIs DEF CoreInv
<1>. QED BY <1>1, <1>2, <1>4, <1>16, <1>17, <1>18, <1>19, OneFurther

(* The multiplication by the inverse of N.                                 *)
LEMMA ScaleIs ==
  ASSUME NEW x \in [C!Idx -> C!Word], NEW sg \in Signs,
         NEW y \in [C!Idx -> C!Word], Whole(x, sg, y)
  PROVE  Scaled(x, sg, [k \in C!Idx |-> C!modmul(y[k], C!N_INV)])
<1> SUFFICES ASSUME NEW k \in C!Idx
             PROVE  Part(x, sg, 0, C!N, k, C!N * C!modmul(y[k], C!N_INV))
  BY DEF Scaled
<1>1. PICK n \in Nat : n = C!N
  BY CoreSizes
<1>2. C!N_INV \in 1 .. Q - 1 /\ (C!N * C!N_INV) % Q = 1
  BY CoreAssumption DEF C!CoreConstants
<1>3. PICK e \in 0 .. Q - 1 : e = C!N_INV
  BY <1>2, CoreSizes
<1>4. PICK w \in C!Word : w = y[k]
  OBVIOUS
<1>5. w \in Int /\ e \in Int
  BY WordsAreInt, CoreSizes
<1>6. PICK p \in Int : p = C!modmul(w, e) /\ Cong(p, w * e)
  <2>1. w * e \in Int
    BY <1>5
  <2>2. (w * e) % Q \in 0 .. Q - 1
    BY <2>1, CongMod
  <2>3. (w * e) % Q \in Int
    BY <2>2, CoreSizes
  <2>. QED BY <2>1, <2>3, ExactProduct, CongMod
<1>7. n * e \in Int /\ n * p \in Int /\ w * e \in Int /\ n * (w * e) \in Int /\ w * (n * e) \in Int
      /\ n * (w * e) = w * (n * e) /\ w * 1 = w
  BY <1>5
<1>8. Cong(n * e, 1)
  <2>1. Cong(1, n * e)
    BY <1>1, <1>2, <1>3, <1>7, CongMod
  <2>. QED BY <1>7, <2>1, CongSym
<1>9. Cong(n * p, n * (w * e))
  BY <1>6, <1>7, CongSame, CongTimes
<1>10. Cong(w * (n * e), w * 1)
  BY <1>5, <1>7, <1>8, CongSame, CongTimes
<1>11. Cong(n * p, w)
  BY <1>5, <1>7, <1>9, <1>10, CongTrans
<1>12. Part(x, sg, 0, n, k, w)
  BY <1>1, <1>4 DEF Whole
<1>13. Part(x, sg, 0, n, k, n * p)
  BY <1>5, <1>7, <1>11, <1>12, PartSame
<1>. QED BY <1>1, <1>3, <1>4, <1>6, <1>13

----------------------------------------------------------------------------
(* Sums of sums.                                                           *)
LEMMA AddsZero ==
  ASSUME NEW t, NEW n \in Nat, \A i \in 0 .. n - 1 : t[i] = 0
  PROVE  Adds(t, n, 0)
<1> DEFINE f == [i \in 0 .. n |-> 0]
<1>1. f \in [0 .. n -> Int] /\ f[0] = 0 /\ f[n] = 0
  OBVIOUS
<1>2. Cong(0, 0) /\ 0 + 0 = 0
  BY CongSame
<1>3. ASSUME NEW i \in 1 .. n  PROVE Cong(f[i], f[i - 1] + t[i - 1])
  <2>1. i \in 0 .. n /\ i - 1 \in 0 .. n /\ i - 1 \in 0 .. n - 1
    OBVIOUS
  <2>. QED BY <1>2, <2>1
<1> HIDE DEF f
<1>. QED BY <1>1, <1>2, <1>3 DEF Adds

LEMMA AddsLinear ==
  ASSUME NEW n \in Nat, NEW c \in Int, NEW t, NEW a, NEW b, NEW v \in Int, NEW w \in Int,
         \A i \in 0 .. n - 1 : a[i] \in Int /\ b[i] \in Int /\ t[i] \in Int,
         \A i \in 0 .. n - 1 : Cong(t[i], a[i] + c * b[i]),
         Adds(a, n, v), Adds(b, n, w)
  PROVE  Adds(t, n, v + c * w)
<1>1. PICK f \in [0 .. n -> Int] :
        f[0] = 0 /\ (\A i \in 1 .. n : Cong(f[i], f[i - 1] + a[i - 1])) /\ Cong(v, f[n])
  BY DEF Adds
<1>2. PICK g \in [0 .. n -> Int] :
        g[0] = 0 /\ (\A i \in 1 .. n : Cong(g[i], g[i - 1] + b[i - 1])) /\ Cong(w, g[n])
  BY DEF Adds
<1> DEFINE h == [i \in 0 .. n |-> f[i] + c * g[i]]
<1>3. h \in [0 .. n -> Int]
  <2>1. ASSUME NEW i \in 0 .. n  PROVE f[i] + c * g[i] \in Int
    <3>1. PICK p \in Int, q \in Int : p = f[i] /\ q = g[i]
      BY <1>1, <1>2
    <3>2. p + c * q \in Int
      OBVIOUS
    <3>. QED BY <3>1, <3>2
  <2>. QED BY <2>1
<1>4. h[0] = 0
  <2>1. c * 0 = 0 /\ 0 \in 0 .. n
    OBVIOUS
  <2>. QED BY <1>1, <1>2, <2>1
<1>5. \A i \in 0 .. n : h[i] = f[i] + c * g[i]
  OBVIOUS
<1> HIDE DEF h
<1>6. ASSUME NEW i \in 1 .. n  PROVE Cong(h[i], h[i - 1] + t[i - 1])
  <2>1. i \in 0 .. n /\ i - 1 \in 0 .. n /\ i - 1 \in 0 .. n - 1
    OBVIOUS
  <2>2. PICK p \in Int, q \in Int, x \in Int : p = f[i] /\ q = f[i - 1] /\ x = a[i - 1]
    BY <1>1, <2>1
  <2>3. PICK r \in Int, s \in Int, y \in Int : r = g[i] /\ s = g[i - 1] /\ y = b[i - 1]
    BY <1>2, <2>1
  <2>4. PICK z \in Int : z = t[i - 1] /\ Cong(z, x + c * y)
    BY <2>1, <2>2, <2>3
  <2>5. Cong(p, q + x) /\ Cong(r, s + y)
    BY <1>1, <1>2, <2>2, <2>3
  <2>6. /\ s + y \in Int /\ c * r \in Int /\ c * (s + y) \in Int /\ q + x \in Int /\ x + c * y \in Int
        /\ p + c * r \in Int /\ (q + x) + c * (s + y) \in Int /\ q + c * s \in Int
        /\ (q + c * s) + (x + c * y) \in Int /\ (q + c * s) + z \in Int
        /\ (q + x) + c * (s + y) = (q + c * s) + (x + c * y)
    OBVIOUS
  <2>7. Cong(c * r, c * (s + y))
    BY <2>5, <2>6, CongSame, CongTimes
  <2>8. Cong(p + c * r, (q + x) + c * (s + y))
    BY <2>5, <2>6, <2>7, CongPlus
  <2>9. Cong(x + c * y, z)
    BY <2>4, <2>6, CongSym
  <2>10. Cong((q + c * s) + (x + c * y), (q + c * s) + z)
    BY <2>6, <2>9, CongSame, CongPlus
  <2>11. Cong(p + c * r, (q + c * s) + z)
    BY <2>6, <2>8, <2>10, CongTrans
  <2>. QED BY <1>5, <2>1, <2>2, <2>3, <2>4, <2>11
<1>7. Cong(v + c * w, h[n])
  <2>1. n \in 0 .. n
    OBVIOUS
  <2>2. PICK p \in Int, q \in Int : p = f[n] /\ q = g[n]
    BY <1>1, <1>2, <2>1
  <2>3. c * w \in Int /\ c * q \in Int
    OBVIOUS
  <2>4. Cong(c * w, c * q)
    BY <1>2, <2>2, <2>3, CongSame, CongTimes
  <2>5. Cong(v + c * w, p + c * q)
    BY <1>1, <2>2, <2>3, <2>4, CongPlus
  <2>. QED BY <1>5, <2>1, <2>2, <2>5
<1>. QED BY <1>3, <1>4, <1>6, <1>7 DEF Adds

(* A sum with one term that counts.                                        *)
LEMMA AddsAlone ==
  ASSUME NEW n \in Nat, NEW t, NEW v \in Int, NEW w \in Int, NEW k \in 0 .. n - 1,
         \A i \in 0 .. n - 1 : t[i] \in Int /\ Cong(t[i], IF i = k THEN w ELSE 0),
         Adds(t, n, v)
  PROVE  Cong(v, w)
<1>1. PICK f \in [0 .. n -> Int] :
        f[0] = 0 /\ (\A i \in 1 .. n : Cong(f[i], f[i - 1] + t[i - 1])) /\ Cong(v, f[n])
  BY DEF Adds
<1> DEFINE P == {i \in 0 .. n : Cong(f[i], IF i <= k THEN 0 ELSE w)}
<1>2. 0 \in P
  BY <1>1, CongSame
<1>3. ASSUME NEW i \in 1 .. n, i - 1 \in P  PROVE i \in P
  <2>1. i \in 0 .. n /\ i - 1 \in 0 .. n /\ i - 1 \in 0 .. n - 1
    OBVIOUS
  <2>2. PICK p \in Int, q \in Int, x \in Int : p = f[i] /\ q = f[i - 1] /\ x = t[i - 1]
    BY <1>1, <2>1
  <2>3. PICK y \in Int : y = IF i - 1 <= k THEN 0 ELSE w
    OBVIOUS
  <2>4. PICK z \in Int : z = IF i - 1 = k THEN w ELSE 0
    OBVIOUS
  <2>5. Cong(p, q + x) /\ Cong(q, y) /\ Cong(x, z)
    BY <1>1, <1>3, <2>1, <2>2, <2>3, <2>4
  <2>6. Cong(q + x, y + z) /\ q + x \in Int /\ y + z \in Int
    BY <2>5, CongPlus
  <2>7. Cong(p, y + z)
    BY <2>5, <2>6, CongTrans
  <2>8. y + z = IF i <= k THEN 0 ELSE w
    BY <2>3, <2>4
  <2>. QED BY <2>1, <2>2, <2>7, <2>8
<1> HIDE DEF P
<1>4. n \in P
  <2>1. n \in 0 .. n
    OBVIOUS
  <2>. QED BY <1>2, <1>3, <2>1, IndexInduction
<1>5. PICK p \in Int : p = f[n] /\ Cong(p, w)
  <2>1. n \in 0 .. n /\ ~(n <= k)
    OBVIOUS
  <2>. QED BY <1>1, <1>4, <2>1 DEF P
<1>. QED BY <1>1, <1>5, CongTrans

----------------------------------------------------------------------------
(* The roots add up to nothing, but for the exponent 0.                    *)
Ones == [k \in C!Idx |-> 1]

LEMMA ReversedZero == C!bit_reverse(0) = 0
<1>1. PICK n \in Nat : n = C!N /\ n > 0
  BY CoreSizes
<1>2. 0 \in C!Idx /\ 0 \in 0 .. LOGN /\ 2 ^ 0 = 1 /\ 0 < 1
  BY CoreSizes
<1>3. PICK r \in 0 .. n - 1 : r = C!bit_reverse(0)
  BY <1>1, <1>2, ReversedIsIndex DEF C!Idx
<1>4. \E c \in Int : C!bit_reverse(0) * 2 ^ 0 = c * C!N
  BY <1>2, ReversedShort
<1>5. PICK c \in Int : r = c * n
  BY <1>1, <1>2, <1>3, <1>4
<1>6. CASE c >= 1
  <2>1. c * n >= n
    BY <1>1, <1>6
  <2>. QED BY <1>3, <1>5, <2>1
<1>7. CASE c <= -1
  <2>1. c * n <= -n
    BY <1>1, <1>7
  <2>. QED BY <1>1, <1>3, <1>5, <2>1
<1>8. CASE c = 0
  BY <1>1, <1>3, <1>5, <1>8
<1>. QED BY <1>6, <1>7, <1>8

LEMMA RootsAdd ==
  ASSUME NEW d \in Int, -C!N < d, d < C!N
  PROVE  \E v \in Int : Part(Ones, 1, 0, C!N, d, v) /\ Cong(v, IF d = 0 THEN C!N ELSE 0)
<1>1. LOGN \in Nat /\ 1 \in Signs
  BY CoreSizes DEF Signs
<1>2. Ones \in [C!Idx -> C!Word]
  <2>1. PICK p \in Nat : p = 2 ^ DATA_WIDTH /\ Q < p /\ Q \in Nat /\ Q > 1
    BY CoreAssumption, PowerIs DEF C!CoreConstants
  <2>2. 1 \in C!Word
    BY <2>1 DEF C!Word
  <2>. QED BY <2>2 DEF Ones
<1> DEFINE Step(s, v) == /\ Part(Ones, 1, 0, 2 ^ s, d, v)
                         /\ (d # 0 /\ Cong(v, 0)) \/ \E e \in Int : d = e * 2 ^ s /\ Cong(v, 2 ^ s)
           P == {s \in 0 .. LOGN : \E v \in Int : Step(s, v)}
<1>3. 0 \in P
  <2>1. 2 ^ 0 = 1 /\ d = d * 1
    OBVIOUS
  <2>2. 0 \in C!Idx /\ 0 + 0 = 0 /\ 1 * 0 * d = 0
    BY CoreSizes
  <2>3. Term(Ones, 1, 0, d, 0) = 1
    <3>1. Ones[0] = 1
      BY <2>2 DEF Ones
    <3>2. C!Pow(0) = 1
      BY PowOnce
    <3>. QED BY <2>2, <3>1, <3>2, ReversedZero DEF Term
  <2>4. Terms(Ones, 1, 0, 1, d)[0] = 1
    BY <2>3 DEF Terms
  <2>5. Part(Ones, 1, 0, 1, d, 1)
    <3>1. 1 \in Int /\ Cong(1, 1)
      BY CongSame
    <3>. QED BY <2>4, <3>1, AddsOne DEF Part
  <2>6. Cong(1, 1)
    BY CongSame
  <2>7. Step(0, 1)
    BY <2>1, <2>5, <2>6
  <2>. QED BY <1>1, <2>7
<1>4. ASSUME NEW s \in 1 .. LOGN, s - 1 \in P  PROVE s \in P
  <2>1. s - 1 \in 0 .. LOGN - 1 /\ (s - 1) + 1 = s /\ s - 1 \in Nat /\ s \in 0 .. LOGN
    BY <1>1
  <2>2. PICK v \in Int : Step(s - 1, v)
    BY <1>4
  <2>3. PICK m, g : m = 2 ^ (s - 1) /\ Sizes(s - 1, m, g)
    BY <2>1, SizesOf
  <2>4. m \in Nat /\ m > 0 /\ g \in Nat /\ g > 0 /\ C!N = g * (2 * m) /\ 0 + m = m
    BY <2>3 DEF Sizes
  <2>5. 2 ^ s = 2 * m
    BY <2>1, <2>3, PowerNext
  <2>6. Part(Ones, 1, 0, m, d, v)
    BY <2>2, <2>3
  <2>7. 2 * m <= g * (2 * m)
    BY <2>4
  <2>8. Part(Ones, 1, 0 + m, m, d, v)
    <3>1. ASSUME NEW r \in 0 .. m - 1  PROVE Term(Ones, 1, m, d, r) = Term(Ones, 1, 0, d, r)
      <4>1. PICK n \in Nat : n = C!N /\ 2 * m <= n
        BY <2>4, <2>7
      <4>2. m + r \in C!Idx /\ 0 + r \in C!Idx
        BY <2>4, <4>1 DEF C!Idx
      <4>3. Ones[m + r] = 1 /\ Ones[0 + r] = 1
        BY <4>2 DEF Ones
      <4>. QED BY <4>3 DEF Term
    <3>2. Terms(Ones, 1, m, m, d) = Terms(Ones, 1, 0, m, d)
      BY <3>1 DEF Terms
    <3>. QED BY <2>4, <2>6, <3>2 DEF Part
  <2>9. PICK c \in Int : c = C!Pow(1 * d * g)
    <3>1. 1 * d * g \in Int
      BY <2>4
    <3>. QED BY <3>1, PowType
  <2>10. Part(Ones, 1, 0, 2 * m, d, v + c * v)
    <3>1. 0 \in Nat /\ 0 + 2 * m <= C!N
      BY <2>4, <2>7
    <3>. QED BY <1>1, <1>2, <2>3, <2>6, <2>8, <2>9, <3>1, PartJoin
  <2>11. v + c * v \in Int /\ c * v \in Int
    OBVIOUS
  <2>12. (d # 0 /\ Cong(v + c * v, 0)) \/ \E e \in Int : d = e * (2 * m) /\ Cong(v + c * v, 2 * m)
    <3>1. CASE d # 0 /\ Cong(v, 0)
      <4>1. Cong(c * v, c * 0)
        <5>1. 0 \in Int /\ Cong(c, c)
          BY CongSame
        <5>. QED BY <3>1, <5>1, CongTimes
      <4>2. c * 0 = 0 /\ 0 + 0 = 0
        OBVIOUS
      <4>3. Cong(v + c * v, 0 + 0)
        BY <2>11, <3>1, <4>1, <4>2, CongPlus
      <4>. QED BY <3>1, <4>2, <4>3
    <3>2. ASSUME NEW e \in Int, d = e * m, Cong(v, m)
          PROVE  (d # 0 /\ Cong(v + c * v, 0)) \/ \E k \in Int : d = k * (2 * m) /\ Cong(v + c * v, 2 * m)
      <4>1. PICK k \in Int, r \in 0 .. 1 : e = 2 * k + r
        <5>1. PICK k \in Int, r \in Int : k = e \div 2 /\ r = e % 2 /\ e = 2 * k + r /\ 0 <= r /\ r < 2
          OBVIOUS
        <5>. QED BY <5>1
      <4>2. PICK h \in Int : h = g * m /\ C!N = 2 * h
        <5>1. g * (2 * m) = 2 * (g * m)
          BY <2>4
        <5>. QED BY <2>4, <5>1
      <4>3. 1 * d * g = r * h + k * (2 * h)
        <5>1. 1 * ((2 * k + r) * m) * g = r * (g * m) + k * (2 * (g * m))
          BY <2>4
        <5>. QED BY <3>2, <4>1, <4>2, <5>1
      <4>4. r * h \in Int
        OBVIOUS
      <4>5. c = C!Pow(r * h)
        BY <2>9, <4>2, <4>3, <4>4, PowPeriod
      <4>6. CASE r = 0
        <5>1. c = 1
          <6>1. 0 * h = 0
            OBVIOUS
          <6>. QED BY <4>5, <4>6, <6>1, PowOnce
        <5>2. v + c * v = v + v /\ m + m = 2 * m
          BY <2>4, <5>1
        <5>3. Cong(v + v, m + m)
          BY <2>4, <3>2, CongPlus
        <5>4. d = k * (2 * m)
          <6>1. (2 * k + 0) * m = k * (2 * m)
            BY <2>4
          <6>. QED BY <3>2, <4>1, <4>6, <6>1
        <5>. QED BY <5>2, <5>3, <5>4
      <4>7. CASE r = 1
        <5>1. Cong(c, -1)
          <6>1. 0 + 1 * h = h /\ r * h = h /\ 1 \in Signs /\ 0 \in Int /\ (-1) * 1 = -1
            BY <1>1, <4>7
          <6>2. Cong(C!Pow(0 + 1 * h), (-1) * C!Pow(0))
            BY <4>2, <6>1, PowHalf
          <6>. QED BY <4>5, <6>1, <6>2, PowOnce
        <5>2. Cong(c * v, (-1) * v)
          <6>1. -1 \in Int
            OBVIOUS
          <6>. QED BY <5>1, <6>1, CongSame, CongTimes
        <5>3. v + (-1) * v = 0 /\ (-1) * v \in Int
          OBVIOUS
        <5>4. Cong(v + c * v, v + (-1) * v)
          BY <2>11, <5>2, <5>3, CongSame, CongPlus
        <5>5. d # 0
          <6>1. CASE k >= 0
            <7>1. (2 * k + 1) * m >= m
              BY <2>4, <6>1
            <7>. QED BY <2>4, <3>2, <4>1, <4>7, <7>1
          <6>2. CASE k <= -1
            <7>1. (2 * k + 1) * m <= -m
              BY <2>4, <6>2
            <7>. QED BY <2>4, <3>2, <4>1, <4>7, <7>1
          <6>. QED BY <6>1, <6>2
        <5>. QED BY <5>3, <5>4, <5>5
      <4>. QED BY <4>6, <4>7
    <3>. QED BY <2>2, <2>3, <3>1, <3>2
  <2>13. Step(s, v + c * v)
    BY <2>5, <2>10, <2>12
  <2> HIDE DEF Step
  <2>. QED BY <2>1, <2>11, <2>13
<1>5. LOGN \in P
  <2> HIDE DEF P
  <2>1. LOGN \in 0 .. LOGN
    BY <1>1
  <2>. QED BY <1>1, <1>3, <1>4, <2>1, IndexInduction
<1>6. PICK v \in Int : Step(LOGN, v)
  BY <1>5
<1>7. PICK n \in Nat : n = C!N /\ n = 2 ^ LOGN /\ n > 0
  BY CoreSizes DEF C!N
<1>8. Part(Ones, 1, 0, C!N, d, v)
  BY <1>6, <1>7
<1>9. CASE d = 0 /\ Cong(v, n)
  BY <1>7, <1>8, <1>9
<1>10. CASE d # 0 /\ Cong(v, 0)
  BY <1>8, <1>10
<1>11. ASSUME NEW e \in Int, d = e * n, Cong(v, n)  PROVE d = 0
  <2>1. CASE e >= 1
    <3>1. e * n >= n
      BY <1>7, <2>1
    <3>. QED BY <1>7, <1>11, <3>1
  <2>2. CASE e <= -1
    <3>1. e * n <= -n
      BY <1>7, <2>2
    <3>. QED BY <1>7, <1>11, <3>1
  <2>3. CASE e = 0
    BY <1>11, <2>3
  <2>. QED BY <2>1, <2>2, <2>3
<1>. QED BY <1>6, <1>7, <1>9, <1>10, <1>11

----------------------------------------------------------------------------
(* Two indices do not have the same reverse.                               *)
LEMMA ReversedOnce ==
  ASSUME NEW i \in C!Idx, NEW k \in C!Idx, C!bit_reverse(i) = C!bit_reverse(k)
  PROVE  i = k
<1>1. LOGN \in Nat
  BY CoreSizes
<1> DEFINE P == {s \in 0 .. LOGN : \A a, b \in C!Idx :
                   a < 2 ^ s /\ b < 2 ^ s /\ C!bit_reverse(a) = C!bit_reverse(b) => a = b}
<1>2. 0 \in P
  <2>1. 2 ^ 0 = 1
    OBVIOUS
  <2>2. \A a \in C!Idx : a < 1 => a = 0
    BY IndexInt
  <2>. QED BY <1>1, <2>1, <2>2
<1>3. ASSUME NEW s \in 1 .. LOGN, s - 1 \in P  PROVE s \in P
  <2>1. s - 1 \in 0 .. LOGN - 1 /\ s - 1 \in 0 .. LOGN /\ (s - 1) + 1 = s /\ s - 1 \in Nat /\ s \in 0 .. LOGN
    BY <1>1
  <2>2. PICK m, g : m = 2 ^ (s - 1) /\ g = 2 ^ (LOGN - (s - 1) - 1) /\ Sizes(s - 1, m, g)
    BY <2>1, SizesOf
  <2>3. m \in Nat /\ m > 0 /\ g \in Nat /\ g > 0 /\ C!N = g * (2 * m) /\ 2 ^ s = 2 * m
    BY <2>1, <2>2, PowerNext DEF Sizes
  <2>4. ASSUME NEW a \in C!Idx, a < 2 * m
        PROVE  \E a0 \in C!Idx, c \in Int, r \in 0 .. 1 :
                 /\ a = a0 + r * m /\ a0 < m /\ C!bit_reverse(a0) = c * (2 * g)
                 /\ C!bit_reverse(a) = c * (2 * g) + r * g
    <3>1. a \in Nat /\ a < C!N
      BY IndexInt
    <3>2. ASSUME NEW z \in C!Idx, z < m
          PROVE  \E c \in Int : C!bit_reverse(z) = c * (2 * g)
      <4>1. PICK y \in Int : y = C!bit_reverse(z)
        BY ReversedInt
      <4>2. PICK c \in Int : y * m = c * C!N
        BY <2>1, <2>2, <3>2, <4>1, ReversedShort
      <4>3. y = c * (2 * g)
        <5>1. c * (g * (2 * m)) = (c * (2 * g)) * m
          BY <2>3
        <5>2. PICK x \in Int : x = c * (2 * g)
          BY <2>3
        <5>3. y * m = x * m
          BY <2>3, <4>2, <5>1, <5>2
        <5>4. PICK e \in Int : e = y - x
          OBVIOUS
        <5>5. e * m = 0
          <6>1. (y - x) * m = y * m - x * m
            BY <2>3
          <6>2. PICK p \in Int : p = x * m
            BY <2>3
          <6>. QED BY <5>3, <5>4, <6>1, <6>2
        <5>6. CASE e >= 1
          <6>1. e * m >= m
            BY <2>3, <5>6
          <6>. QED BY <2>3, <5>5, <6>1
        <5>7. CASE e <= -1
          <6>1. e * m <= -m
            BY <2>3, <5>7
          <6>. QED BY <2>3, <5>5, <6>1
        <5>8. CASE e = 0
          BY <5>2, <5>4, <5>8
        <5>. QED BY <5>6, <5>7, <5>8
      <4>. QED BY <4>1, <4>3
    <3>3. CASE a < m
      <4>1. PICK c \in Int : C!bit_reverse(a) = c * (2 * g)
        BY <3>2, <3>3
      <4>2. a = a + 0 * m /\ c * (2 * g) = c * (2 * g) + 0 * g /\ 0 \in 0 .. 1
        BY <2>3, <3>1
      <4>. QED BY <3>3, <4>1, <4>2
    <3>4. CASE a >= m
      <4>1. PICK a0 \in Nat : a0 = a - m /\ a = a0 + m /\ a0 < m /\ a = a0 + 1 * m
        <5>1. a - m \in Nat
          BY <2>3, <3>1, <3>4
        <5>. QED BY <2>3, <2>4, <3>1, <5>1
      <4>2. a0 \in C!Idx
        <5>1. PICK n \in Nat : n = C!N
          BY CoreSizes
        <5>2. a0 \in 0 .. n - 1
          BY <2>3, <3>1, <4>1, <5>1
        <5>. QED BY <5>1, <5>2 DEF C!Idx
      <4>3. PICK c \in Int : C!bit_reverse(a0) = c * (2 * g)
        BY <3>2, <4>1, <4>2
      <4>4. C!bit_reverse(a) = C!bit_reverse(a0) + g
        <5>1. C!bit_reverse(a0 + 2 ^ (s - 1)) = C!bit_reverse(a0) + 2 ^ (LOGN - (s - 1) - 1)
          BY <2>1, <2>2, <4>1, <4>2, ReversedNext
        <5>. QED BY <2>2, <4>1, <5>1
      <4>5. g = 1 * g /\ 1 \in 0 .. 1
        BY <2>3
      <4>. QED BY <4>1, <4>2, <4>3, <4>4, <4>5
    <3>. QED BY <2>3, <3>1, <3>3, <3>4
  <2>5. ASSUME NEW a \in C!Idx, NEW b \in C!Idx, a < 2 * m, b < 2 * m, C!bit_reverse(a) = C!bit_reverse(b)
        PROVE  a = b
    <3>1. PICK a0 \in C!Idx, c \in Int, r \in 0 .. 1 :
            /\ a = a0 + r * m /\ a0 < m /\ C!bit_reverse(a0) = c * (2 * g)
            /\ C!bit_reverse(a) = c * (2 * g) + r * g
      BY <2>4, <2>5
    <3>2. PICK b0 \in C!Idx, d \in Int, q \in 0 .. 1 :
            /\ b = b0 + q * m /\ b0 < m /\ C!bit_reverse(b0) = d * (2 * g)
            /\ C!bit_reverse(b) = d * (2 * g) + q * g
      BY <2>4, <2>5
    <3>3. PICK e \in Int : e = (2 * c + r) - (2 * d + q)
      OBVIOUS
    <3>4. e * g = 0
      <4>1. ((2 * c + r) - (2 * d + q)) * g = (c * (2 * g) + r * g) - (d * (2 * g) + q * g)
        BY <2>3
      <4>2. PICK x \in Int : x = c * (2 * g) + r * g
        BY <2>3
      <4>. QED BY <2>5, <3>1, <3>2, <3>3, <4>1, <4>2
    <3>5. e = 0
      <4>1. CASE e >= 1
        <5>1. e * g >= g
          BY <2>3, <4>1
        <5>. QED BY <2>3, <3>4, <5>1
      <4>2. CASE e <= -1
        <5>1. e * g <= -g
          BY <2>3, <4>2
        <5>. QED BY <2>3, <3>4, <5>1
      <4>. QED BY <4>1, <4>2
    <3>6. r = q /\ c = d
      BY <3>3, <3>5
    <3>7. C!bit_reverse(a0) = C!bit_reverse(b0) /\ a0 < 2 ^ (s - 1) /\ b0 < 2 ^ (s - 1)
      BY <2>2, <3>1, <3>2, <3>6
    <3>8. a0 = b0
      BY <1>3, <3>7
    <3>. QED BY <3>1, <3>2, <3>6, <3>8
  <2>. QED BY <2>1, <2>3, <2>5
<1> HIDE DEF P
<1>4. LOGN \in P
  <2>1. LOGN \in 0 .. LOGN
    BY <1>1
  <2>. QED BY <1>1, <1>2, <1>3, <2>1, IndexInduction
<1>5. i < 2 ^ LOGN /\ k < 2 ^ LOGN
  BY IndexInt DEF C!N
<1>. QED BY <1>4, <1>5 DEF P

----------------------------------------------------------------------------
(* The inverse transform of the transform.                                 *)
LEMMA Undone ==
  ASSUME NEW x \in [C!Idx -> C!Word], NEW y \in [C!Idx -> C!Word],
         Output(x, 1, FALSE, y),
         NEW k \in C!Idx, NEW w \in Int, Part(y, -1, 0, C!N, C!bit_reverse(k), C!N * w)
  PROVE  Cong(w, x[k])
<1>1. PICK n \in Nat : n = C!N /\ n > 0 /\ C!Idx = 0 .. n - 1
  BY CoreSizes DEF C!Idx
<1>2. 1 \in Signs /\ -1 \in Signs
  BY DEF Signs
<1> DEFINE B(r) == C!bit_reverse(r)
           one(i) == Terms(Ones, 1, 0, n, B(i) - B(k))
           in(j) == Terms(x, 1, 0, n, B(j))
           out == Terms(y, -1, 0, n, B(k))
<1>3. \A r \in C!Idx : B(r) \in Int /\ -C!N < B(r) - B(k) /\ B(r) - B(k) < C!N
  <2> TAKE r \in C!Idx
  <2>1. B(r) \in 0 .. n - 1 /\ B(k) \in 0 .. n - 1
    BY <1>1, ReversedIsIndex
  <2> HIDE DEF B
  <2>. QED BY <1>1, <2>1
<1>4. \A r \in C!Idx : r \in 0 .. n - 1 /\ 0 + r = r
  BY <1>1
<1>5. ASSUME NEW i \in C!Idx
      PROVE  \E f \in [0 .. n -> Int] :
               /\ f[0] = 0
               /\ \A j \in 1 .. n : Cong(f[j], f[j - 1] + one(i)[j - 1])
               /\ Cong(f[n], IF i = k THEN n ELSE 0)
  <2>1. PICK d \in Int : d = B(i) - B(k) /\ -C!N < d /\ d < C!N
    BY <1>3
  <2>2. PICK v \in Int : Part(Ones, 1, 0, C!N, d, v) /\ Cong(v, IF d = 0 THEN C!N ELSE 0)
    BY <2>1, RootsAdd
  <2>3. PICK f \in [0 .. n -> Int] :
          f[0] = 0 /\ (\A j \in 1 .. n : Cong(f[j], f[j - 1] + one(i)[j - 1])) /\ Cong(v, f[n])
    BY <1>1, <2>1, <2>2 DEF Part, Adds
  <2>4. (d = 0) <=> (i = k)
    BY <1>3, <2>1, ReversedOnce
  <2>5. PICK e \in Int : e = (IF i = k THEN n ELSE 0) /\ Cong(v, e)
    BY <1>1, <2>2, <2>4
  <2>6. PICK p \in Int : p = f[n]
    <3>1. n \in 0 .. n
      BY <1>1
    <3>. QED BY <2>3, <3>1
  <2>7. Cong(p, v)
    BY <2>3, <2>6, CongSym
  <2>8. Cong(p, e)
    BY <2>5, <2>7, CongTrans
  <2>. QED BY <2>3, <2>5, <2>6, <2>8
<1> DEFINE OK(i, f) == /\ f \in [0 .. n -> Int]
                       /\ f[0] = 0
                       /\ \A j \in 1 .. n : Cong(f[j], f[j - 1] + one(i)[j - 1])
                       /\ Cong(f[n], IF i = k THEN n ELSE 0)
           D == [i \in C!Idx |-> CHOOSE f : OK(i, f)]
<1>6. \A i \in C!Idx : OK(i, D[i])
  <2> TAKE i \in C!Idx
  <2>1. \E f : OK(i, f)
    BY <1>5
  <2>2. D[i] = CHOOSE f : OK(i, f)
    OBVIOUS
  <2> HIDE DEF OK, D
  <2>. QED BY <2>1, <2>2
<1> HIDE DEF D
<1>7. PICK f \in [0 .. n -> Int] :
        f[0] = 0 /\ (\A j \in 1 .. n : Cong(f[j], f[j - 1] + out[j - 1])) /\ Cong(C!N * w, f[n])
  BY <1>1 DEF Part, Adds
<1> DEFINE row(j) == [i \in 0 .. n - 1 |-> x[i] * D[i][j]]
           P == {j \in 0 .. n : Adds(row(j), n, f[j])}
<1>8. \A i \in 0 .. n - 1, j \in 0 .. n : D[i][j] \in Int /\ x[i] \in Int /\ row(j)[i] \in Int
                                         /\ row(j)[i] = x[i] * D[i][j]
  <2> TAKE i \in 0 .. n - 1, j \in 0 .. n
  <2>1. PICK a \in Int, b \in Int : a = x[i] /\ b = D[i][j]
    BY <1>1, <1>6, WordsAreInt
  <2>2. a * b \in Int
    OBVIOUS
  <2>. QED BY <2>1, <2>2
<1> HIDE DEF row, OK
<1>9. 0 \in P
  <2>1. 0 \in 0 .. n
    BY <1>1
  <2>2. ASSUME NEW i \in 0 .. n - 1  PROVE row(0)[i] = 0
    <3>1. D[i][0] = 0
      BY <1>1, <1>6 DEF OK
    <3>2. PICK a \in Int : a = x[i]
      BY <1>8, <2>1
    <3>3. a * 0 = 0
      OBVIOUS
    <3>. QED BY <1>8, <2>1, <3>1, <3>2, <3>3
  <2>3. Adds(row(0), n, 0)
    BY <2>2, AddsZero
  <2>. QED BY <1>7, <2>1, <2>3
<1>10. ASSUME NEW j \in 1 .. n, j - 1 \in P  PROVE j \in P
  <2>1. PICK r \in 0 .. n - 1 : r = j - 1
    BY <1>1
  <2>2. r \in C!Idx /\ r \in 0 .. n /\ j \in 0 .. n /\ 0 + r = r
    BY <1>1, <2>1
  <2>3. PICK br \in Int, bk \in Int : br = B(r) /\ bk = B(k)
    BY <1>3, <2>2
  <2>4. PICK c \in Int : c = C!Pow((-1) * br * bk)
    BY PowType
  <2>5. PICK z \in Int : z = y[r]
    BY <2>2, WordsAreInt
  <2>6. out[r] = z * c /\ z * c \in Int /\ c * z = z * c
    BY <2>2, <2>3, <2>4, <2>5 DEF Terms, Term
  <2>7. Adds(in(r), n, z)
    BY <1>1, <2>2, <2>5 DEF Output, Part
  <2>8. ASSUME NEW i \in 0 .. n - 1
        PROVE  /\ row(r)[i] \in Int /\ in(r)[i] \in Int /\ row(j)[i] \in Int
               /\ Cong(row(j)[i], row(r)[i] + c * in(r)[i])
    <3>1. i \in C!Idx /\ 0 + i = i
      BY <1>1
    <3>2. PICK a \in Int, s \in Int, t \in Int : a = x[i] /\ s = D[i][r] /\ t = D[i][j]
      BY <1>8, <2>2
    <3>3. row(r)[i] = a * s /\ row(j)[i] = a * t /\ a * s \in Int /\ a * t \in Int
      BY <1>8, <2>2, <3>2
    <3>4. PICK bi \in Int : bi = B(i)
      BY <1>3, <3>1
    <3>5. PICK p \in Int, q \in Int : p = C!Pow(1 * bi * br) /\ q = C!Pow(1 * br * (bi - bk))
      <4>1. 1 * bi * br \in Int /\ 1 * br * (bi - bk) \in Int
        OBVIOUS
      <4>. QED BY <4>1, PowType
    <3>6. in(r)[i] = a * p
      BY <2>3, <3>1, <3>2, <3>4, <3>5 DEF Terms, Term
    <3>7. one(i)[r] = q
      <4>1. Ones[r] = 1
        BY <2>2 DEF Ones
      <4>2. one(i)[r] = 1 * q
        BY <2>2, <2>3, <3>4, <3>5, <4>1 DEF Terms, Term
      <4>. QED BY <4>2
    <3>8. Cong(q, p * c)
      <4>1. 1 * br * (bi - bk) = (1 * bi * br) + ((-1) * br * bk)
        OBVIOUS
      <4>. QED BY <2>4, <3>5, <4>1, PowPlus
    <3>9. Cong(t, s + q)
      <4>1. Cong(D[i][j], D[i][j - 1] + one(i)[j - 1])
        BY <1>6, <3>1 DEF OK
      <4>. QED BY <2>1, <3>2, <3>7, <4>1
    <3>10. /\ p * c \in Int /\ s + q \in Int /\ s + p * c \in Int /\ a * (s + p * c) \in Int
           /\ a * p \in Int /\ a * (s + p * c) = a * s + c * (a * p) /\ a * s + c * (a * p) \in Int
      OBVIOUS
    <3>11. Cong(s + q, s + p * c)
      BY <3>8, <3>10, CongSame, CongPlus
    <3>12. Cong(t, s + p * c)
      BY <3>9, <3>10, <3>11, CongTrans
    <3>13. Cong(a * t, a * (s + p * c))
      BY <3>10, <3>12, CongSame, CongTimes
    <3>. QED BY <3>3, <3>6, <3>10, <3>13
  <2>9. PICK e \in Int, g \in Int : e = f[r] /\ g = f[j]
    BY <1>7, <2>2
  <2>10. Adds(row(r), n, e)
    BY <1>10, <2>1, <2>9
  <2> HIDE DEF in
  <2>11. Adds(row(j), n, e + c * z)
    <3>1. \A i \in 0 .. n - 1 : row(r)[i] \in Int /\ in(r)[i] \in Int /\ row(j)[i] \in Int
      BY <2>8
    <3>2. \A i \in 0 .. n - 1 : Cong(row(j)[i], row(r)[i] + c * in(r)[i])
      BY <2>8
    <3>. QED BY <2>7, <2>10, <3>1, <3>2, AddsLinear
  <2>12. Cong(g, e + c * z)
    BY <1>7, <2>1, <2>6, <2>9
  <2>13. e + c * z \in Int
    OBVIOUS
  <2>14. Adds(row(j), n, g)
    BY <2>11, <2>12, <2>13, AddsSame
  <2>. QED BY <2>2, <2>9, <2>14
<1> HIDE DEF P
<1>11. n \in P
  <2>1. n \in 0 .. n
    BY <1>1
  <2>. QED BY <1>1, <1>9, <1>10, <2>1, IndexInduction
<1>12. PICK e \in Int : e = f[n] /\ Adds(row(n), n, e) /\ Cong(n * w, e)
  <2>1. n \in 0 .. n
    BY <1>1
  <2>. QED BY <1>1, <1>7, <1>11, <2>1 DEF P
<1>13. PICK a \in Int : a = x[k]
  BY WordsAreInt
<1>14. ASSUME NEW i \in 0 .. n - 1
       PROVE  row(n)[i] \in Int /\ Cong(row(n)[i], IF i = k THEN a * n ELSE 0)
  <2>1. n \in 0 .. n /\ i \in C!Idx
    BY <1>1
  <2>2. PICK b \in Int, t \in Int : b = x[i] /\ t = D[i][n]
    BY <1>8, <2>1
  <2>3. row(n)[i] = b * t /\ b * t \in Int
    BY <1>8, <2>1, <2>2
  <2>4. PICK u \in Int : u = (IF i = k THEN n ELSE 0) /\ Cong(t, u)
    <3>1. Cong(D[i][n], IF i = k THEN n ELSE 0)
      BY <1>6, <2>1 DEF OK
    <3>2. PICK u \in Int : u = IF i = k THEN n ELSE 0
      BY <1>1
    <3>. QED BY <2>2, <3>1, <3>2
  <2>5. Cong(b * t, b * u)
    BY <2>4, CongSame, CongTimes
  <2>6. b * u = IF i = k THEN a * n ELSE 0
    <3>1. b * 0 = 0
      OBVIOUS
    <3>. QED BY <1>13, <2>2, <2>4, <3>1
  <2>. QED BY <2>3, <2>5, <2>6
<1>15. a * n \in Int /\ n * w \in Int /\ k \in 0 .. n - 1
  BY <1>1
<1>16. Cong(e, a * n)
  BY <1>12, <1>14, <1>15, AddsAlone
<1>17. Cong(n * w, a * n)
  BY <1>12, <1>15, <1>16, CongTrans
<1>18. PICK d \in Int : d = C!N_INV /\ (n * d) % Q = 1
  BY <1>1, CoreAssumption DEF C!CoreConstants
<1>19. n * d \in Int /\ d * (n * w) \in Int /\ d * (a * n) \in Int
       /\ d * (n * w) = w * (n * d) /\ d * (a * n) = a * (n * d) /\ w * 1 = w /\ a * 1 = a
  OBVIOUS
<1>20. Cong(1, n * d)
  BY <1>18, <1>19, CongMod
<1>21. Cong(d * (n * w), d * (a * n))
  BY <1>15, <1>17, CongSame, CongTimes
<1>22. Cong(w * 1, w * (n * d)) /\ Cong(a * 1, a * (n * d))
  <2>1. 1 \in Int /\ Cong(w, w) /\ Cong(a, a)
    BY CongSame
  <2>. QED BY <1>19, <1>20, <2>1, CongTimes
<1>23. Cong(w, d * (a * n))
  BY <1>19, <1>21, <1>22, CongTrans
<1>24. Cong(d * (a * n), a)
  BY <1>19, <1>22, CongSym
<1>. QED BY <1>13, <1>19, <1>23, <1>24, CongTrans

----------------------------------------------------------------------------
LEMMA TransStepOK == CoreInv /\ TransInv /\ [C!Next]_(C!vars) => TransInv'
<1> SUFFICES ASSUME CoreInv, TransInv, [C!Next]_(C!vars)  PROVE TransInv'
  OBVIOUS
<1> USE DEF TransInv
<1>1. CASE C!Reset
  <2>1. fsm' = 0 /\ ~done'
    BY <1>1 DEF C!Reset
  <2>. QED BY <2>1
<1>2. ASSUME NEW start \in BOOLEAN, C!Idle(start)  PROVE TransInv'
  <2>1. ~done' /\ (fsm' = 1 => stage' = 0 /\ group' = 0 /\ butterfly' = 0) /\ (fsm' = 1 \/ fsm' = 0)
    BY <1>2 DEF C!Idle, C!ctl
  <2>. QED BY <2>1
<1>3. CASE C!Load
  <2>1. /\ fsm = 1 /\ fsm' = 2 /\ ~done' /\ inverse' = inverse /\ given' = mem'
        /\ stage' = 0 /\ group' = 0 /\ butterfly' = 0
    BY <1>3 DEF C!Load, CoreInv
  <2>2. PICK x \in [C!Idx -> C!Word] : x = mem'
    BY <1>3, CoreSizes DEF C!Load, CoreInv
  <2>3. Sg' = Sg
    BY <2>1 DEF Sg
  <2>4. Onward(x, Sg, 0, 0, 0, x)
    BY SgIs, Begins
  <2>5. Onward(given', Sg', stage', group', butterfly', mem')
    BY <2>1, <2>2, <2>3, <2>4
  <2>. QED BY <2>1, <2>5
<1>4. CASE C!Butterfly
  <2>1. fsm' = 2 /\ ~done' /\ inverse' = inverse /\ given' = given
    BY <1>4 DEF C!Butterfly, CoreInv
  <2>2. Sg' = Sg
    BY <2>1 DEF Sg
  <2>3. Onward(given', Sg', stage', group', butterfly', mem')
    BY <1>4, <2>1, <2>2, ButterflyFurther
  <2>. QED BY <2>1, <2>3
<1>5. CASE C!StagesDone
  <2>1. /\ fsm = 2 /\ stage = LOGN /\ fsm' = (IF inverse THEN 3 ELSE 4) /\ ~done'
        /\ inverse' = inverse /\ given' = given /\ mem' = mem
    BY <1>5 DEF C!StagesDone, CoreInv
  <2>2. Sg' = Sg
    BY <2>1 DEF Sg
  <2>3. Whole(given', Sg', mem')
    BY <2>1, <2>2 DEF Onward
  <2>. QED BY <2>1, <2>3
<1>6. CASE C!Scale
  <2>1. /\ fsm = 3 /\ fsm' = 4 /\ ~done' /\ inverse' = inverse /\ given' = given
        /\ mem' = [k \in C!Idx |-> C!modmul(mem[k], C!N_INV)]
    BY <1>6 DEF C!Scale, CoreInv
  <2>2. Sg' = Sg
    BY <2>1 DEF Sg
  <2>3. given \in [C!Idx -> C!Word] /\ mem \in [C!Idx -> C!Word] /\ Sg \in Signs
    BY SgIs DEF CoreInv
  <2>4. inverse /\ Whole(given, Sg, mem)
    BY <2>1
  <2>5. Scaled(given, Sg, [k \in C!Idx |-> C!modmul(mem[k], C!N_INV)])
    BY <2>3, <2>4, ScaleIs
  <2>6. Scaled(given', Sg', mem')
    BY <2>1, <2>2, <2>5
  <2>7. IF inverse' THEN Scaled(given', Sg', mem') ELSE Whole(given', Sg', mem')
    BY <2>1, <2>4, <2>6
  <2>8. fsm' # 1 /\ fsm' # 2 /\ fsm' # 3
    BY <2>1
  <2>. QED BY <2>1, <2>7, <2>8
<1>7. CASE C!Store
  <2>1. /\ fsm = 4 /\ fsm' = 0 /\ inverse' = inverse /\ given' = given
        /\ data_out' = [k \in C!Idx |-> mem[C!bit_reverse(k)]]
    BY <1>7 DEF C!Store
  <2>2. Sg' = Sg
    BY <2>1 DEF Sg
  <2>3. IF inverse THEN Scaled(given, Sg, mem) ELSE Whole(given, Sg, mem)
    BY <2>1
  <2>4. ASSUME NEW k \in C!Idx
        PROVE  Part(given, Sg, 0, C!N, C!bit_reverse(k),
                    IF inverse THEN C!N * data_out'[k] ELSE data_out'[k])
    <3>1. C!bit_reverse(k) \in C!Idx /\ data_out'[k] = mem[C!bit_reverse(k)]
      BY <2>1, ReversedIsIndex
    <3>. QED BY <2>3, <3>1 DEF Scaled, Whole
  <2>5. Output(given, Sg, inverse, data_out')
    BY <2>4 DEF Output
  <2>6. Output(given', Sg', inverse', data_out')
    BY <2>1, <2>2, <2>5
  <2>. QED BY <2>1, <2>6
<1>8. CASE UNCHANGED C!vars
  <2>1. /\ fsm' = fsm /\ stage' = stage /\ group' = group /\ butterfly' = butterfly /\ mem' = mem
        /\ data_out' = data_out /\ done' = done /\ inverse' = inverse /\ given' = given
    BY <1>8 DEF C!vars, C!ctl
  <2>2. Sg' = Sg
    BY <2>1 DEF Sg
  <2>. QED BY <2>1, <2>2
<1>. QED BY <1>1, <1>2, <1>3, <1>4, <1>5, <1>6, <1>7, <1>8 DEF C!Next, C!Clock

(* The last forward run, which an inverse run undoes when it is given its  *)
(* result.                                                                 *)
OrigInv ==
  /\ orig.in \in [C!Idx -> C!Word] /\ orig.out \in [C!Idx -> C!Word]
  /\ Output(orig.in, 1, FALSE, orig.out)

LEMMA OrigInitOK == C!Init => OrigInv
<1> SUFFICES ASSUME C!Init PROVE OrigInv
  OBVIOUS
<1>1. orig.in = C!Zero /\ orig.out = C!Zero
  BY DEF C!Init
<1>2. C!Zero \in [C!Idx -> C!Word] /\ \A k \in C!Idx : C!Zero[k] = 0
  BY ZeroIsVector DEF C!Zero
<1>3. PICK n \in Nat : n = C!N /\ C!Idx = 0 .. n - 1
  BY CoreSizes DEF C!Idx
<1>4. ASSUME NEW k \in C!Idx  PROVE Part(C!Zero, 1, 0, C!N, C!bit_reverse(k), C!Zero[k])
  <2> DEFINE b == C!bit_reverse(k)
  <2>1. ASSUME NEW r \in 0 .. n - 1  PROVE Terms(C!Zero, 1, 0, n, b)[r] = 0
    <3>1. r \in C!Idx /\ 0 + r = r
      BY <1>3
    <3>2. PICK c \in Int : c = C!Pow(1 * C!bit_reverse(r) * b)
      <4>1. PICK p \in Int, q \in Int : p = C!bit_reverse(r) /\ q = b
        BY <3>1, ReversedInt
      <4>2. 1 * p * q \in Int
        OBVIOUS
      <4>. QED BY <4>1, <4>2, PowType
    <3>3. 0 * c = 0
      OBVIOUS
    <3>. QED BY <1>2, <3>1, <3>2, <3>3 DEF Terms, Term
  <2>2. Adds(Terms(C!Zero, 1, 0, n, b), n, 0)
    BY <2>1, AddsZero
  <2>. QED BY <1>2, <1>3, <2>2 DEF Part
<1>. QED BY <1>1, <1>2, <1>4 DEF OrigInv, Output

LEMMA OrigStepOK == CoreInv /\ TransInv /\ OrigInv /\ [C!Next]_(C!vars) => OrigInv'
<1> SUFFICES ASSUME CoreInv, TransInv, OrigInv, [C!Next]_(C!vars)  PROVE OrigInv'
  OBVIOUS
<1>1. CASE orig' = orig
  BY <1>1 DEF OrigInv
<1>2. CASE C!Store /\ ~inverse
  <2>1. fsm = 4 /\ done' /\ given' = given /\ ~inverse' /\ orig' = [in |-> given, out |-> data_out']
    BY <1>2 DEF C!Store
  <2>2. given \in [C!Idx -> C!Word] /\ data_out' \in [C!Idx -> C!Word]
    BY CoreStepOK DEF CoreInv
  <2>3. Output(given, 1, FALSE, data_out')
    <3>1. Output(given', Sg', inverse', data_out')
      BY <2>1, TransStepOK DEF TransInv
    <3>2. Sg' = 1
      BY <2>1 DEF Sg
    <3>. QED BY <2>1, <3>1, <3>2 DEF Output
  <2>4. orig'.in = given /\ orig'.out = data_out'
    BY <2>1
  <2>. QED BY <2>2, <2>3, <2>4 DEF OrigInv
<1>3. orig' = orig \/ (C!Store /\ ~inverse)
  BY DEF C!Next, C!Clock, C!Reset, C!Idle, C!Load, C!Butterfly, C!StagesDone, C!Scale, C!Store,
         C!vars, C!ctl
<1>. QED BY <1>1, <1>2, <1>3

(* `done' comes with the transform of the vector that was sampled: every   *)
(* word of data_out is, modulo Q, the sum that defines it, forwards and    *)
(* inverse, for every number of points, modulus, root and width; and the   *)
(* inverse core, given a result of the forward core, returns its input.    *)
THEOREM TransformComputed == HSpec => []OutputIsTransform
<1>1. HInit => TransInv
  BY DEF HInit, C!Init, TransInv
<1>2. CoreInv /\ TransInv /\ [HNext]_<<vars, cvars, part>> => TransInv'
  BY CoreMoves, TransStepOK
<1>3. CoreInv /\ TransInv => C!Transformed
  <2> SUFFICES ASSUME CoreInv, TransInv, done, NEW k \in C!Idx
               PROVE  IF inverse THEN (C!N * data_out[k]) % Q = C!Sum(given, k, -1)
                                 ELSE data_out[k] % Q = C!Sum(given, k, 1)
    BY DEF C!Transformed
  <2>1. given \in [C!Idx -> C!Word] /\ data_out[k] \in Int
    BY WordsAreInt DEF CoreInv
  <2>2. Part(given, Sg, 0, C!N, C!bit_reverse(k), IF inverse THEN C!N * data_out[k] ELSE data_out[k])
    BY DEF TransInv, Output
  <2>3. CASE inverse
    <3>1. -1 \in Signs /\ Sg = -1
      BY <2>3 DEF Sg, Signs
    <3>2. C!N * data_out[k] \in Int
      BY <2>1, CoreSizes
    <3>3. Part(given, -1, 0, C!N, C!bit_reverse(k), C!N * data_out[k])
      BY <2>2, <2>3, <3>1
    <3>. QED BY <2>1, <2>3, <3>1, <3>2, <3>3, SumIs
  <2>4. CASE ~inverse
    <3>1. 1 \in Signs /\ Sg = 1
      BY <2>4 DEF Sg, Signs
    <3>2. Part(given, 1, 0, C!N, C!bit_reverse(k), data_out[k])
      BY <2>2, <2>4, <3>1
    <3>. QED BY <2>1, <2>4, <3>1, <3>2, SumIs
  <2>. QED BY <2>3, <2>4
<1>4. CoreInv /\ TransInv /\ OrigInv => C!RoundTrip
  <2> SUFFICES ASSUME CoreInv, TransInv, OrigInv, done, inverse, given = orig.out, NEW k \in C!Idx
               PROVE  data_out[k] % Q = orig.in[k] % Q
    BY DEF C!RoundTrip
  <2>1. Sg = -1 /\ orig.in[k] \in Int /\ data_out[k] \in Int
    BY WordsAreInt DEF Sg, OrigInv, CoreInv
  <2>2. Part(given, Sg, 0, C!N, C!bit_reverse(k), IF inverse THEN C!N * data_out[k] ELSE data_out[k])
    BY DEF TransInv, Output
  <2>3. Part(orig.out, -1, 0, C!N, C!bit_reverse(k), C!N * data_out[k])
    BY <2>1, <2>2
  <2>4. Cong(data_out[k], orig.in[k])
    BY <2>1, <2>3, Undone DEF OrigInv
  <2>. QED BY <2>1, <2>4, CongMod
<1>5. HInit => OrigInv
  BY OrigInitOK DEF HInit
<1>6. CoreInv /\ TransInv /\ OrigInv /\ [HNext]_<<vars, cvars, part>> => OrigInv'
  BY CoreMoves, OrigStepOK
<1>7. HSpec => []C!Transformed /\ []C!RoundTrip
  BY <1>1, <1>2, <1>3, <1>4, <1>5, <1>6, CoreInvariance, PTL DEF HSpec
<1>8. C!Transformed /\ C!StaysReduced /\ C!RoundTrip => OutputIsTransform
  BY DEF OutputIsTransform, C!OutputIsTransform
<1>. QED BY <1>7, <1>8, OutputReduced, PTL
=============================================================================
