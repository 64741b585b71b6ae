------------------------- MODULE MCAxi4FabricProofs -------------------------
(***************************************************************************)
(* The crossbar, for every number of masters and slaves and every FIFO     *)
(* depth.  First the read half: types, no circular wait, and that what a   *)
(* master sees is an in-order port.  Then the composition that TLC checks: *)
(* each of its behaviours is, seen through the variables of the write      *)
(* half, one of that half, so what Axi4FabricWrProofs proves holds of it.  *)
(* W and WP are the same instance of Axi4FabricWr, without and with its    *)
(* theorems.                                                               *)
(***************************************************************************)
EXTENDS MCAxi4Fabric, RoutePairProofs

(* TypeOK is inductive by itself; RoutesMeet is not: that some pair of     *)
(* heads meets now says nothing of the pairs behind them.  That all FIFOs  *)
(* are projections of one order does.                                      *)
IInv == TypeOK /\ OneOrder(route)

(* The select register always names a master.                              *)
LEMMA SelectOK ==
  ASSUME NEW mi \in Masters
  PROVE  NextSelect(mi) \in Masters
  BY NMAssumption DEF NextSelect, Masters

(* Reset establishes the invariant.                                        *)
LEMMA InitOK == Init => IInv
<1>1. SUFFICES ASSUME Init  PROVE IInv
  OBVIOUS
<1>2. 0 \in Masters
  BY NMAssumption DEF Masters
<1>3. RouteWithin(RouteEmpty, RouteDepth)
  BY FabricAssumption DEF RouteWithin, RouteEmpty
<1>. QED BY <1>1, <1>2, <1>3, RouteEmptyOK, FabricAssumption DEF Init, IInv, TypeOK

(* Every rule and every environment step preserves it.                     *)
LEMMA StepOK == IInv /\ [Next]_vars => IInv'
<1> SUFFICES ASSUME IInv, [Next]_vars  PROVE IInv'
  OBVIOUS
<1> USE FabricAssumption
<1>1. ASSUME NEW mi \in Masters, NEW sj \in Slaves,
             rl_rd_xaction_master_to_slave(mi, sj)
      PROVE  IInv'
  <2>1. /\ arQ[mi] # <<>> /\ Len(toS[sj]) < FifoDepth
        /\ RouteRoom(route, mi, sj, RouteDepth)
        /\ arQ' = [arQ EXCEPT ![mi] = Tail(@)]
        /\ toS' = [toS EXCEPT ![sj] = Append(@, Head(arQ[mi]))]
        /\ route' = RouteEnq(route, mi, sj)
        /\ sel' = [sel EXCEPT ![sj] = NextSelect(mi)] \/ sel' = sel
        /\ UNCHANGED <<rspQ, rdQ, srv, sent, out, got>>
    BY <1>1 DEF rl_rd_xaction_master_to_slave, CanSend, fv_mi_has_rd_for_sj
  <2>2. Head(arQ[mi]) \in Requests
    BY SMTT(30), <2>1 DEF IInv, TypeOK
  <2>3. arQ' \in [Masters -> Seq(Requests)] /\ \A m \in Masters : Len(arQ'[m]) <= FifoDepth
    BY SMTT(30), <2>1 DEF IInv, TypeOK
  <2>4. toS' \in [Slaves -> Seq(Requests)] /\ \A s \in Slaves : Len(toS'[s]) <= FifoDepth
    BY SMTT(30), <2>1, <2>2 DEF IInv, TypeOK
  <2>5. RouteType(route') /\ OneOrder(route') /\ RouteWithin(route', RouteDepth)
    BY <2>1, RouteEnqOK, RouteEnqWithin DEF IInv, TypeOK
  <2>6. sel' \in [Slaves -> Masters]
    BY <2>1, SelectOK DEF IInv, TypeOK
  <2>. QED BY <2>1, <2>3, <2>4, <2>5, <2>6 DEF IInv, TypeOK
<1>2. ASSUME NEW mi \in Masters, NEW sj \in Slaves,
             rl_rd_resp_slave_to_master(mi, sj)
      PROVE  IInv'
  <2>1. /\ RouteMeet(route, mi, sj) /\ rdQ[sj] # <<>> /\ Len(rspQ[mi]) < FifoDepth
        /\ rdQ' = [rdQ EXCEPT ![sj] = Tail(@)]
        /\ rspQ' = [rspQ EXCEPT ![mi] = Append(@, Head(rdQ[sj]))]
        /\ route' = RouteDeq(route, mi, sj) \/ route' = route
        /\ UNCHANGED <<arQ, toS, sel, srv, sent, out, got>>
    BY <1>2 DEF rl_rd_resp_slave_to_master
  <2>2. Head(rdQ[sj]) \in RBeats
    BY SMTT(30), <2>1 DEF IInv, TypeOK
  <2>3. rdQ' \in [Slaves -> Seq(RBeats)] /\ \A s \in Slaves : Len(rdQ'[s]) <= FifoDepth
    BY SMTT(30), <2>1 DEF IInv, TypeOK
  <2>4. rspQ' \in [Masters -> Seq(RBeats)] /\ \A m \in Masters : Len(rspQ'[m]) <= FifoDepth
    BY SMTT(30), <2>1, <2>2 DEF IInv, TypeOK
  <2>5. RouteType(route') /\ OneOrder(route') /\ RouteWithin(route', RouteDepth)
    BY SMTT(30), <2>1, RouteDeqOK, RouteDeqWithin DEF IInv, TypeOK
  <2>. QED BY <2>1, <2>3, <2>4, <2>5 DEF IInv, TypeOK
<1>3. ASSUME NEW m \in Masters, MasterIssue(m)  PROVE IInv'
  <2>1. PICK q \in Requests : /\ arQ' = [arQ EXCEPT ![m] = Append(@, q)]
                              /\ out' = [out EXCEPT ![m] = Append(@, q)]
    BY <1>3 DEF MasterIssue, Requests
  <2>2. Len(arQ[m]) < FifoDepth /\ UNCHANGED <<rspQ, toS, rdQ, route, sel, srv, sent, got>>
    BY <1>3 DEF MasterIssue
  <2>3. arQ' \in [Masters -> Seq(Requests)] /\ \A x \in Masters : Len(arQ'[x]) <= FifoDepth
    BY <2>1, <2>2 DEF IInv, TypeOK
  <2>4. out' \in [Masters -> Seq(Requests)]
    BY <2>1 DEF IInv, TypeOK
  <2>. QED BY <2>2, <2>3, <2>4 DEF IInv, TypeOK
<1>4. ASSUME NEW m \in Masters, MasterTake(m)  PROVE IInv'
  <2>1. /\ rspQ[m] # <<>>
        /\ rspQ' = [rspQ EXCEPT ![m] = Tail(@)]
        /\ UNCHANGED <<arQ, toS, rdQ, route, sel, srv, sent>>
    BY <1>4 DEF MasterTake
  <2>2. PICK i \in 1 .. Len(out[m]) :
          \/ /\ got' = [got EXCEPT ![m] = 0]
             /\ out' = [out EXCEPT ![m] = SubSeq(@, 1, i - 1) \o SubSeq(@, i + 1, Len(@))]
          \/ got' = [got EXCEPT ![m] = @ + 1] /\ out' = out
    BY <1>4 DEF MasterTake
  <2>3. rspQ' \in [Masters -> Seq(RBeats)] /\ \A x \in Masters : Len(rspQ'[x]) <= FifoDepth
    BY <2>1 DEF IInv, TypeOK
  <2>4. out' \in [Masters -> Seq(Requests)]
    <3>1. out \in [Masters -> Seq(Requests)] /\ out[m] \in Seq(Requests)
      BY DEF IInv, TypeOK
    <3>2. /\ SubSeq(out[m], 1, i - 1) \in Seq(Requests)
          /\ SubSeq(out[m], i + 1, Len(out[m])) \in Seq(Requests)
      BY <3>1
    <3>3. SubSeq(out[m], 1, i - 1) \o SubSeq(out[m], i + 1, Len(out[m])) \in Seq(Requests)
      BY <3>2
    <3>. QED BY <2>2, <3>1, <3>3
  <2>5. got' \in [Masters -> Nat]
    <3>1. got \in [Masters -> Nat] /\ got[m] + 1 \in Nat
      BY DEF IInv, TypeOK
    <3>2. got' = [got EXCEPT ![m] = 0] \/ got' = [got EXCEPT ![m] = @ + 1]
      BY <2>2, Zenon
    <3>. QED BY <3>1, <3>2
  <2>. QED BY <2>1, <2>3, <2>4, <2>5 DEF IInv, TypeOK
<1>5. ASSUME NEW s \in Slaves, SlaveAccept(s)  PROVE IInv'
  <2>1. /\ toS[s] # <<>> /\ Len(srv[s]) < SlaveDepth
        /\ srv' = [srv EXCEPT ![s] = Append(@, Head(toS[s]))]
        /\ toS' = [toS EXCEPT ![s] = Tail(@)]
        /\ UNCHANGED <<arQ, rspQ, rdQ, route, sel, sent, out, got>>
    BY <1>5 DEF SlaveAccept
  <2>2. Head(toS[s]) \in Requests
    BY <2>1 DEF IInv, TypeOK
  <2>3. toS' \in [Slaves -> Seq(Requests)] /\ \A x \in Slaves : Len(toS'[x]) <= FifoDepth
    BY SMTT(30), <2>1 DEF IInv, TypeOK
  <2>4. srv' \in [Slaves -> Seq(Requests)] /\ \A x \in Slaves : Len(srv'[x]) <= SlaveDepth
    BY SMTT(30), <2>1, <2>2 DEF IInv, TypeOK
  <2>. QED BY <2>1, <2>3, <2>4 DEF IInv, TypeOK
<1>6. ASSUME NEW s \in Slaves, SlaveBeat(s)  PROVE IInv'
  <2> DEFINE q == Head(srv[s])
             last == sent[s] = q.len
  <2>1. /\ srv[s] # <<>> /\ Len(rdQ[s]) < FifoDepth
        /\ rdQ' = [rdQ EXCEPT ![s] = Append(@, [req |-> q, last |-> last])]
        /\ sent' = [sent EXCEPT ![s] = 0] \/ sent' = [sent EXCEPT ![s] = @ + 1]
        /\ srv' = [srv EXCEPT ![s] = Tail(@)] \/ srv' = srv
        /\ UNCHANGED <<arQ, rspQ, toS, route, sel, out, got>>
    BY <1>6 DEF SlaveBeat
  <2>2. [req |-> q, last |-> last] \in RBeats
    BY <2>1 DEF IInv, TypeOK, RBeats
  <2> HIDE DEF q, last
  <2>3. rdQ' \in [Slaves -> Seq(RBeats)] /\ \A x \in Slaves : Len(rdQ'[x]) <= FifoDepth
    BY <2>1, <2>2 DEF IInv, TypeOK
  <2>4. srv' \in [Slaves -> Seq(Requests)] /\ \A x \in Slaves : Len(srv'[x]) <= SlaveDepth
    <3>1. /\ srv \in [Slaves -> Seq(Requests)] /\ srv[s] # <<>>
          /\ \A x \in Slaves : Len(srv[x]) <= SlaveDepth
      BY <2>1 DEF IInv, TypeOK
    <3>2. CASE srv' = srv
      BY <3>1, <3>2
    <3>3. CASE srv' = [srv EXCEPT ![s] = Tail(@)]
      BY <3>1, <3>3
    <3>. QED BY <2>1, <3>2, <3>3
  <2>5. sent' \in [Slaves -> Nat]
    <3>1. sent \in [Slaves -> Nat]
      BY DEF IInv, TypeOK
    <3>. QED BY <2>1, <3>1
  <2>. QED BY <2>1, <2>3, <2>4, <2>5 DEF IInv, TypeOK
<1>7. CASE UNCHANGED vars
  BY <1>7 DEF vars, IInv, TypeOK
<1>. QED BY <1>1, <1>2, <1>3, <1>4, <1>5, <1>6, <1>7 DEF Next, SendTo, Respond

(* The invariant holds in every run.                                       *)
LEMMA Invariance == Spec => []IInv
  BY InitOK, StepOK, PTL DEF Spec

(* Every FIFO of the crossbar holds what the code puts in it and stays     *)
(* within its depth.                                                       *)
THEOREM TypeCorrect == Spec => []TypeOK
<1>1. IInv => TypeOK
  BY DEF IInv
<1>. QED BY Invariance, <1>1, PTL

(* However the masters spread their reads over the slaves, the response    *)
(* rules never wait for each other in a circle.                            *)
THEOREM NoCircularWait == Spec => []RoutesMeet
<1>1. IInv => RoutesMeet
  BY OneOrderHeadsMeet DEF IInv, TypeOK, RoutesMeet
<1>. QED BY Invariance, <1>1, PTL

----------------------------------------------------------------------------
(* The master the arbiter picks is the one nearest in scanning order, and  *)
(* the select register moves just past it.                                 *)
LEMMA ArbiterTurns ==
  ASSUME NEW sel0 \in Masters, NEW k \in Masters, NEW m \in Masters, m # k,
         Turns(sel0, k) <= Turns(sel0, m)
  PROVE  Turns(NextSelect(k), m) < Turns(sel0, m)
  BY NMAssumption DEF Turns, NextSelect, Masters

(* With pure round robin in mkaxi4_fabric a waiting master comes strictly  *)
(* closer to its turn whenever another master is served.                   *)
THEOREM RoundRobinTurns == Variant = 1 /\ Spec => TurnComes
<1> DEFINE Closer ==
      FixedRd = {} =>
        \A s \in Slaves, m \in Masters :
          ( /\ fv_mi_has_rd_for_sj(m, s) /\ arQ'[m] = arQ[m]
            /\ Len(route'.fM[s]) > Len(route.fM[s]) )
          => Turns(sel'[s], m) < Turns(sel[s], m)
<1>1. ASSUME Variant = 1, IInv, Next  PROVE Closer
  <2> SUFFICES ASSUME FixedRd = {}, NEW s \in Slaves, NEW m \in Masters,
                      fv_mi_has_rd_for_sj(m, s), arQ'[m] = arQ[m],
                      Len(route'.fM[s]) > Len(route.fM[s])
               PROVE  Turns(sel'[s], m) < Turns(sel[s], m)
    OBVIOUS
  <2>1. PICK k \in Masters : rl_rd_xaction_master_to_slave(k, s)
    <3>1. /\ route.fM \in [Slaves -> Seq(Masters)]
          /\ route.fS \in [Masters -> Seq(Slaves)]
      BY <1>1 DEF IInv, TypeOK, RouteType
    <3>2. Len(route.fM[s]) \in Nat /\ route' # route
      BY <3>1
    <3>3. ASSUME NEW mi \in Masters, NEW sj \in Slaves, rl_rd_xaction_master_to_slave(mi, sj), sj # s
          PROVE  FALSE
      <4>1. route'.fM = [route.fM EXCEPT ![sj] = Append(@, mi)]
        BY <3>3 DEF rl_rd_xaction_master_to_slave, RouteEnq
      <4>. QED BY <3>1, <3>2, <3>3, <4>1
    <3>4. ASSUME NEW mi \in Masters, NEW sj \in Slaves, rl_rd_resp_slave_to_master(mi, sj)
          PROVE  FALSE
      <4>1. /\ route'.fM = [route.fM EXCEPT ![sj] = Tail(@)]
            /\ route.fM[sj] # <<>>
        BY <3>2, <3>4 DEF rl_rd_resp_slave_to_master, RouteDeq, RouteMeet
      <4>2. CASE sj = s
        <5>1. Len(route'.fM[s]) = Len(route.fM[s]) - 1
          BY <3>1, <4>1, <4>2
        <5>. QED BY <3>2, <5>1
      <4>3. CASE sj # s
        BY <3>1, <3>2, <4>1, <4>3
      <4>. QED BY <4>2, <4>3
    <3>. QED BY <1>1, <3>2, <3>3, <3>4
         DEF Next, SendTo, Respond, MasterIssue, MasterTake, SlaveAccept, SlaveBeat
  <2>2. k # m
    <3>1. arQ \in [Masters -> Seq(Requests)] /\ arQ[k] # <<>> /\ arQ' = [arQ EXCEPT ![k] = Tail(@)]
      BY <1>1, <2>1 DEF IInv, TypeOK, rl_rd_xaction_master_to_slave, CanSend, fv_mi_has_rd_for_sj
    <3>2. Len(arQ'[k]) = Len(arQ[k]) - 1 /\ Len(arQ[k]) \in Nat
      BY <3>1
    <3>. QED BY <3>2
  <2>3. FixedRd # Masters /\ ArbiterRuns
    BY <1>1, NMAssumption DEF ArbiterRuns, Masters
  <2>4. k \in fn_rr_arbiter(wr_master_rd_reqs(s), sel[s]) /\ m \in wr_master_rd_reqs(s)
    BY <2>1, <2>3 DEF rl_rd_xaction_master_to_slave, CanSend, wr_rd_grant, wr_master_rd_reqs
  <2>5. Turns(sel[s], k) <= Turns(sel[s], m)
    BY <2>4 DEF fn_rr_arbiter
  <2>6. sel[s] \in Masters /\ sel'[s] = NextSelect(k)
    BY <1>1, <2>1, <2>3 DEF IInv, TypeOK, rl_rd_xaction_master_to_slave
  <2>. QED BY <2>2, <2>5, <2>6, ArbiterTurns
<1>2. ASSUME Variant = 1  PROVE IInv /\ [Next]_vars => [Closer]_vars
  BY <1>1, <1>2
<1>3. CASE Variant = 1
  <2>1. Spec => [][Closer]_vars
    BY <1>2, <1>3, Invariance, PTL DEF Spec
  <2>. QED BY <2>1 DEF TurnComes
<1>. QED BY <1>3

----------------------------------------------------------------------------
(* Where the beats of a read are.  The R channel carries no beat numbers,  *)
(* only the mark of the last; v are the beats with their numbers.          *)
Beats == [req : Requests, n : Nat]

Mark(b)   == [req |-> b.req, last |-> (b.n = b.req.len)]
Marked(v) == [i \in 1..Len(v) |-> Mark(v[i])]

(* aM and aS are the reads the route FIFOs hold, hM and hS the beats of    *)
(* the oldest that were forwarded.  From its first read in the crossbar to *)
(* the last it has not answered, a slave's beats are without a gap; so are *)
(* those a master has not taken, from the first read it waits for to the   *)
(* oldest the crossbar is still forwarding.                                *)
Travelling(aS, aM, hS, hM, u, v) ==
  /\ aS \in [Masters -> Seq(Requests)] /\ aM \in [Slaves -> Seq(Requests)]
  /\ hS \in [Masters -> Nat] /\ hM \in [Slaves -> Nat]
  /\ u \in [Masters -> Seq(Beats)] /\ v \in [Slaves -> Seq(Beats)]
  /\ Labelled(route, aS, aM) /\ Progress(route, hS, hM)
  /\ \A s \in Slaves : rdQ[s] = Marked(v[s])
  /\ \A m \in Masters : rspQ[m] = Marked(u[m])
  /\ \A s \in Slaves : Flow(Requests, aM[s], srv[s] \o toS[s], hM[s], v[s], sent[s])
  /\ \A m \in Masters : Flow(Requests, out[m], aS[m] \o arQ[m], got[m], u[m], hS[m])

(* A master has not more beats of a read than the read has.                *)
Counted ==
  \A m \in Masters : got[m] # 0 => out[m] # <<>> /\ got[m] <= Head(out[m]).len

Reads == Counted /\ \E aS, aM, hS, hM, u, v : Travelling(aS, aM, hS, hM, u, v)

(* A burst has one beat more than its len, a number.                       *)
LEMMA LenNat == \A q \in Requests : q.len \in Nat
  BY FabricAssumption DEF Requests

(* A FIFO of marked beats, entry by entry.                                 *)
LEMMA MarkedEntries ==
  ASSUME NEW w \in Seq(Beats)
  PROVE  /\ Marked(w) \in Seq({Mark(c) : c \in Beats}) /\ Len(Marked(w)) = Len(w)
         /\ \A i \in 1..Len(w) : Marked(w)[i] = Mark(w[i])
<1> DEFINE M == {Mark(c) : c \in Beats}
           z == [i \in 1..Len(w) |-> Mark(w[i])]
<1>1. \A i \in 1..Len(w) : Mark(w[i]) \in M
  OBVIOUS
<1> HIDE DEF M
<1>2. z \in Seq(M) /\ Len(z) = Len(w)
  BY <1>1
<1>. QED BY <1>2 DEF Marked, M

(* Such a FIFO as a beat enters it.                                        *)
LEMMA MarkAppend ==
  ASSUME NEW w \in Seq(Beats), NEW b \in Beats
  PROVE  Marked(Append(w, b)) = Append(Marked(w), Mark(b))
<1> DEFINE M == {Mark(c) : c \in Beats}
           x == Append(w, b)
           y == Marked(w)
           z == Marked(x)
<1>1. /\ Len(w) \in Nat /\ Len(x) = Len(w) + 1 /\ x \in Seq(Beats) /\ x[Len(w) + 1] = b
      /\ \A i \in 1..Len(w) : x[i] = w[i]
  BY AppendEntries
<1>2. /\ y \in Seq(M) /\ Len(y) = Len(w)
      /\ \A i \in 1..Len(w) : y[i] = Mark(w[i])
  BY MarkedEntries
<1> HIDE DEF x
<1>3. z \in Seq(M) /\ Len(z) = Len(x) /\ \A i \in 1..Len(x) : z[i] = Mark(x[i])
  BY <1>1, MarkedEntries
<1>4. Mark(b) \in M
  OBVIOUS
<1> HIDE DEF M, y, z
<1>5. /\ Append(y, Mark(b)) \in Seq(M) /\ Len(Append(y, Mark(b))) = Len(w) + 1
      /\ Append(y, Mark(b))[Len(w) + 1] = Mark(b)
      /\ \A i \in 1..Len(w) : Append(y, Mark(b))[i] = y[i]
  BY <1>2, <1>4, AppendEntries
<1>6. ASSUME NEW i \in 1..Len(w) + 1  PROVE z[i] = Append(y, Mark(b))[i]
  <2>1. i = Len(w) + 1 \/ i \in 1..Len(w)
    BY <1>1
  <2>. QED BY <1>1, <1>2, <1>3, <1>5, <2>1
<1>7. z = Append(y, Mark(b))
  BY <1>1, <1>3, <1>5, <1>6, SeqEqual
<1>. QED BY <1>7 DEF x, y, z

(* And as one leaves it.                                                   *)
LEMMA MarkTail ==
  ASSUME NEW w \in Seq(Beats), Marked(w) # <<>>
  PROVE  /\ w # <<>> /\ Head(Marked(w)) = Mark(Head(w))
         /\ Marked(Tail(w)) = Tail(Marked(w))
<1> DEFINE M == {Mark(c) : c \in Beats}
           x == Tail(w)
           y == Marked(w)
           z == Marked(x)
<1>1. /\ y \in Seq(M) /\ Len(y) = Len(w) /\ y # <<>>
      /\ \A i \in 1..Len(w) : y[i] = Mark(w[i])
  BY MarkedEntries
<1> HIDE DEF M, y
<1>2. /\ Len(y) \in Nat /\ 1 <= Len(y) /\ Head(y) = y[1]
      /\ Tail(y) \in Seq(M) /\ Len(Tail(y)) = Len(y) - 1
      /\ \A i \in 1..Len(y) - 1 : Tail(y)[i] = y[i + 1]
  BY <1>1, TailEntries
<1>3. w # <<>>
  BY <1>1, <1>2
<1>4. /\ Head(w) = w[1] /\ x \in Seq(Beats) /\ Len(x) = Len(w) - 1
      /\ \A i \in 1..Len(w) - 1 : x[i] = w[i + 1]
  BY <1>3, TailEntries
<1> HIDE DEF x
<1>5. z \in Seq(M) /\ Len(z) = Len(x) /\ \A i \in 1..Len(x) : z[i] = Mark(x[i])
  BY <1>4, MarkedEntries DEF M
<1> HIDE DEF z
<1>6. ASSUME NEW i \in 1..Len(w) - 1  PROVE z[i] = Tail(y)[i]
  <2>1. i + 1 \in 1..Len(w)
    BY <1>1, <1>2
  <2>. QED BY <1>1, <1>2, <1>4, <1>5, <2>1
<1>7. z = Tail(y)
  BY <1>1, <1>2, <1>4, <1>5, <1>6, SeqEqual
<1>8. Head(y) = Mark(Head(w))
  BY <1>1, <1>2, <1>4
<1>. QED BY <1>3, <1>7, <1>8 DEF x, y, z

(* After reset nothing travels.                                            *)
LEMMA ReadsInit == Init => Reads
<1> SUFFICES ASSUME Init  PROVE Reads
  OBVIOUS
<1> DEFINE eS == [m \in Masters |-> <<>>]
           eM == [s \in Slaves |-> <<>>]
           zS == [m \in Masters |-> 0]
           zM == [s \in Slaves |-> 0]
<1>1. <<>> \in Seq(Requests) /\ <<>> \in Seq(Beats) /\ <<>> \o <<>> = <<>> /\ Marked(<<>>) = <<>>
  BY DEF Marked
<1>2. Labelled(route, eS, eM) /\ Progress(route, zS, zM)
  BY LabelEmpty DEF Init, Progress
<1>3. \A s \in Slaves : Flow(Requests, eM[s], srv[s] \o toS[s], zM[s], eM[s], sent[s])
  BY <1>1, FlowEmpty DEF Init
<1>4. \A m \in Masters : Flow(Requests, out[m], eS[m] \o arQ[m], got[m], eS[m], zS[m])
  BY <1>1, FlowEmpty DEF Init
<1>5. (\A s \in Slaves : rdQ[s] = Marked(eM[s])) /\ \A m \in Masters : rspQ[m] = Marked(eS[m])
  BY <1>1 DEF Init
<1>6. Travelling(eS, eM, zS, zM, eS, eM)
  BY <1>1, <1>2, <1>3, <1>4, <1>5 DEF Travelling
<1>7. Counted
  BY DEF Init, Counted
<1>. QED BY <1>6, <1>7 DEF Reads

(* The lemmas about bursts and beats, for the FIFOs of this module.        *)
LEMMA GetBeat ==
  \A P : \A rest \in Seq(Requests), w \in Seq(Beats), h \in Nat, n \in Nat :
    w # <<>> /\ Flow(Requests, P, rest, h, w, n)
      => /\ P \in Seq(Requests) /\ P # <<>> /\ Head(w) = [req |-> Head(P), n |-> h]
         /\ h = Head(P).len => Flow(Requests, Tail(P), rest, 0, Tail(w), n)
         /\ h # Head(P).len => Flow(Requests, P, rest, h + 1, Tail(w), n)
<1> SUFFICES ASSUME NEW P, NEW rest \in Seq(Requests), NEW w \in Seq(Beats), w # <<>>,
                    NEW h \in Nat, NEW n \in Nat, Flow(Requests, P, rest, h, w, n)
             PROVE  /\ P \in Seq(Requests) /\ P # <<>> /\ Head(w) = [req |-> Head(P), n |-> h]
                    /\ h = Head(P).len => Flow(Requests, Tail(P), rest, 0, Tail(w), n)
                    /\ h # Head(P).len => Flow(Requests, P, rest, h + 1, Tail(w), n)
  OBVIOUS
<1>. QED BY LenNat, FlowGet

(* The same when a beat enters the last FIFO of the chain.                 *)
LEMMA PutBeat ==
  \A P : \A rest \in Seq(Requests), w \in Seq(Beats), h \in Nat, n \in Nat, b \in Beats :
    rest # <<>> /\ Flow(Requests, P, rest, h, w, n) /\ b = [req |-> Head(rest), n |-> n]
      => /\ n = Head(rest).len => Flow(Requests, P, Tail(rest), h, Append(w, b), 0)
         /\ n # Head(rest).len => Flow(Requests, P, rest, h, Append(w, b), n + 1)
<1> TAKE P
<1> TAKE rest \in Seq(Requests), w \in Seq(Beats), h \in Nat, n \in Nat, b \in Beats
<1> HAVE rest # <<>> /\ Flow(Requests, P, rest, h, w, n) /\ b = [req |-> Head(rest), n |-> n]
<1>. QED BY LenNat, FlowPut

(* A new address appends its burst to what a slave still owes.             *)
LEMMA GrowBursts ==
  \A P : \A rest \in Seq(Requests), q \in Requests, w \in Seq(Beats), h \in Nat, n \in Nat :
    Flow(Requests, P, rest, h, w, n) => Flow(Requests, Append(P, q), Append(rest, q), h, w, n)
<1> SUFFICES ASSUME NEW P, NEW rest \in Seq(Requests), NEW q \in Requests, NEW w \in Seq(Beats),
                    NEW h \in Nat, NEW n \in Nat, Flow(Requests, P, rest, h, w, n)
             PROVE  Flow(Requests, Append(P, q), Append(rest, q), h, w, n)
  OBVIOUS
<1>. QED BY FlowGrow

(* What a master takes: the next beat of the oldest read it waits for,     *)
(* marked when it is that read's last.                                     *)
LEMMA TakeBeat ==
  ASSUME IInv, NEW aS, NEW aM, NEW hS, NEW hM, NEW u, NEW v,
         Travelling(aS, aM, hS, hM, u, v), NEW m \in Masters, MasterTake(m)
  PROVE  /\ u[m] # <<>> /\ rspQ' = [rspQ EXCEPT ![m] = Tail(@)]
         /\ rspQ'[m] = Marked(Tail(u[m]))
         /\ out[m] \in Seq(Requests) /\ out[m] # <<>>
         /\ got[m] = Head(out[m]).len =>
              /\ out' = [out EXCEPT ![m] = Tail(@)] /\ got' = [got EXCEPT ![m] = 0]
              /\ Flow(Requests, Tail(out[m]), aS[m] \o arQ[m], 0, Tail(u[m]), hS[m])
         /\ got[m] # Head(out[m]).len =>
              /\ out' = out /\ got' = [got EXCEPT ![m] = @ + 1]
              /\ Flow(Requests, out[m], aS[m] \o arQ[m], got[m] + 1, Tail(u[m]), hS[m])
<1>1. /\ u[m] \in Seq(Beats) /\ rspQ[m] = Marked(u[m]) /\ hS[m] \in Nat
      /\ Flow(Requests, out[m], aS[m] \o arQ[m], got[m], u[m], hS[m])
      /\ aS[m] \in Seq(Requests)
  BY DEF Travelling
<1>t. /\ arQ[m] \in Seq(Requests) /\ out[m] \in Seq(Requests) /\ got[m] \in Nat
      /\ rspQ \in [Masters -> Seq(RBeats)]
  BY DEF IInv, TypeOK
<1>2. rspQ[m] # <<>> /\ rspQ' = [rspQ EXCEPT ![m] = Tail(@)]
  BY DEF MasterTake
<1>3. /\ u[m] # <<>> /\ Head(rspQ[m]) = Mark(Head(u[m]))
      /\ Marked(Tail(u[m])) = Tail(rspQ[m])
  BY <1>1, <1>2, MarkTail
<1>4. aS[m] \o arQ[m] \in Seq(Requests)
  BY <1>1, <1>t, ConcatProperties
<1>5. /\ out[m] # <<>> /\ Head(u[m]) = [req |-> Head(out[m]), n |-> got[m]]
      /\ got[m] = Head(out[m]).len =>
           Flow(Requests, Tail(out[m]), aS[m] \o arQ[m], 0, Tail(u[m]), hS[m])
      /\ got[m] # Head(out[m]).len =>
           Flow(Requests, out[m], aS[m] \o arQ[m], got[m] + 1, Tail(u[m]), hS[m])
  BY <1>1, <1>t, <1>3, <1>4, GetBeat
<1>6. /\ Head(rspQ[m]).req = Head(out[m])
      /\ Head(rspQ[m]).last <=> got[m] = Head(out[m]).len
  <2>1. Head(u[m]).req = Head(out[m]) /\ Head(u[m]).n = got[m]
    BY <1>5
  <2>2. Head(rspQ[m]).req = Head(u[m]).req
    BY <1>3 DEF Mark
  <2>3. Head(rspQ[m]).last <=> Head(u[m]).n = Head(u[m]).req.len
    <3>1. \A b : Mark(b).last <=> b.n = b.req.len
      BY Zenon DEF Mark
    <3>. QED BY <1>3, <3>1, Zenon
  <2>. QED BY <2>1, <2>2, <2>3
<1>7. PICK i \in 1 .. Len(out[m]) :
        /\ out[m][i] = Head(rspQ[m]).req
        /\ \A j \in 1 .. i - 1 : out[m][j] # out[m][i]
        /\ IF Head(rspQ[m]).last
             THEN /\ got' = [got EXCEPT ![m] = 0]
                  /\ out' = [out EXCEPT ![m] = SubSeq(@, 1, i - 1) \o SubSeq(@, i + 1, Len(@))]
             ELSE /\ got' = [got EXCEPT ![m] = @ + 1]
                  /\ UNCHANGED out
  BY DEF MasterTake
<1>8. SubSeq(out[m], 1, i - 1) \o SubSeq(out[m], i + 1, Len(out[m])) = Tail(out[m])
  <2>1. out[m][i] = Head(out[m]) /\ \A j \in 1 .. i - 1 : out[m][j] # out[m][i]
    BY <1>6, <1>7
  <2>. QED BY <1>t, <2>1, RemoveFirst
<1>9. got[m] = Head(out[m]).len =>
        out' = [out EXCEPT ![m] = Tail(@)] /\ got' = [got EXCEPT ![m] = 0]
  BY <1>6, <1>7, <1>8
<1>10. got[m] # Head(out[m]).len => out' = out /\ got' = [got EXCEPT ![m] = @ + 1]
  BY <1>6, <1>7
<1>11. rspQ'[m] = Marked(Tail(u[m]))
  BY <1>t, <1>2, <1>3
<1>. QED BY <1>t, <1>2, <1>3, <1>5, <1>9, <1>10, <1>11

(* Every step keeps the reads and their beats in order.                    *)
LEMMA TravellingStep ==
  ASSUME IInv, NEW aS, NEW aM, NEW hS, NEW hM, NEW u, NEW v,
         Travelling(aS, aM, hS, hM, u, v), [Next]_vars
  PROVE  \E bS, bM, gS, gM, x, y : Travelling(bS, bM, gS, gM, x, y)'
<1> DEFINE Goal == \E bS, bM, gS, gM, x, y : Travelling(bS, bM, gS, gM, x, y)'
<1>t. /\ aS \in [Masters -> Seq(Requests)] /\ aM \in [Slaves -> Seq(Requests)]
      /\ hS \in [Masters -> Nat] /\ hM \in [Slaves -> Nat]
      /\ u \in [Masters -> Seq(Beats)] /\ v \in [Slaves -> Seq(Beats)]
      /\ arQ \in [Masters -> Seq(Requests)] /\ out \in [Masters -> Seq(Requests)]
      /\ toS \in [Slaves -> Seq(Requests)] /\ srv \in [Slaves -> Seq(Requests)]
      /\ rspQ \in [Masters -> Seq(RBeats)] /\ rdQ \in [Slaves -> Seq(RBeats)]
      /\ sent \in [Slaves -> Nat] /\ got \in [Masters -> Nat]
  BY DEF IInv, TypeOK, Travelling
<1>r. RouteType(route) /\ Labelled(route, aS, aM) /\ Progress(route, hS, hM)
  BY DEF IInv, TypeOK, Travelling
<1>q. (\A y \in Slaves : rdQ[y] = Marked(v[y])) /\ \A x \in Masters : rspQ[x] = Marked(u[x])
  BY DEF Travelling
<1>a. \A y \in Slaves : Flow(Requests, aM[y], srv[y] \o toS[y], hM[y], v[y], sent[y])
  BY DEF Travelling
<1>b. \A x \in Masters : Flow(Requests, out[x], aS[x] \o arQ[x], got[x], u[x], hS[x])
  BY DEF Travelling
<1>s. /\ \A x \in Masters : /\ aS[x] \in Seq(Requests) /\ arQ[x] \in Seq(Requests)
                            /\ aS[x] \o arQ[x] \in Seq(Requests)
      /\ \A y \in Slaves : /\ srv[y] \in Seq(Requests) /\ toS[y] \in Seq(Requests)
                           /\ srv[y] \o toS[y] \in Seq(Requests)
  BY <1>t, ConcatProperties
<1>c. \A a, b \in Seq(Requests), e \in Requests : a \o Append(b, e) = Append(a \o b, e)
  BY ConcatAppend
<1>m. \A a, b \in Seq(Requests) : b # <<>> => Append(a, Head(b)) \o Tail(b) = a \o b
  BY MoveHead
<1>h. \A a, b \in Seq(Requests) :
        a # <<>> => /\ a \o b # <<>> /\ Head(a \o b) = Head(a)
                    /\ Tail(a \o b) = Tail(a) \o b
  BY TailConcat
<1>1. ASSUME NEW m \in Masters, NEW s \in Slaves, rl_rd_xaction_master_to_slave(m, s)
      PROVE  Goal
  <2>1. /\ arQ[m] # <<>> /\ arQ' = [arQ EXCEPT ![m] = Tail(@)]
        /\ toS' = [toS EXCEPT ![s] = Append(@, Head(arQ[m]))]
        /\ route' = RouteEnq(route, m, s)
        /\ UNCHANGED <<rspQ, rdQ, srv, sent, out, got>>
    BY <1>1 DEF rl_rd_xaction_master_to_slave, CanSend, fv_mi_has_rd_for_sj
  <2>2. PICK q \in Requests : q = Head(arQ[m])
    BY <1>s, <2>1
  <2> DEFINE bS == [aS EXCEPT ![m] = Append(@, q)]
             bM == [aM EXCEPT ![s] = Append(@, q)]
  <2>3. bS \in [Masters -> Seq(Requests)] /\ bM \in [Slaves -> Seq(Requests)]
    BY <1>t
  <2>4. Labelled(route', bS, bM) /\ Progress(route', hS, hM)
    BY <1>r, <1>t, <2>1, LabelEnq, ProgressEnq
  <2>5. bS[m] \o Tail(arQ[m]) = aS[m] \o arQ[m]
    BY <1>m, <1>s, <1>t, <2>1, <2>2
  <2>6. \A x \in Masters : bS[x] \o arQ'[x] = aS[x] \o arQ[x]
    BY <1>t, <2>1, <2>5
  <2>7. bM[s] = Append(aM[s], q) /\ srv[s] \o toS'[s] = Append(srv[s] \o toS[s], q)
    <3>1. srv[s] \o Append(toS[s], q) = Append(srv[s] \o toS[s], q)
      BY <1>c, <1>s
    <3>. QED BY <1>t, <2>1, <2>2, <3>1
  <2>8. \A y \in Slaves : y # s => bM[y] = aM[y] /\ toS'[y] = toS[y]
    BY <1>t, <2>1
  <2> HIDE DEF bS, bM
  <2>9. Flow(Requests, bM[s], srv[s] \o toS'[s], hM[s], v[s], sent[s])
    <3>1. /\ v[s] \in Seq(Beats) /\ hM[s] \in Nat /\ sent[s] \in Nat
          /\ srv[s] \o toS[s] \in Seq(Requests)
          /\ Flow(Requests, aM[s], srv[s] \o toS[s], hM[s], v[s], sent[s])
      BY <1>a, <1>s, <1>t
    <3>2. Flow(Requests, Append(aM[s], q), Append(srv[s] \o toS[s], q), hM[s], v[s], sent[s])
      BY <3>1, GrowBursts
    <3>. QED BY <2>7, <3>2
  <2>10. \A y \in Slaves : Flow(Requests, bM[y], srv'[y] \o toS'[y], hM[y], v[y], sent'[y])
    BY <1>a, <2>1, <2>8, <2>9
  <2>11. \A x \in Masters : Flow(Requests, out'[x], bS[x] \o arQ'[x], got'[x], u[x], hS[x])
    BY <1>b, <2>1, <2>6
  <2>12. Travelling(bS, bM, hS, hM, u, v)'
    BY <1>q, <1>t, <2>1, <2>3, <2>4, <2>10, <2>11 DEF Travelling
  <2>. QED BY <2>12
<1>2. ASSUME NEW m \in Masters, NEW s \in Slaves, rl_rd_resp_slave_to_master(m, s)
      PROVE  Goal
  <2>1. /\ RouteMeet(route, m, s) /\ rdQ[s] # <<>>
        /\ rdQ' = [rdQ EXCEPT ![s] = Tail(@)]
        /\ rspQ' = [rspQ EXCEPT ![m] = Append(@, Head(rdQ[s]))]
        /\ UNCHANGED <<arQ, toS, srv, sent, out, got>>
    BY <1>2 DEF rl_rd_resp_slave_to_master
  <2>2. /\ v[s] # <<>> /\ Head(rdQ[s]) = Mark(Head(v[s]))
        /\ Marked(Tail(v[s])) = Tail(rdQ[s])
    BY <1>q, <1>t, <2>1, MarkTail
  <2>3. /\ Head(v[s]) = [req |-> Head(aM[s]), n |-> hM[s]]
        /\ hM[s] = Head(aM[s]).len =>
             Flow(Requests, Tail(aM[s]), srv[s] \o toS[s], 0, Tail(v[s]), sent[s])
        /\ hM[s] # Head(aM[s]).len =>
             Flow(Requests, aM[s], srv[s] \o toS[s], hM[s] + 1, Tail(v[s]), sent[s])
    <3> DEFINE rest == srv[s] \o toS[s]
    <3>1. /\ v[s] \in Seq(Beats) /\ v[s] # <<>> /\ hM[s] \in Nat /\ sent[s] \in Nat
          /\ rest \in Seq(Requests) /\ Flow(Requests, aM[s], rest, hM[s], v[s], sent[s])
      BY <1>a, <1>s, <1>t, <2>2
    <3> HIDE DEF rest
    <3>2. /\ Head(v[s]) = [req |-> Head(aM[s]), n |-> hM[s]]
          /\ hM[s] = Head(aM[s]).len => Flow(Requests, Tail(aM[s]), rest, 0, Tail(v[s]), sent[s])
          /\ hM[s] # Head(aM[s]).len => Flow(Requests, aM[s], rest, hM[s] + 1, Tail(v[s]), sent[s])
      BY <3>1, GetBeat
    <3>. QED BY <3>2 DEF rest
  <2>4. /\ aS[m] # <<>> /\ aM[s] # <<>> /\ Head(aS[m]) = Head(aM[s])
        /\ Labelled(RouteDeq(route, m, s), [aS EXCEPT ![m] = Tail(@)], [aM EXCEPT ![s] = Tail(@)])
    BY <1>r, <1>t, <2>1, LabelDeq
  <2>5. hS[m] = hM[s]
    BY <1>r, <2>1 DEF Progress
  <2>6. /\ aS[m] \o arQ[m] # <<>> /\ Head(aS[m] \o arQ[m]) = Head(aM[s])
        /\ Tail(aS[m] \o arQ[m]) = Tail(aS[m]) \o arQ[m]
    BY <1>h, <1>s, <2>4
  <2>7. PICK b \in Beats : b = Head(v[s])
    BY SMTT(30), <1>t, <2>2
  <2>8. b = [req |-> Head(aS[m] \o arQ[m]), n |-> hS[m]]
    BY <2>3, <2>5, <2>6, <2>7
  <2>9. /\ hM[s] = Head(aM[s]).len =>
             Flow(Requests, out[m], Tail(aS[m]) \o arQ[m], got[m], Append(u[m], b), 0)
        /\ hM[s] # Head(aM[s]).len =>
             Flow(Requests, out[m], aS[m] \o arQ[m], got[m], Append(u[m], b), hM[s] + 1)
    <3> DEFINE rest == aS[m] \o arQ[m]
    <3>1. /\ rest \in Seq(Requests) /\ rest # <<>> /\ u[m] \in Seq(Beats)
          /\ got[m] \in Nat /\ hS[m] \in Nat /\ b = [req |-> Head(rest), n |-> hS[m]]
          /\ Flow(Requests, out[m], rest, got[m], u[m], hS[m])
      BY <1>b, <1>s, <1>t, <2>6, <2>8
    <3> HIDE DEF rest
    <3>2. /\ hS[m] = Head(rest).len =>
               Flow(Requests, out[m], Tail(rest), got[m], Append(u[m], b), 0)
          /\ hS[m] # Head(rest).len =>
               Flow(Requests, out[m], rest, got[m], Append(u[m], b), hS[m] + 1)
      BY <3>1, PutBeat
    <3>. QED BY <2>5, <2>6, <3>2 DEF rest
  <2>10. Head(rdQ[s]).last <=> hM[s] = Head(aM[s]).len
    <3>1. \A c : Mark(c).last <=> c.n = c.req.len
      BY Zenon DEF Mark
    <3>2. Head(rdQ[s]).last <=> Head(v[s]).n = Head(v[s]).req.len
      BY <2>2, <3>1, Zenon
    <3>3. Head(v[s]).n = hM[s] /\ Head(v[s]).req = Head(aM[s])
      BY <2>3
    <3>. QED BY <3>2, <3>3
  <2> DEFINE y == [v EXCEPT ![s] = Tail(@)]
             x == [u EXCEPT ![m] = Append(@, b)]
  <2>11. x \in [Masters -> Seq(Beats)] /\ y \in [Slaves -> Seq(Beats)]
    BY SMTT(30), <1>t, <2>2, DeqEntries, EnqEntries
  <2>12. /\ x[m] = Append(u[m], b) /\ y[s] = Tail(v[s])
         /\ \A k \in Masters : k # m => x[k] = u[k]
         /\ \A k \in Slaves : k # s => y[k] = v[k]
    BY <1>t
  <2> HIDE DEF x, y
  <2>13. (\A k \in Slaves : rdQ'[k] = Marked(y[k])) /\ \A k \in Masters : rspQ'[k] = Marked(x[k])
    <3>1. rspQ'[m] = Append(rspQ[m], Mark(b)) /\ rdQ'[s] = Tail(rdQ[s])
      BY <1>t, <2>1, <2>2, <2>7
    <3>2. Marked(Append(u[m], b)) = Append(Marked(u[m]), Mark(b))
      BY <1>t, MarkAppend
    <3>3. rspQ'[m] = Marked(x[m]) /\ rdQ'[s] = Marked(y[s])
      BY <1>q, <2>2, <2>12, <3>1, <3>2
    <3>4. \A k \in Slaves : k # s => rdQ'[k] = rdQ[k]
      BY <1>t, <2>1
    <3>5. \A k \in Masters : k # m => rspQ'[k] = rspQ[k]
      BY <1>t, <2>1
    <3>. QED BY <1>q, <2>12, <3>3, <3>4, <3>5
  <2>14. CASE hM[s] = Head(aM[s]).len
    <3> DEFINE bS == [aS EXCEPT ![m] = Tail(@)]
               bM == [aM EXCEPT ![s] = Tail(@)]
               gS == [hS EXCEPT ![m] = 0]
               gM == [hM EXCEPT ![s] = 0]
    <3>1. bS \in [Masters -> Seq(Requests)] /\ bM \in [Slaves -> Seq(Requests)]
      BY SMTT(30), <1>t, <2>4, DeqEntries
    <3>2. gS \in [Masters -> Nat] /\ gM \in [Slaves -> Nat]
      BY <1>t
    <3>3. route' = RouteDeq(route, m, s)
      BY <1>2, <2>10, <2>14 DEF rl_rd_resp_slave_to_master
    <3>4. Labelled(route', bS, bM)
      BY <2>4, <3>3
    <3>5. Progress(route', gS, gM)
      <4>1. Progress(RouteDeq(route, m, s), gS, gM)
        BY <1>r, <1>t, <2>1, ProgressDeq
      <4>. QED BY <3>3, <4>1
    <3>6. /\ bS[m] = Tail(aS[m]) /\ bM[s] = Tail(aM[s]) /\ gS[m] = 0 /\ gM[s] = 0
          /\ \A k \in Masters : k # m => bS[k] = aS[k] /\ gS[k] = hS[k]
          /\ \A k \in Slaves : k # s => bM[k] = aM[k] /\ gM[k] = hM[k]
      BY <1>t
    <3> HIDE DEF bS, bM, gS, gM
    <3>7. \A k \in Slaves : Flow(Requests, bM[k], srv'[k] \o toS'[k], gM[k], y[k], sent'[k])
      BY <1>a, <2>1, <2>3, <2>12, <2>14, <3>6
    <3>8. \A k \in Masters : Flow(Requests, out'[k], bS[k] \o arQ'[k], got'[k], x[k], gS[k])
      BY ZenonT(30), <1>b, <2>1, <2>9, <2>12, <2>14, <3>6
    <3>9. Travelling(bS, bM, gS, gM, x, y)'
      BY <2>11, <2>13, <3>1, <3>2, <3>4, <3>5, <3>7, <3>8 DEF Travelling
    <3>. QED BY <3>9
  <2>15. CASE hM[s] # Head(aM[s]).len
    <3> DEFINE n  == hM[s] + 1
               gS == [hS EXCEPT ![m] = n]
               gM == [hM EXCEPT ![s] = n]
    <3>1. gS \in [Masters -> Nat] /\ gM \in [Slaves -> Nat]
      BY SMTT(30), <1>t
    <3>2. route' = route
      BY <1>2, <2>10, <2>15 DEF rl_rd_resp_slave_to_master
    <3>3. Progress(route', gS, gM)
      BY <1>r, <1>t, <2>1, <3>2, ProgressBeat
    <3>4. /\ gS[m] = hM[s] + 1 /\ gM[s] = hM[s] + 1
          /\ \A k \in Masters : k # m => gS[k] = hS[k]
          /\ \A k \in Slaves : k # s => gM[k] = hM[k]
      BY <1>t
    <3> HIDE DEF n, gS, gM
    <3>5. \A k \in Slaves : Flow(Requests, aM[k], srv'[k] \o toS'[k], gM[k], y[k], sent'[k])
      BY <1>a, <2>1, <2>3, <2>12, <2>15, <3>4
    <3>6. \A k \in Masters : Flow(Requests, out'[k], aS[k] \o arQ'[k], got'[k], x[k], gS[k])
      BY <1>b, <2>1, <2>9, <2>12, <2>15, <3>4
    <3>7. Travelling(aS, aM, gS, gM, x, y)'
      BY <1>r, <1>t, <2>11, <2>13, <3>1, <3>2, <3>3, <3>5, <3>6 DEF Travelling
    <3>. QED BY <3>7
  <2>. QED BY <2>14, <2>15
<1>3. ASSUME NEW m \in Masters, MasterIssue(m)  PROVE Goal
  <2>1. PICK q \in Requests : /\ arQ' = [arQ EXCEPT ![m] = Append(@, q)]
                              /\ out' = [out EXCEPT ![m] = Append(@, q)]
    BY <1>3 DEF MasterIssue, Requests
  <2>2. UNCHANGED <<rspQ, toS, rdQ, route, srv, sent, got>>
    BY <1>3 DEF MasterIssue
  <2>3. Flow(Requests, Append(out[m], q), aS[m] \o Append(arQ[m], q), got[m], u[m], hS[m])
    <3>1. aS[m] \o Append(arQ[m], q) = Append(aS[m] \o arQ[m], q)
      BY <1>c, <1>s
    <3>2. /\ u[m] \in Seq(Beats) /\ got[m] \in Nat /\ hS[m] \in Nat
          /\ aS[m] \o arQ[m] \in Seq(Requests)
          /\ Flow(Requests, out[m], aS[m] \o arQ[m], got[m], u[m], hS[m])
      BY <1>b, <1>s, <1>t
    <3>3. Flow(Requests, Append(out[m], q), Append(aS[m] \o arQ[m], q), got[m], u[m], hS[m])
      BY <3>2, GrowBursts
    <3>. QED BY <3>1, <3>3
  <2>4. \A x \in Masters : Flow(Requests, out'[x], aS[x] \o arQ'[x], got'[x], u[x], hS[x])
    BY <1>b, <1>t, <2>1, <2>2, <2>3
  <2>5. Travelling(aS, aM, hS, hM, u, v)'
    BY <1>a, <1>q, <1>r, <1>t, <2>2, <2>4 DEF Travelling
  <2>. QED BY <2>5
<1>4. ASSUME NEW m \in Masters, MasterTake(m)  PROVE Goal
  <2> DEFINE x == [u EXCEPT ![m] = Tail(@)]
  <2>1. /\ u[m] # <<>> /\ rspQ' = [rspQ EXCEPT ![m] = Tail(@)] /\ rspQ'[m] = Marked(Tail(u[m]))
    BY <1>4, TakeBeat
  <2>2. UNCHANGED <<arQ, toS, rdQ, route, srv, sent>>
    BY <1>4 DEF MasterTake
  <2>3. x \in [Masters -> Seq(Beats)]
    BY <1>t, <2>1, DeqEntries
  <2>4. x[m] = Tail(u[m]) /\ \A k \in Masters : k # m => x[k] = u[k]
    BY <1>t
  <2> HIDE DEF x
  <2>5. \A k \in Masters : rspQ'[k] = Marked(x[k])
    BY <1>q, <1>t, <2>1, <2>4
  <2>6. /\ Flow(Requests, out'[m], aS[m] \o arQ[m], got'[m], Tail(u[m]), hS[m])
        /\ \A k \in Masters : k # m => out'[k] = out[k] /\ got'[k] = got[k]
    <3>1. CASE got[m] = Head(out[m]).len
      <4>1. /\ out' = [out EXCEPT ![m] = Tail(@)] /\ got' = [got EXCEPT ![m] = 0]
            /\ Flow(Requests, Tail(out[m]), aS[m] \o arQ[m], 0, Tail(u[m]), hS[m])
        BY <1>4, <3>1, TakeBeat
      <4>. QED BY <1>t, <4>1
    <3>2. CASE got[m] # Head(out[m]).len
      <4>1. /\ out' = out /\ got' = [got EXCEPT ![m] = @ + 1]
            /\ Flow(Requests, out[m], aS[m] \o arQ[m], got[m] + 1, Tail(u[m]), hS[m])
        BY <1>4, <3>2, TakeBeat
      <4>. QED BY <1>t, <4>1
    <3>. QED BY <3>1, <3>2
  <2>7. \A k \in Masters : Flow(Requests, out'[k], aS[k] \o arQ'[k], got'[k], x[k], hS[k])
    BY <1>b, <2>2, <2>4, <2>6
  <2>8. Travelling(aS, aM, hS, hM, x, v)'
    BY <1>a, <1>q, <1>r, <1>t, <2>2, <2>3, <2>5, <2>7 DEF Travelling
  <2>. QED BY <2>8
<1>5. ASSUME NEW s \in Slaves, SlaveAccept(s)  PROVE Goal
  <2>1. /\ toS[s] # <<>> /\ srv' = [srv EXCEPT ![s] = Append(@, Head(toS[s]))]
        /\ toS' = [toS EXCEPT ![s] = Tail(@)]
        /\ UNCHANGED <<arQ, rspQ, rdQ, route, sent, out, got>>
    BY <1>5 DEF SlaveAccept
  <2>2. Append(srv[s], Head(toS[s])) \o Tail(toS[s]) = srv[s] \o toS[s]
    BY <1>m, <1>s, <2>1
  <2>3. \A y \in Slaves : srv'[y] \o toS'[y] = srv[y] \o toS[y]
    BY <1>t, <2>1, <2>2
  <2>4. \A y \in Slaves : Flow(Requests, aM[y], srv'[y] \o toS'[y], hM[y], v[y], sent'[y])
    BY <1>a, <2>1, <2>3
  <2>5. Travelling(aS, aM, hS, hM, u, v)'
    BY <1>b, <1>q, <1>r, <1>t, <2>1, <2>4 DEF Travelling
  <2>. QED BY <2>5
<1>6. ASSUME NEW s \in Slaves, SlaveBeat(s)  PROVE Goal
  <2> DEFINE q == Head(srv[s])
  <2>1. /\ srv[s] # <<>>
        /\ rdQ' = [rdQ EXCEPT ![s] = Append(@, [req |-> q, last |-> (sent[s] = q.len)])]
        /\ UNCHANGED <<arQ, rspQ, toS, route, out, got>>
    BY <1>6 DEF SlaveBeat
  <2>2. /\ sent[s] = q.len => sent' = [sent EXCEPT ![s] = 0] /\ srv' = [srv EXCEPT ![s] = Tail(@)]
        /\ sent[s] # q.len => sent' = [sent EXCEPT ![s] = @ + 1] /\ srv' = srv
    BY <1>6 DEF SlaveBeat
  <2>3. q \in Requests /\ sent[s] \in Nat
    BY <1>s, <1>t, <2>1
  <2> HIDE DEF q
  <2>4. PICK b \in Beats : b = [req |-> q, n |-> sent[s]]
    BY <2>3 DEF Beats
  <2>5. Mark(b) = [req |-> q, last |-> (sent[s] = q.len)]
    BY <2>4 DEF Mark
  <2>6. /\ srv[s] \o toS[s] # <<>> /\ Head(srv[s] \o toS[s]) = q
        /\ Tail(srv[s] \o toS[s]) = Tail(srv[s]) \o toS[s]
    BY <1>h, <1>s, <2>1 DEF q
  <2>7. /\ sent[s] = q.len =>
             Flow(Requests, aM[s], Tail(srv[s]) \o toS[s], hM[s], Append(v[s], b), 0)
        /\ sent[s] # q.len =>
             Flow(Requests, aM[s], srv[s] \o toS[s], hM[s], Append(v[s], b), sent[s] + 1)
    <3> DEFINE rest == srv[s] \o toS[s]
    <3>1. /\ rest \in Seq(Requests) /\ rest # <<>> /\ v[s] \in Seq(Beats)
          /\ hM[s] \in Nat /\ b = [req |-> Head(rest), n |-> sent[s]]
          /\ Flow(Requests, aM[s], rest, hM[s], v[s], sent[s])
      BY <1>a, <1>s, <1>t, <2>4, <2>6
    <3> HIDE DEF rest
    <3>2. /\ sent[s] = Head(rest).len =>
               Flow(Requests, aM[s], Tail(rest), hM[s], Append(v[s], b), 0)
          /\ sent[s] # Head(rest).len =>
               Flow(Requests, aM[s], rest, hM[s], Append(v[s], b), sent[s] + 1)
      BY <2>3, <3>1, PutBeat
    <3>. QED BY <2>6, <3>2 DEF rest
  <2> DEFINE y == [v EXCEPT ![s] = Append(@, b)]
  <2>8. y \in [Slaves -> Seq(Beats)]
    BY <1>t, EnqEntries
  <2>9. y[s] = Append(v[s], b) /\ \A k \in Slaves : k # s => y[k] = v[k]
    BY <1>t
  <2> HIDE DEF y
  <2>10. \A k \in Slaves : rdQ'[k] = Marked(y[k])
    <3>1. rdQ'[s] = Append(rdQ[s], Mark(b))
      BY <1>t, <2>1, <2>5
    <3>2. Marked(Append(v[s], b)) = Append(Marked(v[s]), Mark(b))
      BY <1>t, MarkAppend
    <3>3. \A k \in Slaves : k # s => rdQ'[k] = rdQ[k]
      BY <1>t, <2>1
    <3>. QED BY <1>q, <2>9, <3>1, <3>2, <3>3
  <2>11. /\ Flow(Requests, aM[s], srv'[s] \o toS[s], hM[s], y[s], sent'[s])
         /\ \A k \in Slaves : k # s => srv'[k] = srv[k] /\ sent'[k] = sent[k]
    <3>1. CASE sent[s] = q.len
      BY <1>t, <2>2, <2>7, <2>9, <3>1
    <3>2. CASE sent[s] # q.len
      BY <1>t, <2>2, <2>7, <2>9, <3>2
    <3>. QED BY <3>1, <3>2
  <2>12. \A k \in Slaves : Flow(Requests, aM[k], srv'[k] \o toS'[k], hM[k], y[k], sent'[k])
    BY <1>a, <2>1, <2>9, <2>11
  <2>13. Travelling(aS, aM, hS, hM, u, y)'
    BY <1>b, <1>q, <1>r, <1>t, <2>1, <2>8, <2>10, <2>12 DEF Travelling
  <2>. QED BY <2>13
<1>7. ASSUME UNCHANGED vars  PROVE Goal
  <2>1. Travelling(aS, aM, hS, hM, u, v)'
    BY <1>a, <1>b, <1>q, <1>r, <1>t, <1>7 DEF Travelling, vars
  <2>. QED BY <2>1
<1> HIDE DEF Goal
<1>8. Goal
  BY <1>1, <1>2, <1>3, <1>4, <1>5, <1>6, <1>7 DEF Next, SendTo, Respond
<1>. QED BY <1>8 DEF Goal

(* A master that takes a beat answers its oldest read: with the last of    *)
(* its beats, after which it is done, or with one before.                  *)
LEMMA TakeAnswers ==
  ASSUME IInv, Reads, NEW m \in Masters, MasterTake(m)
  PROVE  Counted' /\ Port!Answer(m)
<1>t. got \in [Masters -> Nat] /\ out \in [Masters -> Seq(Requests)] /\ out[m] \in Seq(Requests)
  BY DEF IInv, TypeOK
<1>1. PICK aS, aM, hS, hM, u, v : Travelling(aS, aM, hS, hM, u, v)
  BY DEF Reads
<1>2. /\ out[m] # <<>>
      /\ got[m] = Head(out[m]).len =>
           out' = [out EXCEPT ![m] = Tail(@)] /\ got' = [got EXCEPT ![m] = 0]
      /\ got[m] # Head(out[m]).len => out' = out /\ got' = [got EXCEPT ![m] = @ + 1]
  BY <1>1, TakeBeat
<1>3. Head(out[m]) \in Requests /\ Head(out[m]).len \in Nat /\ got[m] \in Nat
  BY <1>t, <1>2, LenNat
<1>4. got[m] <= Head(out[m]).len
  BY <1>3 DEF Reads, Counted
<1> DEFINE beats == [q \in Requests |-> q.len + 1]
           l == Head(out[m]).len
<1>5. beats[Head(out[m])] = l + 1
  BY <1>3
<1>6. CASE got[m] = l
  <2>1. out' = [out EXCEPT ![m] = Tail(@)] /\ got' = [got EXCEPT ![m] = 0]
    BY <1>2, <1>6
  <2>2. Port!Answer(m)
    BY <1>2, <1>5, <1>6, <2>1 DEF Port!Answer
  <2>3. Counted'
    <3> SUFFICES ASSUME NEW x \in Masters, got'[x] # 0
                 PROVE  out'[x] # <<>> /\ got'[x] <= Head(out'[x]).len
      BY DEF Counted
    <3>1. x # m /\ out'[x] = out[x] /\ got'[x] = got[x]
      BY <1>t, <2>1
    <3>. QED BY <3>1 DEF Reads, Counted
  <2>. QED BY <2>2, <2>3
<1>7. CASE got[m] # l
  <2>1. out' = out /\ got' = [got EXCEPT ![m] = @ + 1]
    BY <1>2, <1>7
  <2>2. got[m] + 1 < l + 1 /\ got[m] + 1 <= l
    BY <1>3, <1>4, <1>7
  <2>3. got[m] + 1 < beats[Head(out[m])]
    BY <1>5, <2>2
  <2>4. Port!Answer(m)
    BY <1>2, <2>1, <2>3 DEF Port!Answer
  <2>5. Counted'
    <3> SUFFICES ASSUME NEW x \in Masters, got'[x] # 0
                 PROVE  out'[x] # <<>> /\ got'[x] <= Head(out'[x]).len
      BY DEF Counted
    <3>1. CASE x = m
      BY <1>t, <1>2, <2>1, <2>2, <3>1
    <3>2. CASE x # m
      BY <1>t, <2>1, <3>2 DEF Reads, Counted
    <3>. QED BY <3>1, <3>2
  <2>. QED BY <2>4, <2>5
<1>. QED BY <1>6, <1>7

(* Every step keeps each burst whole and in the order of its addresses.    *)
LEMMA ReadsStep == IInv /\ Reads /\ [Next]_vars => Reads'
<1> SUFFICES ASSUME IInv, Reads, [Next]_vars  PROVE Reads'
  OBVIOUS
<1>1. PICK aS, aM, hS, hM, u, v : Travelling(aS, aM, hS, hM, u, v)
  BY DEF Reads
<1>2. \E bS, bM, gS, gM, x, y : Travelling(bS, bM, gS, gM, x, y)'
  BY <1>1, TravellingStep
<1>3. Counted'
  <2>t. got \in [Masters -> Nat] /\ out \in [Masters -> Seq(Requests)]
    BY DEF IInv, TypeOK
  <2>1. ASSUME NEW m \in Masters, MasterTake(m)  PROVE Counted'
    BY <2>1, TakeAnswers
  <2>2. ASSUME NEW m \in Masters, MasterIssue(m)  PROVE Counted'
    <3>1. PICK q \in Requests : out' = [out EXCEPT ![m] = Append(@, q)]
      BY <2>2 DEF MasterIssue, Requests
    <3>2. got' = got
      BY <2>2 DEF MasterIssue
    <3> SUFFICES ASSUME NEW x \in Masters, got[x] # 0
                 PROVE  out'[x] # <<>> /\ got[x] <= Head(out'[x]).len
      BY <3>2 DEF Counted
    <3>3. out[x] # <<>> /\ got[x] <= Head(out[x]).len
      BY DEF Reads, Counted
    <3>4. CASE x = m
      <4>1. out'[x] = Append(out[x], q) /\ out[x] \in Seq(Requests)
        BY <2>t, <3>1, <3>4
      <4>2. Append(out[x], q) # <<>> /\ Head(Append(out[x], q)) = Head(out[x])
        BY <3>3, <4>1, AppendHead
      <4>. QED BY <3>3, <4>1, <4>2
    <3>5. CASE x # m
      BY <2>t, <3>1, <3>3, <3>5
    <3>. QED BY <3>4, <3>5
  <2>3. ASSUME UNCHANGED <<out, got>>  PROVE Counted'
    BY <2>3 DEF Reads, Counted
  <2>. QED
    BY <2>1, <2>2, <2>3 DEF Next, vars, SendTo, Respond, rl_rd_xaction_master_to_slave,
       rl_rd_resp_slave_to_master, SlaveAccept, SlaveBeat
<1>. QED BY <1>2, <1>3 DEF Reads

(* What a master sees of the crossbar: its reads are answered in the order *)
(* it issued them, each by its len + 1 beats of which only the last is     *)
(* marked, although the crossbar forwards by the order of its route FIFOs  *)
(* and compares no ids.                                                    *)
THEOREM ReadsInOrder == Spec => Port!Safe
<1>1. Init => Port!Init
  BY DEF Init, Port!Init
<1>2. Init => IInv /\ Reads
  BY InitOK, ReadsInit
<1>3. IInv /\ Reads /\ [Next]_vars => (IInv /\ Reads)'
  BY StepOK, ReadsStep
<1>4. IInv /\ Reads /\ [Next]_vars => [Port!Next]_(Port!vars)
  <2> SUFFICES ASSUME IInv, Reads, [Next]_vars  PROVE [Port!Next]_(Port!vars)
    OBVIOUS
  <2>1. ASSUME NEW m \in Masters, MasterIssue(m)  PROVE Port!Next
    <3>1. PICK q \in Requests : out' = [out EXCEPT ![m] = Append(@, q)]
      BY <2>1 DEF MasterIssue, Requests
    <3>2. got' = got
      BY <2>1 DEF MasterIssue
    <3>3. Port!Ask(m)
      BY <3>1, <3>2 DEF Port!Ask
    <3>. QED BY <3>3 DEF Port!Next
  <2>2. ASSUME NEW m \in Masters, MasterTake(m)  PROVE Port!Next
    BY <2>2, TakeAnswers DEF Port!Next
  <2>3. ASSUME UNCHANGED <<out, got>>  PROVE UNCHANGED Port!vars
    BY <2>3 DEF Port!vars
  <2>. QED
    BY <2>1, <2>2, <2>3 DEF Next, vars, SendTo, Respond, rl_rd_xaction_master_to_slave,
       rl_rd_resp_slave_to_master, SlaveAccept, SlaveBeat
<1>. QED BY <1>1, <1>2, <1>3, <1>4, PTL DEF Spec, Port!Safe

----------------------------------------------------------------------------
(* The composition that TLC checks: steps of the write half are stuttering *)
(* steps of the read half, so what is proved above holds of it.            *)
THEOREM ReadHalf == FSpec => Spec /\ []TypeOK /\ []RoutesMeet /\ Port!Safe
<1>1. FInit => Init
  BY DEF FInit
<1>2. [FNext]_fvars => [Next]_vars
  BY DEF FNext, fvars
<1>3. FSpec => Spec
  BY <1>1, <1>2, PTL DEF FSpec, Spec
<1>. QED BY <1>3, TypeCorrect, NoCircularWait, ReadsInOrder, PTL

(* The write half, with the theorems about it.                             *)
WP == INSTANCE Axi4FabricWrProofs WITH
        WriteSlaves <- ReadSlaves, FixedWr <- FixedRd, Lens <- WrLens,
        sel <- wsel, out <- wout, srv <- wsrv

(* The two instances have the same sets.                                   *)
LEMMA SameSets ==
  /\ WP!Masters = W!Masters /\ WP!Slaves = W!Slaves
  /\ WP!Requests = W!Requests /\ WP!WBeats = W!WBeats /\ WP!RouteEmpty = W!RouteEmpty
  BY DEF WP!Masters, W!Masters, WP!Slaves, W!Slaves, WP!Requests, W!Requests,
         WP!WBeats, W!WBeats, WP!RouteEmpty, W!RouteEmpty

(* They have the same constants.                                           *)
LEMMA SameConstants == WP!WriteConstants
  BY InstanceAssumption, SameSets DEF W!WriteConstants, WP!WriteConstants

(* They start alike.                                                       *)
LEMMA SameInit == W!Init => WP!Init
  BY SameSets DEF W!Init, WP!Init

(* They step alike: every rule of the one is the same rule of the other.   *)
LEMMA SameNext == W!Next => WP!Next
<1> USE DEF W!SendTo, WP!SendTo, W!SendData, WP!SendData, W!Respond, WP!Respond
<1>1. ASSUME NEW m, NEW s, W!rl_wr_xaction_master_to_slave(m, s)
      PROVE  WP!rl_wr_xaction_master_to_slave(m, s)
  <2>1. \A mi, sj : WP!wr_wr_grant(sj, mi) <=> W!wr_wr_grant(sj, mi)
    BY SameSets
       DEF WP!wr_wr_grant, W!wr_wr_grant, WP!ArbiterRuns, W!ArbiterRuns,
           WP!fn_rr_arbiter, W!fn_rr_arbiter, WP!Turns, W!Turns,
           WP!wr_master_wr_reqs, W!wr_master_wr_reqs,
           WP!fv_mi_has_wr_for_sj, W!fv_mi_has_wr_for_sj
  <2>2. \A mi, sj : WP!CanSend(mi, sj) <=> W!CanSend(mi, sj)
    BY <2>1 DEF WP!CanSend, W!CanSend, WP!fv_mi_has_wr_for_sj, W!fv_mi_has_wr_for_sj,
                WP!RouteRoom, W!RouteRoom
  <2>. QED BY <1>1, <2>2, SameSets
           DEF WP!rl_wr_xaction_master_to_slave, W!rl_wr_xaction_master_to_slave,
               WP!RouteEnq, W!RouteEnq, WP!NextSelect, W!NextSelect
<1>2. ASSUME NEW m, NEW s, W!rl_wr_xaction_master_to_slave_data(m, s)
      PROVE  WP!rl_wr_xaction_master_to_slave_data(m, s)
  BY <1>2 DEF WP!rl_wr_xaction_master_to_slave_data, W!rl_wr_xaction_master_to_slave_data,
              WP!RouteMeet, W!RouteMeet, WP!RouteDeq, W!RouteDeq
<1>3. ASSUME NEW m, NEW s, W!rl_wr_resp_slave_to_master(m, s)
      PROVE  WP!rl_wr_resp_slave_to_master(m, s)
  BY <1>3 DEF WP!rl_wr_resp_slave_to_master, W!rl_wr_resp_slave_to_master,
              WP!RouteMeet, W!RouteMeet, WP!RouteDeq, W!RouteDeq
<1>4. \A m : /\ W!MasterIssue(m) => WP!MasterIssue(m)
             /\ W!MasterBeat(m) => WP!MasterBeat(m)
             /\ W!MasterTake(m) => WP!MasterTake(m)
  BY DEF W!MasterIssue, WP!MasterIssue, W!MasterBeat, WP!MasterBeat, W!MasterTake, WP!MasterTake
<1>5. \A s : /\ W!SlaveAddr(s) => WP!SlaveAddr(s)
             /\ W!SlaveData(s) => WP!SlaveData(s)
             /\ W!SlaveAnswer(s) => WP!SlaveAnswer(s)
  BY DEF W!SlaveAddr, WP!SlaveAddr, W!SlaveData, WP!SlaveData, W!SlaveAnswer, WP!SlaveAnswer
<1>. QED BY <1>1, <1>2, <1>3, <1>4, <1>5, SameSets DEF W!Next, WP!Next

(* Steps of the read half are stuttering steps of the write half.          *)
LEMMA WriteHalf == FSpec => WP!Spec
<1>1. FInit => WP!Init
  BY SameInit DEF FInit
<1>2. [FNext]_fvars => [WP!Next]_(WP!vars)
  BY SameNext DEF FNext, fvars, wvars, WP!vars
<1>. QED BY <1>1, <1>2, PTL DEF FSpec, WP!Spec

(* The FIFOs of the write half keep their size, and neither write data nor *)
(* write responses ever wait for each other in a circle.                   *)
THEOREM WritesMeet == FSpec => []WrRoutesMeet
<1>1. WP!Spec => []WP!TypeOK
  BY SameConstants, NMAssumption, NSAssumption, WP!TypeCorrect
<1>2. WP!Spec => []WP!RoutesMeet
  BY SameConstants, NMAssumption, NSAssumption, WP!NoCircularWait
<1>3. WP!TypeOK => W!TypeOK
  BY SameSets DEF WP!TypeOK, W!TypeOK, WP!RouteType, W!RouteType, WP!RouteWithin, W!RouteWithin
<1>4. WP!RoutesMeet => W!RoutesMeet
  BY SameSets DEF WP!RoutesMeet, W!RoutesMeet, WP!HeadsMeet, W!HeadsMeet,
                  WP!RouteMeet, W!RouteMeet
<1>. QED BY <1>1, <1>2, <1>3, <1>4, WriteHalf, PTL DEF WrRoutesMeet

(* A slave gets the data bursts in the order of their addresses, each with *)
(* its beats in order, and only those addressed to it.                     *)
THEOREM WriteDataPaired == FSpec => []DataFollowsAddress
<1>1. WP!Spec => []WP!DataFollowsAddress
  BY SameConstants, NMAssumption, NSAssumption, WP!DataIsAddressed
<1>2. WP!DataFollowsAddress => DataFollowsAddress
  BY SameSets DEF WP!DataFollowsAddress, DataFollowsAddress, W!DataFollowsAddress
<1>. QED BY <1>1, <1>2, WriteHalf, PTL

(* What each master sees of its writes is an in-order port: the safety     *)
(* part of InOrderWrites.                                                  *)
THEOREM WritesArePort == FSpec => WrPort!Safe
<1>1. WP!Spec => WP!Port!Safe
  BY SameConstants, NMAssumption, NSAssumption, WP!WritesInOrder
<1>0. WP!Masters = Masters /\ WP!Requests = W!Requests
  BY SameSets DEF WP!Masters, Masters
<1>2. WP!Port!Init => WrPort!Init
  BY <1>0 DEF WP!Port!Init, WrPort!Init
<1>3. [WP!Port!Next]_(WP!Port!vars) => [WrPort!Next]_(WrPort!vars)
  BY <1>0 DEF WP!Port!Next, WrPort!Next, WP!Port!vars, WrPort!vars,
                  WP!Port!Ask, WrPort!Ask, WP!Port!Answer, WrPort!Answer
<1>. QED BY <1>1, <1>2, <1>3, WriteHalf, PTL DEF WP!Port!Safe, WrPort!Safe
=============================================================================
