------------------------ MODULE Axi4FabricWrProofs ------------------------
(***************************************************************************)
(* The write half of the crossbar, for every number of masters and slaves  *)
(* and every FIFO depth: the data of a write goes where its address went,  *)
(* and its master gets its response in its turn.                           *)
(***************************************************************************)
EXTENDS Axi4FabricWr, RoutePairProofs

(* The writes a slave has not answered to the crossbar: those it holds and *)
(* those on their way to it.                                               *)
Held    == [s \in Slaves |-> srv[s] \o sAwQ[s]]
Backlog == [s \in Slaves |-> bQ[s] \o Held[s]]

(* What a master waits for are its responses, what aS says the route FIFOs *)
(* hold, and what has not been routed; and aS agrees with the slaves.      *)
Responses(aS) ==
  /\ aS \in [Masters -> Seq(Requests)]
  /\ Labelled(wrRoute, aS, Backlog)
  /\ \A m \in Masters : out[m] = bRsp[m] \o (aS[m] \o awQ[m])

(* A slave has addresses for the data bursts it has and for R, of which    *)
(* beats are in sWQ or, the bursts d, still before the crossbar.           *)
Receives(s, d, h) ==
  \E R \in Seq(Requests) : /\ Held[s] = data[s] \o R
                           /\ Flow(Requests, R, d, nbeat[s], sWQ[s], h)

Bursts(dS, dM, hS, hM) ==
  /\ dS \in [Masters -> Seq(Requests)] /\ dM \in [Slaves -> Seq(Requests)]
  /\ hS \in [Masters -> Nat] /\ hM \in [Slaves -> Nat]
  /\ Labelled(wdRoute, dS, dM) /\ Progress(wdRoute, hS, hM)
  /\ \A m \in Masters : Flow(Requests, dS[m] \o awQ[m], todo[m], hS[m], wQ[m], beat[m])
  /\ \A s \in Slaves : Receives(s, dM[s], hM[s])

(* Addresses are at the slave they name.                                   *)
Addressed == \A s \in Slaves : \A i \in 1..Len(Held[s]) : Held[s][i].dst = s

IInv == /\ TypeOK /\ Addressed
        /\ \E aS : Responses(aS)
        /\ \E dS, dM, hS, hM : Bursts(dS, dM, hS, hM)

----------------------------------------------------------------------------
(* The select register always names a master.                              *)
LEMMA SelectOK ==
  ASSUME NEW mi \in Masters
  PROVE  NextSelect(mi) \in Masters
  BY NMAssumption DEF NextSelect, Masters

(* A burst has one beat more than its len, a number.                       *)
LEMMA LenNat ==
  ASSUME WriteConstants
  PROVE  /\ \A q \in Requests : q.len \in Nat
         /\ \A b \in WBeats : b.req \in Requests /\ b.n \in Nat
  BY DEF WriteConstants, Requests, WBeats

(* What the two chains hold.                                               *)
LEMMA HeldType ==
  ASSUME TypeOK
  PROVE  Held \in [Slaves -> Seq(Requests)] /\ Backlog \in [Slaves -> Seq(Requests)]
<1>1. \A s \in Slaves : srv[s] \in Seq(Requests) /\ sAwQ[s] \in Seq(Requests) /\ bQ[s] \in Seq(Requests)
  BY DEF TypeOK
<1>2. \A s \in Slaves : Held[s] \in Seq(Requests)
  BY <1>1, ConcatProperties DEF Held
<1>3. \A s \in Slaves : bQ[s] \o Held[s] \in Seq(Requests)
  BY <1>1, <1>2, ConcatProperties
<1>. QED BY <1>2, <1>3 DEF Held, Backlog

(* Reset establishes the invariant.                                        *)
LEMMA InitOK == WriteConstants /\ Init => IInv
<1> SUFFICES ASSUME WriteConstants, Init  PROVE IInv
  OBVIOUS
<1>0. 0 \in Masters
  BY NMAssumption DEF Masters
<1>1. RouteWithin(RouteEmpty, WdDepth) /\ RouteWithin(RouteEmpty, RouteDepth)
  BY DEF WriteConstants, RouteWithin, RouteEmpty
<1>2. TypeOK
  BY <1>0, <1>1, RouteEmptyOK DEF WriteConstants, Init, TypeOK
<1>3. <<>> \in Seq(Requests) /\ <<>> \o <<>> = <<>> /\ Len(<<>>) = 0
  OBVIOUS
<1> DEFINE eS == [m \in Masters |-> <<>>]
           eM == [s \in Slaves |-> <<>>]
           zS == [m \in Masters |-> 0]
           zM == [s \in Slaves |-> 0]
<1>4. Held = eM /\ Backlog = eM
  BY <1>3 DEF Init, Held, Backlog
<1>5. Addressed
  BY <1>3, <1>4 DEF Addressed
<1>6. Responses(eS)
  BY <1>3, <1>4, LabelEmpty DEF Responses, Init
<1>7. Progress(wdRoute, zS, zM)
  BY DEF Progress
<1>8. \A s \in Slaves : Receives(s, <<>>, 0)
  BY <1>3, <1>4, FlowEmpty DEF Receives, Init
<1>9. \A m \in Masters : Flow(Requests, eS[m] \o awQ[m], todo[m], zS[m], wQ[m], beat[m])
  BY <1>3, FlowEmpty DEF Init
<1>10. Bursts(eS, eM, zS, zM)
  BY <1>3, <1>7, <1>8, <1>9, LabelEmpty DEF Bursts, Init
<1>. QED BY <1>2, <1>5, <1>6, <1>10 DEF IInv

----------------------------------------------------------------------------
(* Every step keeps the types and the sizes of the FIFOs.                  *)
LEMMA TypeStep == WriteConstants /\ TypeOK /\ [Next]_vars => TypeOK'
<1> SUFFICES ASSUME WriteConstants, TypeOK, [Next]_vars  PROVE TypeOK'
  OBVIOUS
<1>0. FifoDepth \in Nat /\ WdDepth \in Nat /\ RouteDepth \in Nat
  BY DEF WriteConstants
<1>t. /\ awQ \in [Masters -> Seq(Requests)] /\ sAwQ \in [Slaves -> Seq(Requests)]
      /\ wQ \in [Masters -> Seq(WBeats)] /\ sWQ \in [Slaves -> Seq(WBeats)]
      /\ bRsp \in [Masters -> Seq(Requests)] /\ bQ \in [Slaves -> Seq(Requests)]
      /\ todo \in [Masters -> Seq(Requests)] /\ out \in [Masters -> Seq(Requests)]
      /\ srv \in [Slaves -> Seq(Requests)] /\ data \in [Slaves -> Seq(Requests)]
  BY DEF TypeOK
<1>l. /\ \A m \in Masters : Len(awQ[m]) <= FifoDepth
      /\ \A m \in Masters : Len(wQ[m]) <= FifoDepth
      /\ \A m \in Masters : Len(bRsp[m]) <= FifoDepth
      /\ \A s \in Slaves : Len(sAwQ[s]) <= FifoDepth
      /\ \A s \in Slaves : Len(sWQ[s]) <= FifoDepth
      /\ \A s \in Slaves : Len(bQ[s]) <= FifoDepth
  BY DEF TypeOK
<1>1. ASSUME NEW mi \in Masters, NEW sj \in Slaves, rl_wr_xaction_master_to_slave(mi, sj)
      PROVE  TypeOK'
  <2>1. /\ awQ[mi] # <<>> /\ Len(sAwQ[sj]) < FifoDepth
        /\ RouteRoom(wdRoute, mi, sj, WdDepth) /\ RouteRoom(wrRoute, mi, sj, RouteDepth)
        /\ awQ' = [awQ EXCEPT ![mi] = Tail(@)]
        /\ sAwQ' = [sAwQ EXCEPT ![sj] = Append(@, Head(awQ[mi]))]
        /\ wdRoute' = RouteEnq(wdRoute, mi, sj) /\ wrRoute' = RouteEnq(wrRoute, mi, sj)
        /\ sel' = [sel EXCEPT ![sj] = NextSelect(mi)] \/ sel' = sel
        /\ UNCHANGED <<wQ, bRsp, sWQ, bQ, out, todo, beat, srv, data, nbeat>>
    BY <1>1 DEF rl_wr_xaction_master_to_slave, CanSend, fv_mi_has_wr_for_sj
  <2>2. Head(awQ[mi]) \in Requests
    BY SMTT(30), <2>1 DEF TypeOK
  <2>3. awQ' \in [Masters -> Seq(Requests)] /\ \A m \in Masters : Len(awQ'[m]) <= FifoDepth
    BY <1>0, <1>t, <1>l, <2>1, ShortTail
  <2>4. sAwQ' \in [Slaves -> Seq(Requests)] /\ \A s \in Slaves : Len(sAwQ'[s]) <= FifoDepth
    BY SMTT(30), <1>0, <1>t, <1>l, <2>1, <2>2, ShortAppend
  <2>5. RouteType(wdRoute') /\ RouteWithin(wdRoute', WdDepth)
    BY <1>0, <2>1, RouteEnqType, RouteEnqWithin DEF TypeOK
  <2>6. RouteType(wrRoute') /\ RouteWithin(wrRoute', RouteDepth)
    BY <1>0, <2>1, RouteEnqType, RouteEnqWithin DEF TypeOK
  <2>7. sel' \in [Slaves -> Masters]
    BY <2>1, SelectOK DEF TypeOK
  <2>. QED BY <2>1, <2>3, <2>4, <2>5, <2>6, <2>7 DEF TypeOK
<1>2. ASSUME NEW mi \in Masters, NEW sj \in Slaves, rl_wr_xaction_master_to_slave_data(mi, sj)
      PROVE  TypeOK'
  <2>1. /\ RouteMeet(wdRoute, mi, sj) /\ wQ[mi] # <<>> /\ Len(sWQ[sj]) < FifoDepth
        /\ sWQ' = [sWQ EXCEPT ![sj] = Append(@, Head(wQ[mi]))]
        /\ wdRoute' = RouteDeq(wdRoute, mi, sj) \/ wdRoute' = wdRoute
        /\ wQ' = [wQ EXCEPT ![mi] = Tail(@)]
        /\ UNCHANGED <<awQ, bRsp, sAwQ, bQ, wrRoute, sel, out, todo, beat, srv, data, nbeat>>
    BY <1>2 DEF rl_wr_xaction_master_to_slave_data
  <2>2. Head(wQ[mi]) \in WBeats
    BY SMTT(30), <2>1 DEF TypeOK
  <2>3. wQ' \in [Masters -> Seq(WBeats)] /\ \A m \in Masters : Len(wQ'[m]) <= FifoDepth
    BY <1>0, <1>t, <1>l, <2>1, ShortTail
  <2>4. sWQ' \in [Slaves -> Seq(WBeats)] /\ \A s \in Slaves : Len(sWQ'[s]) <= FifoDepth
    BY SMTT(30), <1>0, <1>t, <1>l, <2>1, <2>2, ShortAppend
  <2>5. RouteType(wdRoute') /\ RouteWithin(wdRoute', WdDepth)
    BY <1>0, <2>1, RouteDeqType, RouteDeqWithin DEF TypeOK
  <2>. QED BY <2>1, <2>3, <2>4, <2>5 DEF TypeOK
<1>3. ASSUME NEW mi \in Masters, NEW sj \in Slaves, rl_wr_resp_slave_to_master(mi, sj)
      PROVE  TypeOK'
  <2>1. /\ RouteMeet(wrRoute, mi, sj) /\ bQ[sj] # <<>> /\ Len(bRsp[mi]) < FifoDepth
        /\ wrRoute' = RouteDeq(wrRoute, mi, sj)
        /\ bQ' = [bQ EXCEPT ![sj] = Tail(@)]
        /\ bRsp' = [bRsp EXCEPT ![mi] = Append(@, Head(bQ[sj]))]
        /\ UNCHANGED <<awQ, wQ, sAwQ, sWQ, wdRoute, sel, out, todo, beat, srv, data, nbeat>>
    BY <1>3 DEF rl_wr_resp_slave_to_master
  <2>2. Head(bQ[sj]) \in Requests
    BY <1>t, <2>1
  <2>3. bQ' \in [Slaves -> Seq(Requests)] /\ \A s \in Slaves : Len(bQ'[s]) <= FifoDepth
    BY <1>0, <1>t, <1>l, <2>1, ShortTail
  <2>4. bRsp' \in [Masters -> Seq(Requests)] /\ \A m \in Masters : Len(bRsp'[m]) <= FifoDepth
    BY <1>0, <1>t, <1>l, <2>1, <2>2, ShortAppend
  <2>5. RouteType(wrRoute') /\ RouteWithin(wrRoute', RouteDepth)
    BY <1>0, <2>1, RouteDeqType, RouteDeqWithin DEF TypeOK
  <2>. QED BY <2>1, <2>3, <2>4, <2>5 DEF TypeOK
<1>4. ASSUME NEW m \in Masters, MasterIssue(m)  PROVE TypeOK'
  <2>1. PICK q \in Requests : /\ awQ' = [awQ EXCEPT ![m] = Append(@, q)]
                              /\ out' = [out EXCEPT ![m] = Append(@, q)]
                              /\ todo' = [todo EXCEPT ![m] = Append(@, q)]
    BY <1>4 DEF MasterIssue, Requests
  <2>2. /\ Len(awQ[m]) < FifoDepth
        /\ UNCHANGED <<wQ, bRsp, sAwQ, sWQ, bQ, wdRoute, wrRoute, sel, beat, srv, data, nbeat>>
    BY <1>4 DEF MasterIssue
  <2>3. awQ' \in [Masters -> Seq(Requests)] /\ \A x \in Masters : Len(awQ'[x]) <= FifoDepth
    BY <1>0, <1>t, <1>l, <2>1, <2>2, ShortAppend
  <2>4. out' \in [Masters -> Seq(Requests)] /\ todo' \in [Masters -> Seq(Requests)]
    BY <2>1 DEF TypeOK
  <2>. QED BY <2>2, <2>3, <2>4 DEF TypeOK
<1>5. ASSUME NEW m \in Masters, MasterBeat(m)  PROVE TypeOK'
  <2>1. /\ todo[m] # <<>> /\ Len(wQ[m]) < FifoDepth
        /\ wQ' = [wQ EXCEPT ![m] = Append(@, [req |-> Head(todo[m]), n |-> beat[m]])]
        /\ beat' = [beat EXCEPT ![m] = 0] \/ beat' = [beat EXCEPT ![m] = @ + 1]
        /\ todo' = [todo EXCEPT ![m] = Tail(@)] \/ todo' = todo
        /\ UNCHANGED <<awQ, bRsp, sAwQ, sWQ, bQ, wdRoute, wrRoute, sel, out, srv, data, nbeat>>
    BY <1>5 DEF MasterBeat
  <2>2. [req |-> Head(todo[m]), n |-> beat[m]] \in WBeats
    BY <2>1 DEF TypeOK, WBeats
  <2>3. wQ' \in [Masters -> Seq(WBeats)] /\ \A x \in Masters : Len(wQ'[x]) <= FifoDepth
    BY <1>0, <1>t, <1>l, <2>1, <2>2, ShortAppend
  <2>4. beat' \in [Masters -> Nat]
    <3>1. beat \in [Masters -> Nat]
      BY DEF TypeOK
    <3>. QED BY <2>1, <3>1
  <2>5. todo' \in [Masters -> Seq(Requests)]
    <3>1. CASE todo' = [todo EXCEPT ![m] = Tail(@)]
      BY <1>t, <2>1, <3>1, DeqEntries
    <3>2. CASE todo' = todo
      BY <1>t, <3>2
    <3>. QED BY <2>1, <3>1, <3>2
  <2>. QED BY <2>1, <2>3, <2>4, <2>5 DEF TypeOK
<1>6. ASSUME NEW m \in Masters, MasterTake(m)  PROVE TypeOK'
  <2>1. /\ bRsp[m] # <<>>
        /\ bRsp' = [bRsp EXCEPT ![m] = Tail(@)]
        /\ UNCHANGED <<awQ, wQ, sAwQ, sWQ, bQ, wdRoute, wrRoute, sel, todo, beat, srv, data, nbeat>>
    BY <1>6 DEF MasterTake
  <2>2. PICK i \in 1 .. Len(out[m]) :
          out' = [out EXCEPT ![m] = SubSeq(@, 1, i - 1) \o SubSeq(@, i + 1, Len(@))]
    BY <1>6 DEF MasterTake
  <2>3. bRsp' \in [Masters -> Seq(Requests)] /\ \A x \in Masters : Len(bRsp'[x]) <= FifoDepth
    BY <1>0, <1>t, <1>l, <2>1, ShortTail
  <2>4. out' \in [Masters -> Seq(Requests)]
    <3>1. out \in [Masters -> Seq(Requests)] /\ out[m] \in Seq(Requests)
      BY DEF TypeOK
    <3>2. /\ SubSeq(out[m], 1, i - 1) \in Seq(Requests)
          /\ SubSeq(out[m], i + 1, Len(out[m])) \in Seq(Requests)
      BY <3>1
    <3>3. SubSeq(out[m], 1, i - 1) \o SubSeq(out[m], i + 1, Len(out[m])) \in Seq(Requests)
      BY <3>2
    <3>. QED BY <2>2, <3>1, <3>3
  <2>. QED BY <2>1, <2>3, <2>4 DEF TypeOK
<1>7. ASSUME NEW s \in Slaves, SlaveAddr(s)  PROVE TypeOK'
  <2>1. /\ sAwQ[s] # <<>>
        /\ srv' = [srv EXCEPT ![s] = Append(@, Head(sAwQ[s]))]
        /\ sAwQ' = [sAwQ EXCEPT ![s] = Tail(@)]
        /\ UNCHANGED <<awQ, wQ, bRsp, sWQ, bQ, wdRoute, wrRoute, sel, out, todo, beat, data, nbeat>>
    BY <1>7 DEF SlaveAddr
  <2>2. Head(sAwQ[s]) \in Requests
    BY <2>1 DEF TypeOK
  <2>3. sAwQ' \in [Slaves -> Seq(Requests)] /\ \A x \in Slaves : Len(sAwQ'[x]) <= FifoDepth
    BY <1>0, <1>t, <1>l, <2>1, ShortTail
  <2>4. srv' \in [Slaves -> Seq(Requests)]
    BY <2>1, <2>2 DEF TypeOK
  <2>. QED BY <2>1, <2>3, <2>4 DEF TypeOK
<1>8. ASSUME NEW s \in Slaves, SlaveData(s)  PROVE TypeOK'
  <2>1. /\ sWQ[s] # <<>>
        /\ sWQ' = [sWQ EXCEPT ![s] = Tail(@)]
        /\ data' = [data EXCEPT ![s] = Append(@, Head(sWQ[s]).req)] \/ data' = data
        /\ nbeat' = [nbeat EXCEPT ![s] = 0] \/ nbeat' = [nbeat EXCEPT ![s] = @ + 1]
        /\ UNCHANGED <<awQ, wQ, bRsp, sAwQ, bQ, wdRoute, wrRoute, sel, out, todo, beat, srv>>
    BY <1>8 DEF SlaveData
  <2>2. Head(sWQ[s]).req \in Requests
    <3>1. Head(sWQ[s]) \in WBeats
      BY <2>1 DEF TypeOK
    <3>. QED BY <3>1 DEF WBeats
  <2>3. sWQ' \in [Slaves -> Seq(WBeats)] /\ \A x \in Slaves : Len(sWQ'[x]) <= FifoDepth
    BY <1>0, <1>t, <1>l, <2>1, ShortTail
  <2>4. data' \in [Slaves -> Seq(Requests)]
    <3>1. CASE data' = [data EXCEPT ![s] = Append(@, Head(sWQ[s]).req)]
      BY <1>t, <2>2, <3>1, EnqEntries
    <3>2. CASE data' = data
      BY <1>t, <3>2
    <3>. QED BY <2>1, <3>1, <3>2
  <2>5. nbeat' \in [Slaves -> Nat]
    <3>1. nbeat \in [Slaves -> Nat]
      BY DEF TypeOK
    <3>. QED BY <2>1, <3>1
  <2>. QED BY <2>1, <2>3, <2>4, <2>5 DEF TypeOK
<1>9. ASSUME NEW s \in Slaves, SlaveAnswer(s)  PROVE TypeOK'
  <2>1. /\ srv[s] # <<>> /\ data[s] # <<>> /\ Len(bQ[s]) < FifoDepth
        /\ bQ' = [bQ EXCEPT ![s] = Append(@, Head(srv[s]))]
        /\ srv' = [srv EXCEPT ![s] = Tail(@)]
        /\ data' = [data EXCEPT ![s] = Tail(@)]
        /\ UNCHANGED <<awQ, wQ, bRsp, sAwQ, sWQ, wdRoute, wrRoute, sel, out, todo, beat, nbeat>>
    BY <1>9 DEF SlaveAnswer
  <2>2. Head(srv[s]) \in Requests
    BY SMTT(30), <2>1 DEF TypeOK
  <2>3. bQ' \in [Slaves -> Seq(Requests)] /\ \A x \in Slaves : Len(bQ'[x]) <= FifoDepth
    BY <1>0, <1>t, <1>l, <2>1, <2>2, ShortAppend
  <2>4. srv' \in [Slaves -> Seq(Requests)] /\ data' \in [Slaves -> Seq(Requests)]
    BY SMTT(30), <2>1 DEF TypeOK
  <2>. QED BY <2>1, <2>3, <2>4 DEF TypeOK
<1>10. CASE UNCHANGED vars
  BY <1>10 DEF vars, TypeOK
<1>. QED BY <1>1, <1>2, <1>3, <1>4, <1>5, <1>6, <1>7, <1>8, <1>9, <1>10
         DEF Next, SendTo, SendData, Respond

----------------------------------------------------------------------------
(* The chains of a slave as the steps change them: the crossbar adds a     *)
(* write at the end, an answer removes one at the head, and a write that   *)
(* only moves from one FIFO to the next stays where it is.                 *)
LEMMA SentHeld ==
  ASSUME TypeOK, NEW m \in Masters, NEW s \in Slaves, rl_wr_xaction_master_to_slave(m, s)
  PROVE  /\ Held' = [Held EXCEPT ![s] = Append(@, Head(awQ[m]))]
         /\ Backlog' = [Backlog EXCEPT ![s] = Append(@, Head(awQ[m]))]
<1> DEFINE q == Head(awQ[m])
<1>1. \A y \in Slaves : srv[y] \in Seq(Requests) /\ sAwQ[y] \in Seq(Requests) /\ bQ[y] \in Seq(Requests)
  BY DEF TypeOK
<1>2. sAwQ \in [Slaves -> Seq(Requests)] /\ awQ[m] \in Seq(Requests)
  BY DEF TypeOK
<1>3. /\ sAwQ' = [sAwQ EXCEPT ![s] = Append(@, q)] /\ awQ[m] # <<>>
      /\ srv' = srv /\ bQ' = bQ
  BY DEF rl_wr_xaction_master_to_slave, CanSend, fv_mi_has_wr_for_sj
<1>4. q \in Requests
  BY <1>2, <1>3
<1> HIDE DEF q
<1>5. /\ srv[s] \o Append(sAwQ[s], q) = Append(Held[s], q)
      /\ bQ[s] \o Append(Held[s], q) = Append(Backlog[s], q)
  <2>0. \A a, b \in Seq(Requests), e \in Requests : a \o Append(b, e) = Append(a \o b, e)
    BY ConcatAppend
  <2>1. srv[s] \o Append(sAwQ[s], q) = Append(srv[s] \o sAwQ[s], q)
    BY <1>1, <1>4, <2>0
  <2>2. Held[s] \in Seq(Requests)
    BY HeldType
  <2>3. bQ[s] \o Append(Held[s], q) = Append(bQ[s] \o Held[s], q)
    BY <1>1, <1>4, <2>0, <2>2
  <2>4. Held[s] = srv[s] \o sAwQ[s] /\ Backlog[s] = bQ[s] \o Held[s]
    BY DEF Held, Backlog
  <2>. QED BY <2>1, <2>3, <2>4
<1>6. \A y \in Slaves : Held'[y] = IF y = s THEN Append(Held[s], q) ELSE Held[y]
  BY <1>2, <1>3, <1>5 DEF Held
<1>7. \A y \in Slaves : Backlog'[y] = IF y = s THEN Append(Backlog[s], q) ELSE Backlog[y]
  BY <1>3, <1>5, <1>6 DEF Backlog
<1>. QED BY <1>6, <1>7 DEF Held, Backlog, q

(* A slave that takes an address from its transactor.                      *)
LEMMA TakenHeld ==
  ASSUME TypeOK, NEW s \in Slaves, SlaveAddr(s)
  PROVE  Held' = Held /\ Backlog' = Backlog
<1>1. \A y \in Slaves : srv[y] \in Seq(Requests) /\ sAwQ[y] \in Seq(Requests)
  BY DEF TypeOK
<1>2. srv \in [Slaves -> Seq(Requests)] /\ sAwQ \in [Slaves -> Seq(Requests)]
  BY DEF TypeOK
<1>3. /\ sAwQ[s] # <<>> /\ bQ' = bQ
      /\ srv' = [srv EXCEPT ![s] = Append(@, Head(sAwQ[s]))]
      /\ sAwQ' = [sAwQ EXCEPT ![s] = Tail(@)]
  BY DEF SlaveAddr
<1>4. Append(srv[s], Head(sAwQ[s])) \o Tail(sAwQ[s]) = srv[s] \o sAwQ[s]
  BY <1>1, <1>3, MoveHead
<1>5. \A y \in Slaves : srv'[y] \o sAwQ'[y] = srv[y] \o sAwQ[y]
  BY <1>2, <1>3, <1>4
<1>6. Held' = Held
  BY <1>5 DEF Held
<1>. QED BY <1>3, <1>6 DEF Backlog

(* A slave that answers.                                                   *)
LEMMA AnsweredHeld ==
  ASSUME TypeOK, NEW s \in Slaves, SlaveAnswer(s)
  PROVE  /\ Held[s] # <<>> /\ Held' = [Held EXCEPT ![s] = Tail(@)]
         /\ Backlog' = Backlog
<1>1. srv[s] \in Seq(Requests) /\ sAwQ[s] \in Seq(Requests) /\ bQ[s] \in Seq(Requests)
  BY DEF TypeOK
<1>2. srv \in [Slaves -> Seq(Requests)] /\ bQ \in [Slaves -> Seq(Requests)]
  BY DEF TypeOK
<1>3. /\ srv[s] # <<>> /\ sAwQ' = sAwQ
      /\ bQ' = [bQ EXCEPT ![s] = Append(@, Head(srv[s]))]
      /\ srv' = [srv EXCEPT ![s] = Tail(@)]
  BY DEF SlaveAnswer
<1>4. /\ srv[s] \o sAwQ[s] # <<>> /\ Head(srv[s] \o sAwQ[s]) = Head(srv[s])
      /\ Tail(srv[s] \o sAwQ[s]) = Tail(srv[s]) \o sAwQ[s]
  BY <1>1, <1>3, TailConcat
<1>5. Held[s] # <<>> /\ Head(Held[s]) = Head(srv[s]) /\ Tail(Held[s]) = Tail(srv[s]) \o sAwQ[s]
  BY <1>4 DEF Held
<1>6. \A y \in Slaves : Held'[y] = IF y = s THEN Tail(Held[s]) ELSE Held[y]
  BY <1>2, <1>3, <1>5 DEF Held
<1>7. Append(bQ[s], Head(srv[s])) \o Tail(Held[s]) = bQ[s] \o Held[s]
  BY <1>1, <1>5, HeldType, MoveHead
<1>8. \A y \in Slaves : bQ'[y] \o Held'[y] = bQ[y] \o Held[y]
  BY <1>2, <1>3, <1>6, <1>7
<1>9. Backlog' = Backlog
  BY <1>8 DEF Backlog
<1>. QED BY <1>5, <1>6, <1>9 DEF Held

(* The crossbar takes a response.                                          *)
LEMMA RespondedHeld ==
  ASSUME TypeOK, NEW m \in Masters, NEW s \in Slaves, rl_wr_resp_slave_to_master(m, s)
  PROVE  /\ Held' = Held
         /\ Backlog[s] # <<>> /\ Head(Backlog[s]) = Head(bQ[s])
         /\ Backlog' = [Backlog EXCEPT ![s] = Tail(@)]
<1>1. bQ[s] \in Seq(Requests) /\ bQ \in [Slaves -> Seq(Requests)]
  BY DEF TypeOK
<1>2. bQ[s] # <<>> /\ srv' = srv /\ sAwQ' = sAwQ /\ bQ' = [bQ EXCEPT ![s] = Tail(@)]
  BY DEF rl_wr_resp_slave_to_master
<1>3. Held' = Held
  BY <1>2 DEF Held
<1>4. /\ bQ[s] \o Held[s] # <<>> /\ Head(bQ[s] \o Held[s]) = Head(bQ[s])
      /\ Tail(bQ[s] \o Held[s]) = Tail(bQ[s]) \o Held[s]
  BY <1>1, <1>2, HeldType, TailConcat
<1>5. Backlog[s] # <<>> /\ Head(Backlog[s]) = Head(bQ[s]) /\ Tail(Backlog[s]) = Tail(bQ[s]) \o Held[s]
  BY <1>4 DEF Backlog
<1>6. \A y \in Slaves : Backlog'[y] = IF y = s THEN Tail(Backlog[s]) ELSE Backlog[y]
  BY <1>1, <1>2, <1>3, <1>5 DEF Backlog
<1>. QED BY <1>3, <1>5, <1>6 DEF Backlog

(* The other steps.                                                        *)
LEMMA SameHeld ==
  /\ UNCHANGED <<srv, sAwQ>> => Held' = Held
  /\ UNCHANGED <<srv, sAwQ, bQ>> => Backlog' = Backlog
  BY DEF Held, Backlog

----------------------------------------------------------------------------
(* Addresses stay at the slave they name: a write is sent to no other.     *)
LEMMA AddressedStep == WriteConstants /\ TypeOK /\ Addressed /\ [Next]_vars => Addressed'
<1> SUFFICES ASSUME WriteConstants, TypeOK, Addressed, [Next]_vars  PROVE Addressed'
  OBVIOUS
<1>0. \A s \in Slaves : Held[s] \in Seq(Requests)
  BY HeldType
<1>1. ASSUME NEW m \in Masters, NEW s \in Slaves, rl_wr_xaction_master_to_slave(m, s)
      PROVE  Addressed'
  <2>1. Held' = [Held EXCEPT ![s] = Append(@, Head(awQ[m]))]
    BY <1>1, SentHeld
  <2>2. Head(awQ[m]) \in Requests /\ Head(awQ[m]).dst = s
    <3>1. awQ[m] \in Seq(Requests) /\ awQ[m] # <<>>
      BY <1>1 DEF TypeOK, rl_wr_xaction_master_to_slave, CanSend, fv_mi_has_wr_for_sj
    <3>. QED BY <1>1, <3>1 DEF rl_wr_xaction_master_to_slave, CanSend, fv_mi_has_wr_for_sj
  <2>3. PICK q \in Requests : q = Head(awQ[m])
    BY <2>2
  <2>4. SUFFICES ASSUME NEW y \in Slaves, NEW i \in 1..Len(Held'[y])  PROVE Held'[y][i].dst = y
    BY DEF Addressed
  <2>5. CASE y = s
    <3>1. Held'[y] = Append(Held[s], q)
      BY <2>1, <2>3, <2>5 DEF Held
    <3>2. /\ Len(Held[s]) \in Nat /\ Len(Append(Held[s], q)) = Len(Held[s]) + 1
          /\ Append(Held[s], q)[Len(Held[s]) + 1] = q
          /\ \A j \in 1..Len(Held[s]) : Append(Held[s], q)[j] = Held[s][j]
      BY <1>0, AppendEntries
    <3>3. CASE i = Len(Held[s]) + 1
      BY <2>2, <2>3, <2>5, <3>1, <3>2, <3>3
    <3>4. CASE i \in 1..Len(Held[s])
      BY <2>5, <3>1, <3>2, <3>4 DEF Addressed
    <3>. QED BY <3>1, <3>2, <3>3, <3>4
  <2>6. CASE y # s
    BY <2>1, <2>6 DEF Addressed, Held
  <2>. QED BY <2>5, <2>6
<1>2. ASSUME NEW s \in Slaves, SlaveAnswer(s)  PROVE Addressed'
  <2>1. Held[s] # <<>> /\ Held' = [Held EXCEPT ![s] = Tail(@)]
    BY <1>2, AnsweredHeld
  <2>2. SUFFICES ASSUME NEW y \in Slaves, NEW i \in 1..Len(Held'[y])  PROVE Held'[y][i].dst = y
    BY DEF Addressed
  <2>3. CASE y = s
    <3>1. Held'[y] = Tail(Held[s])
      BY <2>1, <2>3 DEF Held
    <3>2. /\ Len(Held[s]) \in Nat /\ Len(Tail(Held[s])) = Len(Held[s]) - 1
          /\ \A j \in 1..Len(Held[s]) - 1 : Tail(Held[s])[j] = Held[s][j + 1]
      BY <1>0, <2>1, TailEntries
    <3>3. i \in 1..Len(Held[s]) - 1 /\ i + 1 \in 1..Len(Held[s])
      BY <3>1, <3>2
    <3>. QED BY <2>3, <3>1, <3>2, <3>3 DEF Addressed
  <2>4. CASE y # s
    BY <2>1, <2>4 DEF Addressed, Held
  <2>. QED BY <2>3, <2>4
<1>3. ASSUME Held' = Held  PROVE Addressed'
  BY <1>3 DEF Addressed
<1>4. ASSUME NEW m \in Masters, NEW s \in Slaves, rl_wr_resp_slave_to_master(m, s)
      PROVE  Addressed'
  BY <1>3, <1>4, RespondedHeld
<1>5. ASSUME NEW s \in Slaves, SlaveAddr(s)  PROVE Addressed'
  BY <1>3, <1>5, TakenHeld
<1>6. ASSUME NEW m \in Masters, MasterIssue(m) \/ MasterBeat(m) \/ MasterTake(m)
      PROVE  Addressed'
  BY <1>3, <1>6, SameHeld DEF MasterIssue, MasterBeat, MasterTake
<1>7. ASSUME NEW m \in Masters, NEW s \in Slaves,
             rl_wr_xaction_master_to_slave_data(m, s) \/ SlaveData(s) \/ UNCHANGED vars
      PROVE  Addressed'
  BY <1>3, <1>7, SameHeld DEF rl_wr_xaction_master_to_slave_data, SlaveData, vars
<1>8. Masters # {} /\ Slaves # {}
  BY NMAssumption, NSAssumption DEF Masters, Slaves
<1>. QED BY <1>1, <1>2, <1>4, <1>5, <1>6, <1>7, <1>8 DEF Next, SendTo, SendData, Respond

----------------------------------------------------------------------------
(* The label of a write that is routed moves from the master's requests to *)
(* the route FIFO, and that of an answered one to the responses.           *)
LEMMA ResponsesStep ==
  ASSUME WriteConstants, TypeOK, NEW aS, Responses(aS), [Next]_vars
  PROVE  \E bS : Responses(bS)'
<1>t. /\ aS \in [Masters -> Seq(Requests)] /\ awQ \in [Masters -> Seq(Requests)]
      /\ bRsp \in [Masters -> Seq(Requests)] /\ out \in [Masters -> Seq(Requests)]
      /\ Backlog \in [Slaves -> Seq(Requests)] /\ RouteType(wrRoute)
  BY HeldType DEF Responses, TypeOK
<1>s. \A m \in Masters : /\ aS[m] \in Seq(Requests) /\ awQ[m] \in Seq(Requests)
                         /\ bRsp[m] \in Seq(Requests) /\ aS[m] \o awQ[m] \in Seq(Requests)
  BY <1>t, ConcatProperties
<1>r. Labelled(wrRoute, aS, Backlog) /\ \A m \in Masters : out[m] = bRsp[m] \o (aS[m] \o awQ[m])
  BY DEF Responses
<1>c. \A a, b \in Seq(Requests), e \in Requests : a \o Append(b, e) = Append(a \o b, e)
  BY ConcatAppend
<1>m. \A a, b \in Seq(Requests) : b # <<>> => Append(a, Head(b)) \o Tail(b) = a \o b
  BY MoveHead
<1>h. \A a, b \in Seq(Requests) :
        a # <<>> => /\ a \o b # <<>> /\ Head(a \o b) = Head(a)
                    /\ Tail(a \o b) = Tail(a) \o b
  BY TailConcat
<1>1. ASSUME NEW m \in Masters, NEW s \in Slaves, rl_wr_xaction_master_to_slave(m, s)
      PROVE  \E bS : Responses(bS)'
  <2>1. /\ awQ[m] # <<>> /\ awQ' = [awQ EXCEPT ![m] = Tail(@)]
        /\ wrRoute' = RouteEnq(wrRoute, m, s) /\ out' = out /\ bRsp' = bRsp
    BY <1>1 DEF rl_wr_xaction_master_to_slave, CanSend, fv_mi_has_wr_for_sj
  <2>2. Backlog' = [Backlog EXCEPT ![s] = Append(@, Head(awQ[m]))]
    BY <1>1, SentHeld
  <2>3. PICK q \in Requests : q = Head(awQ[m])
    BY <1>s, <2>1
  <2> DEFINE bS == [aS EXCEPT ![m] = Append(@, q)]
  <2>4. bS \in [Masters -> Seq(Requests)]
    BY <1>t, EnqEntries
  <2>5. Labelled(wrRoute', bS, Backlog')
    BY <1>r, <1>t, <2>1, <2>2, <2>3, LabelEnq
  <2>6. bS[m] \o Tail(awQ[m]) = aS[m] \o awQ[m]
    BY <1>m, <1>s, <1>t, <2>1, <2>3
  <2>7. \A x \in Masters : bS[x] \o awQ'[x] = aS[x] \o awQ[x]
    BY <1>t, <2>1, <2>6
  <2> HIDE DEF bS
  <2>8. \A x \in Masters : out'[x] = bRsp'[x] \o (bS[x] \o awQ'[x])
    BY <1>r, <2>1, <2>7
  <2>. QED BY <2>4, <2>5, <2>8 DEF Responses
<1>2. ASSUME NEW m \in Masters, NEW s \in Slaves, rl_wr_resp_slave_to_master(m, s)
      PROVE  \E bS : Responses(bS)'
  <2>1. /\ RouteMeet(wrRoute, m, s) /\ wrRoute' = RouteDeq(wrRoute, m, s)
        /\ bRsp' = [bRsp EXCEPT ![m] = Append(@, Head(bQ[s]))]
        /\ awQ' = awQ /\ out' = out
    BY <1>2 DEF rl_wr_resp_slave_to_master
  <2>2. Head(Backlog[s]) = Head(bQ[s]) /\ Backlog' = [Backlog EXCEPT ![s] = Tail(@)]
    BY <1>2, RespondedHeld
  <2> DEFINE bS == [aS EXCEPT ![m] = Tail(@)]
  <2>3. /\ aS[m] # <<>> /\ Head(aS[m]) = Head(Backlog[s])
        /\ Labelled(wrRoute', bS, Backlog')
    <3>1. RouteMeet(wrRoute, m, s) /\ RouteType(wrRoute) /\ Labelled(wrRoute, aS, Backlog)
      BY <1>r, <1>t, <2>1
    <3>2. /\ aS[m] # <<>> /\ Backlog[s] # <<>> /\ Head(aS[m]) = Head(Backlog[s])
          /\ Labelled(RouteDeq(wrRoute, m, s), bS, [Backlog EXCEPT ![s] = Tail(@)])
      BY <1>t, <3>1, LabelDeq
    <3>. QED BY <2>1, <2>2, <3>2
  <2>4. bS \in [Masters -> Seq(Requests)]
    BY <1>t, <2>3, DeqEntries
  <2>5. /\ aS[m] \o awQ[m] # <<>> /\ Head(aS[m] \o awQ[m]) = Head(bQ[s])
        /\ Tail(aS[m] \o awQ[m]) = Tail(aS[m]) \o awQ[m]
    BY <1>h, <1>s, <2>2, <2>3
  <2>6. Append(bRsp[m], Head(bQ[s])) \o (Tail(aS[m]) \o awQ[m]) = bRsp[m] \o (aS[m] \o awQ[m])
    <3>1. Append(bRsp[m], Head(aS[m] \o awQ[m])) \o Tail(aS[m] \o awQ[m])
            = bRsp[m] \o (aS[m] \o awQ[m])
      BY <1>m, <1>s, <2>5
    <3>. QED BY <2>5, <3>1
  <2>7. \A x \in Masters : bRsp'[x] \o (bS[x] \o awQ'[x]) = bRsp[x] \o (aS[x] \o awQ[x])
    BY <1>t, <2>1, <2>6
  <2> HIDE DEF bS
  <2>8. \A x \in Masters : out'[x] = bRsp'[x] \o (bS[x] \o awQ'[x])
    BY <1>r, <2>1, <2>7
  <2>. QED BY <2>3, <2>4, <2>8 DEF Responses
<1>3. ASSUME NEW m \in Masters, MasterIssue(m)  PROVE \E bS : Responses(bS)'
  <2>1. PICK q \in Requests : /\ awQ' = [awQ EXCEPT ![m] = Append(@, q)]
                              /\ out' = [out EXCEPT ![m] = Append(@, q)]
    BY <1>3 DEF MasterIssue, Requests
  <2>2. wrRoute' = wrRoute /\ bRsp' = bRsp /\ Backlog' = Backlog
    BY <1>3, SameHeld DEF MasterIssue
  <2>3. bRsp[m] \o (aS[m] \o Append(awQ[m], q)) = Append(bRsp[m] \o (aS[m] \o awQ[m]), q)
    <3>1. aS[m] \o Append(awQ[m], q) = Append(aS[m] \o awQ[m], q)
      BY <1>c, <1>s
    <3>2. bRsp[m] \o Append(aS[m] \o awQ[m], q) = Append(bRsp[m] \o (aS[m] \o awQ[m]), q)
      BY <1>c, <1>s
    <3>. QED BY <3>1, <3>2
  <2>4. \A x \in Masters : out'[x] = bRsp'[x] \o (aS[x] \o awQ'[x])
    BY <1>r, <1>t, <2>1, <2>2, <2>3
  <2>. QED BY <1>r, <1>t, <2>2, <2>4 DEF Responses
<1>4. ASSUME NEW m \in Masters, MasterTake(m)  PROVE \E bS : Responses(bS)'
  <2>1. /\ bRsp[m] # <<>> /\ bRsp' = [bRsp EXCEPT ![m] = Tail(@)]
        /\ awQ' = awQ /\ wrRoute' = wrRoute
    BY <1>4 DEF MasterTake
  <2>2. Backlog' = Backlog
    BY <1>4, SameHeld DEF MasterTake
  <2>3. PICK i \in 1 .. Len(out[m]) :
          /\ out[m][i] = Head(bRsp[m])
          /\ \A j \in 1 .. i - 1 : out[m][j] # out[m][i]
          /\ out' = [out EXCEPT ![m] = SubSeq(@, 1, i - 1) \o SubSeq(@, i + 1, Len(@))]
    BY <1>4 DEF MasterTake
  <2>4. Head(out[m]) = Head(bRsp[m]) /\ Tail(out[m]) = Tail(bRsp[m]) \o (aS[m] \o awQ[m])
    <3>1. /\ Head(bRsp[m] \o (aS[m] \o awQ[m])) = Head(bRsp[m])
          /\ Tail(bRsp[m] \o (aS[m] \o awQ[m])) = Tail(bRsp[m]) \o (aS[m] \o awQ[m])
      BY <1>h, <1>s, <2>1
    <3>. QED BY <1>r, <3>1
  <2>5. SubSeq(out[m], 1, i - 1) \o SubSeq(out[m], i + 1, Len(out[m])) = Tail(out[m])
    <3>1. out[m] \in Seq(Requests)
      BY <1>t
    <3>. QED BY <2>3, <2>4, <3>1, RemoveFirst
  <2>6. \A x \in Masters : out'[x] = bRsp'[x] \o (aS[x] \o awQ'[x])
    BY <1>r, <1>t, <2>1, <2>3, <2>4, <2>5
  <2>. QED BY <1>r, <1>t, <2>1, <2>2, <2>6 DEF Responses
<1>5. ASSUME UNCHANGED <<awQ, bRsp, out, wrRoute>>, Backlog' = Backlog
      PROVE  \E bS : Responses(bS)'
  BY <1>r, <1>t, <1>5 DEF Responses
<1>6. ASSUME NEW s \in Slaves, SlaveAddr(s) \/ SlaveAnswer(s)  PROVE \E bS : Responses(bS)'
  <2>1. Backlog' = Backlog
    BY <1>6, TakenHeld, AnsweredHeld
  <2>. QED BY <1>5, <1>6, <2>1 DEF SlaveAddr, SlaveAnswer
<1>7. ASSUME NEW m \in Masters, NEW s \in Slaves,
             \/ rl_wr_xaction_master_to_slave_data(m, s) \/ MasterBeat(m)
             \/ SlaveData(s) \/ UNCHANGED vars
      PROVE  \E bS : Responses(bS)'
  <2>1. UNCHANGED <<awQ, bRsp, out, wrRoute>> /\ UNCHANGED <<srv, sAwQ, bQ>>
    BY <1>7 DEF rl_wr_xaction_master_to_slave_data, MasterBeat, SlaveData, vars
  <2>. QED BY <1>5, <2>1, SameHeld
<1>8. Masters # {} /\ Slaves # {}
  BY NMAssumption, NSAssumption DEF Masters, Slaves
<1>. QED BY <1>1, <1>2, <1>3, <1>4, <1>6, <1>7, <1>8 DEF Next, SendTo, SendData, Respond

----------------------------------------------------------------------------
(* FlowGet for the FIFOs of this module: what the oldest beat of one is.   *)
LEMMA GetBeat ==
  ASSUME WriteConstants
  PROVE  \A P : \A rest \in Seq(Requests), w \in Seq(WBeats), h \in Nat, n \in Nat :
           w # <<>> /\ Flow(Requests, P, rest, h, w, n)
             => /\ P \in Seq(Requests) /\ P # <<>> /\ Head(w) = [req |-> Head(P), n |-> h]
                /\ h = Head(P).len => Flow(Requests, Tail(P), rest, 0, Tail(w), n)
                /\ h # Head(P).len => Flow(Requests, P, rest, h + 1, Tail(w), n)
<1>n. \A q \in Requests : q.len \in Nat
  BY LenNat
<1> SUFFICES ASSUME NEW P, NEW rest \in Seq(Requests), NEW w \in Seq(WBeats), w # <<>>,
                    NEW h \in Nat, NEW n \in Nat, Flow(Requests, P, rest, h, w, n)
             PROVE  /\ P \in Seq(Requests) /\ P # <<>> /\ Head(w) = [req |-> Head(P), n |-> h]
                    /\ h = Head(P).len => Flow(Requests, Tail(P), rest, 0, Tail(w), n)
                    /\ h # Head(P).len => Flow(Requests, P, rest, h + 1, Tail(w), n)
  OBVIOUS
<1>. QED BY <1>n, FlowGet

(* The beats of the bursts follow the addresses, at the masters and at the *)
(* slaves, and a beat that is forwarded is, at both ends of the crossbar,  *)
(* the next one of the same burst.                                         *)
LEMMA BurstsStep ==
  ASSUME WriteConstants, TypeOK, NEW dS, NEW dM, NEW hS, NEW hM, Bursts(dS, dM, hS, hM),
         [Next]_vars
  PROVE  \E eS, eM, gS, gM : Bursts(eS, eM, gS, gM)'
<1> DEFINE Goal == \E eS, eM, gS, gM : Bursts(eS, eM, gS, gM)'
<1>t. /\ dS \in [Masters -> Seq(Requests)] /\ dM \in [Slaves -> Seq(Requests)]
      /\ hS \in [Masters -> Nat] /\ hM \in [Slaves -> Nat]
      /\ awQ \in [Masters -> Seq(Requests)] /\ todo \in [Masters -> Seq(Requests)]
      /\ wQ \in [Masters -> Seq(WBeats)] /\ beat \in [Masters -> Nat]
      /\ data \in [Slaves -> Seq(Requests)] /\ Held \in [Slaves -> Seq(Requests)]
      /\ sWQ \in [Slaves -> Seq(WBeats)] /\ nbeat \in [Slaves -> Nat]
  BY HeldType DEF Bursts, TypeOK
<1>r. RouteType(wdRoute) /\ Labelled(wdRoute, dS, dM) /\ Progress(wdRoute, hS, hM)
  BY DEF Bursts, TypeOK
<1>a. \A x \in Masters : Flow(Requests, dS[x] \o awQ[x], todo[x], hS[x], wQ[x], beat[x])
  BY DEF Bursts
<1>b. \A y \in Slaves : Receives(y, dM[y], hM[y])
  BY DEF Bursts
<1>n. 0 \in Nat /\ \A q \in Requests : q.len \in Nat
  BY LenNat
<1>c. \A a, b \in Seq(Requests), e \in Requests : a \o Append(b, e) = Append(a \o b, e)
  BY ConcatAppend
<1>m. \A a, b \in Seq(Requests) : b # <<>> => Append(a, Head(b)) \o Tail(b) = a \o b
  BY MoveHead
<1>h. \A a, b \in Seq(Requests) :
        a # <<>> => /\ Head(a \o b) = Head(a)
                    /\ Tail(a \o b) = Tail(a) \o b
  BY TailConcat
<1>w. \A P : \A rest \in Seq(Requests), q \in Requests, w \in Seq(WBeats), h \in Nat, n \in Nat :
        Flow(Requests, P, rest, h, w, n) => Flow(Requests, Append(P, q), Append(rest, q), h, w, n)
  BY FlowGrow
<1>p. \A P : \A rest \in Seq(Requests), w \in Seq(WBeats), h \in Nat, n \in Nat, b \in WBeats :
        rest # <<>> /\ Flow(Requests, P, rest, h, w, n) /\ b = [req |-> Head(rest), n |-> n]
          => /\ n = Head(rest).len => Flow(Requests, P, Tail(rest), h, Append(w, b), 0)
             /\ n # Head(rest).len => Flow(Requests, P, rest, h, Append(w, b), n + 1)
  <2> SUFFICES ASSUME NEW P, NEW rest \in Seq(Requests), rest # <<>>, NEW w \in Seq(WBeats),
                      NEW h \in Nat, NEW n \in Nat, Flow(Requests, P, rest, h, w, n),
                      NEW b \in WBeats, b = [req |-> Head(rest), n |-> n]
               PROVE  /\ n = Head(rest).len => Flow(Requests, P, Tail(rest), h, Append(w, b), 0)
                      /\ n # Head(rest).len => Flow(Requests, P, rest, h, Append(w, b), n + 1)
    OBVIOUS
  <2>. QED BY <1>n, FlowPut
<1>1. ASSUME NEW m \in Masters, NEW s \in Slaves, rl_wr_xaction_master_to_slave(m, s)
      PROVE  Goal
  <2>1. /\ awQ[m] # <<>> /\ awQ' = [awQ EXCEPT ![m] = Tail(@)]
        /\ wdRoute' = RouteEnq(wdRoute, m, s)
        /\ UNCHANGED <<wQ, todo, beat, data, sWQ, nbeat>>
    BY <1>1 DEF rl_wr_xaction_master_to_slave, CanSend, fv_mi_has_wr_for_sj
  <2>2. Held' = [Held EXCEPT ![s] = Append(@, Head(awQ[m]))]
    BY <1>1, SentHeld
  <2>3. awQ[m] \in Seq(Requests)
    BY <1>t
  <2>4. PICK q \in Requests : q = Head(awQ[m])
    BY <2>1, <2>3
  <2> DEFINE eS == [dS EXCEPT ![m] = Append(@, q)]
             eM == [dM EXCEPT ![s] = Append(@, q)]
  <2>5. eS \in [Masters -> Seq(Requests)] /\ eM \in [Slaves -> Seq(Requests)]
    BY <1>t
  <2>6. Labelled(wdRoute', eS, eM) /\ Progress(wdRoute', hS, hM)
    BY <1>r, <1>t, <2>1, LabelEnq, ProgressEnq
  <2>7. eS[m] \o Tail(awQ[m]) = dS[m] \o awQ[m]
    BY <1>m, <1>t, <2>1, <2>3, <2>4
  <2>8. \A x \in Masters : eS[x] \o awQ'[x] = dS[x] \o awQ[x]
    BY <1>t, <2>1, <2>7
  <2>9. \A y \in Slaves : y # s => eM[y] = dM[y] /\ Held'[y] = Held[y]
    BY <1>t, <2>2
  <2>10. eM[s] = Append(dM[s], q) /\ Held'[s] = Append(Held[s], q)
    BY <1>t, <2>2, <2>4
  <2> HIDE DEF eS, eM
  <2>11. \A x \in Masters : Flow(Requests, eS[x] \o awQ'[x], todo'[x], hS[x], wQ'[x], beat'[x])
    BY <1>a, <2>1, <2>8
  <2>12. Receives(s, eM[s], hM[s])'
    <3>1. PICK R \in Seq(Requests) : /\ Held[s] = data[s] \o R
                                     /\ Flow(Requests, R, dM[s], nbeat[s], sWQ[s], hM[s])
      BY <1>b DEF Receives
    <3>2. Flow(Requests, Append(R, q), eM[s], nbeat[s], sWQ[s], hM[s])
      BY <1>t, <1>w, <2>10, <3>1
    <3>3. Held'[s] = data[s] \o Append(R, q)
      <4>1. data[s] \in Seq(Requests)
        BY <1>t
      <4>2. data[s] \o Append(R, q) = Append(data[s] \o R, q)
        BY <1>c, <4>1
      <4>. QED BY <2>10, <3>1, <4>2
    <3>4. Append(R, q) \in Seq(Requests)
      BY <3>1
    <3>. QED BY <2>1, <3>2, <3>3, <3>4 DEF Receives
  <2>13. ASSUME NEW y \in Slaves, y # s  PROVE Receives(y, eM[y], hM[y])'
    BY <1>b, <2>1, <2>9, <2>13 DEF Receives
  <2>14. Bursts(eS, eM, hS, hM)'
    BY <1>t, <2>5, <2>6, <2>11, <2>12, <2>13 DEF Bursts
  <2>. QED BY <2>14
<1>2. ASSUME NEW m \in Masters, NEW s \in Slaves, rl_wr_xaction_master_to_slave_data(m, s)
      PROVE  Goal
  <2> DEFINE P == dS[m] \o awQ[m]
             d == Head(wQ[m])
  <2>1. /\ RouteMeet(wdRoute, m, s) /\ wQ[m] # <<>>
        /\ sWQ' = [sWQ EXCEPT ![s] = Append(@, d)]
        /\ wdRoute' = IF d.n = d.req.len THEN RouteDeq(wdRoute, m, s) ELSE wdRoute
        /\ wQ' = [wQ EXCEPT ![m] = Tail(@)]
        /\ UNCHANGED <<awQ, todo, beat, data, nbeat, srv, sAwQ>>
    BY <1>2 DEF rl_wr_xaction_master_to_slave_data
  <2>2. Held' = Held
    BY <2>1, SameHeld
  <2>3. /\ d = [req |-> Head(P), n |-> hS[m]]
        /\ hS[m] = Head(P).len => Flow(Requests, Tail(P), todo[m], 0, Tail(wQ[m]), beat[m])
        /\ hS[m] # Head(P).len => Flow(Requests, P, todo[m], hS[m] + 1, Tail(wQ[m]), beat[m])
    <3>1. /\ todo[m] \in Seq(Requests) /\ wQ[m] \in Seq(WBeats) /\ hS[m] \in Nat /\ beat[m] \in Nat
          /\ Flow(Requests, P, todo[m], hS[m], wQ[m], beat[m])
      BY <1>a, <1>t
    <3> HIDE DEF P
    <3>. QED BY GetBeat, <2>1, <3>1
  <2>4. /\ dS[m] # <<>> /\ dM[s] # <<>> /\ Head(dS[m]) = Head(dM[s])
        /\ Labelled(RouteDeq(wdRoute, m, s), [dS EXCEPT ![m] = Tail(@)], [dM EXCEPT ![s] = Tail(@)])
    BY <1>r, <1>t, <2>1, LabelDeq
  <2>5. Head(P) = Head(dS[m]) /\ Tail(P) = Tail(dS[m]) \o awQ[m]
    BY <1>h, <1>t, <2>4
  <2>6. hS[m] = hM[s]
    BY <1>r, <2>1 DEF Progress
  <2>7. PICK b \in WBeats : b = d
    <3>1. wQ[m] \in Seq(WBeats)
      BY <1>t
    <3>. QED BY <2>1, <3>1
  <2> HIDE DEF P, d
  <2>8. b = [req |-> Head(dM[s]), n |-> hM[s]] /\ d.n = hM[s] /\ d.req = Head(dM[s])
    BY <2>3, <2>4, <2>5, <2>6, <2>7
  <2>9. PICK R \in Seq(Requests) : /\ Held[s] = data[s] \o R
                                   /\ Flow(Requests, R, dM[s], nbeat[s], sWQ[s], hM[s])
    BY <1>b DEF Receives
  <2>10. /\ hM[s] = Head(dM[s]).len
              => Flow(Requests, R, Tail(dM[s]), nbeat[s], Append(sWQ[s], b), 0)
         /\ hM[s] # Head(dM[s]).len
              => Flow(Requests, R, dM[s], nbeat[s], Append(sWQ[s], b), hM[s] + 1)
    <3>1. dM[s] \in Seq(Requests) /\ sWQ[s] \in Seq(WBeats) /\ nbeat[s] \in Nat /\ hM[s] \in Nat
      BY <1>t
    <3>. QED BY <1>p, <2>4, <2>8, <2>9, <3>1
  <2>11. /\ wQ'[m] = Tail(wQ[m]) /\ sWQ'[s] = Append(sWQ[s], b)
         /\ \A x \in Masters : x # m => wQ'[x] = wQ[x]
         /\ \A y \in Slaves : y # s => sWQ'[y] = sWQ[y]
    BY <1>t, <2>1, <2>7
  <2>12. CASE hM[s] = Head(dM[s]).len
    <3> DEFINE eS == [dS EXCEPT ![m] = Tail(@)]
               eM == [dM EXCEPT ![s] = Tail(@)]
               gS == [hS EXCEPT ![m] = 0]
               gM == [hM EXCEPT ![s] = 0]
    <3>1. eS \in [Masters -> Seq(Requests)] /\ eM \in [Slaves -> Seq(Requests)]
      BY SMTT(30), <1>t, <2>4, DeqEntries
    <3>2. gS \in [Masters -> Nat] /\ gM \in [Slaves -> Nat]
      BY <1>t
    <3>3. wdRoute' = RouteDeq(wdRoute, m, s)
      BY <2>1, <2>8, <2>12
    <3>4. Labelled(wdRoute', eS, eM)
      BY <2>4, <3>3
    <3>5. Progress(wdRoute', gS, gM)
      <4>1. Progress(RouteDeq(wdRoute, m, s), gS, gM)
        BY <1>r, <1>t, <2>1, ProgressDeq
      <4>. QED BY <3>3, <4>1
    <3>6. /\ eS[m] = Tail(dS[m]) /\ eM[s] = Tail(dM[s]) /\ gS[m] = 0 /\ gM[s] = 0
          /\ \A x \in Masters : x # m => eS[x] = dS[x] /\ gS[x] = hS[x]
          /\ \A y \in Slaves : y # s => eM[y] = dM[y] /\ gM[y] = hM[y]
      BY <1>t
    <3> HIDE DEF eS, eM, gS, gM
    <3>7. Flow(Requests, eS[m] \o awQ'[m], todo'[m], gS[m], wQ'[m], beat'[m])
      BY <2>1, <2>3, <2>4, <2>5, <2>6, <2>11, <2>12, <3>6
    <3>8. \A x \in Masters :
            x # m => Flow(Requests, eS[x] \o awQ'[x], todo'[x], gS[x], wQ'[x], beat'[x])
      BY <1>a, <2>1, <2>11, <3>6
    <3>9. Receives(s, eM[s], gM[s])'
      BY <2>1, <2>2, <2>9, <2>10, <2>11, <2>12, <3>6 DEF Receives
    <3>10. ASSUME NEW y \in Slaves, y # s  PROVE Receives(y, eM[y], gM[y])'
      BY <1>b, <2>1, <2>2, <2>11, <3>6, <3>10 DEF Receives
    <3>11. Bursts(eS, eM, gS, gM)'
      BY <3>1, <3>2, <3>4, <3>5, <3>7, <3>8, <3>9, <3>10 DEF Bursts
    <3>. QED BY <3>11
  <2>13. CASE hM[s] # Head(dM[s]).len
    <3> DEFINE n  == hM[s] + 1
               gS == [hS EXCEPT ![m] = n]
               gM == [hM EXCEPT ![s] = n]
    <3>1. gS \in [Masters -> Nat] /\ gM \in [Slaves -> Nat]
      BY SMTT(30), <1>t
    <3>2. wdRoute' = wdRoute
      BY <2>1, <2>8, <2>13
    <3>3. Progress(wdRoute', gS, gM)
      BY <1>r, <1>t, <2>1, <3>2, ProgressBeat
    <3>4. /\ gS[m] = hM[s] + 1 /\ gM[s] = hM[s] + 1
          /\ \A x \in Masters : x # m => gS[x] = hS[x]
          /\ \A y \in Slaves : y # s => gM[y] = hM[y]
      BY <1>t
    <3> HIDE DEF n, gS, gM
    <3>5. Flow(Requests, dS[m] \o awQ'[m], todo'[m], gS[m], wQ'[m], beat'[m])
      BY <2>1, <2>3, <2>4, <2>5, <2>6, <2>11, <2>13, <3>4 DEF P
    <3>6. \A x \in Masters :
            x # m => Flow(Requests, dS[x] \o awQ'[x], todo'[x], gS[x], wQ'[x], beat'[x])
      BY <1>a, <2>1, <2>11, <3>4
    <3>7. Receives(s, dM[s], gM[s])'
      BY <2>1, <2>2, <2>9, <2>10, <2>11, <2>13, <3>4 DEF Receives
    <3>8. ASSUME NEW y \in Slaves, y # s  PROVE Receives(y, dM[y], gM[y])'
      BY <1>b, <2>1, <2>2, <2>11, <3>4, <3>8 DEF Receives
    <3>9. Bursts(dS, dM, gS, gM)'
      BY <1>r, <1>t, <3>1, <3>2, <3>3, <3>5, <3>6, <3>7, <3>8 DEF Bursts
    <3>. QED BY <3>9
  <2>. QED BY <2>12, <2>13
<1>3. ASSUME NEW m \in Masters, MasterIssue(m)  PROVE Goal
  <2>1. PICK q \in Requests : /\ awQ' = [awQ EXCEPT ![m] = Append(@, q)]
                              /\ todo' = [todo EXCEPT ![m] = Append(@, q)]
    BY <1>3 DEF MasterIssue, Requests
  <2>2. UNCHANGED <<wdRoute, wQ, beat, data, sWQ, nbeat, srv, sAwQ>>
    BY <1>3 DEF MasterIssue
  <2>3. Held' = Held
    BY <2>2, SameHeld
  <2>4. Flow(Requests, dS[m] \o Append(awQ[m], q), Append(todo[m], q), hS[m], wQ[m], beat[m])
    <3>1. dS[m] \o Append(awQ[m], q) = Append(dS[m] \o awQ[m], q)
      BY <1>c, <1>t
    <3> DEFINE P == dS[m] \o awQ[m]
    <3>2. /\ todo[m] \in Seq(Requests) /\ wQ[m] \in Seq(WBeats) /\ hS[m] \in Nat /\ beat[m] \in Nat
          /\ Flow(Requests, P, todo[m], hS[m], wQ[m], beat[m])
      BY <1>a, <1>t
    <3> HIDE DEF P
    <3>3. Flow(Requests, Append(P, q), Append(todo[m], q), hS[m], wQ[m], beat[m])
      BY <1>w, <3>2
    <3>. QED BY <3>1, <3>3 DEF P
  <2>5. \A x \in Masters : Flow(Requests, dS[x] \o awQ'[x], todo'[x], hS[x], wQ'[x], beat'[x])
    BY <1>a, <1>t, <2>1, <2>2, <2>4
  <2>6. ASSUME NEW y \in Slaves  PROVE Receives(y, dM[y], hM[y])'
    BY <1>b, <2>2, <2>3 DEF Receives
  <2>7. Bursts(dS, dM, hS, hM)'
    BY <1>r, <1>t, <2>2, <2>5, <2>6 DEF Bursts
  <2>. QED BY <2>7
<1>4. ASSUME NEW m \in Masters, MasterBeat(m)  PROVE Goal
  <2>1. /\ todo[m] # <<>>
        /\ wQ' = [wQ EXCEPT ![m] = Append(@, [req |-> Head(todo[m]), n |-> beat[m]])]
        /\ UNCHANGED <<wdRoute, awQ, data, sWQ, nbeat, srv, sAwQ>>
    BY <1>4 DEF MasterBeat
  <2>2. Held' = Held
    BY <2>1, SameHeld
  <2>3. /\ todo[m] \in Seq(Requests) /\ wQ[m] \in Seq(WBeats) /\ hS[m] \in Nat /\ beat[m] \in Nat
        /\ Head(todo[m]) \in Requests
    BY <1>t, <2>1
  <2>4. PICK b \in WBeats : b = [req |-> Head(todo[m]), n |-> beat[m]]
    BY <2>3 DEF WBeats
  <2>5. /\ beat[m] = Head(todo[m]).len
             => Flow(Requests, dS[m] \o awQ[m], Tail(todo[m]), hS[m], Append(wQ[m], b), 0)
        /\ beat[m] # Head(todo[m]).len
             => Flow(Requests, dS[m] \o awQ[m], todo[m], hS[m], Append(wQ[m], b), beat[m] + 1)
    <3> DEFINE P == dS[m] \o awQ[m]
    <3>1. Flow(Requests, P, todo[m], hS[m], wQ[m], beat[m])
      BY <1>a
    <3> HIDE DEF P
    <3>2. /\ beat[m] = Head(todo[m]).len
               => Flow(Requests, P, Tail(todo[m]), hS[m], Append(wQ[m], b), 0)
          /\ beat[m] # Head(todo[m]).len
               => Flow(Requests, P, todo[m], hS[m], Append(wQ[m], b), beat[m] + 1)
      BY <1>p, <2>1, <2>3, <2>4, <3>1
    <3>. QED BY <3>2 DEF P
  <2>6. /\ wQ'[m] = Append(wQ[m], b) /\ awQ' = awQ
        /\ \A x \in Masters : x # m => wQ'[x] = wQ[x]
    BY <1>t, <2>1, <2>4
  <2>7. /\ beat[m] = Head(todo[m]).len => beat'[m] = 0 /\ todo'[m] = Tail(todo[m])
        /\ beat[m] # Head(todo[m]).len => beat'[m] = beat[m] + 1 /\ todo'[m] = todo[m]
        /\ \A x \in Masters : x # m => beat'[x] = beat[x] /\ todo'[x] = todo[x]
    <3>1. CASE beat[m] = Head(todo[m]).len
      <4>1. beat' = [beat EXCEPT ![m] = 0] /\ todo' = [todo EXCEPT ![m] = Tail(@)]
        BY <1>4, <3>1 DEF MasterBeat
      <4>. QED BY <1>t, <3>1, <4>1
    <3>2. CASE beat[m] # Head(todo[m]).len
      <4>1. beat' = [beat EXCEPT ![m] = @ + 1] /\ todo' = todo
        BY <1>4, <3>2 DEF MasterBeat
      <4>. QED BY <1>t, <3>2, <4>1
    <3>. QED BY <3>1, <3>2
  <2>8. Flow(Requests, dS[m] \o awQ'[m], todo'[m], hS[m], wQ'[m], beat'[m])
    <3>1. CASE beat[m] = Head(todo[m]).len
      BY <2>5, <2>6, <2>7, <3>1
    <3>2. CASE beat[m] # Head(todo[m]).len
      BY <2>5, <2>6, <2>7, <3>2
    <3>. QED BY <3>1, <3>2
  <2>9. ASSUME NEW x \in Masters, x # m
        PROVE  Flow(Requests, dS[x] \o awQ'[x], todo'[x], hS[x], wQ'[x], beat'[x])
    BY <1>a, <2>6, <2>7, <2>9
  <2>10. ASSUME NEW y \in Slaves  PROVE Receives(y, dM[y], hM[y])'
    BY <1>b, <2>1, <2>2 DEF Receives
  <2>11. Bursts(dS, dM, hS, hM)'
    BY <1>r, <1>t, <2>1, <2>8, <2>9, <2>10 DEF Bursts
  <2>. QED BY <2>11
<1>5. ASSUME NEW s \in Slaves, SlaveData(s)  PROVE Goal
  <2>1. /\ sWQ[s] # <<>> /\ sWQ' = [sWQ EXCEPT ![s] = Tail(@)]
        /\ UNCHANGED <<wdRoute, awQ, wQ, todo, beat, srv, sAwQ>>
    BY <1>5 DEF SlaveData
  <2>2. Held' = Held
    BY <2>1, SameHeld
  <2>3. PICK R \in Seq(Requests) : /\ Held[s] = data[s] \o R
                                   /\ Flow(Requests, R, dM[s], nbeat[s], sWQ[s], hM[s])
    BY <1>b DEF Receives
  <2>4. dM[s] \in Seq(Requests) /\ sWQ[s] \in Seq(WBeats) /\ nbeat[s] \in Nat /\ hM[s] \in Nat
    BY <1>t
  <2>5. /\ R # <<>> /\ Head(sWQ[s]) = [req |-> Head(R), n |-> nbeat[s]]
        /\ nbeat[s] = Head(R).len => Flow(Requests, Tail(R), dM[s], 0, Tail(sWQ[s]), hM[s])
        /\ nbeat[s] # Head(R).len => Flow(Requests, R, dM[s], nbeat[s] + 1, Tail(sWQ[s]), hM[s])
    BY GetBeat, <2>1, <2>3, <2>4
  <2>6. /\ sWQ'[s] = Tail(sWQ[s])
        /\ \A y \in Slaves : y # s => sWQ'[y] = sWQ[y]
    BY <1>t, <2>1
  <2>7. /\ Head(sWQ[s]).n = nbeat[s] /\ Head(sWQ[s]).req = Head(R)
    BY <2>5
  <2>8. /\ nbeat[s] = Head(R).len => nbeat'[s] = 0 /\ data'[s] = Append(data[s], Head(R))
        /\ nbeat[s] # Head(R).len => nbeat'[s] = nbeat[s] + 1 /\ data'[s] = data[s]
        /\ \A y \in Slaves : y # s => nbeat'[y] = nbeat[y] /\ data'[y] = data[y]
    <3>1. CASE nbeat[s] = Head(R).len
      <4>1. /\ data' = [data EXCEPT ![s] = Append(@, Head(R))]
            /\ nbeat' = [nbeat EXCEPT ![s] = 0]
        BY <1>5, <2>7, <3>1 DEF SlaveData
      <4>. QED BY <1>t, <3>1, <4>1
    <3>2. CASE nbeat[s] # Head(R).len
      <4>1. data' = data /\ nbeat' = [nbeat EXCEPT ![s] = @ + 1]
        BY <1>5, <2>7, <3>2 DEF SlaveData
      <4>. QED BY <1>t, <3>2, <4>1
    <3>. QED BY <3>1, <3>2
  <2>9. Receives(s, dM[s], hM[s])'
    <3>1. CASE nbeat[s] = Head(R).len
      <4>1. data[s] \in Seq(Requests) /\ Tail(R) \in Seq(Requests)
        BY <1>t, <2>5
      <4>2. Append(data[s], Head(R)) \o Tail(R) = data[s] \o R
        BY <1>m, <2>5, <4>1
      <4>. QED BY <2>2, <2>3, <2>5, <2>6, <2>8, <3>1, <4>1, <4>2 DEF Receives
    <3>2. CASE nbeat[s] # Head(R).len
      BY <2>2, <2>3, <2>5, <2>6, <2>8, <3>2 DEF Receives
    <3>. QED BY <3>1, <3>2
  <2>10. ASSUME NEW y \in Slaves, y # s  PROVE Receives(y, dM[y], hM[y])'
    BY <1>b, <2>2, <2>6, <2>8, <2>10 DEF Receives
  <2>11. \A x \in Masters : Flow(Requests, dS[x] \o awQ'[x], todo'[x], hS[x], wQ'[x], beat'[x])
    BY <1>a, <2>1
  <2>12. Bursts(dS, dM, hS, hM)'
    BY <1>r, <1>t, <2>1, <2>9, <2>10, <2>11 DEF Bursts
  <2>. QED BY <2>12
<1>6. ASSUME NEW s \in Slaves, SlaveAnswer(s)  PROVE Goal
  <2>1. /\ data[s] # <<>> /\ data' = [data EXCEPT ![s] = Tail(@)]
        /\ UNCHANGED <<wdRoute, awQ, wQ, todo, beat, sWQ, nbeat>>
    BY <1>6 DEF SlaveAnswer
  <2>2. Held' = [Held EXCEPT ![s] = Tail(@)]
    BY <1>6, AnsweredHeld
  <2>3. PICK R \in Seq(Requests) : /\ Held[s] = data[s] \o R
                                   /\ Flow(Requests, R, dM[s], nbeat[s], sWQ[s], hM[s])
    BY <1>b DEF Receives
  <2>4. Tail(data[s] \o R) = Tail(data[s]) \o R
    BY <1>h, <1>t, <2>1, <2>3
  <2>5. /\ data'[s] = Tail(data[s]) /\ Held'[s] = Tail(Held[s])
        /\ \A y \in Slaves : y # s => data'[y] = data[y] /\ Held'[y] = Held[y]
    BY <1>t, <2>1, <2>2
  <2>6. Receives(s, dM[s], hM[s])'
    BY <2>1, <2>3, <2>4, <2>5 DEF Receives
  <2>7. ASSUME NEW y \in Slaves, y # s  PROVE Receives(y, dM[y], hM[y])'
    BY <1>b, <2>1, <2>5, <2>7 DEF Receives
  <2>8. \A x \in Masters : Flow(Requests, dS[x] \o awQ'[x], todo'[x], hS[x], wQ'[x], beat'[x])
    BY <1>a, <2>1
  <2>9. Bursts(dS, dM, hS, hM)'
    BY <1>r, <1>t, <2>1, <2>6, <2>7, <2>8 DEF Bursts
  <2>. QED BY <2>9
<1>7. ASSUME UNCHANGED <<wdRoute, awQ, wQ, todo, beat, data, sWQ, nbeat>>, Held' = Held
      PROVE  Goal
  <2>1. ASSUME NEW y \in Slaves  PROVE Receives(y, dM[y], hM[y])'
    BY <1>b, <1>7 DEF Receives
  <2>2. Bursts(dS, dM, hS, hM)'
    BY <1>a, <1>r, <1>t, <1>7, <2>1 DEF Bursts
  <2>. QED BY <2>2
<1>8. ASSUME NEW m \in Masters, NEW s \in Slaves,
             rl_wr_resp_slave_to_master(m, s) \/ MasterTake(m) \/ SlaveAddr(s) \/ UNCHANGED vars
      PROVE  Goal
  <2>1. UNCHANGED <<wdRoute, awQ, wQ, todo, beat, data, sWQ, nbeat>>
    BY <1>8 DEF rl_wr_resp_slave_to_master, MasterTake, SlaveAddr, vars
  <2>2. Held' = Held
    BY <1>8, RespondedHeld, TakenHeld, SameHeld DEF MasterTake, vars
  <2>. QED BY <1>7, <2>1, <2>2
<1>9. Masters # {} /\ Slaves # {}
  BY NMAssumption, NSAssumption DEF Masters, Slaves
<1> HIDE DEF Goal
<1>10. Goal
  BY <1>1, <1>2, <1>3, <1>4, <1>5, <1>6, <1>8, <1>9 DEF Next, SendTo, SendData, Respond
<1>. QED BY <1>10 DEF Goal

----------------------------------------------------------------------------
(* The invariant is inductive and holds in every run.                      *)
LEMMA StepOK == WriteConstants /\ IInv /\ [Next]_vars => IInv'
<1> SUFFICES ASSUME WriteConstants, IInv, [Next]_vars  PROVE IInv'
  OBVIOUS
<1>1. TypeOK'
  BY TypeStep DEF IInv
<1>2. Addressed'
  BY AddressedStep DEF IInv
<1>3. PICK aS : Responses(aS)
  BY DEF IInv
<1>4. \E bS : Responses(bS)'
  BY <1>3, ResponsesStep DEF IInv
<1>5. PICK dS, dM, hS, hM : Bursts(dS, dM, hS, hM)
  BY DEF IInv
<1>6. \E eS, eM, gS, gM : Bursts(eS, eM, gS, gM)'
  BY <1>5, BurstsStep DEF IInv
<1>. QED BY <1>1, <1>2, <1>4, <1>6 DEF IInv

(* The invariant holds in every behaviour.                                 *)
LEMMA Invariance ==
  ASSUME WriteConstants
  PROVE  Spec => []IInv
<1>1. Init => IInv
  BY InitOK
<1>2. IInv /\ [Next]_vars => IInv'
  BY StepOK
<1>. QED BY <1>1, <1>2, PTL DEF Spec

(* Every FIFO of the write half holds what the code puts in it and stays   *)
(* within its depth.                                                       *)
THEOREM TypeCorrect ==
  ASSUME WriteConstants
  PROVE  Spec => []TypeOK
<1>1. IInv => TypeOK
  BY DEF IInv
<1>. QED BY Invariance, <1>1, PTL

(* However the masters spread their writes over the slaves, neither the    *)
(* data rules nor the response rules wait for each other in a circle.      *)
THEOREM NoCircularWait ==
  ASSUME WriteConstants
  PROVE  Spec => []RoutesMeet
<1>1. IInv => RoutesMeet
  <2> SUFFICES ASSUME IInv  PROVE RoutesMeet
    OBVIOUS
  <2>1. RouteType(wdRoute) /\ RouteType(wrRoute)
    BY DEF IInv, TypeOK
  <2>2. OneOrder(wdRoute)
    <3>1. PICK dS, dM, hS, hM : Bursts(dS, dM, hS, hM)
      BY DEF IInv
    <3>2. Labelled(wdRoute, dS, dM)
      BY <3>1 DEF Bursts
    <3>. QED BY <3>2, LabelledOrder
  <2>3. OneOrder(wrRoute)
    <3>1. PICK aS : Responses(aS)
      BY DEF IInv
    <3>2. Labelled(wrRoute, aS, Backlog)
      BY <3>1 DEF Responses
    <3>. QED BY <3>2, LabelledOrder
  <2>. QED BY <2>1, <2>2, <2>3, OneOrderHeadsMeet DEF RoutesMeet
<1>. QED BY Invariance, <1>1, PTL

(* The k-th data burst a slave gets is that of the k-th address it gets,   *)
(* its beats come one after the other from the first to the last, and they *)
(* are at the slave their address names.                                   *)
THEOREM DataIsAddressed ==
  ASSUME WriteConstants
  PROVE  Spec => []DataFollowsAddress
<1>1. IInv => DataFollowsAddress
  <2> SUFFICES ASSUME IInv, NEW s \in Slaves
               PROVE  /\ \A i \in 1 .. Len(srv[s]) : i <= Len(data[s]) => data[s][i] = srv[s][i]
                      /\ sWQ[s] # <<>> => Head(sWQ[s]).n = nbeat[s] /\ Head(sWQ[s]).req.dst = s
    BY DEF DataFollowsAddress
  <2>t. /\ srv[s] \in Seq(Requests) /\ sAwQ[s] \in Seq(Requests) /\ data[s] \in Seq(Requests)
        /\ sWQ[s] \in Seq(WBeats) /\ nbeat[s] \in Nat
    BY DEF IInv, TypeOK
  <2>1. PICK dS, dM, hS, hM : Bursts(dS, dM, hS, hM)
    BY DEF IInv
  <2>2. dM[s] \in Seq(Requests) /\ hM[s] \in Nat /\ Receives(s, dM[s], hM[s])
    BY <2>1 DEF Bursts
  <2>3. PICK R \in Seq(Requests) : /\ Held[s] = data[s] \o R
                                   /\ Flow(Requests, R, dM[s], nbeat[s], sWQ[s], hM[s])
    BY <2>2 DEF Receives
  <2>4. ASSUME NEW i \in 1 .. Len(srv[s]), i <= Len(data[s])  PROVE data[s][i] = srv[s][i]
    <3>1. Held[s] = srv[s] \o sAwQ[s]
      BY DEF Held
    <3>2. Len(srv[s]) \in Nat /\ Len(data[s]) \in Nat /\ Len(sAwQ[s]) \in Nat /\ Len(R) \in Nat
      BY <2>t
    <3>3. i \in 1..Len(srv[s]) + Len(sAwQ[s]) /\ i \in 1..Len(data[s]) + Len(R) /\ i <= Len(srv[s])
      <4>1. \A a, b, c, d \in Nat : \A j \in 1..a :
              j <= c => j \in 1..a + b /\ j \in 1..c + d /\ j <= a
        OBVIOUS
      <4>. QED BY <2>4, <3>2, <4>1
    <3>4. (srv[s] \o sAwQ[s])[i] = srv[s][i]
      BY <2>t, <3>3, ConcatProperties
    <3>5. (data[s] \o R)[i] = data[s][i]
      BY <2>t, <2>4, <3>3, ConcatProperties
    <3>. QED BY <2>3, <3>1, <3>4, <3>5
  <2>5. ASSUME sWQ[s] # <<>>  PROVE Head(sWQ[s]).n = nbeat[s] /\ Head(sWQ[s]).req.dst = s
    <3>1. R # <<>> /\ Head(sWQ[s]) = [req |-> Head(R), n |-> nbeat[s]]
      <4>1. dM[s] \in Seq(Requests) /\ hM[s] \in Nat
        BY <2>2
      <4>2. Flow(Requests, R, dM[s], nbeat[s], sWQ[s], hM[s])
        BY <2>3
      <4>. QED BY <2>5, <2>t, <4>1, <4>2, GetBeat
    <3>2. /\ Len(data[s]) + 1 \in 1..Len(Held[s])
          /\ Held[s][Len(data[s]) + 1] = Head(R)
      BY <2>3, <2>t, <3>1, ConcatNext
    <3>3. Head(R).dst = s
      BY <3>2 DEF IInv, Addressed
    <3>. QED BY <3>1, <3>3
  <2>. QED BY <2>4, <2>5
<1>. QED BY Invariance, <1>1, PTL

----------------------------------------------------------------------------
(* The abstract port: a master has asked for what is out, and no write is  *)
(* partly answered.                                                        *)
Port == INSTANCE InOrderPorts WITH
          Ports <- Masters, Beats <- [q \in Requests |-> 1],
          asked <- out, got <- [m \in Masters |-> 0]

(* What each master sees: one response per write, in the order of its      *)
(* writes, although the crossbar compares no ids.                          *)
THEOREM WritesInOrder ==
  ASSUME WriteConstants
  PROVE  Spec => Port!Safe
<1>1. Init => Port!Init
  BY DEF Init, Port!Init
<1>2. IInv /\ [Next]_vars => [Port!Next]_(Port!vars)
  <2> SUFFICES ASSUME IInv, [Next]_vars  PROVE [Port!Next]_(Port!vars)
    OBVIOUS
  <2>t. out \in [Masters -> Seq(Requests)] /\ bRsp \in [Masters -> Seq(Requests)]
    BY DEF IInv, TypeOK
  <2>1. ASSUME NEW m \in Masters, MasterIssue(m)  PROVE Port!Next
    <3>1. PICK q \in Requests : out' = [out EXCEPT ![m] = Append(@, q)]
      BY <2>1 DEF MasterIssue, Requests
    <3>2. Port!Ask(m)
      BY <3>1 DEF Port!Ask
    <3>. QED BY <3>2 DEF Port!Next
  <2>2. ASSUME NEW m \in Masters, MasterTake(m)  PROVE Port!Next
    <3>1. PICK i \in 1 .. Len(out[m]) :
            /\ out[m][i] = Head(bRsp[m])
            /\ \A j \in 1 .. i - 1 : out[m][j] # out[m][i]
            /\ out' = [out EXCEPT ![m] = SubSeq(@, 1, i - 1) \o SubSeq(@, i + 1, Len(@))]
      BY <2>2 DEF MasterTake
    <3>2. bRsp[m] # <<>>
      BY <2>2 DEF MasterTake
    <3>3. PICK aS : Responses(aS)
      BY DEF IInv
    <3>4. /\ out[m] \in Seq(Requests) /\ bRsp[m] \in Seq(Requests)
          /\ aS[m] \in Seq(Requests) /\ awQ[m] \in Seq(Requests)
          /\ out[m] = bRsp[m] \o (aS[m] \o awQ[m])
      BY <3>3 DEF Responses, IInv, TypeOK
    <3>5. aS[m] \o awQ[m] \in Seq(Requests)
      BY <3>4, ConcatProperties
    <3>6. out[m] # <<>> /\ Head(out[m]) = Head(bRsp[m])
      <4>1. LET z == bRsp[m] \o (aS[m] \o awQ[m])
            IN  z # <<>> /\ Head(z) = Head(bRsp[m])
        BY <3>2, <3>4, <3>5, TailConcat
      <4>. QED BY <3>4, <4>1
    <3>7. SubSeq(out[m], 1, i - 1) \o SubSeq(out[m], i + 1, Len(out[m])) = Tail(out[m])
      BY <3>1, <3>4, <3>6, RemoveFirst
    <3>8. out' = [out EXCEPT ![m] = Tail(@)]
      BY <3>1, <3>7
    <3>9. Head(out[m]) \in Requests
      <4>1. out[m] \in Seq(Requests)
        BY <2>t
      <4>. QED BY <3>6, <4>1
    <3> DEFINE beats == [q \in Requests |-> 1]
               got   == [x \in Masters |-> 0]
    <3>10. got[m] + 1 = beats[Head(out[m])] /\ got = [got EXCEPT ![m] = 0]
      BY <3>9
    <3>11. Port!Answer(m)
      BY <3>6, <3>8, <3>10 DEF Port!Answer
    <3>. QED BY <3>11 DEF Port!Next
  <2>3. ASSUME out' = out  PROVE UNCHANGED Port!vars
    BY <2>3 DEF Port!vars
  <2>. QED
    BY <2>1, <2>2, <2>3
       DEF Next, vars, SendTo, SendData, Respond, rl_wr_xaction_master_to_slave,
           rl_wr_xaction_master_to_slave_data, rl_wr_resp_slave_to_master, MasterBeat,
           SlaveAddr, SlaveData, SlaveAnswer
<1>. QED BY <1>1, <1>2, Invariance, PTL DEF Spec, Port!Safe
=============================================================================
