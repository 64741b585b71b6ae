-------------------------- MODULE RoutePairProofs --------------------------
(***************************************************************************)
(* OneOrder is preserved by the two ways the crossbar changes a pair of    *)
(* route FIFOs, and it implies that their heads always meet.  Then what    *)
(* the proofs of both halves share about the transactions that a pair of   *)
(* route FIFOs stands for: a labelling of its entries with requests, the   *)
(* progress of the one at the head, and a stream that moves through a      *)
(* chain of FIFOs without loss or overtaking.                              *)
(***************************************************************************)
EXTENDS RoutePair, WellFoundedInduction, SequenceTheorems, TLAPS

(* What enqueuing and dequeuing do to one FIFO of a family of FIFOs, entry *)
(* by entry.                                                               *)
LEMMA EnqEntries ==
  ASSUME NEW X, NEW S, NEW f \in [X -> Seq(S)], NEW x \in X, NEW e \in S
  PROVE  LET g == [f EXCEPT ![x] = Append(@, e)]
         IN  /\ g \in [X -> Seq(S)]
             /\ Len(f[x]) \in Nat /\ Len(g[x]) = Len(f[x]) + 1
             /\ g[x][Len(f[x]) + 1] = e
             /\ \A i \in 1..Len(f[x]) : g[x][i] = f[x][i]
             /\ \A z \in X : z # x => g[z] = f[z]
  OBVIOUS

(* What a dequeue leaves of one FIFO of the family: every entry moves up.  *)
LEMMA DeqEntries ==
  ASSUME NEW X, NEW S, NEW f \in [X -> Seq(S)], NEW x \in X, f[x] # <<>>
  PROVE  LET g == [f EXCEPT ![x] = Tail(@)]
         IN  /\ g \in [X -> Seq(S)]
             /\ Len(f[x]) \in Nat /\ Len(f[x]) >= 1 /\ Len(g[x]) = Len(f[x]) - 1
             /\ Head(f[x]) = f[x][1]
             /\ \A i \in 1..Len(g[x]) : g[x][i] = f[x][i + 1]
             /\ \A z \in X : z # x => g[z] = f[z]
  OBVIOUS

(* A bounded FIFO of the family with room takes one more item.             *)
LEMMA ShortAppend ==
  ASSUME NEW X, NEW S, NEW f \in [X -> Seq(S)], NEW d \in Nat, \A x \in X : Len(f[x]) <= d,
         NEW x \in X, Len(f[x]) < d, NEW e \in S
  PROVE  LET g == [f EXCEPT ![x] = Append(@, e)]
         IN  g \in [X -> Seq(S)] /\ \A z \in X : Len(g[z]) <= d
<1> DEFINE g == [f EXCEPT ![x] = Append(@, e)]
<1>1. /\ g \in [X -> Seq(S)] /\ Len(f[x]) \in Nat /\ Len(g[x]) = Len(f[x]) + 1
      /\ \A z \in X : z # x => g[z] = f[z]
  BY EnqEntries
<1> HIDE DEF g
<1>2. Len(g[x]) <= d
  BY <1>1
<1>. QED BY <1>1, <1>2 DEF g

(* And gives one up.                                                       *)
LEMMA ShortTail ==
  ASSUME NEW X, NEW S, NEW f \in [X -> Seq(S)], NEW d \in Nat, \A x \in X : Len(f[x]) <= d,
         NEW x \in X, f[x] # <<>>
  PROVE  LET g == [f EXCEPT ![x] = Tail(@)]
         IN  g \in [X -> Seq(S)] /\ \A z \in X : Len(g[z]) <= d
<1> DEFINE g == [f EXCEPT ![x] = Tail(@)]
<1>1. /\ g \in [X -> Seq(S)] /\ Len(f[x]) \in Nat /\ Len(g[x]) = Len(f[x]) - 1
      /\ \A z \in X : z # x => g[z] = f[z]
  BY DeqEntries
<1> HIDE DEF g
<1>2. Len(f[x]) <= d
  OBVIOUS
<1>3. Len(g[x]) <= d
  BY <1>1, <1>2
<1>. QED BY <1>1, <1>3 DEF g

(* Dates stay ordered when the clock's value is appended, and when the     *)
(* oldest is removed.                                                      *)
LEMMA EnqOrdered ==
  ASSUME NEW X, NEW t \in [X -> Seq(Nat)], NEW now \in Nat, Ordered(X, t, now),
         NEW x \in X
  PROVE  Ordered(X, [t EXCEPT ![x] = Append(@, now)], now + 1)
<1> DEFINE u == [t EXCEPT ![x] = Append(@, now)]
<1>1. /\ Len(t[x]) \in Nat /\ Len(u[x]) = Len(t[x]) + 1 /\ u[x][Len(t[x]) + 1] = now
      /\ \A i \in 1..Len(t[x]) : u[x][i] = t[x][i]
      /\ \A z \in X : z # x => u[z] = t[z]
  BY EnqEntries
<1>2. \A z \in X : \A i \in 1..Len(t[z]) : t[z][i] \in Nat
  OBVIOUS
<1> HIDE DEF u
<1> SUFFICES ASSUME NEW z \in X, NEW i \in 1..Len(u[z])
             PROVE  u[z][i] < now + 1 /\ \A j \in 1..Len(u[z]) : i < j => u[z][i] < u[z][j]
  BY DEF Ordered, u
<1>3. CASE z = x
  <2> DEFINE a == Len(t[x])
  <2>1. i \in 1..(a + 1) /\ Len(u[z]) = a + 1 /\ a \in Nat
    BY <1>1, <1>3
  <2>2. \A k \in 1..a : u[z][k] = t[x][k] /\ t[x][k] \in Nat /\ t[x][k] < now
    BY <1>1, <1>2, <1>3 DEF Ordered
  <2>3. \A k, j \in 1..a : k < j => t[x][k] < t[x][j]
    BY DEF Ordered
  <2>4. u[z][a + 1] = now
    BY <1>1, <1>3
  <2> HIDE DEF a
  <2>5. \A k \in 1..(a + 1) : k \in 1..a \/ k = a + 1
    BY <2>1
  <2>6. u[z][i] < now + 1
    <3>1. CASE i = a + 1
      BY <2>4, <3>1
    <3>2. CASE i \in 1..a
      <4>1. u[z][i] \in Nat /\ u[z][i] < now
        BY <2>2, <3>2
      <4>. QED BY <4>1
    <3>. QED BY <2>1, <2>5, <3>1, <3>2
  <2>7. ASSUME NEW j \in 1..(a + 1), i < j  PROVE u[z][i] < u[z][j]
    <3>1. i \in 1..a
      BY <2>1, <2>7
    <3>2. CASE j = a + 1
      BY <2>2, <2>4, <3>1, <3>2
    <3>3. CASE j \in 1..a
      BY <2>2, <2>3, <2>7, <3>1, <3>3
    <3>. QED BY <2>5, <3>2, <3>3
  <2>. QED BY <2>1, <2>6, <2>7
<1>4. CASE z # x
  <2>1. u[z] = t[z] /\ i \in 1..Len(t[z])
    BY <1>1, <1>4
  <2>2. t[z][i] < now /\ \A j \in 1..Len(t[z]) : i < j => t[z][i] < t[z][j]
    BY <2>1 DEF Ordered
  <2>3. t[z][i] < now + 1
    <3>1. t[z][i] \in Nat
      BY <1>2, <2>1
    <3>. QED BY <2>2, <3>1
  <2>. QED BY <2>1, <2>2, <2>3
<1>. QED BY <1>3, <1>4

(* Dates that rise along each FIFO still do after a dequeue.               *)
LEMMA DeqOrdered ==
  ASSUME NEW X, NEW t \in [X -> Seq(Nat)], NEW now \in Nat, Ordered(X, t, now),
         NEW x \in X, t[x] # <<>>
  PROVE  Ordered(X, [t EXCEPT ![x] = Tail(@)], now)
<1> DEFINE u == [t EXCEPT ![x] = Tail(@)]
<1>1. /\ Len(t[x]) \in Nat /\ Len(t[x]) >= 1 /\ Len(u[x]) = Len(t[x]) - 1
      /\ \A i \in 1..Len(u[x]) : u[x][i] = t[x][i + 1]
      /\ \A z \in X : z # x => u[z] = t[z]
  BY DeqEntries
<1> HIDE DEF u
<1> SUFFICES ASSUME NEW z \in X, NEW i \in 1..Len(u[z])
             PROVE  u[z][i] < now /\ \A j \in 1..Len(u[z]) : i < j => u[z][i] < u[z][j]
  BY DEF Ordered, u
<1>2. CASE z = x
  <2> DEFINE a == Len(t[x])
  <2>1. i \in 1..(a - 1) /\ Len(u[z]) = a - 1 /\ a \in Nat
    BY <1>1, <1>2
  <2>2. \A k \in 1..(a - 1) : u[z][k] = t[x][k + 1]
    BY <1>1, <1>2
  <2>3. \A k \in 1..a : t[x][k] < now
    BY DEF Ordered
  <2>4. \A k, j \in 1..a : k < j => t[x][k] < t[x][j]
    BY DEF Ordered
  <2> HIDE DEF a
  <2>5. \A k \in 1..(a - 1) : k \in 1..a /\ k + 1 \in 1..a
    BY <2>1
  <2>6. u[z][i] < now
    BY <2>1, <2>2, <2>3, <2>5
  <2>7. ASSUME NEW j \in 1..(a - 1), i < j  PROVE u[z][i] < u[z][j]
    <3>1. i + 1 < j + 1
      BY <2>1, <2>7
    <3>. QED BY <2>1, <2>2, <2>4, <2>5, <3>1
  <2>. QED BY <2>1, <2>6, <2>7
<1>3. CASE z # x
  BY <1>1, <1>3 DEF Ordered
<1>. QED BY <1>2, <1>3

----------------------------------------------------------------------------
(* The FIFOs are empty after reset.                                        *)
LEMMA RouteEmptyOK == RouteType(RouteEmpty) /\ OneOrder(RouteEmpty)
<1> DEFINE tS == [m \in Masters |-> <<>>]
           tM == [s \in Slaves |-> <<>>]
<1>1. RouteType(RouteEmpty)
  BY DEF RouteType, RouteEmpty
<1>2. Dated(RouteEmpty.fS, RouteEmpty.fM, tS, tM, 0)
  BY DEF Dated, Ordered, RouteEmpty
<1>. QED BY <1>1, <1>2 DEF OneOrder

(* An address rule, which enqueues both FIFOs, keeps the global order: the *)
(* new transaction is the youngest of all.                                 *)
LEMMA EnqDated ==
  ASSUME NEW fS \in [Masters -> Seq(Slaves)], NEW fM \in [Slaves -> Seq(Masters)],
         NEW tS, NEW tM, NEW now, Dated(fS, fM, tS, tM, now),
         NEW m \in Masters, NEW s \in Slaves
  PROVE  Dated([fS EXCEPT ![m] = Append(@, s)], [fM EXCEPT ![s] = Append(@, m)],
               [tS EXCEPT ![m] = Append(@, now)], [tM EXCEPT ![s] = Append(@, now)],
               now + 1)
<1> DEFINE gS == [fS EXCEPT ![m] = Append(@, s)]
           gM == [fM EXCEPT ![s] = Append(@, m)]
           uS == [tS EXCEPT ![m] = Append(@, now)]
           uM == [tM EXCEPT ![s] = Append(@, now)]
           a == Len(fS[m])
           b == Len(fM[s])
<1>1. /\ tS \in [Masters -> Seq(Nat)] /\ tM \in [Slaves -> Seq(Nat)] /\ now \in Nat
      /\ Len(tS[m]) = a /\ Len(tM[s]) = b
      /\ \A x \in Masters : Len(tS[x]) = Len(fS[x])
      /\ \A y \in Slaves : Len(tM[y]) = Len(fM[y])
  BY DEF Dated
<1>2. Ordered(Masters, uS, now + 1) /\ Ordered(Slaves, uM, now + 1)
  BY <1>1, EnqOrdered DEF Dated
<1>3. /\ gS \in [Masters -> Seq(Slaves)] /\ a \in Nat
      /\ Len(gS[m]) = a + 1 /\ gS[m][a + 1] = s
      /\ \A i \in 1..a : gS[m][i] = fS[m][i]
      /\ \A x \in Masters : x # m => gS[x] = fS[x]
  BY EnqEntries
<1>4. /\ gM \in [Slaves -> Seq(Masters)] /\ b \in Nat
      /\ Len(gM[s]) = b + 1 /\ gM[s][b + 1] = m
      /\ \A j \in 1..b : gM[s][j] = fM[s][j]
      /\ \A y \in Slaves : y # s => gM[y] = fM[y]
  BY EnqEntries
<1> HIDE DEF a, b
<1>5. /\ uS \in [Masters -> Seq(Nat)]
      /\ Len(uS[m]) = a + 1 /\ uS[m][a + 1] = now
      /\ \A i \in 1..a : uS[m][i] = tS[m][i]
      /\ \A x \in Masters : x # m => uS[x] = tS[x]
  BY <1>1
<1>6. /\ uM \in [Slaves -> Seq(Nat)]
      /\ Len(uM[s]) = b + 1 /\ uM[s][b + 1] = now
      /\ \A j \in 1..b : uM[s][j] = tM[s][j]
      /\ \A y \in Slaves : y # s => uM[y] = tM[y]
  BY <1>1
<1> HIDE DEF gS, gM, uS, uM
<1>7. \A x \in Masters : \A i \in 1..Len(fS[x]) :
        /\ fS[x][i] \in Slaves /\ i \in 1..Len(gS[x])
        /\ gS[x][i] = fS[x][i] /\ uS[x][i] = tS[x][i]
  <2> SUFFICES ASSUME NEW x \in Masters, NEW i \in 1..Len(fS[x])
               PROVE  /\ fS[x][i] \in Slaves /\ i \in 1..Len(gS[x])
                      /\ gS[x][i] = fS[x][i] /\ uS[x][i] = tS[x][i]
    OBVIOUS
  <2>1. CASE x = m
    BY SMTT(30), <1>3, <1>5, <2>1 DEF a
  <2>2. CASE x # m
    BY <1>3, <1>5, <2>2
  <2>. QED BY <2>1, <2>2
<1>8. \A y \in Slaves : \A j \in 1..Len(fM[y]) :
        /\ fM[y][j] \in Masters /\ j \in 1..Len(gM[y])
        /\ gM[y][j] = fM[y][j] /\ uM[y][j] = tM[y][j]
  <2> SUFFICES ASSUME NEW y \in Slaves, NEW j \in 1..Len(fM[y])
               PROVE  /\ fM[y][j] \in Masters /\ j \in 1..Len(gM[y])
                      /\ gM[y][j] = fM[y][j] /\ uM[y][j] = tM[y][j]
    OBVIOUS
  <2>1. CASE y = s
    BY SMTT(30), <1>4, <1>6, <2>1 DEF b
  <2>2. CASE y # s
    BY <1>4, <1>6, <2>2
  <2>. QED BY <2>1, <2>2
<1>9. ASSUME NEW x \in Masters, NEW i \in 1..Len(gS[x])
      PROVE  TwinOfS(gS, gM, uS, uM, x, i)
  <2>1. CASE x = m /\ i = a + 1
    <3>1. gS[x][i] = s /\ uS[x][i] = now
      BY <1>3, <1>5, <2>1
    <3>2. b + 1 \in 1..Len(gM[s]) /\ gM[s][b + 1] = x /\ uM[s][b + 1] = now
      BY <1>4, <1>6, <2>1
    <3>. QED BY <3>1, <3>2 DEF TwinOfS
  <2>2. CASE ~(x = m /\ i = a + 1)
    <3>1. i \in 1..Len(fS[x])
      BY <1>3, <2>2 DEF a
    <3>2. TwinOfS(fS, fM, tS, tM, x, i)
      BY <3>1 DEF Dated
    <3>3. PICK j \in 1..Len(fM[fS[x][i]]) :
            fM[fS[x][i]][j] = x /\ tM[fS[x][i]][j] = tS[x][i]
      BY <3>2 DEF TwinOfS
    <3>4. gS[x][i] = fS[x][i] /\ uS[x][i] = tS[x][i] /\ fS[x][i] \in Slaves
      BY <1>7, <3>1
    <3>5. /\ j \in 1..Len(gM[gS[x][i]])
          /\ gM[gS[x][i]][j] = x /\ uM[gS[x][i]][j] = uS[x][i]
      BY <1>8, <3>3, <3>4
    <3>. QED BY <3>5 DEF TwinOfS
  <2>. QED BY <2>1, <2>2
<1>10. ASSUME NEW y \in Slaves, NEW j \in 1..Len(gM[y])
       PROVE  TwinOfM(gS, gM, uS, uM, y, j)
  <2>1. CASE y = s /\ j = b + 1
    <3>1. gM[y][j] = m /\ uM[y][j] = now
      BY <1>4, <1>6, <2>1
    <3>2. a + 1 \in 1..Len(gS[m]) /\ gS[m][a + 1] = y /\ uS[m][a + 1] = now
      BY <1>3, <1>5, <2>1
    <3>. QED BY <3>1, <3>2 DEF TwinOfM
  <2>2. CASE ~(y = s /\ j = b + 1)
    <3>1. j \in 1..Len(fM[y])
      BY <1>4, <2>2 DEF b
    <3>2. TwinOfM(fS, fM, tS, tM, y, j)
      BY <3>1 DEF Dated
    <3>3. PICK i \in 1..Len(fS[fM[y][j]]) :
            fS[fM[y][j]][i] = y /\ tS[fM[y][j]][i] = tM[y][j]
      BY <3>2 DEF TwinOfM
    <3>4. gM[y][j] = fM[y][j] /\ uM[y][j] = tM[y][j] /\ fM[y][j] \in Masters
      BY <1>8, <3>1
    <3>5. /\ i \in 1..Len(gS[gM[y][j]])
          /\ gS[gM[y][j]][i] = y /\ uS[gM[y][j]][i] = uM[y][j]
      BY <1>7, <3>3, <3>4
    <3>. QED BY <3>5 DEF TwinOfM
  <2>. QED BY <2>1, <2>2
<1>11. /\ now + 1 \in Nat
       /\ \A x \in Masters : Len(uS[x]) = Len(gS[x])
       /\ \A y \in Slaves : Len(uM[y]) = Len(gM[y])
  <2>1. ASSUME NEW x \in Masters  PROVE Len(uS[x]) = Len(gS[x])
    BY <1>1, <1>3, <1>5
  <2>2. ASSUME NEW y \in Slaves  PROVE Len(uM[y]) = Len(gM[y])
    BY <1>1, <1>4, <1>6
  <2>. QED BY <1>1, <2>1, <2>2
<1>12. Dated(gS, gM, uS, uM, now + 1)
  BY <1>2, <1>5, <1>6, <1>9, <1>10, <1>11 DEF Dated
<1>. QED BY <1>12 DEF gS, gM, uS, uM

(* The types alone.                                                        *)
LEMMA RouteEnqType ==
  ASSUME NEW r, RouteType(r), NEW m \in Masters, NEW s \in Slaves
  PROVE  RouteType(RouteEnq(r, m, s))
  BY DEF RouteType, RouteEnq

(* The same of a dequeue.                                                  *)
LEMMA RouteDeqType ==
  ASSUME NEW r, RouteType(r), NEW m \in Masters, NEW s \in Slaves, RouteMeet(r, m, s)
  PROVE  RouteType(RouteDeq(r, m, s))
  BY DEF RouteType, RouteDeq, RouteMeet

(* The same for the pair of FIFOs as the modules keep it.                  *)
LEMMA RouteEnqOK ==
  ASSUME NEW r, RouteType(r), OneOrder(r), NEW m \in Masters, NEW s \in Slaves
  PROVE  RouteType(RouteEnq(r, m, s)) /\ OneOrder(RouteEnq(r, m, s))
<1>1. RouteType(RouteEnq(r, m, s))
  BY RouteEnqType
<1>2. PICK tS, tM, now : Dated(r.fS, r.fM, tS, tM, now)
  BY DEF OneOrder
<1>3. r.fS \in [Masters -> Seq(Slaves)] /\ r.fM \in [Slaves -> Seq(Masters)]
  BY DEF RouteType
<1>4. Dated(RouteEnq(r, m, s).fS, RouteEnq(r, m, s).fM,
            [tS EXCEPT ![m] = Append(@, now)], [tM EXCEPT ![s] = Append(@, now)], now + 1)
  BY <1>2, <1>3, EnqDated DEF RouteEnq
<1>. QED BY <1>1, <1>4 DEF OneOrder

(* Entry by entry, what a family of FIFOs holds.                           *)
LEMMA Entries ==
  ASSUME NEW X, NEW S, NEW f \in [X -> Seq(S)]
  PROVE  \A x \in X : Len(f[x]) \in Nat /\ \A i \in 1..Len(f[x]) : f[x][i] \in S
  OBVIOUS

(* A sequence with an i-th entry has a first one.                          *)
LEMMA NotEmpty ==
  ASSUME NEW S, NEW q \in Seq(S), NEW i \in 1..Len(q)
  PROVE  q # <<>> /\ 1 \in 1..Len(q) /\ (i = 1 \/ 1 < i)
  OBVIOUS

(* What the dates are, and how they rise.                                  *)
LEMMA DatedEntries ==
  ASSUME NEW fS \in [Masters -> Seq(Slaves)], NEW fM \in [Slaves -> Seq(Masters)],
         NEW tS, NEW tM, NEW now, Dated(fS, fM, tS, tM, now)
  PROVE  /\ \A x \in Masters : Len(fS[x]) \in Nat /\ Len(tS[x]) = Len(fS[x])
         /\ \A y \in Slaves : Len(fM[y]) \in Nat /\ Len(tM[y]) = Len(fM[y])
         /\ \A x \in Masters : \A i \in 1..Len(fS[x]) : fS[x][i] \in Slaves /\ tS[x][i] \in Nat
         /\ \A y \in Slaves : \A j \in 1..Len(fM[y]) : fM[y][j] \in Masters /\ tM[y][j] \in Nat
         /\ \A x \in Masters : \A i, k \in 1..Len(fS[x]) : i < k => tS[x][i] < tS[x][k]
         /\ \A y \in Slaves : \A j, k \in 1..Len(fM[y]) : j < k => tM[y][j] < tM[y][k]
<1>1. /\ tS \in [Masters -> Seq(Nat)] /\ tM \in [Slaves -> Seq(Nat)]
      /\ \A x \in Masters : Len(tS[x]) = Len(fS[x])
      /\ \A y \in Slaves : Len(tM[y]) = Len(fM[y])
      /\ Ordered(Masters, tS, now) /\ Ordered(Slaves, tM, now)
  BY DEF Dated
<1>2. \A x \in Masters : Len(fS[x]) \in Nat /\ \A i \in 1..Len(fS[x]) : fS[x][i] \in Slaves
  BY Entries
<1>3. \A y \in Slaves : Len(fM[y]) \in Nat /\ \A j \in 1..Len(fM[y]) : fM[y][j] \in Masters
  BY Entries
<1>4. \A x \in Masters : \A i \in 1..Len(tS[x]) : tS[x][i] \in Nat
  BY <1>1, Entries
<1>5. \A y \in Slaves : \A j \in 1..Len(tM[y]) : tM[y][j] \in Nat
  BY <1>1, Entries
<1>6. \A x \in Masters : \A i, k \in 1..Len(tS[x]) : i < k => tS[x][i] < tS[x][k]
  BY <1>1 DEF Ordered
<1>7. \A y \in Slaves : \A j, k \in 1..Len(tM[y]) : j < k => tM[y][j] < tM[y][k]
  BY <1>1 DEF Ordered
<1>8. /\ \A x \in Masters : Len(tS[x]) = Len(fS[x])
      /\ \A y \in Slaves : Len(tM[y]) = Len(fM[y])
  BY <1>1
<1>. QED BY <1>2, <1>3, <1>4, <1>5, <1>6, <1>7, <1>8

(* The heads of two FIFOs name each other.                                 *)
Meet(fS, fM, m, s) == /\ fS[m] # <<>> /\ Head(fS[m]) = s
                      /\ fM[s] # <<>> /\ Head(fM[s]) = m

(* Matching heads are the two ends of one transaction.                     *)
LEMMA HeadsDated ==
  ASSUME NEW fS \in [Masters -> Seq(Slaves)], NEW fM \in [Slaves -> Seq(Masters)],
         NEW tS \in [Masters -> Seq(Nat)], NEW tM \in [Slaves -> Seq(Nat)], NEW now,
         Dated(fS, fM, tS, tM, now), NEW m \in Masters, NEW s \in Slaves,
         Meet(fS, fM, m, s)
  PROVE  Head(tS[m]) = Head(tM[s])
<1>1. /\ 1 \in 1..Len(fS[m]) /\ fS[m][1] = s
      /\ 1 \in 1..Len(fM[s]) /\ fM[s][1] = m
  BY DEF Meet
<1>2. TwinOfS(fS, fM, tS, tM, m, 1) /\ TwinOfM(fS, fM, tS, tM, s, 1)
  BY <1>1 DEF Dated
<1>3. PICK j \in 1..Len(fM[s]) : tM[s][j] = tS[m][1]
  BY <1>1, <1>2 DEF TwinOfS
<1>4. PICK i \in 1..Len(fS[m]) : tS[m][i] = tM[s][1]
  BY <1>1, <1>2 DEF TwinOfM
<1>5. /\ tS[m][1] \in Nat /\ tS[m][i] \in Nat /\ tM[s][1] \in Nat /\ tM[s][j] \in Nat
      /\ 1 < j => tM[s][1] < tM[s][j]
      /\ 1 < i => tS[m][1] < tS[m][i]
  BY ZenonT(30), <1>1, DatedEntries
<1>6. (j = 1 \/ 1 < j) /\ (i = 1 \/ 1 < i)
  OBVIOUS
<1> DEFINE a == tS[m][1]
           b == tM[s][1]
           c == tS[m][i]
           d == tM[s][j]
<1>7. /\ a \in Nat /\ b \in Nat /\ c = b /\ d = a
      /\ b = d \/ b < d
      /\ a = c \/ a < c
  BY <1>3, <1>4, <1>5, <1>6
<1>8. tS[m] # <<>> /\ tM[s] # <<>>
  BY DEF Dated, Meet
<1>9. Head(tS[m]) = a /\ Head(tM[s]) = b
  BY <1>8
<1> HIDE DEF a, b, c, d
<1>10. a = b
  BY <1>7
<1>. QED BY <1>9, <1>10, Zenon

(* A response rule, which dequeues two matching heads, keeps the global    *)
(* order.                                                                  *)
LEMMA DeqDated ==
  ASSUME NEW fS \in [Masters -> Seq(Slaves)], NEW fM \in [Slaves -> Seq(Masters)],
         NEW tS \in [Masters -> Seq(Nat)], NEW tM \in [Slaves -> Seq(Nat)], NEW now,
         Dated(fS, fM, tS, tM, now), NEW m \in Masters, NEW s \in Slaves,
         Meet(fS, fM, m, s)
  PROVE  Dated([fS EXCEPT ![m] = Tail(@)], [fM EXCEPT ![s] = Tail(@)],
               [tS EXCEPT ![m] = Tail(@)], [tM EXCEPT ![s] = Tail(@)], now)
<1>h. fS[m][1] = s /\ fM[s][1] = m /\ tS[m][1] = tM[s][1]
  <2>1. Head(tS[m]) = Head(tM[s])
    BY ZenonT(30), HeadsDated
  <2>2. tS[m] # <<>> /\ tM[s] # <<>>
    BY DEF Dated, Meet
  <2>3. Head(tS[m]) = tS[m][1] /\ Head(tM[s]) = tM[s][1]
    BY <2>2
  <2>4. fS[m][1] = s /\ fM[s][1] = m
    BY DEF Meet
  <2>. QED BY <2>1, <2>3, <2>4
<1> DEFINE gS == [fS EXCEPT ![m] = Tail(@)]
           gM == [fM EXCEPT ![s] = Tail(@)]
           uS == [tS EXCEPT ![m] = Tail(@)]
           uM == [tM EXCEPT ![s] = Tail(@)]
           a == Len(fS[m])
           b == Len(fM[s])
<1>1. /\ tS \in [Masters -> Seq(Nat)] /\ tM \in [Slaves -> Seq(Nat)] /\ now \in Nat
      /\ Len(tS[m]) = a /\ Len(tM[s]) = b /\ tS[m] # <<>> /\ tM[s] # <<>>
      /\ \A x \in Masters : Len(tS[x]) = Len(fS[x])
      /\ \A y \in Slaves : Len(tM[y]) = Len(fM[y])
  BY DEF Dated, Meet
<1>2. Ordered(Masters, uS, now) /\ Ordered(Slaves, uM, now)
  BY <1>1, DeqOrdered DEF Dated
<1>3. /\ a \in Nat /\ a >= 1 /\ Len(gS[m]) = a - 1
      /\ \A i \in 1..(a - 1) : gS[m][i] = fS[m][i + 1]
      /\ \A x \in Masters : x # m => gS[x] = fS[x]
  BY DEF Meet
<1>4. /\ b \in Nat /\ b >= 1 /\ Len(gM[s]) = b - 1
      /\ \A j \in 1..(b - 1) : gM[s][j] = fM[s][j + 1]
      /\ \A y \in Slaves : y # s => gM[y] = fM[y]
  BY DEF Meet
<1> HIDE DEF a, b
<1>5. /\ uS \in [Masters -> Seq(Nat)] /\ Len(uS[m]) = a - 1
      /\ \A i \in 1..(a - 1) : uS[m][i] = tS[m][i + 1]
      /\ \A x \in Masters : x # m => uS[x] = tS[x]
  BY <1>1
<1>6. /\ uM \in [Slaves -> Seq(Nat)] /\ Len(uM[s]) = b - 1
      /\ \A j \in 1..(b - 1) : uM[s][j] = tM[s][j + 1]
      /\ \A y \in Slaves : y # s => uM[y] = tM[y]
  BY <1>1
<1>t. /\ \A x \in Masters : \A i \in 1..Len(fS[x]) : fS[x][i] \in Slaves /\ tS[x][i] \in Nat
      /\ \A y \in Slaves : \A j \in 1..Len(fM[y]) : fM[y][j] \in Masters /\ tM[y][j] \in Nat
  BY DatedEntries
<1> HIDE DEF gS, gM, uS, uM
(* An entry other than the removed head moves up one place in its own FIFO *)
(* and stays where it is in the others.                                    *)
<1>7. ASSUME NEW x \in Masters, NEW k \in 1..Len(fS[x]), ~(x = m /\ k = 1)
      PROVE  \E i \in 1..Len(gS[x]) : gS[x][i] = fS[x][k] /\ uS[x][i] = tS[x][k]
  <2>1. CASE x = m
    <3>1. k - 1 \in 1..(a - 1) /\ (k - 1) + 1 = k
      BY <1>3, <1>7, <2>1 DEF a
    <3>2. gS[x][k - 1] = fS[x][k] /\ uS[x][k - 1] = tS[x][k]
      BY <1>3, <1>5, <2>1, <3>1
    <3>3. k - 1 \in 1..Len(gS[x])
      BY <1>3, <2>1, <3>1
    <3>. QED BY <3>2, <3>3
  <2>2. CASE x # m
    BY <1>3, <1>5, <2>2
  <2>. QED BY <2>1, <2>2
<1>8. ASSUME NEW y \in Slaves, NEW k \in 1..Len(fM[y]), ~(y = s /\ k = 1)
      PROVE  \E j \in 1..Len(gM[y]) : gM[y][j] = fM[y][k] /\ uM[y][j] = tM[y][k]
  <2>1. CASE y = s
    <3>1. k - 1 \in 1..(b - 1) /\ (k - 1) + 1 = k
      BY <1>4, <1>8, <2>1 DEF b
    <3>2. gM[y][k - 1] = fM[y][k] /\ uM[y][k - 1] = tM[y][k]
      BY <1>4, <1>6, <2>1, <3>1
    <3>3. k - 1 \in 1..Len(gM[y])
      BY <1>4, <2>1, <3>1
    <3>. QED BY <3>2, <3>3
  <2>2. CASE y # s
    BY <1>4, <1>6, <2>2
  <2>. QED BY <2>1, <2>2
<1>9. ASSUME NEW x \in Masters, NEW i \in 1..Len(gS[x])
      PROVE  TwinOfS(gS, gM, uS, uM, x, i)
  <2>1. PICK k \in 1..Len(fS[x]) :
          gS[x][i] = fS[x][k] /\ uS[x][i] = tS[x][k] /\ (x = m => k > 1)
    <3>1. CASE x = m
      <4>1. i \in 1..(a - 1) /\ i + 1 \in 1..Len(fS[x]) /\ i + 1 > 1
        BY <1>3, <3>1 DEF a
      <4>2. gS[m][i] = fS[m][i + 1]
        BY <1>3, <4>1
      <4>3. uS[m][i] = tS[m][i + 1]
        BY <1>5, <4>1
      <4>. QED BY <3>1, <4>1, <4>2, <4>3
    <3>2. CASE x # m
      BY <1>3, <1>5, <3>2
    <3>. QED BY <3>1, <3>2
  <2>2. fS[x][k] \in Slaves
    BY <1>t
  <2>3. PICK j \in 1..Len(fM[fS[x][k]]) :
          fM[fS[x][k]][j] = x /\ tM[fS[x][k]][j] = tS[x][k]
    BY DEF Dated, TwinOfS
  <2>4. ~(fS[x][k] = s /\ j = 1)
    <3> SUFFICES ASSUME fS[x][k] = s, j = 1  PROVE FALSE
      OBVIOUS
    <3>1. x = m /\ tS[m][k] = tS[m][1]
      BY <1>h, <2>3
    <3>2. tS[m][1] < tS[m][k]
      BY <1>1, <1>3, <2>1, <3>1 DEF Dated, Ordered, a
    <3>a. 1 \in 1..Len(fS[m])
      BY <1>3 DEF a
    <3>3. tS[m][1] \in Nat
      BY <1>t, <3>a
    <3>. QED BY SMTT(30), <3>1, <3>2, <3>3
  <2>5. PICK l \in 1..Len(gM[fS[x][k]]) :
          gM[fS[x][k]][l] = fM[fS[x][k]][j] /\ uM[fS[x][k]][l] = tM[fS[x][k]][j]
    BY <1>8, <2>2, <2>4
  <2>6. /\ l \in 1..Len(gM[gS[x][i]])
        /\ gM[gS[x][i]][l] = x /\ uM[gS[x][i]][l] = uS[x][i]
    BY <2>1, <2>3, <2>5
  <2>. QED BY <2>6 DEF TwinOfS
<1>10. ASSUME NEW y \in Slaves, NEW j \in 1..Len(gM[y])
       PROVE  TwinOfM(gS, gM, uS, uM, y, j)
  <2>1. PICK k \in 1..Len(fM[y]) :
          gM[y][j] = fM[y][k] /\ uM[y][j] = tM[y][k] /\ (y = s => k > 1)
    <3>1. CASE y = s
      <4>1. j \in 1..(b - 1) /\ j + 1 \in 1..Len(fM[y]) /\ j + 1 > 1
        BY <1>4, <3>1 DEF b
      <4>2. gM[s][j] = fM[s][j + 1]
        BY <1>4, <4>1
      <4>3. uM[s][j] = tM[s][j + 1]
        BY <1>6, <4>1
      <4>. QED BY <3>1, <4>1, <4>2, <4>3
    <3>2. CASE y # s
      BY <1>4, <1>6, <3>2
    <3>. QED BY <3>1, <3>2
  <2>2. fM[y][k] \in Masters
    BY <1>t
  <2>3. PICK i \in 1..Len(fS[fM[y][k]]) :
          fS[fM[y][k]][i] = y /\ tS[fM[y][k]][i] = tM[y][k]
    BY DEF Dated, TwinOfM
  <2>4. ~(fM[y][k] = m /\ i = 1)
    <3> SUFFICES ASSUME fM[y][k] = m, i = 1  PROVE FALSE
      OBVIOUS
    <3>1. y = s /\ tM[s][k] = tM[s][1]
      BY <1>h, <2>3
    <3>2. tM[s][1] < tM[s][k]
      BY <1>1, <1>4, <2>1, <3>1 DEF Dated, Ordered, b
    <3>a. 1 \in 1..Len(fM[s])
      BY <1>4 DEF b
    <3>3. tM[s][1] \in Nat
      BY <1>t, <3>a
    <3>. QED BY SMTT(30), <3>1, <3>2, <3>3
  <2>5. PICK l \in 1..Len(gS[fM[y][k]]) :
          gS[fM[y][k]][l] = fS[fM[y][k]][i] /\ uS[fM[y][k]][l] = tS[fM[y][k]][i]
    BY <1>7, <2>2, <2>4
  <2>6. /\ l \in 1..Len(gS[gM[y][j]])
        /\ gS[gM[y][j]][l] = y /\ uS[gM[y][j]][l] = uM[y][j]
    BY <2>1, <2>3, <2>5
  <2>. QED BY <2>6 DEF TwinOfM
<1>11. /\ \A x \in Masters : Len(uS[x]) = Len(gS[x])
       /\ \A y \in Slaves : Len(uM[y]) = Len(gM[y])
  <2>1. ASSUME NEW x \in Masters  PROVE Len(uS[x]) = Len(gS[x])
    BY <1>1, <1>3, <1>5
  <2>2. ASSUME NEW y \in Slaves  PROVE Len(uM[y]) = Len(gM[y])
    BY <1>1, <1>4, <1>6
  <2>. QED BY <2>1, <2>2
<1>12. Dated(gS, gM, uS, uM, now)
  BY <1>1, <1>2, <1>5, <1>6, <1>9, <1>10, <1>11 DEF Dated
<1>. QED BY <1>12 DEF gS, gM, uS, uM

(* The same for the pair of FIFOs as the modules keep it.                  *)
LEMMA RouteDeqOK ==
  ASSUME NEW r, RouteType(r), OneOrder(r), NEW m \in Masters, NEW s \in Slaves,
         RouteMeet(r, m, s)
  PROVE  RouteType(RouteDeq(r, m, s)) /\ OneOrder(RouteDeq(r, m, s))
<1>1. RouteType(RouteDeq(r, m, s))
  BY RouteDeqType
<1>2. PICK tS, tM, now : Dated(r.fS, r.fM, tS, tM, now)
  BY DEF OneOrder
<1>3. r.fS \in [Masters -> Seq(Slaves)] /\ r.fM \in [Slaves -> Seq(Masters)]
  BY DEF RouteType
<1>t. tS \in [Masters -> Seq(Nat)] /\ tM \in [Slaves -> Seq(Nat)]
  BY <1>2 DEF Dated
<1>4. Dated(RouteDeq(r, m, s).fS, RouteDeq(r, m, s).fM,
            [tS EXCEPT ![m] = Tail(@)], [tM EXCEPT ![s] = Tail(@)], now)
  BY <1>2, <1>3, <1>t, DeqDated DEF RouteDeq, RouteMeet, Meet
<1>. QED BY <1>1, <1>4 DEF OneOrder

(* The FIFOs stay within their depth.                                      *)
LEMMA RouteEnqWithin ==
  ASSUME NEW r, RouteType(r), NEW m \in Masters, NEW s \in Slaves,
         NEW depth \in Nat, RouteWithin(r, depth), RouteRoom(r, m, s, depth)
  PROVE  RouteWithin(RouteEnq(r, m, s), depth)
<1> DEFINE gS == [r.fS EXCEPT ![m] = Append(@, s)]
           gM == [r.fM EXCEPT ![s] = Append(@, m)]
<1>1. r.fS \in [Masters -> Seq(Slaves)] /\ r.fM \in [Slaves -> Seq(Masters)]
  BY DEF RouteType
<1>2. Len(r.fS[m]) \in Nat /\ Len(r.fM[s]) \in Nat
  BY <1>1
<1>3. /\ Len(gS[m]) = Len(r.fS[m]) + 1 /\ \A x \in Masters : x # m => gS[x] = r.fS[x]
      /\ Len(gM[s]) = Len(r.fM[s]) + 1 /\ \A y \in Slaves : y # s => gM[y] = r.fM[y]
  BY <1>1
<1>4. RouteEnq(r, m, s).fS = gS /\ RouteEnq(r, m, s).fM = gM
  BY DEF RouteEnq
<1> HIDE DEF gS, gM
<1>5. \A x \in Masters : Len(gS[x]) <= depth
  BY <1>2, <1>3 DEF RouteWithin, RouteRoom
<1>6. \A y \in Slaves : Len(gM[y]) <= depth
  BY <1>2, <1>3 DEF RouteWithin, RouteRoom
<1>. QED BY <1>4, <1>5, <1>6 DEF RouteWithin

(* A response rule only shortens the FIFOs.                                *)
LEMMA RouteDeqWithin ==
  ASSUME NEW r, RouteType(r), NEW m \in Masters, NEW s \in Slaves,
         NEW depth \in Nat, RouteWithin(r, depth), RouteMeet(r, m, s)
  PROVE  RouteWithin(RouteDeq(r, m, s), depth)
<1> DEFINE gS == [r.fS EXCEPT ![m] = Tail(@)]
           gM == [r.fM EXCEPT ![s] = Tail(@)]
<1>1. /\ r.fS \in [Masters -> Seq(Slaves)] /\ r.fM \in [Slaves -> Seq(Masters)]
      /\ r.fS[m] # <<>> /\ r.fM[s] # <<>>
  BY DEF RouteType, RouteMeet
<1>2. Len(r.fS[m]) \in Nat /\ Len(r.fM[s]) \in Nat
  BY <1>1
<1>3. /\ Len(gS[m]) = Len(r.fS[m]) - 1 /\ \A x \in Masters : x # m => gS[x] = r.fS[x]
      /\ Len(gM[s]) = Len(r.fM[s]) - 1 /\ \A y \in Slaves : y # s => gM[y] = r.fM[y]
  BY <1>1
<1>4. RouteDeq(r, m, s).fS = gS /\ RouteDeq(r, m, s).fM = gM
  BY DEF RouteDeq
<1> HIDE DEF gS, gM
<1>5. \A x \in Masters : Len(gS[x]) <= depth
  BY <1>2, <1>3 DEF RouteWithin
<1>6. \A y \in Slaves : Len(gM[y]) <= depth
  BY <1>2, <1>3 DEF RouteWithin
<1>. QED BY <1>4, <1>5, <1>6 DEF RouteWithin

(* The oldest outstanding transaction of all is at the head of both its    *)
(* FIFOs, so while anything is outstanding two heads meet.                 *)
LEMMA OneOrderHeadsMeet ==
  ASSUME NEW r, RouteType(r), OneOrder(r)
  PROVE  HeadsMeet(r)
<1>1. PICK tS, tM, now : Dated(r.fS, r.fM, tS, tM, now)
  BY DEF OneOrder
<1> DEFINE fS == r.fS
           fM == r.fM
           Dates == {tS[m][1] : m \in {x \in Masters : fS[x] # <<>>}}
<1>2. /\ fS \in [Masters -> Seq(Slaves)] /\ fM \in [Slaves -> Seq(Masters)]
      /\ tS \in [Masters -> Seq(Nat)] /\ tM \in [Slaves -> Seq(Nat)]
      /\ \A m \in Masters : Len(tS[m]) = Len(fS[m])
      /\ \A s \in Slaves : Len(tM[s]) = Len(fM[s])
  BY <1>1 DEF Dated, RouteType
<1>3. Dated(fS, fM, tS, tM, now)
  BY <1>1
<1> SUFFICES ASSUME (\E m \in Masters : fS[m] # <<>>) \/ (\E s \in Slaves : fM[s] # <<>>)
             PROVE  \E m \in Masters, s \in Slaves : RouteMeet(r, m, s)
  BY DEF HeadsMeet
<1> HIDE DEF fS, fM
<1>e. /\ \A x \in Masters : Len(fS[x]) \in Nat /\ Len(tS[x]) = Len(fS[x])
      /\ \A y \in Slaves : Len(fM[y]) \in Nat /\ Len(tM[y]) = Len(fM[y])
      /\ \A x \in Masters : \A i \in 1..Len(fS[x]) : fS[x][i] \in Slaves /\ tS[x][i] \in Nat
      /\ \A y \in Slaves : \A j \in 1..Len(fM[y]) : fM[y][j] \in Masters /\ tM[y][j] \in Nat
      /\ \A x \in Masters : \A i, k \in 1..Len(fS[x]) : i < k => tS[x][i] < tS[x][k]
      /\ \A y \in Slaves : \A j, k \in 1..Len(fM[y]) : j < k => tM[y][j] < tM[y][k]
  BY <1>2, <1>3, DatedEntries
<1>4. \E m \in Masters : fS[m] # <<>>
  <2> SUFFICES ASSUME NEW s \in Slaves, fM[s] # <<>>
               PROVE  \E m \in Masters : fS[m] # <<>>
    OBVIOUS
  <2>1. 1 \in 1..Len(fM[s]) /\ fM[s][1] \in Masters
    BY <1>2
  <2>a. TwinOfM(fS, fM, tS, tM, s, 1)
    BY <1>3, <2>1 DEF Dated
  <2>2. \E i \in 1..Len(fS[fM[s][1]]) : TRUE
    BY <2>a DEF TwinOfM
  <2>3. fS[fM[s][1]] \in Seq(Slaves)
    BY <1>2, <2>1
  <2>4. fS[fM[s][1]] # <<>>
    BY <2>2, <2>3, NotEmpty
  <2>. QED BY <2>1, <2>4
<1>5. Dates \subseteq Nat /\ Dates # {}
  <2>1. \A m \in Masters : fS[m] # <<>> => tS[m][1] \in Nat
    <3> SUFFICES ASSUME NEW m \in Masters, fS[m] # <<>>  PROVE tS[m][1] \in Nat
      OBVIOUS
    <3>1. 1 \in 1..Len(tS[m])
      BY <1>2
    <3>. QED BY <1>2, <3>1
  <2>. QED BY <1>4, <2>1
<1>6. PICK d \in Dates : \A e \in Dates : ~(e < d)
  <2>1. PICK d \in Dates : \A e \in Dates : ~(<<e, d>> \in OpToRel(<, Nat))
    BY <1>5, NatLessThanWellFounded, WFMin
  <2>2. \A e \in Dates : e < d => <<e, d>> \in OpToRel(<, Nat)
    BY <1>5 DEF OpToRel
  <2>. QED BY <2>1, <2>2
<1>7. PICK m \in Masters : fS[m] # <<>> /\ d = tS[m][1]
  OBVIOUS
<1> DEFINE s == fS[m][1]
<1>8. s \in Slaves /\ 1 \in 1..Len(fS[m]) /\ Head(fS[m]) = s
  BY <1>2, <1>7
<1> HIDE DEF s
<1>9. PICK j \in 1..Len(fM[s]) : fM[s][j] = m /\ tM[s][j] = d
  BY ZenonT(30), <1>3, <1>7, <1>8 DEF Dated, TwinOfS, s
<1>10. j = 1
  <2> SUFFICES ASSUME j # 1  PROVE FALSE
    OBVIOUS
  <2>1. 1 \in 1..Len(fM[s]) /\ 1 < j
    BY <1>8, <1>9, <1>e
  <2>2. tM[s][1] < d /\ fM[s][1] \in Masters
    BY <1>8, <1>9, <1>e, <2>1
  <2>a. TwinOfM(fS, fM, tS, tM, s, 1)
    BY <1>3, <1>8, <2>1 DEF Dated
  <2>3. PICK i \in 1..Len(fS[fM[s][1]]) : tS[fM[s][1]][i] = tM[s][1]
    BY <2>a DEF TwinOfM
  <2> DEFINE x == fM[s][1]
  <2>4. x \in Masters /\ i \in 1..Len(fS[x]) /\ tS[x][i] = tM[s][1]
    BY <2>2, <2>3
  <2> HIDE DEF x
  <2>b. 1 \in 1..Len(fS[x]) /\ fS[x] # <<>> /\ (i = 1 \/ 1 < i)
    <3>1. fS[x] \in Seq(Slaves)
      BY <1>2, <2>4
    <3>. QED BY <2>4, <3>1, NotEmpty
  <2>5. tS[x][1] \in Nat /\ tS[x][i] \in Nat /\ d \in Nat
    BY <1>5, <1>e, <2>4, <2>b
  <2>6. i = 1 \/ tS[x][1] < tS[x][i]
    BY <1>e, <2>4, <2>b
  <2>7. tS[x][1] < d
    BY <2>2, <2>4, <2>5, <2>6
  <2>8. tS[x][1] \in Dates
    BY <2>4, <2>b
  <2>. QED BY <1>6, <2>7, <2>8
<1>11. fM[s] # <<>> /\ Head(fM[s]) = m
  BY <1>2, <1>8, <1>9, <1>10
<1>. QED BY <1>7, <1>8, <1>11 DEF RouteMeet, fS, fM

----------------------------------------------------------------------------
(* What travels along a pair of route FIFOs: aS[m] and aM[s] give every    *)
(* entry of fS[m] and of fM[s] a label, the same to the two entries of one *)
(* transaction.                                                            *)
Agree(fS, fM, tS, tM, aS, aM) ==
  /\ \A m \in Masters : Len(aS[m]) = Len(fS[m])
  /\ \A s \in Slaves : Len(aM[s]) = Len(fM[s])
  /\ \A m \in Masters, s \in Slaves : \A i \in 1..Len(fS[m]), j \in 1..Len(fM[s]) :
       tS[m][i] = tM[s][j] => aS[m][i] = aM[s][j]

Labelled(r, aS, aM) ==
  \E tS, tM, now : Dated(r.fS, r.fM, tS, tM, now) /\ Agree(r.fS, r.fM, tS, tM, aS, aM)

(* After reset there is nothing to label.                                  *)
LEMMA LabelEmpty ==
  Labelled(RouteEmpty, [m \in Masters |-> <<>>], [s \in Slaves |-> <<>>])
<1> DEFINE tS == [m \in Masters |-> <<>>]
           tM == [s \in Slaves |-> <<>>]
<1>1. Dated(RouteEmpty.fS, RouteEmpty.fM, tS, tM, 0)
  BY DEF Dated, Ordered, RouteEmpty
<1>2. Agree(RouteEmpty.fS, RouteEmpty.fM, tS, tM, tS, tM)
  BY DEF Agree, RouteEmpty
<1>. QED BY <1>1, <1>2 DEF Labelled

(* Labels say at least that there is one order.                            *)
LEMMA LabelledOrder ==
  ASSUME NEW r, NEW aS, NEW aM, Labelled(r, aS, aM)
  PROVE  OneOrder(r)
  BY DEF Labelled, OneOrder

(* An address rule gives the new transaction a label.                      *)
LEMMA LabelEnq ==
  ASSUME NEW r, RouteType(r), NEW L,
         NEW aS \in [Masters -> Seq(L)], NEW aM \in [Slaves -> Seq(L)], Labelled(r, aS, aM),
         NEW m \in Masters, NEW s \in Slaves, NEW q \in L
  PROVE  Labelled(RouteEnq(r, m, s), [aS EXCEPT ![m] = Append(@, q)],
                                     [aM EXCEPT ![s] = Append(@, q)])
<1>1. PICK tS, tM, now : /\ Dated(r.fS, r.fM, tS, tM, now)
                         /\ Agree(r.fS, r.fM, tS, tM, aS, aM)
  BY DEF Labelled
<1>2. r.fS \in [Masters -> Seq(Slaves)] /\ r.fM \in [Slaves -> Seq(Masters)]
  BY DEF RouteType
<1> DEFINE fS == r.fS
           fM == r.fM
           gS == [fS EXCEPT ![m] = Append(@, s)]
           gM == [fM EXCEPT ![s] = Append(@, m)]
           uS == [tS EXCEPT ![m] = Append(@, now)]
           uM == [tM EXCEPT ![s] = Append(@, now)]
           bS == [aS EXCEPT ![m] = Append(@, q)]
           bM == [aM EXCEPT ![s] = Append(@, q)]
<1>3. RouteEnq(r, m, s).fS = gS /\ RouteEnq(r, m, s).fM = gM
  BY DEF RouteEnq
<1>4. Dated(gS, gM, uS, uM, now + 1)
  BY <1>1, <1>2, EnqDated
<1>5. /\ tS \in [Masters -> Seq(Nat)] /\ tM \in [Slaves -> Seq(Nat)] /\ now \in Nat
      /\ \A x \in Masters : Len(tS[x]) = Len(fS[x]) /\ Len(aS[x]) = Len(fS[x])
      /\ \A y \in Slaves : Len(tM[y]) = Len(fM[y]) /\ Len(aM[y]) = Len(fM[y])
      /\ \A x \in Masters : \A i \in 1..Len(fS[x]) : tS[x][i] < now
      /\ \A y \in Slaves : \A j \in 1..Len(fM[y]) : tM[y][j] < now
      /\ \A x \in Masters, y \in Slaves : \A i \in 1..Len(fS[x]), j \in 1..Len(fM[y]) :
           tS[x][i] = tM[y][j] => aS[x][i] = aM[y][j]
  BY <1>1 DEF Dated, Ordered, Agree
<1>6. \A x \in Masters : \A i \in 1..Len(fS[x]) : tS[x][i] \in Nat
  BY <1>5, Entries
<1>7. \A y \in Slaves : \A j \in 1..Len(fM[y]) : tM[y][j] \in Nat
  BY <1>5, Entries
<1> HIDE DEF fS, fM
<1>8. \A x \in Masters :
        /\ Len(bS[x]) = Len(gS[x])
        /\ \A i \in 1..Len(gS[x]) :
             \/ i \in 1..Len(fS[x]) /\ uS[x][i] = tS[x][i] /\ bS[x][i] = aS[x][i]
             \/ uS[x][i] = now /\ bS[x][i] = q
  <2> TAKE x \in Masters
  <2>0. r.fS \in [Masters -> Seq(Slaves)] /\ fS = r.fS
    BY <1>2 DEF fS
  <2>1. CASE x = m
    <3>1. /\ Len(fS[m]) \in Nat /\ Len(gS[m]) = Len(fS[m]) + 1
          /\ Len(bS[m]) = Len(fS[m]) + 1
          /\ uS[m][Len(fS[m]) + 1] = now /\ bS[m][Len(fS[m]) + 1] = q
      BY <1>5, <2>0
    <3>2. \A i \in 1..Len(fS[m]) : uS[m][i] = tS[m][i] /\ bS[m][i] = aS[m][i]
      BY <1>5, <2>0
    <3> HIDE DEF gS, uS, bS
    <3>. QED BY <2>1, <3>1, <3>2
  <2>2. CASE x # m
    <3>1. gS[x] = fS[x] /\ uS[x] = tS[x] /\ bS[x] = aS[x]
      BY <1>5, <2>0, <2>2
    <3> HIDE DEF gS, uS, bS
    <3>. QED BY <1>5, <3>1
  <2>. QED BY <2>1, <2>2
<1>9. \A y \in Slaves :
        /\ Len(bM[y]) = Len(gM[y])
        /\ \A j \in 1..Len(gM[y]) :
             \/ j \in 1..Len(fM[y]) /\ uM[y][j] = tM[y][j] /\ bM[y][j] = aM[y][j]
             \/ uM[y][j] = now /\ bM[y][j] = q
  <2> TAKE y \in Slaves
  <2>0. r.fM \in [Slaves -> Seq(Masters)] /\ fM = r.fM
    BY <1>2 DEF fM
  <2>1. CASE y = s
    <3>1. /\ Len(fM[s]) \in Nat /\ Len(gM[s]) = Len(fM[s]) + 1
          /\ Len(bM[s]) = Len(fM[s]) + 1
          /\ uM[s][Len(fM[s]) + 1] = now /\ bM[s][Len(fM[s]) + 1] = q
      BY <1>5, <2>0
    <3>2. \A j \in 1..Len(fM[s]) : uM[s][j] = tM[s][j] /\ bM[s][j] = aM[s][j]
      BY <1>5, <2>0
    <3> HIDE DEF gM, uM, bM
    <3>. QED BY <2>1, <3>1, <3>2
  <2>2. CASE y # s
    <3>1. gM[y] = fM[y] /\ uM[y] = tM[y] /\ bM[y] = aM[y]
      BY <1>5, <2>0, <2>2
    <3> HIDE DEF gM, uM, bM
    <3>. QED BY <1>5, <3>1
  <2>. QED BY <2>1, <2>2
<1> HIDE DEF gS, gM, uS, uM, bS, bM
<1>10. ASSUME NEW x \in Masters, NEW y \in Slaves, NEW i \in 1..Len(gS[x]), NEW j \in 1..Len(gM[y]),
              uS[x][i] = uM[y][j]
       PROVE  bS[x][i] = bM[y][j]
  <2>1. \A a \in Nat : ~(a < a)
    OBVIOUS
  <2>2. \/ j \in 1..Len(fM[y]) /\ uM[y][j] = tM[y][j] /\ bM[y][j] = aM[y][j]
        \/ uM[y][j] = now /\ bM[y][j] = q
    BY <1>9
  <2>3. CASE i \in 1..Len(fS[x]) /\ uS[x][i] = tS[x][i] /\ bS[x][i] = aS[x][i]
    <3>1. tS[x][i] # now
      BY <1>5, <1>6, <2>1, <2>3
    <3>. QED BY SMTT(30), <1>5, <1>10, <2>2, <2>3, <3>1
  <2>4. CASE uS[x][i] = now /\ bS[x][i] = q
    <3>1. j \in 1..Len(fM[y]) => tM[y][j] # now
      BY SMTT(30), <1>5, <1>7, <2>1
    <3>. QED BY <1>10, <2>2, <2>4, <3>1
  <2>. QED BY <1>8, <2>3, <2>4
<1>11. Agree(gS, gM, uS, uM, bS, bM)
  BY <1>8, <1>9, <1>10 DEF Agree
<1>. QED BY <1>3, <1>4, <1>11 DEF Labelled, gS, gM, uS, uM, bS, bM

(* A response rule finds the same label at both heads, and drops it.       *)
LEMMA LabelDeq ==
  ASSUME NEW r, RouteType(r), NEW L,
         NEW aS \in [Masters -> Seq(L)], NEW aM \in [Slaves -> Seq(L)], Labelled(r, aS, aM),
         NEW m \in Masters, NEW s \in Slaves, RouteMeet(r, m, s)
  PROVE  /\ aS[m] # <<>> /\ aM[s] # <<>> /\ Head(aS[m]) = Head(aM[s])
         /\ Labelled(RouteDeq(r, m, s), [aS EXCEPT ![m] = Tail(@)], [aM EXCEPT ![s] = Tail(@)])
<1>1. PICK tS, tM, now : /\ Dated(r.fS, r.fM, tS, tM, now)
                         /\ Agree(r.fS, r.fM, tS, tM, aS, aM)
  BY DEF Labelled
<1> DEFINE fS == r.fS
           fM == r.fM
           gS == [fS EXCEPT ![m] = Tail(@)]
           gM == [fM EXCEPT ![s] = Tail(@)]
           uS == [tS EXCEPT ![m] = Tail(@)]
           uM == [tM EXCEPT ![s] = Tail(@)]
           bS == [aS EXCEPT ![m] = Tail(@)]
           bM == [aM EXCEPT ![s] = Tail(@)]
<1>2. /\ fS \in [Masters -> Seq(Slaves)] /\ fM \in [Slaves -> Seq(Masters)]
      /\ fS[m] # <<>> /\ fM[s] # <<>> /\ Meet(fS, fM, m, s)
  BY DEF RouteType, RouteMeet, Meet
<1>3. RouteDeq(r, m, s).fS = gS /\ RouteDeq(r, m, s).fM = gM
  BY DEF RouteDeq
<1>a. Dated(fS, fM, tS, tM, now) /\ tS \in [Masters -> Seq(Nat)] /\ tM \in [Slaves -> Seq(Nat)]
  BY <1>1 DEF Dated
<1> HIDE DEF fS, fM
<1>4. Dated(gS, gM, uS, uM, now)
  BY <1>2, <1>a, DeqDated
<1>h. Head(tS[m]) = Head(tM[s])
  BY ZenonT(30), <1>2, <1>a, HeadsDated
<1>5. /\ tS \in [Masters -> Seq(Nat)] /\ tM \in [Slaves -> Seq(Nat)]
      /\ \A x \in Masters : Len(tS[x]) = Len(fS[x]) /\ Len(aS[x]) = Len(fS[x])
      /\ \A y \in Slaves : Len(tM[y]) = Len(fM[y]) /\ Len(aM[y]) = Len(fM[y])
      /\ \A x \in Masters, y \in Slaves : \A i \in 1..Len(fS[x]), j \in 1..Len(fM[y]) :
           tS[x][i] = tM[y][j] => aS[x][i] = aM[y][j]
  BY <1>1 DEF Dated, Agree, fS, fM
<1>6. aS[m] # <<>> /\ aM[s] # <<>> /\ tS[m] # <<>> /\ tM[s] # <<>>
  BY <1>2, <1>5
<1>7. Head(aS[m]) = Head(aM[s])
  <2>1. 1 \in 1..Len(fS[m]) /\ 1 \in 1..Len(fM[s])
    BY <1>2
  <2>2. Head(aS[m]) = aS[m][1] /\ Head(aM[s]) = aM[s][1]
    BY <1>6
  <2>3. Head(tS[m]) = tS[m][1] /\ Head(tM[s]) = tM[s][1]
    BY <1>5, <1>6
  <2>. QED BY <1>h, <1>5, <2>1, <2>2, <2>3
<1>8. ASSUME NEW x \in Masters
      PROVE  /\ Len(bS[x]) = Len(gS[x])
             /\ \A i \in 1..Len(gS[x]) :
                  \E k \in 1..Len(fS[x]) : uS[x][i] = tS[x][k] /\ bS[x][i] = aS[x][k]
  <2>1. CASE x = m
    <3>1. /\ Len(gS[m]) = Len(fS[m]) - 1 /\ Len(bS[m]) = Len(aS[m]) - 1 /\ Len(fS[m]) \in Nat
          /\ \A i \in 1..Len(gS[m]) : i + 1 \in 1..Len(fS[m])
      BY <1>2, <1>5, <1>6, DeqEntries
    <3>2. \A i \in 1..(Len(fS[m]) - 1) : uS[m][i] = tS[m][i + 1] /\ bS[m][i] = aS[m][i + 1]
      BY <1>5, <1>6
    <3>. QED BY SMTT(30), <1>5, <2>1, <3>1, <3>2
  <2>2. CASE x # m
    <3>1. gS[x] = fS[x] /\ uS[x] = tS[x] /\ bS[x] = aS[x]
      BY <1>2, <1>5, <2>2
    <3> HIDE DEF gS, uS, bS
    <3>. QED BY <1>5, <3>1
  <2>. QED BY <2>1, <2>2
<1>9. ASSUME NEW y \in Slaves
      PROVE  /\ Len(bM[y]) = Len(gM[y])
             /\ \A j \in 1..Len(gM[y]) :
                  \E k \in 1..Len(fM[y]) : uM[y][j] = tM[y][k] /\ bM[y][j] = aM[y][k]
  <2>1. CASE y = s
    <3>1. /\ Len(gM[s]) = Len(fM[s]) - 1 /\ Len(bM[s]) = Len(aM[s]) - 1 /\ Len(fM[s]) \in Nat
          /\ \A j \in 1..Len(gM[s]) : j + 1 \in 1..Len(fM[s])
      BY <1>2, <1>5, <1>6, DeqEntries
    <3>2. \A j \in 1..(Len(fM[s]) - 1) : uM[s][j] = tM[s][j + 1] /\ bM[s][j] = aM[s][j + 1]
      BY <1>5, <1>6
    <3>. QED BY ZenonT(30), <1>5, <2>1, <3>1, <3>2
  <2>2. CASE y # s
    <3>1. gM[y] = fM[y] /\ uM[y] = tM[y] /\ bM[y] = aM[y]
      BY <1>2, <1>5, <2>2
    <3> HIDE DEF gM, uM, bM
    <3>. QED BY <1>5, <3>1
  <2>. QED BY <2>1, <2>2
<1> HIDE DEF gS, gM, uS, uM, bS, bM
<1>10. ASSUME NEW x \in Masters, NEW y \in Slaves, NEW i \in 1..Len(gS[x]), NEW j \in 1..Len(gM[y]),
              uS[x][i] = uM[y][j]
       PROVE  bS[x][i] = bM[y][j]
  <2>1. PICK k \in 1..Len(fS[x]) : uS[x][i] = tS[x][k] /\ bS[x][i] = aS[x][k]
    BY <1>8
  <2>2. PICK l \in 1..Len(fM[y]) : uM[y][j] = tM[y][l] /\ bM[y][j] = aM[y][l]
    BY <1>9
  <2>. QED BY ZenonT(30), <1>5, <1>10, <2>1, <2>2
<1>11. Agree(gS, gM, uS, uM, bS, bM)
  BY <1>8, <1>9, <1>10 DEF Agree
<1>. QED BY <1>3, <1>4, <1>6, <1>7, <1>11 DEF Labelled, gS, gM, uS, uM, bS, bM

----------------------------------------------------------------------------
(* How far the burst at the head of a route is: hS[m] and hM[s] are the    *)
(* beats of it that were forwarded, counted at either end.  Beats pass     *)
(* only between heads that meet.                                           *)
Progress(r, hS, hM) ==
  /\ \A m \in Masters, s \in Slaves : RouteMeet(r, m, s) => hS[m] = hM[s]
  /\ \A m \in Masters : hS[m] # 0 => \E s \in Slaves : RouteMeet(r, m, s)
  /\ \A s \in Slaves : hM[s] # 0 => \E m \in Masters : RouteMeet(r, m, s)

(* A master meets one slave, and a slave one master.                       *)
LEMMA MeetUnique ==
  ASSUME NEW r, NEW x, NEW y, RouteMeet(r, x, y)
  PROVE  /\ \A z : RouteMeet(r, x, z) => z = y
         /\ \A z : RouteMeet(r, z, y) => z = x
  BY DEF RouteMeet

(* An append does not change the head of a sequence that has one.          *)
LEMMA AppendHead ==
  ASSUME NEW S, NEW q \in Seq(S), q # <<>>, NEW e \in S
  PROVE  Append(q, e) # <<>> /\ Head(Append(q, e)) = Head(q)
  OBVIOUS

(* What an append does, entry by entry.                                    *)
LEMMA AppendEntries ==
  ASSUME NEW S, NEW q \in Seq(S), NEW e \in S
  PROVE  /\ Len(q) \in Nat /\ Len(Append(q, e)) = Len(q) + 1
         /\ Append(q, e)[Len(q) + 1] = e
         /\ \A i \in 1..Len(q) : Append(q, e)[i] = q[i]
  OBVIOUS

(* Heads that meet do so still after another transaction is routed, and    *)
(* new heads that meet were not both there before.                         *)
LEMMA MeetEnq ==
  ASSUME NEW r, RouteType(r), NEW m \in Masters, NEW s \in Slaves,
         NEW x \in Masters, NEW y \in Slaves
  PROVE  /\ RouteMeet(r, x, y) => RouteMeet(RouteEnq(r, m, s), x, y)
         /\ RouteMeet(RouteEnq(r, m, s), x, y) =>
              RouteMeet(r, x, y) \/ r.fS[x] = <<>> \/ r.fM[y] = <<>>
<1> DEFINE gS == [r.fS EXCEPT ![m] = Append(@, s)]
           gM == [r.fM EXCEPT ![s] = Append(@, m)]
<1>1. r.fS \in [Masters -> Seq(Slaves)] /\ r.fM \in [Slaves -> Seq(Masters)]
  BY DEF RouteType
<1>2. r.fS[x] # <<>> => gS[x] # <<>> /\ Head(gS[x]) = Head(r.fS[x])
  <2>1. r.fS[x] \in Seq(Slaves) /\ gS[x] \in {r.fS[x], Append(r.fS[x], s)}
    BY <1>1
  <2> HIDE DEF gS
  <2>. QED BY <2>1, AppendHead
<1>3. r.fM[y] # <<>> => gM[y] # <<>> /\ Head(gM[y]) = Head(r.fM[y])
  <2>1. r.fM[y] \in Seq(Masters) /\ gM[y] \in {r.fM[y], Append(r.fM[y], m)}
    BY <1>1
  <2> HIDE DEF gM
  <2>. QED BY <2>1, AppendHead
<1>4. RouteEnq(r, m, s).fS = gS /\ RouteEnq(r, m, s).fM = gM
  BY DEF RouteEnq
<1> HIDE DEF gS, gM
<1>. QED BY <1>2, <1>3, <1>4 DEF RouteMeet

(* After a response rule the other heads are as before.                    *)
LEMMA MeetDeq ==
  ASSUME NEW r, RouteType(r), NEW m \in Masters, NEW s \in Slaves, RouteMeet(r, m, s)
  PROVE  /\ \A x \in Masters : x # m => RouteDeq(r, m, s).fS[x] = r.fS[x]
         /\ \A y \in Slaves : y # s => RouteDeq(r, m, s).fM[y] = r.fM[y]
<1>1. r.fS \in [Masters -> Seq(Slaves)] /\ r.fM \in [Slaves -> Seq(Masters)]
  BY DEF RouteType
<1>. QED BY <1>1 DEF RouteDeq

(* A new transaction starts with no beat forwarded.                        *)
LEMMA ProgressEnq ==
  ASSUME NEW r, RouteType(r), NEW hS, NEW hM, Progress(r, hS, hM),
         NEW m \in Masters, NEW s \in Slaves
  PROVE  Progress(RouteEnq(r, m, s), hS, hM)
<1> DEFINE g == RouteEnq(r, m, s)
<1> HIDE DEF g
<1>1. ASSUME NEW x \in Masters, NEW y \in Slaves, RouteMeet(g, x, y)  PROVE hS[x] = hM[y]
  <2>1. hS[x] # 0 => RouteMeet(r, x, y)
    <3> SUFFICES ASSUME hS[x] # 0  PROVE RouteMeet(r, x, y)
      OBVIOUS
    <3>1. PICK z \in Slaves : RouteMeet(r, x, z)
      BY DEF Progress
    <3>2. RouteMeet(g, x, z)
      BY <3>1, MeetEnq DEF g
    <3>3. z = y
      BY <1>1, <3>2, MeetUnique
    <3>. QED BY <3>1, <3>3
  <2>2. hM[y] # 0 => RouteMeet(r, x, y)
    <3> SUFFICES ASSUME hM[y] # 0  PROVE RouteMeet(r, x, y)
      OBVIOUS
    <3>1. PICK z \in Masters : RouteMeet(r, z, y)
      BY DEF Progress
    <3>2. RouteMeet(g, z, y)
      BY <3>1, MeetEnq DEF g
    <3>3. z = x
      BY <1>1, <3>2, MeetUnique
    <3>. QED BY <3>1, <3>3
  <2>. QED BY <2>1, <2>2 DEF Progress
<1>2. ASSUME NEW x \in Masters, NEW y \in Slaves, RouteMeet(r, x, y)  PROVE RouteMeet(g, x, y)
  BY <1>2, MeetEnq DEF g
<1>3. Progress(g, hS, hM)
  BY <1>1, <1>2 DEF Progress
<1>. QED BY <1>3 DEF g

(* A beat between two heads counts at both.                                *)
LEMMA ProgressBeat ==
  ASSUME NEW r, NEW hS \in [Masters -> Nat], NEW hM \in [Slaves -> Nat], Progress(r, hS, hM),
         NEW m \in Masters, NEW s \in Slaves, RouteMeet(r, m, s), NEW n
  PROVE  Progress(r, [hS EXCEPT ![m] = n], [hM EXCEPT ![s] = n])
<1>1. \A x \in Masters : RouteMeet(r, x, s) => x = m
  BY MeetUnique
<1>2. \A y \in Slaves : RouteMeet(r, m, y) => y = s
  BY MeetUnique
<1>. QED BY <1>1, <1>2 DEF Progress

(* The last beat ends the burst at both.                                   *)
LEMMA ProgressDeq ==
  ASSUME NEW r, RouteType(r),
         NEW hS \in [Masters -> Nat], NEW hM \in [Slaves -> Nat], Progress(r, hS, hM),
         NEW m \in Masters, NEW s \in Slaves, RouteMeet(r, m, s)
  PROVE  Progress(RouteDeq(r, m, s), [hS EXCEPT ![m] = 0], [hM EXCEPT ![s] = 0])
<1> DEFINE g == RouteDeq(r, m, s)
<1>1. /\ \A x \in Masters : x # m => g.fS[x] = r.fS[x]
      /\ \A y \in Slaves : y # s => g.fM[y] = r.fM[y]
  BY MeetDeq
<1> HIDE DEF g
<1>2. \A x \in Masters, y \in Slaves : x # m /\ y # s => (RouteMeet(g, x, y) <=> RouteMeet(r, x, y))
  BY <1>1 DEF RouteMeet
<1>3. /\ \A x \in Masters : RouteMeet(r, x, s) => x = m
      /\ \A y \in Slaves : RouteMeet(r, m, y) => y = s
  BY MeetUnique
<1>4. ASSUME NEW y \in Slaves, y # s, RouteMeet(g, m, y)  PROVE hM[y] = 0
  <2> SUFFICES ASSUME hM[y] # 0  PROVE FALSE
    OBVIOUS
  <2>1. PICK z \in Masters : RouteMeet(r, z, y)
    BY DEF Progress
  <2>2. z = m
    BY <1>1, <1>4, <2>1 DEF RouteMeet
  <2>. QED BY <1>3, <1>4, <2>1, <2>2
<1>5. ASSUME NEW x \in Masters, x # m, RouteMeet(g, x, s)  PROVE hS[x] = 0
  <2> SUFFICES ASSUME hS[x] # 0  PROVE FALSE
    OBVIOUS
  <2>1. PICK z \in Slaves : RouteMeet(r, x, z)
    BY DEF Progress
  <2>2. z = s
    BY <1>1, <1>5, <2>1 DEF RouteMeet
  <2>. QED BY <1>3, <1>5, <2>1, <2>2
<1> DEFINE kS == [hS EXCEPT ![m] = 0]
           kM == [hM EXCEPT ![s] = 0]
<1>6. /\ kS[m] = 0 /\ \A x \in Masters : x # m => kS[x] = hS[x]
      /\ kM[s] = 0 /\ \A y \in Slaves : y # s => kM[y] = hM[y]
  OBVIOUS
<1> HIDE DEF kS, kM
<1>7. ASSUME NEW x \in Masters, NEW y \in Slaves, RouteMeet(g, x, y)  PROVE kS[x] = kM[y]
  <2>1. x # m /\ y # s => hS[x] = hM[y]
    BY <1>2, <1>7 DEF Progress
  <2>. QED BY <1>4, <1>5, <1>6, <1>7, <2>1
<1>8. \A x \in Masters : kS[x] # 0 => \E y \in Slaves : RouteMeet(g, x, y)
  BY <1>2, <1>3, <1>6 DEF Progress
<1>9. \A y \in Slaves : kM[y] # 0 => \E x \in Masters : RouteMeet(g, x, y)
  BY <1>2, <1>3, <1>6 DEF Progress
<1>. QED BY <1>7, <1>8, <1>9 DEF Progress, g, kS, kM

----------------------------------------------------------------------------
(* A FIFO of beats.  P are the bursts of one port, oldest first; w holds   *)
(* their beats without a gap, from beat h of the first burst up to, and    *)
(* without, beat n of the k-th.  K[i] and N[i] are the burst and the beat  *)
(* that the i-th entry of w is.                                            *)
Runs(P, h, w, k, n, K, N) ==
  /\ K[1] = 1 /\ N[1] = h /\ K[Len(w) + 1] = k /\ N[Len(w) + 1] = n
  /\ \A i \in 1..Len(w) + 1, j \in 1..Len(w) + 1 : i <= j => K[i] <= K[j]
  /\ \A i \in 1..Len(w) :
       /\ K[i] <= Len(P)
       /\ w[i] = [req |-> P[K[i]], n |-> N[i]]
       /\ N[i] = P[K[i]].len => K[i + 1] = K[i] + 1 /\ N[i + 1] = 0
       /\ N[i] # P[K[i]].len => K[i + 1] = K[i] /\ N[i + 1] = N[i] + 1

Stream(P, h, w, k, n) ==
  \E K \in [Nat -> Nat], N \in [Nat -> Nat] : Runs(P, h, w, k, n, K, N)

(* An empty FIFO is where it ends.                                         *)
LEMMA StreamEmpty ==
  ASSUME NEW P, NEW h \in Nat, NEW k \in Nat, NEW n \in Nat
  PROVE  Stream(P, h, <<>>, k, n) <=> k = 1 /\ n = h
<1>1. ASSUME Stream(P, h, <<>>, k, n)  PROVE k = 1 /\ n = h
  BY <1>1 DEF Stream, Runs
<1>2. ASSUME k = 1, n = h  PROVE Stream(P, h, <<>>, k, n)
  <2>1. Runs(P, h, <<>>, k, n, [i \in Nat |-> 1], [i \in Nat |-> h])
    BY <1>2 DEF Runs
  <2>2. [i \in Nat |-> 1] \in [Nat -> Nat] /\ [i \in Nat |-> h] \in [Nat -> Nat]
    OBVIOUS
  <2>. QED BY <2>1, <2>2 DEF Stream
<1>. QED BY <1>1, <1>2

(* The next beat goes to the end.                                          *)
LEMMA StreamPut ==
  ASSUME NEW Q, NEW P \in Seq(Q), \A q \in Q : q.len \in Nat, NEW B, NEW w \in Seq(B),
         NEW h \in Nat, NEW k \in 1..Len(P), NEW n \in Nat, Stream(P, h, w, k, n),
         NEW b \in B, b = [req |-> P[k], n |-> n]
  PROVE  /\ n = P[k].len => Stream(P, h, Append(w, b), k + 1, 0)
         /\ n # P[k].len => Stream(P, h, Append(w, b), k, n + 1)
<1>1. PICK K \in [Nat -> Nat], N \in [Nat -> Nat] : Runs(P, h, w, k, n, K, N)
  BY DEF Stream
<1> DEFINE L == Len(w)
           v == Append(w, b)
           k2 == IF n = P[k].len THEN k + 1 ELSE k
           n2 == IF n = P[k].len THEN 0 ELSE n + 1
           J == [K EXCEPT ![L + 2] = k2]
           M == [N EXCEPT ![L + 2] = n2]
<1>2. L \in Nat /\ Len(v) = L + 1 /\ v[L + 1] = b /\ \A i \in 1..L : v[i] = w[i]
  BY AppendEntries
<1>3. k2 \in Nat /\ n2 \in Nat /\ k <= k2
  OBVIOUS
<1>4. /\ J \in [Nat -> Nat] /\ J[L + 2] = k2 /\ \A i \in 1..L + 1 : J[i] = K[i]
      /\ M \in [Nat -> Nat] /\ M[L + 2] = n2 /\ \A i \in 1..L + 1 : M[i] = N[i]
  <2> HIDE DEF L, k2, n2
  <2>1. L + 2 \in Nat /\ \A i \in 1..L + 1 : i \in Nat /\ i # L + 2
    BY <1>2
  <2>. QED BY <1>3, <2>1
<1>5. /\ K[1] = 1 /\ N[1] = h /\ K[L + 1] = k /\ N[L + 1] = n
      /\ \A i \in 1..L + 1, j \in 1..L + 1 : i <= j => K[i] <= K[j]
      /\ \A i \in 1..L :
           /\ K[i] <= Len(P)
           /\ w[i] = [req |-> P[K[i]], n |-> N[i]]
           /\ N[i] = P[K[i]].len => K[i + 1] = K[i] + 1 /\ N[i + 1] = 0
           /\ N[i] # P[K[i]].len => K[i + 1] = K[i] /\ N[i + 1] = N[i] + 1
  BY <1>1 DEF Runs
<1>6. /\ n = P[k].len => k2 = k + 1 /\ n2 = 0
      /\ n # P[k].len => k2 = k /\ n2 = n + 1
  OBVIOUS
<1>k. \A i \in 1..L + 1 : K[i] \in Nat
  BY <1>2
<1> HIDE DEF L, v, k2, n2, J, M
<1>7. \A i \in 1..L + 2 : i \in 1..L + 1 \/ i = L + 2
  BY <1>2
<1>8. ASSUME NEW i \in 1..L + 2, NEW j \in 1..L + 2, i <= j  PROVE J[i] <= J[j]
  <2>1. CASE j \in 1..L + 1
    <3>1. i \in 1..L + 1
      BY <1>2, <1>8, <2>1
    <3>. QED BY <1>4, <1>5, <1>8, <2>1, <3>1
  <2>2. CASE j = L + 2
    <3>1. CASE i = L + 2
      BY <1>3, <1>4, <2>2, <3>1
    <3>2. CASE i \in 1..L + 1
      <4>1. L + 1 \in 1..L + 1 /\ i <= L + 1
        BY <1>2, <3>2
      <4>2. K[i] <= k
        BY <1>5, <3>2, <4>1
      <4>a. \A a \in Nat : a <= k => a <= k2
        BY <1>3
      <4>3. K[i] <= k2
        BY <1>k, <3>2, <4>2, <4>a
      <4>. QED BY <1>4, <2>2, <3>2, <4>3
    <3>. QED BY <1>7, <3>1, <3>2
  <2>. QED BY <1>7, <2>1, <2>2
<1>9. ASSUME NEW i \in 1..L + 1
      PROVE  /\ J[i] <= Len(P)
             /\ v[i] = [req |-> P[J[i]], n |-> M[i]]
             /\ M[i] = P[J[i]].len => J[i + 1] = J[i] + 1 /\ M[i + 1] = 0
             /\ M[i] # P[J[i]].len => J[i + 1] = J[i] /\ M[i + 1] = M[i] + 1
  <2>1. CASE i \in 1..L
    <3>1. i + 1 \in 1..L + 1
      BY <1>2, <2>1
    <3>2. J[i] = K[i] /\ M[i] = N[i] /\ J[i + 1] = K[i + 1] /\ M[i + 1] = N[i + 1] /\ v[i] = w[i]
      BY <1>2, <1>4, <2>1, <3>1
    <3>3. /\ K[i] <= Len(P)
          /\ w[i] = [req |-> P[K[i]], n |-> N[i]]
          /\ N[i] = P[K[i]].len => K[i + 1] = K[i] + 1 /\ N[i + 1] = 0
          /\ N[i] # P[K[i]].len => K[i + 1] = K[i] /\ N[i + 1] = N[i] + 1
      BY <1>5, <2>1
    <3>4. J[i] <= Len(P) /\ v[i] = [req |-> P[J[i]], n |-> M[i]]
      BY <3>2, <3>3
    <3>5. M[i] = P[J[i]].len => J[i + 1] = J[i] + 1 /\ M[i + 1] = 0
      BY <3>2, <3>3
    <3>6. M[i] # P[J[i]].len => J[i + 1] = J[i] /\ M[i + 1] = M[i] + 1
      BY <3>2, <3>3
    <3>. QED BY <3>4, <3>5, <3>6
  <2>2. CASE i = L + 1
    <3>1. J[i] = k /\ M[i] = n /\ J[i + 1] = k2 /\ M[i + 1] = n2 /\ v[i] = b
      <4>1. i + 1 = L + 2
        BY <1>2, <2>2
      <4>. QED BY <1>2, <1>4, <1>5, <2>2, <4>1
    <3>. QED BY <1>6, <3>1
  <2>3. i \in 1..L \/ i = L + 1
    BY SMTT(30), <1>2
  <2>. QED BY <2>1, <2>2, <2>3
<1>10. J[1] = 1 /\ M[1] = h
  <2>1. 1 \in 1..L + 1
    BY <1>2
  <2>. QED BY <1>4, <1>5, <2>1
<1>11. Len(v) + 1 = L + 2
  BY <1>2
<1>12. Runs(P, h, v, k2, n2, J, M)
  BY <1>2, <1>4, <1>8, <1>9, <1>10, <1>11 DEF Runs
<1>13. Stream(P, h, v, k2, n2)
  BY <1>4, <1>12 DEF Stream
<1>. QED BY <1>6, <1>13 DEF v

(* The tail of a sequence, entry by entry.                                 *)
LEMMA TailEntries ==
  ASSUME NEW S, NEW q \in Seq(S), q # <<>>
  PROVE  /\ Len(q) \in Nat /\ 1 <= Len(q) /\ Head(q) = q[1]
         /\ Tail(q) \in Seq(S) /\ Len(Tail(q)) = Len(q) - 1
         /\ \A i \in 1..Len(q) - 1 : Tail(q)[i] = q[i + 1]
  OBVIOUS

(* A function on the naturals moved by one place.                          *)
LEMMA Shifted ==
  ASSUME NEW f \in [Nat -> Nat]
  PROVE  LET g == [i \in Nat |-> f[i + 1]]
         IN  g \in [Nat -> Nat] /\ \A i \in Nat : g[i] = f[i + 1]
<1>1. \A i \in Nat : i + 1 \in Nat
  OBVIOUS
<1>. QED BY <1>1

(* A burst that is issued does not disturb those before it.                *)
LEMMA StreamGrow ==
  ASSUME NEW Q, NEW P \in Seq(Q), NEW q \in Q, NEW B, NEW w \in Seq(B),
         NEW h \in Nat, NEW k \in Nat, NEW n \in Nat, Stream(P, h, w, k, n)
  PROVE  Stream(Append(P, q), h, w, k, n)
<1>1. PICK K \in [Nat -> Nat], N \in [Nat -> Nat] : Runs(P, h, w, k, n, K, N)
  BY DEF Stream
<1> DEFINE R == Append(P, q)
<1>2. /\ Len(P) \in Nat /\ Len(R) = Len(P) + 1
      /\ \A i \in 1..Len(P) : R[i] = P[i]
  BY AppendEntries
<1> HIDE DEF R
<1>a. Len(w) \in Nat
  OBVIOUS
<1>3. \A i \in 1..Len(w) : i \in 1..Len(w) + 1 /\ 1 \in 1..Len(w) + 1 /\ 1 <= i /\ i \in Nat
  <2>1. \A a \in Nat : \A i \in 1..a : i \in 1..a + 1 /\ 1 \in 1..a + 1 /\ 1 <= i /\ i \in Nat
    OBVIOUS
  <2>. QED BY <1>a, <2>1
<1>4. ASSUME NEW i \in 1..Len(w)  PROVE K[i] <= Len(R) /\ R[K[i]] = P[K[i]]
  <2>1. /\ K[1] = 1 /\ K[i] <= Len(P)
        /\ \A l \in 1..Len(w) + 1, j \in 1..Len(w) + 1 : l <= j => K[l] <= K[j]
    BY <1>1 DEF Runs
  <2>2. K[1] <= K[i] /\ K[i] \in Nat
    BY <1>3, <2>1
  <2> DEFINE a == K[i]
  <2>3. a \in Nat /\ 1 <= a /\ a <= Len(P)
    BY <2>1, <2>2
  <2> HIDE DEF a
  <2>4. a \in 1..Len(P) /\ a <= Len(R)
    BY <1>2, <2>3
  <2>5. R[a] = P[a]
    BY <1>2, <2>4
  <2>. QED BY <2>4, <2>5 DEF a
<1>5. Runs(R, h, w, k, n, K, N)
  BY <1>1, <1>4 DEF Runs
<1>. QED BY <1>5 DEF Stream, R

(* The first beat is of the first burst; when it is its last, the burst    *)
(* is over.                                                                *)
LEMMA StreamGet ==
  ASSUME NEW Q, NEW P \in Seq(Q), \A q \in Q : q.len \in Nat, NEW B, NEW w \in Seq(B), w # <<>>,
         NEW h \in Nat, NEW k \in Nat, NEW n \in Nat, Stream(P, h, w, k, n)
  PROVE  /\ P # <<>> /\ Head(w) = [req |-> Head(P), n |-> h]
         /\ h = Head(P).len => k - 1 \in Nat \ {0} /\ Stream(Tail(P), 0, Tail(w), k - 1, n)
         /\ h # Head(P).len => Stream(P, h + 1, Tail(w), k, n)
<1>1. PICK K \in [Nat -> Nat], N \in [Nat -> Nat] : Runs(P, h, w, k, n, K, N)
  BY DEF Stream
<1> DEFINE L == Len(w)
           v == Tail(w)
<1>2. L \in Nat /\ 1 <= L /\ Len(v) = L - 1 /\ Head(w) = w[1] /\ \A i \in 1..L - 1 : v[i] = w[i + 1]
  BY TailEntries
<1>3. /\ K[1] = 1 /\ N[1] = h /\ K[L + 1] = k /\ N[L + 1] = n
      /\ \A i \in 1..L + 1, j \in 1..L + 1 : i <= j => K[i] <= K[j]
      /\ \A i \in 1..L :
           /\ K[i] <= Len(P)
           /\ w[i] = [req |-> P[K[i]], n |-> N[i]]
           /\ N[i] = P[K[i]].len => K[i + 1] = K[i] + 1 /\ N[i + 1] = 0
           /\ N[i] # P[K[i]].len => K[i + 1] = K[i] /\ N[i + 1] = N[i] + 1
  BY <1>1 DEF Runs
<1> HIDE DEF L, v
<1>4. 1 \in 1..L /\ \A i \in 1..L - 1 : i + 1 \in 1..L /\ i \in Nat
  BY <1>2
<1>5. Len(P) \in Nat /\ 1 <= Len(P)
  <2>1. K[1] <= Len(P)
    BY <1>3, <1>4
  <2>. QED BY <1>3, <2>1
<1>6. P # <<>> /\ Head(P) = P[1]
  BY <1>5
<1>7. Head(w) = [req |-> Head(P), n |-> h]
  <2>1. w[1] = [req |-> P[K[1]], n |-> N[1]]
    BY <1>3, <1>4
  <2>2. K[1] = 1 /\ N[1] = h
    BY <1>3
  <2>. QED BY <1>2, <1>6, <2>1, <2>2
<1>8. /\ h = Head(P).len => K[2] = 2 /\ N[2] = 0
      /\ h # Head(P).len => K[2] = 1 /\ N[2] = h + 1
  <2>1. /\ N[1] = P[K[1]].len => K[1 + 1] = K[1] + 1 /\ N[1 + 1] = 0
        /\ N[1] # P[K[1]].len => K[1 + 1] = K[1] /\ N[1 + 1] = N[1] + 1
    BY <1>3, <1>4
  <2>2. K[1] = 1 /\ N[1] = h /\ 1 + 1 = 2
    BY <1>3
  <2>3. /\ h = P[1].len => K[2] = 1 + 1 /\ N[2] = 0
        /\ h # P[1].len => K[2] = 1 /\ N[2] = h + 1
    BY <2>1, <2>2
  <2>. QED BY <1>6, <2>2, <2>3
<1> DEFINE M == [i \in Nat |-> N[i + 1]]
<1>m. M \in [Nat -> Nat] /\ \A i \in Nat : M[i] = N[i + 1]
  BY Shifted
<1>n. \A i \in 1..L : i \in Nat /\ i + 1 \in 1..L + 1 /\ 2 \in 1..L + 1 /\ 2 <= i + 1
  BY <1>2
<1> HIDE DEF M
<1>9. ASSUME h # Head(P).len  PROVE Stream(P, h + 1, v, k, n)
  <2> DEFINE J == [i \in Nat |-> K[i + 1]]
  <2>1. J \in [Nat -> Nat] /\ \A i \in Nat : J[i] = K[i + 1]
    BY Shifted
  <2> HIDE DEF J
  <2>2. J[1] = 1 /\ M[1] = h + 1 /\ J[L] = k /\ M[L] = n
    BY <1>2, <1>3, <1>8, <1>9, <1>m, <2>1
  <2>3. ASSUME NEW i \in 1..L, NEW j \in 1..L, i <= j  PROVE J[i] <= J[j]
    <3>0. i + 1 \in 1..L + 1 /\ j + 1 \in 1..L + 1 /\ i + 1 <= j + 1
      BY <1>n, <2>3
    <3>1. K[i + 1] <= K[j + 1]
      BY <1>3, <3>0
    <3>. QED BY <1>n, <2>1, <3>1
  <2>4. ASSUME NEW i \in 1..L - 1
        PROVE  /\ J[i] <= Len(P)
               /\ v[i] = [req |-> P[J[i]], n |-> M[i]]
               /\ M[i] = P[J[i]].len => J[i + 1] = J[i] + 1 /\ M[i + 1] = 0
               /\ M[i] # P[J[i]].len => J[i + 1] = J[i] /\ M[i + 1] = M[i] + 1
    <3>1. /\ J[i] = K[i + 1] /\ M[i] = N[i + 1] /\ v[i] = w[i + 1]
          /\ J[i + 1] = K[(i + 1) + 1] /\ M[i + 1] = N[(i + 1) + 1]
      <4>1. i \in Nat /\ i + 1 \in Nat
        BY <1>4
      <4>. QED BY <1>2, <1>m, <2>1, <4>1
    <3>2. i + 1 \in 1..L
      BY <1>4
    <3>3. /\ K[i + 1] <= Len(P)
          /\ w[i + 1] = [req |-> P[K[i + 1]], n |-> N[i + 1]]
          /\ N[i + 1] = P[K[i + 1]].len => K[(i + 1) + 1] = K[i + 1] + 1 /\ N[(i + 1) + 1] = 0
          /\ N[i + 1] # P[K[i + 1]].len => K[(i + 1) + 1] = K[i + 1] /\ N[(i + 1) + 1] = N[i + 1] + 1
      BY <1>3, <3>2
    <3>4. J[i] <= Len(P) /\ v[i] = [req |-> P[J[i]], n |-> M[i]]
      BY <3>1, <3>3
    <3>5. M[i] = P[J[i]].len => J[i + 1] = J[i] + 1 /\ M[i + 1] = 0
      BY <3>1, <3>3
    <3>6. M[i] # P[J[i]].len => J[i + 1] = J[i] /\ M[i + 1] = M[i] + 1
      BY <3>1, <3>3
    <3>. QED BY <3>4, <3>5, <3>6
  <2>5. Len(v) + 1 = L
    BY <1>2
  <2>6. Runs(P, h + 1, v, k, n, J, M)
    BY <1>2, <2>2, <2>3, <2>4, <2>5 DEF Runs
  <2>. QED BY <1>m, <2>1, <2>6 DEF Stream
<1>10. ASSUME h = Head(P).len  PROVE k - 1 \in Nat \ {0} /\ Stream(Tail(P), 0, v, k - 1, n)
  <2> DEFINE R == Tail(P)
             J == [i \in Nat |-> IF K[i + 1] = 0 THEN 0 ELSE K[i + 1] - 1]
  <2>0. Len(R) = Len(P) - 1 /\ \A i \in 1..Len(P) - 1 : R[i] = P[i + 1]
    BY <1>6
  <2>1. /\ J \in [Nat -> Nat]
        /\ \A i \in Nat : K[i + 1] # 0 => J[i] = K[i + 1] - 1
    <3>1. \A i \in Nat : K[i + 1] \in Nat
      <4>1. \A i \in Nat : i + 1 \in Nat
        OBVIOUS
      <4>. QED BY <4>1
    <3>2. \A a \in Nat : a # 0 => a - 1 \in Nat
      OBVIOUS
    <3>. QED BY <3>1, <3>2
  <2>a. \A i \in 1..L : K[i + 1] \in Nat /\ 2 <= K[i + 1]
    <3> TAKE i \in 1..L
    <3>1. K[2] <= K[i + 1]
      BY <1>3, <1>n
    <3>. QED BY <1>8, <1>10, <1>n, <3>1
  <2> HIDE DEF J, R
  <2>b. \A i \in 1..L : J[i] = K[i + 1] - 1 /\ i \in Nat
    <3> TAKE i \in 1..L
    <3>1. K[i + 1] # 0 /\ i \in Nat
      BY <1>n, <2>a
    <3>. QED BY <2>1, <3>1
  <2>l. L \in 1..L /\ 1 \in 1..L
    BY <1>2
  <2>2. J[1] = 1 /\ M[1] = 0 /\ J[L] = k - 1 /\ M[L] = n /\ 2 <= k
    <3>1. J[1] = K[1 + 1] - 1 /\ J[L] = K[L + 1] - 1 /\ 2 <= K[L + 1]
      BY <2>a, <2>b, <2>l
    <3>. QED BY <1>2, <1>3, <1>8, <1>10, <1>m, <3>1
  <2>3. ASSUME NEW i \in 1..L, NEW j \in 1..L, i <= j  PROVE J[i] <= J[j]
    <3>0. i + 1 \in 1..L + 1 /\ j + 1 \in 1..L + 1 /\ i + 1 <= j + 1
      BY <1>n, <2>3
    <3>1. K[i + 1] <= K[j + 1]
      BY <1>3, <3>0
    <3>2. K[i + 1] \in Nat /\ K[j + 1] \in Nat
      BY <2>a
    <3>3. \A a, b \in Nat : a <= b => a - 1 <= b - 1
      OBVIOUS
    <3>. QED BY <2>b, <3>1, <3>2, <3>3
  <2>4. ASSUME NEW i \in 1..L - 1
        PROVE  /\ J[i] <= Len(R)
               /\ v[i] = [req |-> R[J[i]], n |-> M[i]]
               /\ M[i] = R[J[i]].len => J[i + 1] = J[i] + 1 /\ M[i + 1] = 0
               /\ M[i] # R[J[i]].len => J[i + 1] = J[i] /\ M[i + 1] = M[i] + 1
    <3>1. i \in 1..L /\ i + 1 \in 1..L /\ i \in Nat
      BY <1>2
    <3>2. /\ K[i + 1] <= Len(P)
          /\ w[i + 1] = [req |-> P[K[i + 1]], n |-> N[i + 1]]
          /\ N[i + 1] = P[K[i + 1]].len => K[(i + 1) + 1] = K[i + 1] + 1 /\ N[(i + 1) + 1] = 0
          /\ N[i + 1] # P[K[i + 1]].len => K[(i + 1) + 1] = K[i + 1] /\ N[(i + 1) + 1] = N[i + 1] + 1
      BY <1>3, <3>1
    <3>3. /\ J[i] = K[i + 1] - 1 /\ M[i] = N[i + 1] /\ v[i] = w[i + 1]
          /\ J[i + 1] = K[(i + 1) + 1] - 1 /\ M[i + 1] = N[(i + 1) + 1]
      BY <1>2, <1>m, <2>b, <3>1
    <3>4. K[i + 1] \in Nat /\ 2 <= K[i + 1] /\ K[(i + 1) + 1] \in Nat
      BY <2>a, <3>1
    <3>5. J[i] \in 1..Len(P) - 1 /\ J[i] + 1 = K[i + 1]
      <4>1. \A a \in Nat : 2 <= a /\ a <= Len(P) => a - 1 \in 1..Len(P) - 1 /\ (a - 1) + 1 = a
        BY <1>5
      <4>2. K[i + 1] <= Len(P)
        BY <3>2
      <4>. QED BY <3>3, <3>4, <4>1, <4>2
    <3>6. R[J[i]] = P[K[i + 1]] /\ J[i] <= Len(R)
      <4>1. R[J[i]] = P[J[i] + 1]
        BY <2>0, <3>5
      <4>2. J[i] <= Len(R)
        BY <1>5, <2>0, <3>5
      <4>. QED BY <3>5, <4>1, <4>2
    <3>7. v[i] = [req |-> R[J[i]], n |-> M[i]]
      BY <3>2, <3>3, <3>6
    <3>8. M[i] = R[J[i]].len => J[i + 1] = J[i] + 1 /\ M[i + 1] = 0
      <4>1. \A a, b \in Nat : a = b + 1 => a - 1 = (b - 1) + 1
        OBVIOUS
      <4> SUFFICES ASSUME M[i] = R[J[i]].len  PROVE J[i + 1] = J[i] + 1 /\ M[i + 1] = 0
        OBVIOUS
      <4>2. N[i + 1] = P[K[i + 1]].len
        BY <3>3, <3>6
      <4>3. K[(i + 1) + 1] = K[i + 1] + 1 /\ N[(i + 1) + 1] = 0
        BY <3>2, <4>2
      <4>4. K[(i + 1) + 1] - 1 = (K[i + 1] - 1) + 1
        BY <3>4, <4>1, <4>3
      <4>. QED BY <3>3, <4>3, <4>4
    <3>9. M[i] # R[J[i]].len => J[i + 1] = J[i] /\ M[i + 1] = M[i] + 1
      BY <3>2, <3>3, <3>6
    <3>. QED BY <3>6, <3>7, <3>8, <3>9
  <2>5. Len(v) + 1 = L
    BY <1>2
  <2>6. Runs(R, 0, v, k - 1, n, J, M)
    BY <1>2, <2>2, <2>3, <2>4, <2>5 DEF Runs
  <2>7. k - 1 \in Nat \ {0}
    BY <2>2
  <2>. QED BY <1>m, <2>1, <2>6, <2>7 DEF Stream, R
<1>. QED BY <1>6, <1>7, <1>9, <1>10 DEF v

----------------------------------------------------------------------------
(* An item that moves from the head of one FIFO to the end of the FIFO     *)
(* before it stays in its place in the two of them.                        *)
LEMMA MoveHead ==
  ASSUME NEW S, NEW a \in Seq(S), NEW b \in Seq(S), b # <<>>
  PROVE  Append(a, Head(b)) \o Tail(b) = a \o b
<1> DEFINE x == Append(a, Head(b))
           y == Tail(b)
<1>1. /\ x \in Seq(S) /\ Len(x) = Len(a) + 1 /\ x[Len(a) + 1] = b[1]
      /\ \A i \in 1..Len(a) : x[i] = a[i]
  BY AppendEntries
<1>2. /\ y \in Seq(S) /\ Len(y) = Len(b) - 1 /\ 1 <= Len(b)
      /\ \A i \in 1..Len(b) - 1 : y[i] = b[i + 1]
  BY TailEntries
<1>n. Len(a) \in Nat /\ Len(b) \in Nat
  OBVIOUS
<1> HIDE DEF x, y
<1>3. /\ x \o y \in Seq(S) /\ Len(x \o y) = Len(x) + Len(y)
      /\ \A i \in 1..Len(x) + Len(y) : (x \o y)[i] = IF i <= Len(x) THEN x[i] ELSE y[i - Len(x)]
  BY <1>1, <1>2, ConcatProperties
<1>4. /\ a \o b \in Seq(S) /\ Len(a \o b) = Len(a) + Len(b)
      /\ \A i \in 1..Len(a) + Len(b) : (a \o b)[i] = IF i <= Len(a) THEN a[i] ELSE b[i - Len(a)]
  BY ConcatProperties
<1>5. Len(x \o y) = Len(a \o b)
  BY <1>n, <1>1, <1>2, <1>3, <1>4
<1>6. ASSUME NEW i \in 1..Len(x \o y)  PROVE (x \o y)[i] = (a \o b)[i]
  <2>1. i \in 1..Len(x) + Len(y) /\ i \in 1..Len(a) + Len(b) /\ i \in Nat
    BY <1>n, <1>1, <1>2, <1>3
  <2>2. CASE i <= Len(a)
    <3>1. i \in 1..Len(a) /\ i <= Len(x)
      BY <1>n, <1>1, <2>1, <2>2
    <3>2. (x \o y)[i] = x[i] /\ (a \o b)[i] = a[i]
      BY <1>3, <1>4, <2>1, <3>1
    <3>. QED BY <1>1, <3>1, <3>2
  <2>3. CASE i = Len(a) + 1
    <3>1. i <= Len(x) /\ ~(i <= Len(a)) /\ i - Len(a) = 1
      BY <1>n, <1>1, <2>3
    <3>2. (x \o y)[i] = x[i] /\ (a \o b)[i] = b[1]
      BY <1>3, <1>4, <2>1, <3>1
    <3>. QED BY <1>1, <2>3, <3>2
  <2>4. CASE ~(i <= Len(a) + 1)
    <3>1. /\ ~(i <= Len(x)) /\ ~(i <= Len(a)) /\ i - Len(x) \in 1..Len(b) - 1
          /\ (i - Len(x)) + 1 = i - Len(a)
      BY <1>n, <1>1, <1>2, <2>1, <2>4
    <3>2. (x \o y)[i] = y[i - Len(x)] /\ (a \o b)[i] = b[i - Len(a)]
      BY <1>3, <1>4, <2>1, <3>1
    <3>3. y[i - Len(x)] = b[(i - Len(x)) + 1]
      BY <1>2, <3>1
    <3>. QED BY <3>1, <3>2, <3>3
  <2>. QED BY <2>2, <2>3, <2>4, <1>n, <2>1
<1>7. x \o y = a \o b
  BY <1>3, <1>4, <1>5, <1>6, SeqEqual
<1>. QED BY <1>7 DEF x, y

(* Items enter a chain of FIFOs at its end.                                *)
LEMMA ConcatAppend ==
  ASSUME NEW S, NEW a \in Seq(S), NEW b \in Seq(S), NEW e \in S
  PROVE  a \o Append(b, e) = Append(a \o b, e)
<1>1. a \o b \in Seq(S) /\ <<e>> \in Seq(S)
  BY ConcatProperties
<1>2. a \o Append(b, e) = a \o (b \o <<e>>)
  BY AppendIsConcat
<1>3. a \o (b \o <<e>>) = (a \o b) \o <<e>>
  BY <1>1, ConcatAssociative
<1>4. (a \o b) \o <<e>> = Append(a \o b, e)
  BY <1>1, AppendIsConcat
<1>. QED BY <1>2, <1>3, <1>4

(* And leave it at its head.                                               *)
LEMMA TailConcat ==
  ASSUME NEW S, NEW a \in Seq(S), NEW b \in Seq(S), a # <<>>
  PROVE  /\ a \o b # <<>> /\ Head(a \o b) = Head(a)
         /\ Tail(a \o b) = Tail(a) \o b
<1> DEFINE c == a \o b
           d == Tail(a)
<1>1. /\ c \in Seq(S) /\ Len(c) = Len(a) + Len(b)
      /\ \A i \in 1..Len(a) + Len(b) : c[i] = IF i <= Len(a) THEN a[i] ELSE b[i - Len(a)]
  BY ConcatProperties
<1>2. /\ d \in Seq(S) /\ Len(d) = Len(a) - 1 /\ 1 <= Len(a) /\ Head(a) = a[1]
      /\ \A i \in 1..Len(a) - 1 : d[i] = a[i + 1]
  BY TailEntries
<1>n. Len(a) \in Nat /\ Len(b) \in Nat
  OBVIOUS
<1> HIDE DEF c, d
<1>3. c # <<>> /\ c[1] = a[1]
  <2>1. 1 \in 1..Len(a) + Len(b)
    BY <1>n, <1>2
  <2>2. Len(c) # 0
    BY <1>n, <1>1, <1>2
  <2>. QED BY <1>1, <1>2, <2>1, <2>2
<1>4. /\ Tail(c) \in Seq(S) /\ Len(Tail(c)) = Len(c) - 1 /\ Head(c) = c[1]
      /\ \A i \in 1..Len(c) - 1 : Tail(c)[i] = c[i + 1]
  BY <1>1, <1>3, TailEntries
<1>5. /\ d \o b \in Seq(S) /\ Len(d \o b) = Len(d) + Len(b)
      /\ \A i \in 1..Len(d) + Len(b) : (d \o b)[i] = IF i <= Len(d) THEN d[i] ELSE b[i - Len(d)]
  BY <1>2, ConcatProperties
<1>6. Len(Tail(c)) = Len(d \o b)
  BY <1>n, <1>1, <1>2, <1>4, <1>5
<1>7. ASSUME NEW i \in 1..Len(Tail(c))  PROVE Tail(c)[i] = (d \o b)[i]
  <2>1. /\ i \in 1..Len(c) - 1 /\ i \in 1..Len(d) + Len(b) /\ i + 1 \in 1..Len(a) + Len(b)
        /\ i \in Nat
    BY <1>n, <1>1, <1>2, <1>4
  <2>2. Tail(c)[i] = c[i + 1]
    BY <1>4, <2>1
  <2>3. CASE i <= Len(d)
    <3>1. i \in 1..Len(a) - 1 /\ i + 1 <= Len(a)
      BY <1>n, <1>2, <2>1, <2>3
    <3>2. c[i + 1] = a[i + 1] /\ (d \o b)[i] = d[i]
      BY <1>1, <1>5, <2>1, <2>3, <3>1
    <3>. QED BY <1>2, <2>2, <3>1, <3>2
  <2>4. CASE ~(i <= Len(d))
    <3>1. ~(i + 1 <= Len(a)) /\ (i + 1) - Len(a) = i - Len(d)
      BY <1>n, <1>2, <2>1, <2>4
    <3>2. c[i + 1] = b[(i + 1) - Len(a)] /\ (d \o b)[i] = b[i - Len(d)]
      BY <1>1, <1>5, <2>1, <2>4, <3>1
    <3>. QED BY <2>2, <3>1, <3>2
  <2>. QED BY <2>3, <2>4
<1>8. Tail(c) = d \o b
  BY <1>4, <1>5, <1>6, <1>7, SeqEqual
<1>. QED BY <1>2, <1>3, <1>4, <1>8 DEF c, d

(* The item after those of the first FIFO is the head of the second.       *)
LEMMA ConcatNext ==
  ASSUME NEW S, NEW a \in Seq(S), NEW b \in Seq(S), b # <<>>
  PROVE  Len(a) + 1 \in 1..Len(a \o b) /\ (a \o b)[Len(a) + 1] = Head(b)
<1>1. /\ Len(a \o b) = Len(a) + Len(b)
      /\ \A i \in 1..Len(a) + Len(b) :
           (a \o b)[i] = IF i <= Len(a) THEN a[i] ELSE b[i - Len(a)]
  BY ConcatProperties
<1>2. Len(b) \in Nat /\ 1 <= Len(b) /\ Head(b) = b[1] /\ Len(a) \in Nat
  BY TailEntries
<1>3. Len(a) + 1 \in 1..Len(a) + Len(b) /\ ~(Len(a) + 1 <= Len(a)) /\ (Len(a) + 1) - Len(a) = 1
  BY <1>2
<1>. QED BY <1>1, <1>2, <1>3

(* Removing the first of the equals of the head leaves the tail.           *)
LEMMA RemoveFirst ==
  ASSUME NEW S, NEW q \in Seq(S), NEW i \in 1..Len(q), q[i] = Head(q),
         \A j \in 1..i - 1 : q[j] # q[i]
  PROVE  /\ i = 1
         /\ SubSeq(q, 1, i - 1) \o SubSeq(q, i + 1, Len(q)) = Tail(q)
<1>1. q # <<>> /\ Len(q) \in Nat /\ i \in Nat
  OBVIOUS
<1>2. Head(q) = q[1]
  BY <1>1
<1>3. i = 1
  <2> SUFFICES ASSUME i # 1  PROVE FALSE
    OBVIOUS
  <2>1. 1 \in 1..i - 1
    BY <1>1
  <2>. QED BY <1>2, <2>1
<1>4. SubSeq(q, 1, i - 1) = <<>>
  BY <1>3, SubSeqEmpty
<1>5. SubSeq(q, i + 1, Len(q)) = Tail(q)
  BY <1>1, <1>3, TailIsSubSeq
<1>6. <<>> \o Tail(q) = Tail(q)
  BY <1>1, ConcatEmptySeq, HeadTailProperties
<1>. QED BY <1>3, <1>4, <1>5, <1>6

----------------------------------------------------------------------------
(* The bursts P of a port, rest of which still have beats to enter w: n    *)
(* beats of the first of rest are in, and h beats of the first of P are    *)
(* out again.                                                              *)
Flow(Q, P, rest, h, w, n) ==
  \E g \in Seq(Q) : P = g \o rest /\ Stream(P, h, w, Len(g) + 1, n)

(* After reset.                                                            *)
LEMMA FlowEmpty ==
  ASSUME NEW Q
  PROVE  Flow(Q, <<>>, <<>>, 0, <<>>, 0)
<1>1. <<>> \in Seq(Q) /\ <<>> = <<>> \o <<>> /\ Len(<<>>) + 1 = 1
  OBVIOUS
<1>2. Stream(<<>>, 0, <<>>, 1, 0)
  BY StreamEmpty
<1>. QED BY <1>1, <1>2 DEF Flow

(* A burst is issued.                                                      *)
LEMMA FlowGrow ==
  ASSUME NEW Q, NEW P, NEW rest \in Seq(Q), NEW q \in Q, NEW B, NEW w \in Seq(B),
         NEW h \in Nat, NEW n \in Nat, Flow(Q, P, rest, h, w, n)
  PROVE  Flow(Q, Append(P, q), Append(rest, q), h, w, n)
<1>1. PICK g \in Seq(Q) : P = g \o rest /\ Stream(P, h, w, Len(g) + 1, n)
  BY DEF Flow
<1>2. P \in Seq(Q) /\ Len(g) + 1 \in Nat
  BY <1>1, ConcatProperties
<1>3. Append(P, q) = g \o Append(rest, q)
  <2>1. g \o Append(rest, q) = Append(g \o rest, q)
    BY ConcatAppend
  <2>. QED BY <1>1, <2>1
<1>4. Stream(Append(P, q), h, w, Len(g) + 1, n)
  BY <1>1, <1>2, StreamGrow
<1>. QED BY <1>3, <1>4 DEF Flow

(* The next beat enters.                                                   *)
LEMMA FlowPut ==
  ASSUME NEW Q, \A q \in Q : q.len \in Nat, NEW P, NEW rest \in Seq(Q), rest # <<>>,
         NEW B, NEW w \in Seq(B), NEW h \in Nat, NEW n \in Nat, Flow(Q, P, rest, h, w, n),
         NEW b \in B, b = [req |-> Head(rest), n |-> n]
  PROVE  /\ n = Head(rest).len => Flow(Q, P, Tail(rest), h, Append(w, b), 0)
         /\ n # Head(rest).len => Flow(Q, P, rest, h, Append(w, b), n + 1)
<1>1. PICK g \in Seq(Q) : P = g \o rest /\ Stream(P, h, w, Len(g) + 1, n)
  BY DEF Flow
<1> DEFINE k == Len(g) + 1
           f == Append(g, Head(rest))
<1>2. P \in Seq(Q) /\ k \in 1..Len(P) /\ P[k] = Head(rest)
  BY <1>1, ConcatProperties, ConcatNext
<1>3. /\ f \in Seq(Q) /\ Len(f) + 1 = k + 1
  BY HeadTailProperties
<1>4. P = f \o Tail(rest)
  BY <1>1, MoveHead
<1>a. Stream(P, h, w, k, n)
  BY <1>1
<1> HIDE DEF k, f
<1>5. /\ n = P[k].len => Stream(P, h, Append(w, b), k + 1, 0)
      /\ n # P[k].len => Stream(P, h, Append(w, b), k, n + 1)
  BY <1>2, <1>a, StreamPut
<1>6. n = Head(rest).len => Flow(Q, P, Tail(rest), h, Append(w, b), 0)
  BY <1>2, <1>3, <1>4, <1>5 DEF Flow
<1>7. n # Head(rest).len => Flow(Q, P, rest, h, Append(w, b), n + 1)
  BY <1>1, <1>2, <1>5 DEF Flow, k
<1>. QED BY <1>6, <1>7

(* The oldest beat leaves.                                                 *)
LEMMA FlowGet ==
  ASSUME NEW Q, \A q \in Q : q.len \in Nat, NEW P, NEW rest \in Seq(Q),
         NEW B, NEW w \in Seq(B), w # <<>>, NEW h \in Nat, NEW n \in Nat,
         Flow(Q, P, rest, h, w, n)
  PROVE  /\ P \in Seq(Q) /\ P # <<>> /\ Head(w) = [req |-> Head(P), n |-> h]
         /\ h = Head(P).len => Flow(Q, Tail(P), rest, 0, Tail(w), n)
         /\ h # Head(P).len => Flow(Q, P, rest, h + 1, Tail(w), n)
<1>1. PICK g \in Seq(Q) : P = g \o rest /\ Stream(P, h, w, Len(g) + 1, n)
  BY DEF Flow
<1> DEFINE k == Len(g) + 1
<1>2. P \in Seq(Q) /\ k \in Nat
  BY <1>1, ConcatProperties
<1>a. Stream(P, h, w, k, n)
  BY <1>1
<1> HIDE DEF k
<1>3. /\ P # <<>> /\ Head(w) = [req |-> Head(P), n |-> h]
      /\ h = Head(P).len => k - 1 \in Nat \ {0} /\ Stream(Tail(P), 0, Tail(w), k - 1, n)
      /\ h # Head(P).len => Stream(P, h + 1, Tail(w), k, n)
  BY <1>2, <1>a, StreamGet
<1>4. ASSUME h = Head(P).len  PROVE Flow(Q, Tail(P), rest, 0, Tail(w), n)
  <2>1. k - 1 \in Nat \ {0} /\ Stream(Tail(P), 0, Tail(w), k - 1, n)
    BY <1>3, <1>4
  <2>2. g # <<>>
    BY <2>1 DEF k
  <2>3. Tail(g) \in Seq(Q) /\ Len(Tail(g)) + 1 = k - 1
    BY <2>2 DEF k
  <2>4. Tail(P) = Tail(g) \o rest
    BY <1>1, <2>2, TailConcat
  <2>. QED BY <2>1, <2>3, <2>4 DEF Flow
<1>5. h # Head(P).len => Flow(Q, P, rest, h + 1, Tail(w), n)
  BY <1>1, <1>3 DEF Flow, k
<1>. QED BY <1>2, <1>3, <1>4, <1>5
============================================================================
