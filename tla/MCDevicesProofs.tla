--------------------------- MODULE MCDevicesProofs ---------------------------
(***************************************************************************)
(* The accelerator's driver: whose transform a call returns, and that the  *)
(* statistics of the calls agree, for every number of words, calls, polls  *)
(* and entries of the log.                                                 *)
(*                                                                         *)
(* The bridge: what it promises, for every width of the bus, every burst   *)
(* the AXI master may ask for and any error of the APB.  The rules that    *)
(* ask for accesses, the cluster that answers them and the rules that take *)
(* the answers run on counters of their own; the invariant says how each   *)
(* stands to the number of accesses asked for and answered.                *)
(***************************************************************************)
EXTENDS MCDevices, FiniteSetTheorems, WellFoundedInduction, SequenceTheorems, TLAPS

-----------------------------------------------------------------------------
(* The driver.                                                             *)
USE DriverAssumption

(* The part of TypeOK the argument needs, and i within the polynomial.     *)
Typed ==
  /\ pc \in {"boot", "out", "settle", "pack", "start", "poll", "stop", "unpack", "account"}
  /\ i \in Words /\ call \in Nat /\ taken \in BOOLEAN
  /\ st \in {"IDLE", "LOADING", "RUNNING", "DONE"}
  /\ din \in [Words -> Nat]
  /\ poly = [w \in Words |-> poly[w]]

(* DATA_IN fills up with the words of this call, and stays so until the    *)
(* driver has seen the end of the transform.                               *)
Filled ==
  /\ pc \in {"settle", "pack"} => poly = Input(call) /\ ~taken
  /\ pc = "pack" => \A w \in Words : w < i => din[w] = call
  /\ pc = "start" => ~taken
  /\ pc \in {"start", "poll", "stop"} => din = Vector(call)

(* Once START is taken, what the core works on and publishes is this       *)
(* call's vector, and it does not fall back to IDLE before CTRL = 0.       *)
Owned ==
  taken /\ pc \in {"poll", "stop"} =>
    /\ st # "IDLE"
    /\ st = "RUNNING" => work = Vector(call)
    /\ st = "DONE" => dout = Vector(call)

(* The handshake, when no wait is cut short: each call finds IDLE, has its *)
(* START taken, and leaves polling only on DONE.                           *)
Shaken ==
  Prompt \/ handshake =>
    /\ pc \notin {"poll", "stop"} => st = "IDLE"
    /\ pc \in {"poll", "stop"} => taken
    /\ pc = "stop" => st = "DONE"
    /\ pc = "unpack" => /\ dout = Vector(call)
                        /\ \A w \in Words : w < i => poly[w] = Transform(Vector(call))[w]
    /\ pc = "account" => poly = Transform(Vector(call))

IInv == Typed /\ Filled /\ Owned /\ Shaken

(* Loops start at a word.                                                  *)
LEMMA ZeroIsAWord == 0 \in Words
BY DEF Words

(* Start-up and reset establish the invariant.                             *)
LEMMA InitInv == Init => IInv
<1> SUFFICES ASSUME Init PROVE IInv
  OBVIOUS
<1>1. Typed
  BY ZeroIsAWord DEF Init, Typed, Input, Vector
<1>2. Filled /\ Owned /\ Shaken
  BY DEF Init, Filled, Owned, Shaken
<1> QED
  BY <1>1, <1>2 DEF IInv

(* One step per action.  The accelerator moves only between LOADING and    *)
(* DONE, and touches no variable of the driver.                            *)
LEMMA StepInv == IInv /\ [Next]_vars => IInv'
<1> SUFFICES ASSUME IInv, [Next]_vars PROVE IInv'
  OBVIOUS
<1> USE DEF IInv
<1>0. handshake' = handshake
  BY DEF Next, Driver, Accelerator, vars
<1>1. CASE Load
  BY <1>0, <1>1 DEF Load, Typed, Filled, Owned, Shaken, driver, stats
<1>2. CASE Finish
  BY <1>0, <1>2 DEF Finish, Typed, Filled, Owned, Shaken, driver, stats
<1>3. CASE ntt_hw_stats_reset
  BY <1>0, <1>3, ZeroIsAWord DEF ntt_hw_stats_reset, goto, accel, Typed, Filled, Owned, Shaken
<1>4. CASE Call
  <2>1. poly' = [w \in Words |-> poly'[w]]
    BY <1>4 DEF Call, Input
  <2>2. Typed'
    <3>1. st' \in {"IDLE", st}
      BY <1>4 DEF Call, WriteCtrlZero
    <3>2. pc' \in {"settle", "pack"} /\ i' = 0 /\ call' \in Nat /\ taken' = FALSE /\ din' = din
      BY <1>4 DEF Call, goto, Typed
    <3> QED
      BY <2>1, <3>1, <3>2, ZeroIsAWord DEF Typed
  <2>3. Filled' /\ Owned'
    BY <1>4 DEF Call, goto, Filled, Owned, Typed, Words
  <2>4. Shaken'
    BY <1>0, <1>4 DEF Call, goto, WriteCtrlZero, DONE, Shaken
  <2> QED
    BY <2>3, <2>4, <2>2
<1>5. CASE Settle
  <2>1. Typed'
    BY <1>5, ZeroIsAWord DEF Settle, goto, accel, Typed
  <2>2. Filled'
    BY <1>5 DEF Settle, goto, accel, Filled, Words
  <2>3. Owned' /\ Shaken'
    BY <1>0, <1>5 DEF Settle, goto, accel, Owned, Shaken
  <2> QED
    BY <2>1, <2>2, <2>3
<1>6. CASE PackWord
  <2>1. poly[i].of[i] = call
    BY <1>6 DEF PackWord, Filled, Typed, Input, Vector
  <2>2. Typed'
    BY <1>6, <2>1, ZeroIsAWord DEF PackWord, goto, Typed, Words
  <2>3. \A w \in Words : din'[w] = IF w = i THEN call ELSE din[w]
    BY <1>6, <2>1 DEF PackWord, Typed
  <2>4. CASE i = N - 1
    <3>1. \A w \in Words : din'[w] = call
      BY <1>6, <2>3, <2>4 DEF PackWord, Filled, Words
    <3>2. din' = Vector(call)
      BY <3>1, <2>2 DEF Typed, Vector
    <3> QED
      BY <1>0, <1>6, <2>2, <2>4, <3>2 DEF PackWord, goto, Filled, Owned, Shaken
  <2>5. CASE i # N - 1
    <3>1. \A w \in Words : w < i' => din'[w] = call
      BY <1>6, <2>3, <2>5 DEF PackWord, Filled, Words, Typed
    <3> QED
      BY <1>0, <1>6, <2>2, <2>5, <3>1 DEF PackWord, Filled, Owned, Shaken
  <2> QED
    BY <2>4, <2>5
<1>7. CASE Start
  <2>1. Typed'
    BY <1>7, ZeroIsAWord DEF Start, goto, WriteCtrlStart, Typed
  <2>2. Filled' /\ Owned' /\ Shaken'
    BY <1>0, <1>7 DEF Start, goto, WriteCtrlStart, Typed, Filled, Owned, Shaken
  <2> QED
    BY <2>1, <2>2
<1>8. CASE PollDone
  BY <1>0, <1>8, ZeroIsAWord DEF PollDone, DONE, goto, accel, Typed, Filled, Owned, Shaken
<1>9. CASE PollAgain
  BY <1>0, <1>9 DEF PollAgain, accel, Typed, Filled, Owned, Shaken
<1>10. CASE PollTimeout
  BY <1>0, <1>10, ZeroIsAWord DEF PollTimeout, goto, accel, Typed, Filled, Owned, Shaken
<1>11. CASE Stop
  <2>1. Typed'
    BY <1>11, ZeroIsAWord DEF Stop, goto, WriteCtrlZero, DONE, Typed
  <2>2. Filled' /\ Owned'
    BY <1>11 DEF Stop, goto, Filled, Owned
  <2>3. Shaken'
    BY <1>0, <1>11 DEF Stop, goto, WriteCtrlZero, DONE, Owned, Shaken, Words
  <2> QED
    BY <2>1, <2>2, <2>3
<1>12. CASE UnpackWord
  <2>1. poly' = [w \in Words |-> poly'[w]]
    BY <1>12 DEF UnpackWord, Typed
  <2>2. i' \in Words /\ pc' \in {"unpack", "account"}
    BY <1>12, ZeroIsAWord DEF UnpackWord, goto, Typed, Words
  <2>3. Typed'
    BY <1>12, <2>1, <2>2 DEF UnpackWord, accel, Typed
  <2>4. Filled' /\ Owned'
    BY <1>12 DEF UnpackWord, goto, accel, Filled, Owned
  <2>5. CASE Prompt \/ handshake
    <3>1. \A w \in Words : poly'[w] = IF w = i THEN Transform(Vector(call))[w] ELSE poly[w]
      BY <1>0, <1>12, <2>5 DEF UnpackWord, Typed, Shaken
    <3>2. CASE i = N - 1
      <4>1. \A w \in Words : poly'[w] = Transform(Vector(call))[w]
        BY <1>0, <1>12, <2>5, <3>1, <3>2 DEF UnpackWord, Shaken, Words
      <4>2. poly' = Transform(Vector(call))
        BY <4>1, <2>3 DEF Typed, Transform
      <4> QED
        BY <1>0, <1>12, <2>3, <2>4, <2>5, <3>2, <4>2 DEF UnpackWord, goto, accel, Shaken
    <3>3. CASE i # N - 1
      <4>1. \A w \in Words : w < i' => poly'[w] = Transform(Vector(call))[w]
        BY <1>0, <1>12, <2>5, <3>1, <3>3 DEF UnpackWord, Shaken, Words, Typed
      <4> QED
        BY <1>0, <1>12, <2>3, <2>4, <2>5, <3>3, <4>1 DEF UnpackWord, accel, Shaken
    <3> QED
      BY <3>2, <3>3
  <2>6. CASE ~(Prompt \/ handshake)
    BY <1>0, <2>3, <2>4, <2>6 DEF Shaken
  <2> QED
    BY <2>5, <2>6
<1>13. CASE Account
  BY <1>0, <1>13, ZeroIsAWord DEF Account, goto, accel, Typed, Filled, Owned, Shaken
<1>14. CASE UNCHANGED vars
  BY <1>0, <1>14 DEF vars, driver, accel, Typed, Filled, Owned, Shaken
<1> QED
  BY <1>1, <1>2, <1>3, <1>4, <1>5, <1>6, <1>7, <1>8, <1>9, <1>10, <1>11, <1>12,
     <1>13, <1>14 DEF Next, Driver, Accelerator

(* The invariant holds in every run.                                       *)
LEMMA Invariant == Spec => []IInv
BY InitInv, StepInv, PTL DEF Spec

(* If the driver waits as long as it takes (ntt_test.c), or the            *)
(* accelerator is always done before the bounded wait ends, every call     *)
(* returns the transform of its own polynomial: "Full NTT round-trip:      *)
(* write coefficients, trigger HW, poll DONE, read results back"           *)
(* (ntt_kyber_hw.c:193-194), whatever the calls before it were.            *)
THEOREM RoundTripIsOwn == Spec => []WaitedIsOwn
<1>1. IInv => WaitedIsOwn
  BY DEF IInv, Shaken, OwnTransform, WaitedIsOwn
<1> QED
  BY <1>1, Invariant, PTL

(* Without that assumption, what DONE still guarantees: a call whose START *)
(* was taken and that saw DONE reads its own transform, even after calls   *)
(* that gave up and left the accelerator running.                          *)
THEOREM DoneIsOwn == Spec => []TakenMeansOwn
<1>1. IInv => TakenMeansOwn
  BY DEF IInv, Owned, DONE, TakenMeansOwn
<1> QED
  BY <1>1, Invariant, PTL

----------------------------------------------------------------------------
(* Sums over the log, whose order MapThenSumSet does not say.              *)

(* A nonempty set of naturals has a least element.                         *)
LEMMA LeastExists ==
  ASSUME NEW S, S \subseteq Nat, S # {}
  PROVE  \E x \in S : \A y \in S : x <= y
<1>1. PICK x \in S : \A y \in S : ~(<<y, x>> \in OpToRel(<, Nat))
  BY NatLessThanWellFounded, WFMin
<1>2. \A y \in S : ~(y < x)
  BY <1>1 DEF OpToRel
<1>. QED BY <1>2

(* Induction over a set of naturals.                                       *)
LEMMA SetInduction ==
  ASSUME NEW T, T \subseteq Nat, 0 \in T, \A n \in T : n + 1 \in T
  PROVE  \A n \in Nat : n \in T
<1> SUFFICES ASSUME Nat \ T # {} PROVE FALSE
  OBVIOUS
<1>1. PICK x \in Nat \ T : \A y \in Nat \ T : x <= y
  BY LeastExists
<1>2. x # 0 /\ x - 1 \in Nat /\ x - 1 \in T
  BY <1>1
<1>3. (x - 1) + 1 \in T
  BY <1>2
<1>. QED BY <1>1, <1>3

(* G gives for every set of indices below M the sum of f over it, in       *)
(* whatever order.                                                         *)
IsSum(G, M, f) ==
  /\ G \in [SUBSET (0 .. M - 1) -> Int] /\ G[{}] = 0
  /\ \A s \in SUBSET (0 .. M - 1) : \A k \in s : G[s] = f[k] + G[s \ {k}]

(* There is such a function.                                               *)
LEMMA SumExists ==
  ASSUME NEW f, NEW M \in Nat, \A k \in 0 .. M - 1 : f[k] \in Int
  PROVE  \E G : IsSum(G, M, f)
<1> DEFINE T == {n \in Nat : n <= M => \E G : IsSum(G, n, f)}
<1>1. 0 \in T
  <2>1. 0 .. 0 - 1 = {}
    OBVIOUS
  <2>2. PICK G : G = [s \in SUBSET (0 .. 0 - 1) |-> 0]
    OBVIOUS
  <2>3. IsSum(G, 0, f)
    BY <2>1, <2>2 DEF IsSum
  <2>. QED BY <2>3
<1>2. ASSUME NEW n \in T PROVE n + 1 \in T
  <2>0. n \in Nat /\ n + 1 \in Nat /\ (n <= M => \E G : IsSum(G, n, f))
    OBVIOUS
  <2> SUFFICES ASSUME n + 1 <= M PROVE \E G : IsSum(G, n + 1, f)
    BY <2>0
  <2>1. n \in Nat /\ n \in 0 .. M - 1 /\ f[n] \in Int
    OBVIOUS
  <2>2. PICK G : IsSum(G, n, f)
    BY <2>1
  <2> DEFINE A == SUBSET (0 .. n - 1)
             A1 == SUBSET (0 .. n)
             add(s) == IF n \in s THEN f[n] ELSE 0
  <2>3. PICK H : H = [s \in A1 |-> G[s \ {n}] + add(s)]
    OBVIOUS
  <2>4. \A s \in A1 : s \ {n} \in A
    BY <2>1
  <2>5. G \in [A -> Int] /\ G[{}] = 0 /\ \A s \in A : \A k \in s : G[s] = f[k] + G[s \ {k}]
    BY <2>2 DEF IsSum
  <2>6. \A k \in 0 .. n : f[k] \in Int
    BY <2>1
  <2>7. \A s \in A1 : add(s) \in Int
    BY <2>1
  <2> HIDE DEF A
  <2>8. H \in [A1 -> Int]
    <3> HIDE DEF add, A1
    <3>. QED BY <2>3, <2>4, <2>5, <2>7
  <2>9. H[{}] = 0
    <3>1. {} \in A1 /\ add({}) = 0 /\ {} \ {n} = {}
      OBVIOUS
    <3> HIDE DEF add, A1
    <3>. QED BY <2>3, <2>5, <3>1
  <2>10. ASSUME NEW s \in A1, NEW k \in s PROVE H[s] = f[k] + H[s \ {k}]
    <3>1. s \ {k} \in A1 /\ k \in 0 .. n
      OBVIOUS
    <3>2. CASE k = n
      <4>1. add(s) = f[n] /\ add(s \ {k}) = 0 /\ (s \ {k}) \ {n} = s \ {n}
        BY <3>2
      <4>2. G[s \ {n}] \in Int
        BY <2>4, <2>5
      <4> HIDE DEF add, A1
      <4>3. H[s] = G[s \ {n}] + f[n]
        BY <2>3, <4>1
      <4>4. H[s \ {k}] = G[s \ {n}] + 0
        BY <2>3, <3>1, <4>1
      <4>. QED BY <2>1, <3>2, <4>2, <4>3, <4>4
    <3>3. CASE k # n
      <4>1. add(s) = add(s \ {k}) /\ (s \ {k}) \ {n} = (s \ {n}) \ {k} /\ k \in s \ {n}
        BY <3>3
      <4>2. G[s \ {n}] = f[k] + G[(s \ {n}) \ {k}]
        BY <2>4, <2>5, <4>1
      <4>3. (s \ {n}) \ {k} \in A
        BY <2>1 DEF A
      <4>4. G[(s \ {n}) \ {k}] \in Int /\ add(s) \in Int /\ f[k] \in Int
        BY <2>5, <2>6, <2>7, <3>1, <4>3
      <4> HIDE DEF add, A1
      <4>5. H[s] = G[s \ {n}] + add(s)
        BY <2>3
      <4>6. H[s \ {k}] = G[(s \ {n}) \ {k}] + add(s)
        BY <2>3, <3>1, <4>1
      <4>. QED BY <4>2, <4>4, <4>5, <4>6
    <3>. QED BY <3>2, <3>3
  <2>11. (n + 1) - 1 = n
    BY <2>1
  <2>12. IsSum(H, n + 1, f)
    BY <2>8, <2>9, <2>10, <2>11 DEF IsSum
  <2>. QED BY <2>12
<1>3. M \in T
  <2> HIDE DEF T
  <2>1. T \subseteq Nat
    BY DEF T
  <2>. QED BY <1>1, <1>2, <2>1, SetInduction
<1>. QED BY <1>3

(* The sum that StatsAgree has.                                            *)
Total(l, S) == MapThenSumSet(LAMBDA k : l[k].total_cycles, S)

(* It is what MapThenSumSet computes.                                      *)
LEMMA SumIs ==
  ASSUME NEW l, NEW f, NEW M \in Nat, NEW G, IsSum(G, M, f),
         \A k \in 0 .. M - 1 : f[k] \in Int,
         NEW S \in SUBSET (0 .. M - 1), \A k \in S : l[k].total_cycles = f[k]
  PROVE  Total(l, S) = G[S]
<1> DEFINE ch(s) == CHOOSE x \in s : TRUE
           Eq(it) == it = [s \in SUBSET S |-> IF s = {} THEN 0
                                              ELSE l[ch(s)].total_cycles + it[s \ {ch(s)}]]
           iter == CHOOSE it : Eq(it)
<1>1. Total(l, S) = iter[S]
  BY DEF Total, MapThenSumSet, MapThenFoldSet
<1>2. ASSUME NEW s \in SUBSET S, s # {}
      PROVE  ch(s) \in s /\ l[ch(s)].total_cycles = f[ch(s)] /\ s \ {ch(s)} \in SUBSET S
  <2>1. ch(s) \in s
    BY <1>2
  <2>. QED BY <2>1
<1> HIDE DEF ch
<1>3. /\ G[{}] = 0 /\ \A s \in SUBSET S : s \in SUBSET (0 .. M - 1)
      /\ \A s \in SUBSET S : \A k \in s : G[s] = f[k] + G[s \ {k}]
  BY DEF IsSum
<1>4. Eq([s \in SUBSET S |-> G[s]])
  <2>1. PICK g : g = [s \in SUBSET S |-> G[s]]
    OBVIOUS
  <2>2. \A s \in SUBSET S : G[s] = IF s = {} THEN 0 ELSE l[ch(s)].total_cycles + g[s \ {ch(s)}]
    BY <1>2, <1>3, <2>1
  <2>3. Eq(g)
    BY <2>1, <2>2
  <2>. QED BY <2>1, <2>3
<1>5. Eq(iter)
  <2> HIDE DEF Eq
  <2>. QED BY <1>4
<1>6. PICK it : it = iter
  OBVIOUS
<1>7. it = [s \in SUBSET S |-> IF s = {} THEN 0 ELSE l[ch(s)].total_cycles + it[s \ {ch(s)}]]
  <2> HIDE DEF iter
  <2>. QED BY <1>5, <1>6
<1> HIDE DEF iter, Eq
<1> DEFINE T == {n \in Nat : \A s \in SUBSET S : Cardinality(s) = n => it[s] = G[s]}
<1>8. \A s \in SUBSET S : IsFiniteSet(s)
  <2>1. IsFiniteSet(0 .. M - 1)
    BY FS_Interval
  <2>. QED BY <1>3, <2>1, FS_Subset
<1>9. 0 \in T
  BY <1>3, <1>7, <1>8, FS_EmptySet
<1>10. ASSUME NEW n \in T PROVE n + 1 \in T
  <2>1. n \in Nat /\ n + 1 \in Nat /\ n + 1 # 0
    OBVIOUS
  <2>0. \A s \in SUBSET S : Cardinality(s) = n => it[s] = G[s]
    OBVIOUS
  <2> SUFFICES ASSUME NEW s \in SUBSET S, Cardinality(s) = n + 1 PROVE it[s] = G[s]
    BY <2>1
  <2>2. s # {}
    BY <2>1, FS_EmptySet
  <2>3. PICK c : c = ch(s)
    OBVIOUS
  <2>4. c \in s /\ l[c].total_cycles = f[c] /\ s \ {c} \in SUBSET S
    BY <1>2, <2>2, <2>3
  <2>5. Cardinality(s \ {c}) = n
    <3>1. Cardinality(s \ {c}) = Cardinality(s) - 1
      BY <1>8, <2>4, FS_RemoveElement
    <3>. QED BY <2>1, <3>1
  <2>6. it[s \ {c}] = G[s \ {c}]
    BY <2>0, <2>4, <2>5
  <2>7. it[s] = l[c].total_cycles + it[s \ {c}]
    BY <1>7, <2>2, <2>3
  <2>. QED BY ZenonT(30), <1>3, <2>4, <2>6, <2>7
<1>11. Cardinality(S) \in T
  <2> HIDE DEF T
  <2>1. T \subseteq Nat
    BY DEF T
  <2>2. Cardinality(S) \in Nat
    BY <1>8, FS_CardinalityType
  <2>. QED BY <1>9, <1>10, <2>1, <2>2, SetInduction
<1>12. it[S] = G[S]
  BY <1>11
<1>. QED BY <1>1, <1>6, <1>12

(* A log that is one longer adds what it is longer by.                     *)
LEMMA SumOneMore ==
  ASSUME NEW n \in Nat, NEW l, NEW m, NEW v \in Int,
         \A k \in 0 .. n - 1 : l[k].total_cycles \in Int /\ m[k].total_cycles = l[k].total_cycles,
         m[n].total_cycles = v
  PROVE  Total(m, 0 .. n) = Total(l, 0 .. n - 1) + v
<1>1. PICK f : f = [k \in 0 .. n |-> m[k].total_cycles]
  OBVIOUS
<1>2. \A k \in 0 .. n : f[k] \in Int /\ m[k].total_cycles = f[k]
  BY <1>1
<1>3. (n + 1) - 1 = n /\ n + 1 \in Nat
  OBVIOUS
<1>4. PICK G : IsSum(G, n + 1, f)
  BY <1>2, <1>3, SumExists
<1>5. Total(m, 0 .. n) = G[0 .. n]
  <2>1. 0 .. n \in SUBSET (0 .. (n + 1) - 1)
    BY <1>3
  <2>2. \A k \in 0 .. (n + 1) - 1 : f[k] \in Int
    BY <1>2, <1>3
  <2>. QED BY <1>2, <1>3, <1>4, <2>1, <2>2, SumIs
<1>6. Total(l, 0 .. n - 1) = G[0 .. n - 1]
  <2>1. 0 .. n - 1 \in SUBSET (0 .. (n + 1) - 1)
    BY <1>3
  <2>2. \A k \in 0 .. n - 1 : l[k].total_cycles = f[k]
    BY <1>1
  <2>3. \A k \in 0 .. (n + 1) - 1 : f[k] \in Int
    BY <1>2, <1>3
  <2>4. PICK S, M : S = 0 .. n - 1 /\ M = n + 1
    OBVIOUS
  <2>5. M \in Nat /\ IsSum(G, M, f) /\ S \in SUBSET (0 .. M - 1)
    BY <1>3, <1>4, <2>1, <2>4
  <2>6. (\A k \in 0 .. M - 1 : f[k] \in Int) /\ \A k \in S : l[k].total_cycles = f[k]
    BY <2>2, <2>3, <2>4
  <2>7. Total(l, S) = G[S]
    BY <2>5, <2>6, SumIs
  <2>. QED BY <2>4, <2>7
<1>7. G[0 .. n] = f[n] + G[0 .. n - 1]
  <2>1. (0 .. n) \ {n} = 0 .. n - 1 /\ n \in 0 .. n /\ 0 .. n \in SUBSET (0 .. n)
    OBVIOUS
  <2>2. \A s \in SUBSET (0 .. n) : \A k \in s : G[s] = f[k] + G[s \ {k}]
    BY <1>3, <1>4 DEF IsSum
  <2>. QED BY <2>1, <2>2
<1>8. f[n] = v /\ G[0 .. n - 1] \in Int
  <2>1. 0 .. n - 1 \in SUBSET (0 .. n)
    OBVIOUS
  <2>2. f[n] = v
    BY <1>1
  <2>. QED BY <1>3, <1>4, <2>1, <2>2 DEF IsSum
<1>. QED BY <1>5, <1>6, <1>7, <1>8

----------------------------------------------------------------------------
(* Where the driver is, how often it has polled, and that the call it is   *)
(* in is not counted yet.                                                  *)
Counting ==
  /\ pc \in {"boot", "out", "settle", "pack", "start", "poll", "stop", "unpack", "account"}
  /\ call \in Calls /\ timeout \in 0 .. MaxPolls
  /\ pc \in {"settle", "pack", "start", "poll"} => timeout < MaxPolls
  /\ pc # "boot" => total_calls \in 0 .. call
  /\ pc \notin {"boot", "out"} => total_calls < call

(* StatsAgree at every label, with the ranges of what it compares.         *)
LogAgrees ==
  /\ DOMAIN log = {k \in Calls : k < total_calls /\ k < LogSize}
  /\ \A k \in DOMAIN log :
       /\ log[k].call_no = k /\ log[k].total_cycles \in 0 .. MaxPolls
       /\ min_cycles <= log[k].total_cycles /\ log[k].total_cycles <= max_cycles
Extremes ==
  /\ min_cycles \in 0 .. UINT64_MAX /\ max_cycles \in 0 .. MaxPolls
  /\ total_calls = 0 <=> min_cycles = UINT64_MAX
Totals == total_calls <= LogSize => total_cycles = Total(log, DOMAIN log)

SInv == Counting /\ (pc # "boot" => LogAgrees /\ Extremes /\ Totals)

(* The smaller and the larger of two.                                      *)
LEMMA MinMax ==
  \A a, b \in Int : /\ Min({a, b}) \in {a, b} /\ Min({a, b}) <= a /\ Min({a, b}) <= b
                    /\ Max({a, b}) \in {a, b} /\ Max({a, b}) >= a /\ Max({a, b}) >= b
<1> TAKE a, b \in Int
<1>1. \E x \in {a, b} : \A y \in {a, b} : x <= y
  OBVIOUS
<1>2. \E x \in {a, b} : \A y \in {a, b} : x >= y
  OBVIOUS
<1>3. Min({a, b}) \in {a, b} /\ \A y \in {a, b} : Min({a, b}) <= y
  BY <1>1 DEF Min
<1>4. Max({a, b}) \in {a, b} /\ \A y \in {a, b} : Max({a, b}) >= y
  BY <1>2 DEF Max
<1>. QED BY <1>3, <1>4

(* The sum of no entries.                                                  *)
LEMMA NoTotal == ASSUME NEW l PROVE Total(l, {}) = 0
<1>1. PICK M \in Nat : M = 0
  OBVIOUS
<1>2. 0 .. M - 1 = {}
  BY <1>1
<1>3. PICK f : f = [k \in {} |-> 0]
  OBVIOUS
<1>4. \A k \in 0 .. M - 1 : f[k] \in Int
  BY <1>2
<1>5. PICK G : IsSum(G, M, f)
  BY <1>4, SumExists
<1>6. PICK S \in SUBSET (0 .. M - 1) : S = {}
  BY <1>2
<1>7. \A k \in S : l[k].total_cycles = f[k]
  BY <1>6
<1>8. Total(l, S) = G[S]
  BY <1>4, <1>5, <1>7, SumIs
<1>9. G[{}] = 0
  BY <1>5 DEF IsSum
<1>. QED BY <1>6, <1>8, <1>9

(* ntt_hw_stats_reset makes the statistics those of no calls.              *)
LEMMA ResetAgrees == ASSUME SInv, ntt_hw_stats_reset PROVE SInv'
<1>1. /\ pc' = "out" /\ total_calls' = 0 /\ min_cycles' = UINT64_MAX /\ max_cycles' = 0
      /\ total_cycles' = 0 /\ log' = <<>> /\ UNCHANGED <<call, timeout>>
  BY DEF ntt_hw_stats_reset, goto
<1>2. Counting'
  BY <1>1 DEF SInv, Counting, Calls
<1>3. DOMAIN log' = {}
  BY <1>1
<1>4. LogAgrees'
  BY <1>1, <1>3 DEF LogAgrees, Calls
<1>5. Extremes'
  BY <1>1 DEF Extremes, UINT64_MAX
<1>6. Totals'
  <2>1. Total(log', {}) = 0
    BY NoTotal
  <2>. QED BY <1>1, <1>3, <2>1 DEF Totals
<1>. QED BY <1>2, <1>4, <1>5, <1>6 DEF SInv

(* The end of a call adds it to the statistics, or nothing does.           *)
LEMMA AccountAgrees == ASSUME SInv, Account, UNCHANGED handshake PROVE SInv'
<1>1. /\ call \in Nat /\ call <= MaxCalls /\ total_calls \in Nat /\ total_calls < call
      /\ timeout \in 0 .. MaxPolls /\ pc' = "out" /\ UNCHANGED <<call, timeout>>
  BY DEF SInv, Counting, Calls, Account, goto
<1>2. LogAgrees /\ Extremes /\ Totals
  BY DEF SInv, Account
<1>3. CASE handshake
  <2>1. UNCHANGED <<total_calls, min_cycles, max_cycles, total_cycles, log>>
    BY <1>3 DEF Account, stats
  <2>. QED BY <1>1, <1>2, <2>1 DEF SInv, Counting, LogAgrees, Extremes, Totals, Calls
<1>4. CASE ~handshake
  <2> DEFINE n == total_calls
  <2>1. PICK d : d = [call_no |-> n, total_cycles |-> timeout]
    OBVIOUS
  <2>2. /\ total_calls' = n + 1 /\ total_cycles' = total_cycles + timeout
        /\ min_cycles' = Min({min_cycles, timeout}) /\ max_cycles' = Max({max_cycles, timeout})
        /\ log' = IF n < LogSize THEN [k \in DOMAIN log \union {n} |-> IF k = n THEN d ELSE log[k]]
                                 ELSE log
    BY <1>4, <2>1 DEF Account, Logged
  <2>3. Counting'
    BY <1>1, <2>2 DEF Counting, Calls
  <2>4. /\ min_cycles \in Int /\ max_cycles \in Int /\ min_cycles' <= min_cycles /\ min_cycles' <= timeout
        /\ max_cycles' >= max_cycles /\ max_cycles' >= timeout
        /\ min_cycles' \in 0 .. MaxPolls /\ max_cycles' \in 0 .. MaxPolls
    BY SMTT(30), <1>1, <1>2, <2>2, MinMax DEF Extremes, UINT64_MAX
  <2>5. Extremes'
    BY <1>1, <2>2, <2>4 DEF Extremes, UINT64_MAX
  <2>6. CASE n < LogSize
    <3>1. /\ DOMAIN log' = DOMAIN log \union {n} /\ log'[n] = d
          /\ \A k \in DOMAIN log : k # n => log'[k] = log[k]
      BY <2>2, <2>6
    <3>2. n \in Calls /\ n \notin DOMAIN log
      BY <1>1, <1>2 DEF LogAgrees, Calls
    <3>3. DOMAIN log' = {k \in Calls : k < n + 1 /\ k < LogSize}
      BY <1>1, <1>2, <2>6, <3>1, <3>2 DEF LogAgrees, Calls
    <3>4. ASSUME NEW k \in DOMAIN log'
          PROVE  /\ log'[k].call_no = k /\ log'[k].total_cycles \in 0 .. MaxPolls
                 /\ min_cycles' <= log'[k].total_cycles /\ log'[k].total_cycles <= max_cycles'
      <4>1. CASE k = n
        BY <1>1, <2>1, <2>4, <3>1, <4>1
      <4>2. CASE k # n
        <5>1. k \in DOMAIN log /\ log'[k] = log[k]
          BY <3>1, <4>2
        <5>. QED BY <1>2, <2>4, <5>1 DEF LogAgrees
      <4>. QED BY <4>1, <4>2
    <3>5. LogAgrees'
      BY <2>2, <3>3, <3>4 DEF LogAgrees
    <3>6. Totals'
      <4>1. DOMAIN log = 0 .. n - 1 /\ DOMAIN log' = 0 .. n
        BY <1>1, <1>2, <2>6, <3>3 DEF LogAgrees, Calls
      <4>2. PICK l, m, v : l = log /\ m = log' /\ v = timeout
        OBVIOUS
      <4>3. \A k \in 0 .. n - 1 : l[k].total_cycles \in Int /\ m[k].total_cycles = l[k].total_cycles
        <5>1. ASSUME NEW k \in 0 .. n - 1
              PROVE  l[k].total_cycles \in Int /\ m[k].total_cycles = l[k].total_cycles
          <6>1. k \in DOMAIN log /\ k # n
            BY <1>1, <4>1
          <6>. QED BY <1>2, <3>1, <4>2, <6>1 DEF LogAgrees
        <5>. QED BY <5>1
      <4>4. m[n].total_cycles = v /\ v \in Int /\ n \in Nat
        BY <1>1, <2>1, <3>1, <4>2
      <4> HIDE DEF n
      <4>5. Total(m, 0 .. n) = Total(l, 0 .. n - 1) + v
        BY ONLY <4>3, <4>4, SumOneMore
      <4>6. total_cycles = Total(l, 0 .. n - 1)
        BY <1>1, <1>2, <2>6, <4>1, <4>2 DEF Totals, n
      <4>. QED BY <2>2, <4>1, <4>2, <4>5, <4>6 DEF Totals
    <3>. QED BY <1>1, <2>3, <2>5, <3>5, <3>6 DEF SInv
  <2>7. CASE ~(n < LogSize)
    <3>1. log' = log /\ ~(n + 1 <= LogSize)
      BY <1>1, <2>2, <2>7
    <3>2. \A k \in Calls : (k < n + 1 /\ k < LogSize) <=> (k < n /\ k < LogSize)
      BY <1>1, <2>7 DEF Calls
    <3>3. DOMAIN log' = {k \in Calls : k < n + 1 /\ k < LogSize}
      BY <1>2, <3>1, <3>2 DEF LogAgrees
    <3>4. LogAgrees'
      BY <1>2, <2>2, <2>4, <3>1, <3>3 DEF LogAgrees
    <3>. QED BY <1>1, <2>2, <2>3, <2>5, <3>1, <3>4 DEF SInv, Totals
  <2>. QED BY <2>6, <2>7
<1>. QED BY <1>3, <1>4

(* All the other steps leave the statistics alone.                         *)
LEMMA StatsStep == SInv /\ [Next]_vars => SInv'
<1> SUFFICES ASSUME SInv, [Next]_vars PROVE SInv'
  OBVIOUS
<1>1. CASE ntt_hw_stats_reset
  BY <1>1, ResetAgrees
<1>2. CASE Account /\ UNCHANGED handshake
  BY <1>2, AccountAgrees
<1>3. ASSUME UNCHANGED stats, Counting', pc' = "boot" => pc = "boot"
             , pc = "boot" => pc' = "boot"
      PROVE  SInv'
  BY <1>3 DEF SInv, stats, LogAgrees, Extremes, Totals
<1>4. CASE Load \/ Finish \/ UNCHANGED vars
  <2>1. UNCHANGED <<pc, call, timeout>> /\ UNCHANGED stats
    BY <1>4 DEF Load, Finish, vars, driver, stats
  <2>. QED BY <1>3, <2>1 DEF SInv, Counting, stats
<1>5. CASE Call
  <2>1. Counting'
    BY <1>5 DEF Call, goto, stats, SInv, Counting, Calls
  <2>. QED BY <1>3, <1>5, <2>1 DEF Call, goto
<1>6. CASE Settle
  <2>1. Counting'
    BY <1>6 DEF Settle, goto, stats, SInv, Counting, Calls
  <2>. QED BY <1>3, <1>6, <2>1 DEF Settle, goto
<1>7. CASE PackWord \/ Start \/ PollDone \/ PollAgain \/ PollTimeout \/ Stop \/ UnpackWord
  <2>1. Counting'
    BY <1>7 DEF PackWord, Start, PollDone, PollAgain, PollTimeout, Stop, UnpackWord, goto, stats,
                SInv, Counting, Calls
  <2>2. UNCHANGED stats /\ pc # "boot" /\ pc' # "boot"
    BY <1>7 DEF PackWord, Start, PollDone, PollAgain, PollTimeout, Stop, UnpackWord, goto
  <2>. QED BY <1>3, <2>1, <2>2
<1>. QED BY <1>1, <1>2, <1>4, <1>5, <1>6, <1>7 DEF Next, Driver, Accelerator

(* The statistics are right at every label of every run.                   *)
LEMMA StatsInvariant == Spec => []SInv
<1>1. Init => SInv
  BY DEF Init, SInv, Counting, Calls
<1>. QED BY <1>1, StatsStep, PTL DEF Spec

(* After every call, and after every reset: min, max and total are those   *)
(* of the calls since the reset, call by call as the log has them for as   *)
(* long as it has room (ntt_kyber_hw.c, g_ntt_hw_stats).                   *)
THEOREM StatisticsAgree == Spec => []StatsAgree
<1>1. SInv => StatsAgree
  <2> SUFFICES ASSUME SInv, pc = "out" PROVE StatsAgree
    BY DEF StatsAgree
  <2>1. LogAgrees /\ Extremes /\ Totals
    BY DEF SInv
  <2>2. total_calls <= LogSize =>
          total_cycles = MapThenSumSet(LAMBDA k : log[k].total_cycles, DOMAIN log)
    BY <2>1 DEF Totals, Total
  <2>. QED BY <2>1, <2>2 DEF LogAgrees, Extremes, StatsAgree
<1>. QED BY <1>1, StatsInvariant, PTL

----------------------------------------------------------------------------
(* Every step keeps the types, given the two invariants above.             *)
LEMMA TypeStep == TypeOK /\ IInv /\ SInv /\ SInv' /\ [Next]_vars => TypeOK'
<1> SUFFICES ASSUME TypeOK, IInv, SInv, SInv', [Next]_vars PROVE TypeOK'
  OBVIOUS
<1>1. handshake' = handshake
  BY DEF Next, Driver, Accelerator, vars
<1>2. /\ pc' \in {"boot", "out", "settle", "pack", "start", "poll", "stop", "unpack", "account"}
      /\ timeout' \in 0 .. MaxPolls /\ call' \in Calls
  BY DEF SInv, Counting
<1>3. total_calls' \in 0 .. call' /\ DOMAIN log' \subseteq Calls
  <2>1. CASE pc' # "boot"
    BY <2>1 DEF SInv, Counting, LogAgrees
  <2>2. CASE pc' = "boot"
    <3>1. UNCHANGED <<total_calls, log, call>>
      BY <2>2 DEF Next, Driver, Accelerator, vars, driver, stats, ntt_hw_stats_reset, Call, Settle, PackWord,
                  Start, PollDone, PollAgain, PollTimeout, Stop, UnpackWord, Account, Load, Finish, goto
    <3>. QED BY <3>1 DEF TypeOK
  <2>. QED BY <2>1, <2>2
<1> DEFINE V == [Words -> Calls]
           Rest == /\ i \in Words /\ taken \in BOOLEAN
                   /\ st \in {"IDLE", "LOADING", "RUNNING", "DONE"}
                   /\ din \in V /\ dout \in V /\ work \in V /\ poly \in [Words -> Coeffs]
<1>4. Rest
  BY DEF TypeOK
<1>5. \A c \in Calls : Input(c) \in [Words -> Coeffs]
  BY DEF Input, Coeffs, Vector
<1>6. \A v \in V : \A w \in Words : Transform(v)[w] \in Coeffs
  BY DEF Transform, Coeffs
<1>7. Rest'
  <2>1. CASE Load
    BY <1>4, <2>1 DEF Load, driver
  <2>2. CASE Finish
    BY <1>4, <2>2 DEF Finish, driver
  <2>3. CASE ntt_hw_stats_reset
    BY <1>4, <2>3, ZeroIsAWord DEF ntt_hw_stats_reset, goto, accel
  <2>4. CASE Call
    BY <1>2, <1>4, <1>5, <2>4, ZeroIsAWord DEF Call, goto, WriteCtrlZero
  <2>5. CASE Settle
    BY <1>4, <2>5, ZeroIsAWord DEF Settle, goto, accel
  <2>6. CASE PackWord
    <3>1. poly[i].of[i] \in Calls
      BY <1>4 DEF Coeffs
    <3>2. din' \in V
      BY <1>4, <2>6, <3>1 DEF PackWord
    <3>3. i' \in Words
      BY <1>4, <2>6, ZeroIsAWord DEF PackWord, goto, Words
    <3>. QED BY <1>4, <2>6, <3>2, <3>3 DEF PackWord
  <2>7. CASE Start
    BY <1>4, <2>7, ZeroIsAWord DEF Start, goto, WriteCtrlStart
  <2>8. CASE PollDone \/ PollAgain \/ PollTimeout
    BY <1>4, <2>8, ZeroIsAWord DEF PollDone, PollAgain, PollTimeout, goto, accel
  <2>9. CASE Stop
    BY <1>4, <2>9, ZeroIsAWord DEF Stop, goto, WriteCtrlZero
  <2>10. CASE UnpackWord
    <3>1. Transform(dout)[i] \in Coeffs
      BY <1>4, <1>6
    <3>2. poly' \in [Words -> Coeffs]
      BY <1>4, <2>10, <3>1 DEF UnpackWord
    <3>3. i' \in Words
      BY <1>4, <2>10, ZeroIsAWord DEF UnpackWord, goto, Words
    <3>. QED BY <1>4, <2>10, <3>2, <3>3 DEF UnpackWord, accel
  <2>11. CASE Account
    BY <1>4, <2>11, ZeroIsAWord DEF Account, goto, accel
  <2>12. CASE UNCHANGED vars
    BY <1>4, <2>12 DEF vars, driver, accel
  <2>. QED BY <2>1, <2>2, <2>3, <2>4, <2>5, <2>6, <2>7, <2>8, <2>9, <2>10, <2>11, <2>12
           DEF Next, Driver, Accelerator
<1>. QED BY <1>1, <1>2, <1>3, <1>7 DEF TypeOK

(* Every variable of the drivers and every register of the accelerator     *)
(* keeps its type; no index leaves the polynomial, no counter its range.   *)
THEOREM TypeCorrect == Spec => []TypeOK
<1>1. Init => TypeOK
  <2> SUFFICES ASSUME Init PROVE TypeOK
    OBVIOUS
  <2>1. 0 \in Calls /\ 0 \in 0 .. MaxPolls /\ 0 \in 0 .. 0
    BY DEF Calls
  <2>2. Vector(0) \in [Words -> Calls] /\ Input(0) \in [Words -> Coeffs]
    BY <2>1 DEF Vector, Input, Coeffs
  <2>. QED BY <2>1, <2>2, ZeroIsAWord DEF Init, TypeOK
<1>. QED BY <1>1, StatsInvariant, Invariant, TypeStep, PTL DEF Spec

HIDE DriverAssumption

-----------------------------------------------------------------------------
(* The bridge.                                                             *)
(* The bursts, with what the bridge's assumption says of each.             *)
BurstType == [addr : Nat, len : 0 .. 255, size : B!Sizes, burst : {"fixed", "incr", "wrap"}]
BurstOK(q) ==
  /\ q.addr \in Nat /\ q.len \in 0 .. 255 /\ q.size \in {1, 2, 4, 8} /\ q.size <= Ratio
  /\ q.burst \in {"fixed", "incr", "wrap"}
  /\ q.addr % q.size = 0
  /\ q.burst = "wrap" => q.len \in {1, 3, 7, 15} /\ q.size * (q.len + 1) <= 32

(* They are those of the master.                                           *)
LEMMA BurstFacts ==
  /\ Ratio \in {1, 2, 4, 8}
  /\ \A q \in Bursts : BurstOK(q) /\ q # B!None /\ q \in BurstType
<1>1. Ratio \in {1, 2, 4, 8}
  BY BridgeAssumption DEF B!BridgeConstants
<1>2. ASSUME NEW q \in Bursts  PROVE BurstOK(q) /\ q # B!None /\ q \in BurstType
  <2>1. q \in BurstType
    BY BridgeAssumption DEF B!BridgeConstants, BurstType
  <2>2. q.addr % q.size = 0
        /\ (q.burst = "wrap" => q.len \in {1, 3, 7, 15} /\ q.size * (q.len + 1) <= 32)
    BY BridgeAssumption DEF B!BridgeConstants
  <2>3. q.burst # "none"
    BY <2>1 DEF BurstType
  <2>. QED BY <2>1, <2>2, <2>3 DEF BurstOK, BurstType, B!Sizes, B!None
<1>. QED BY <1>1, <1>2

(* In a block of words whose size is a power of two an address wraps.      *)
LEMMA WrapStep ==
  ASSUME NEW a \in Nat, NEW y \in Nat, NEW s \in Nat, NEW t \in {2, 4, 8, 16, 32}
  PROVE  LET x == (a \div t) * t + (y % t)
         IN  x \in Nat /\ (x \div t) * t + ((x + s) % t) = (a \div t) * t + ((y + s) % t)
<1>1. CASE t = 2 BY <1>1
<1>2. CASE t = 4 BY <1>2
<1>3. CASE t = 8 BY <1>3
<1>4. CASE t = 16 BY <1>4
<1>5. CASE t = 32 BY <1>5
<1>. QED BY <1>1, <1>2, <1>3, <1>4, <1>5

(* The code's step from one beat to the next follows AXI's definition.     *)
LEMMA AddrSteps ==
  ASSUME NEW q \in Bursts, NEW n \in Nat, NEW r,
         r.addr = B!BeatAddr(q, n), r.len = q.len, r.size = q.size, r.burst = q.burst
  PROVE  /\ B!BeatAddr(q, n) \in Nat /\ B!BeatAddr(q, 0) = q.addr
         /\ B!fn_axi4burst_addr(r) = B!BeatAddr(q, n + 1)
<1>1. BurstOK(q)
  BY BurstFacts
<1> DEFINE s == q.size
           a == q.addr
<1>2. /\ s \in {1, 2, 4, 8} /\ s \in Nat /\ a \in Nat /\ n * s \in Nat /\ (n + 1) * s = n * s + s
      /\ 0 * s = 0
  <2>1. s \in {1, 2, 4, 8} /\ a \in Nat
    BY <1>1 DEF BurstOK
  <2>. HIDE DEF s, a
  <2>. QED BY <2>1
<1>3. CASE q.burst = "fixed"
  BY <1>2, <1>3 DEF B!BeatAddr, B!fn_axi4burst_addr
<1>4. CASE q.burst = "incr"
  <2>1. B!BeatAddr(q, n) = a + n * s /\ B!BeatAddr(q, 0) = a + 0 * s
        /\ B!BeatAddr(q, n + 1) = a + (n + 1) * s
    BY <1>4 DEF B!BeatAddr
  <2>2. B!fn_axi4burst_addr(r) = B!BeatAddr(q, n) + s
    BY <1>4 DEF B!fn_axi4burst_addr
  <2>. HIDE DEF s
  <2>. QED BY <1>2, <2>1, <2>2
<1>5. CASE q.burst = "wrap"
  <2> DEFINE t == s * (q.len + 1)
  <2>1. q.len \in {1, 3, 7, 15} /\ t \in {2, 4, 8, 16, 32}
    <3>1. q.len \in {1, 3, 7, 15} /\ s * (q.len + 1) <= 32
      BY <1>1, <1>5 DEF BurstOK
    <3>. QED BY <1>2, <3>1
  <2>2. /\ B!BeatAddr(q, n) = (a \div t) * t + ((a + n * s) % t)
        /\ B!BeatAddr(q, 0) = (a \div t) * t + ((a + 0 * s) % t)
        /\ B!BeatAddr(q, n + 1) = (a \div t) * t + ((a + (n + 1) * s) % t)
    BY <1>5 DEF B!BeatAddr
  <2>3. B!fn_axi4burst_addr(r)
          = (B!BeatAddr(q, n) \div t) * t + ((B!BeatAddr(q, n) + s) % t)
    <3> DEFINE w == CASE r.len = 3 -> 4 [] r.len = 7 -> 8 [] r.len = 15 -> 16 [] OTHER -> 2
    <3>1. w = q.len + 1
      BY <2>1
    <3>. HIDE DEF w
    <3>2. B!fn_axi4burst_addr(r) = (r.addr \div (r.size * w)) * (r.size * w)
                                    + ((r.addr + r.size) % (r.size * w))
      BY <1>5 DEF B!fn_axi4burst_addr, w
    <3>. QED BY <3>1, <3>2
  <2>. HIDE DEF t, s, a
  <2>4. a + n * s \in Nat /\ (a \div t) * t + (a % t) = a
    BY <1>2, <2>1
  <2>5. B!BeatAddr(q, n) \in Nat
        /\ B!fn_axi4burst_addr(r) = (a \div t) * t + (((a + n * s) + s) % t)
    BY <1>2, <2>1, <2>2, <2>3, <2>4, WrapStep
  <2>6. B!BeatAddr(q, 0) = a
    BY <1>2, <2>2, <2>4
  <2>7. (a + n * s) + s = a + (n + 1) * s
    BY <1>2
  <2>. QED BY <2>2, <2>5, <2>6, <2>7 DEF a
<1>. QED BY <1>1, <1>3, <1>4, <1>5 DEF BurstOK

(* The first beat of a burst is at its address.                            *)
LEMMA AddrZero == \A q \in Bursts : B!BeatAddr(q, 0) = q.addr
<1> SUFFICES ASSUME NEW q \in Bursts  PROVE B!BeatAddr(q, 0) = q.addr
  OBVIOUS
<1>1. q \in BurstType
  BY BurstFacts
<1> DEFINE r == [q EXCEPT !.addr = B!BeatAddr(q, 0)]
<1>2. r.addr = B!BeatAddr(q, 0) /\ r.len = q.len /\ r.size = q.size /\ r.burst = q.burst
  BY <1>1 DEF BurstType
<1>. QED BY <1>2, AddrSteps

(* Addresses are numbers.                                                  *)
LEMMA AddrNat == \A q \in Bursts, n \in Nat : B!BeatAddr(q, n) \in Nat
<1> SUFFICES ASSUME NEW q \in Bursts, NEW n \in Nat  PROVE B!BeatAddr(q, n) \in Nat
  OBVIOUS
<1>1. q \in BurstType
  BY BurstFacts
<1> DEFINE r == [q EXCEPT !.addr = B!BeatAddr(q, n)]
<1>2. r.addr = B!BeatAddr(q, n) /\ r.len = q.len /\ r.size = q.size /\ r.burst = q.burst
  BY <1>1 DEF BurstType
<1>. QED BY <1>2, AddrSteps

----------------------------------------------------------------------------
(* The registers as functions of how far a burst q has come.  A burst of   *)
(* 256 beats of several words wraps the request counter, and never goes    *)
(* beyond its first access.                                                *)
Wrapped(q) == q.size > 1 /\ q.len = 255

(* The beat of the latest access; what has been answered.                  *)
BeatNo(q) ==
  IF Wrapped(q) THEN 0
  ELSE q.len - rg_req_beat + (IF q.size > 1 /\ rg_child_req_count # q.size THEN 1 ELSE 0)
Answered == accesses - Len(i_request) - Len(o_response)

(* The address of access k.                                                *)
AddrOf(q, k) == B!BeatAddr(q, k \div q.size) + (k % q.size)

(* What waits in the queues to and from the APB, and the registers.        *)
AnswerType == [addr : Nat, err : BOOLEAN]
AccessType == [addr : Nat, write : BOOLEAN, beat : Nat, lane : Nat, strb : BOOLEAN, nth : Nat]
Registers ==
  /\ rg_req_beat \in 0 .. 255 /\ rg_resp_beat \in 0 .. 255
  /\ rg_child_burst \in B!Sizes \union {0}
  /\ rg_child_req_count \in 0 .. Ratio /\ rg_child_res_count \in 0 .. Ratio
  /\ accesses \in Nat
  /\ i_request \in Seq(AccessType) /\ Len(i_request) <= 2
  /\ o_response \in Seq(AnswerType) /\ Len(o_response) <= 1

(* How the requests of q stand: sent are the beats up to BeatNo and of     *)
(* that one rg_child_req_count words.                                      *)
Requested(q) ==
  /\ rg_child_burst = (IF q.size > 1 THEN q.size ELSE 0)
  /\ IF q.size > 1 THEN rg_child_req_count \in 1 .. q.size ELSE rg_child_req_count = 0
  /\ BeatNo(q) \in 0 .. q.len
  /\ accesses = BeatNo(q) * q.size + (IF q.size > 1 THEN rg_child_req_count ELSE 1)
  /\ rg_request \in BurstType /\ rg_request.addr = B!BeatAddr(q, BeatNo(q))
  /\ rg_request.len = q.len /\ rg_request.size = q.size /\ rg_request.burst = q.burst
  /\ Wrapped(q) => rg_req_beat = 0 /\ rg_child_req_count = 1
  /\ ~Wrapped(q) /\ rg_req_beat = 0 /\ q.size > 1 => rg_child_req_count = q.size

(* How its answers stand.  The counter of a burst of 256 beats is zero     *)
(* from the start.                                                         *)
AnsweredBeats(q) == IF q.len = 255 THEN 0 ELSE q.len + 1 - rg_resp_beat
Responded(q) ==
  /\ IF q.size > 1 THEN rg_child_res_count \in 1 .. q.size ELSE rg_child_res_count = 0
  /\ IF q.len = 255 THEN rg_resp_beat = 0 ELSE rg_resp_beat \in 1 .. q.len + 1
  /\ Answered = AnsweredBeats(q) * q.size + (IF q.size > 1 THEN rg_child_res_count - 1 ELSE 0)

(* Accesses wait, and are answered, in the order of their numbers.         *)
Queued(q) ==
  /\ \A k \in 1 .. Len(i_request) :
       LET n == accesses - Len(i_request) + k - 1
       IN  i_request[k].nth = n /\ i_request[k].addr = AddrOf(q, n)
  /\ o_response # <<>> =>
       o_response[1].addr = AddrOf(q, Answered) /\ (o_response[1].err <=> Answered \in failed)
  /\ failed \subseteq 0 .. accesses - Len(i_request) - 1

Progress(q) == Requested(q) /\ Responded(q) /\ Queued(q)

(* Between two bursts.                                                     *)
Resting == /\ i_request = <<>> /\ o_response = <<>> /\ rg_req_beat = 0
           /\ accesses = 0 /\ failed = {}

(* The read side of the master: a burst is where its address is, where the *)
(* bridge is, or where its last beat is; its beats are counted from the    *)
(* queue into which the bridge puts them.                                  *)
BeatType == [data : [B!Lanes -> Nat], err : BOOLEAN, last : BOOLEAN]
ReadSide ==
  /\ reading \in Bursts \union {B!None} /\ received \in Nat
  /\ i_rd_data \in Seq(BeatType) /\ Len(i_rd_data) <= 2
  /\ reading = B!None => o_rd_addr = <<>> /\ i_rd_data = <<>> /\ received = 0 /\ rg_state # "ReadResp"
  /\ o_rd_addr # <<>> =>
       o_rd_addr = <<reading>> /\ i_rd_data = <<>> /\ received = 0 /\ rg_state # "ReadResp"
  /\ rg_state = "ReadResp" =>
       /\ received + Len(i_rd_data) = AnsweredBeats(reading)
       /\ \A k \in 1 .. Len(i_rd_data) : ~i_rd_data[k].last
  /\ rg_state # "ReadResp" => \A k \in 1 .. Len(i_rd_data) : i_rd_data[k].last <=> k = Len(i_rd_data)

(* The write side: the beats of data in the queue are the latest given,    *)
(* and those before them have been taken by the bridge.                    *)
DataType == [beat : Nat, strb : SUBSET B!Lanes]
(* The data that wait are the latest the master gave.                      *)
GivenData(q) ==
  \A k \in 1 .. Len(o_wr_data) :
    LET n == given - Len(o_wr_data) + k - 1
    IN  o_wr_data[k].beat = n /\ o_wr_data[k].strb = B!BeatLanes(q, n)
(* The beats of data the bridge has taken.                                 *)
Used(q) == IF Wrapped(q) THEN 0 ELSE q.len + 1 - rg_req_beat
WriteSide ==
  /\ writing \in Bursts \union {B!None} /\ given \in Nat
  /\ o_wr_data \in Seq(DataType) /\ Len(o_wr_data) <= 2
  /\ writing = B!None => o_wr_addr = <<>> /\ o_wr_data = <<>> /\ i_wr_resp = <<>> /\ given = 0
                           /\ rg_state # "WriteResp"
  /\ writing # B!None => GivenData(writing) /\ given <= writing.len + 1
  /\ o_wr_addr # <<>> => /\ o_wr_addr = <<writing>> /\ i_wr_resp = <<>> /\ given = Len(o_wr_data)
                         /\ rg_state # "WriteResp"
  /\ i_wr_resp # <<>> => o_wr_data = <<>> /\ given = writing.len + 1 /\ rg_state # "WriteResp"
  /\ rg_state = "WriteResp" => /\ given - Len(o_wr_data) = Used(writing)
                               /\ o_wr_addr = <<>> /\ i_wr_resp = <<>>

(* An error of a write is in its response, in the queue or remembered.     *)
ErrSide ==
  rg_state = "WriteResp" =>
    (failed # {} <=> rg_accum_err \/ (o_response # <<>> /\ o_response[1].err))

(* The mask of a beat of several words turns with the answers, and what it *)
(* has passed in this beat holds the words of the beat.                    *)
Collected(q) ==
  LET n == AnsweredBeats(q)
  IN  IF q.size = 1 THEN rg_accum_mask = B!Lanes
      ELSE /\ rg_accum_mask = {Answered % Ratio}
           /\ \A c \in 0 .. rg_child_res_count - 2 :
                rg_accum_data[(n * q.size + c) % Ratio] = B!BeatAddr(q, n) + c
DataSide ==
  /\ rg_accum_mask \subseteq B!Lanes /\ rg_accum_data \in [B!Lanes -> Nat]
  /\ rg_state = "ReadResp" => Collected(reading)

(* The burst in progress.                                                  *)
InProgress ==
  /\ rg_state \in {"Idle", "ReadResp", "WriteResp"} /\ Registers
  /\ rg_state = "Idle" => Resting
  /\ rg_state = "ReadResp" => Progress(reading)
  /\ rg_state = "WriteResp" => Progress(writing)

(* The inductive invariant.                                                *)
BInv == InProgress /\ ReadSide /\ WriteSide /\ ErrSide /\ DataSide

(* Division by the size of a beat.                                         *)
LEMMA Pieces ==
  \A b \in Nat, s \in {1, 2, 4, 8} : \A c \in 0 .. s - 1 :
    /\ (b * s + c) \div s = b /\ (b * s + c) % s = c
    /\ b * s + c \in Nat /\ (b + 1) * s = b * s + s
<1>1. \A b \in Nat : \A c \in 0 .. 0 : (b * 1 + c) \div 1 = b /\ (b * 1 + c) % 1 = c
  OBVIOUS
<1>2. \A b \in Nat : \A c \in 0 .. 1 : (b * 2 + c) \div 2 = b /\ (b * 2 + c) % 2 = c
  OBVIOUS
<1>3. \A b \in Nat : \A c \in 0 .. 3 : (b * 4 + c) \div 4 = b /\ (b * 4 + c) % 4 = c
  OBVIOUS
<1>4. \A b \in Nat : \A c \in 0 .. 7 : (b * 8 + c) \div 8 = b /\ (b * 8 + c) % 8 = c
  OBVIOUS
<1>5. ASSUME NEW b \in Nat, NEW s \in {1, 2, 4, 8}, NEW c \in 0 .. s - 1
      PROVE  /\ (b * s + c) \div s = b /\ (b * s + c) % s = c
             /\ b * s + c \in Nat /\ (b + 1) * s = b * s + s
  <2>1. CASE s = 1 BY <1>1, <2>1
  <2>2. CASE s = 2 BY <1>2, <2>2
  <2>3. CASE s = 4 BY <1>3, <2>3
  <2>4. CASE s = 8 BY <1>4, <2>4
  <2>. QED BY <2>1, <2>2, <2>3, <2>4
<1>. QED BY <1>5

(* The first access of a burst.                                            *)
LEMMA StartOK ==
  ASSUME NEW q \in Bursts, NEW a, a \in AccessType, a.addr = q.addr,
         Registers, Resting, B!Request(a), B!Started(q), rg_request' = q, failed' = {},
         o_response' = o_response
  PROVE  /\ Progress(q)'
         /\ rg_req_beat' = (IF q.size > 1 THEN (q.len + 1) % 256 ELSE q.len)
         /\ AnsweredBeats(q)' = 0 /\ Answered' = 0
<1>1. BurstOK(q) /\ q.size \in {1, 2, 4, 8} /\ q.len \in 0 .. 255 /\ q.size \in Nat /\ q.addr \in Nat
  BY BurstFacts DEF BurstOK
<1>2. i_request' = <<[a EXCEPT !.nth = 0]>> /\ accesses' = 1 /\ o_response' = <<>>
  BY DEF B!Request, Resting
<1>3. Len(i_request') = 1 /\ Len(o_response') = 0 /\ i_request'[1] = [a EXCEPT !.nth = 0]
  BY <1>2
<1>4. [a EXCEPT !.nth = 0].nth = 0 /\ [a EXCEPT !.nth = 0].addr = q.addr
  BY DEF AccessType
<1>5. BeatNo(q)' = 0
  BY <1>1 DEF BeatNo, Wrapped, B!Started
<1>6. B!BeatAddr(q, 0) = q.addr /\ 0 * q.size = 0 /\ AddrOf(q, 0) = q.addr
  <2>1. B!BeatAddr(q, 0) = q.addr
    BY <1>1, AddrZero
  <2>2. 0 * q.size = 0 /\ 0 \div q.size = 0 /\ 0 % q.size = 0
    BY <1>1
  <2>. QED BY <1>1, <2>1, <2>2 DEF AddrOf
<1>s. /\ rg_req_beat' = (IF q.size > 1 THEN (q.len + 1) % 256 ELSE q.len)
      /\ rg_resp_beat' = (q.len + 1) % 256
      /\ rg_child_burst' = (IF q.size > 1 THEN q.size ELSE 0)
      /\ rg_child_req_count' = (IF q.size > 1 THEN 1 ELSE 0)
      /\ rg_child_res_count' = (IF q.size > 1 THEN 1 ELSE 0)
  BY DEF B!Started
<1>m. (q.len + 1) % 256 = IF q.len = 255 THEN 0 ELSE q.len + 1
  BY <1>1
<1>7. Requested(q)'
  <2>1. accesses' = 1
    BY <1>2
  <2>2. /\ rg_request'.addr = B!BeatAddr(q, 0) /\ rg_request'.len = q.len
        /\ rg_request'.size = q.size /\ rg_request'.burst = q.burst /\ rg_request' \in BurstType
    BY <1>6, BurstFacts
  <2>3. CASE q.size = 1
    BY <1>1, <1>s, <1>5, <1>6, <2>1, <2>2, <2>3 DEF Requested, Wrapped
  <2>4. CASE q.size \in {2, 4, 8}
    <3>1. q.size > 1 /\ 1 \in 1 .. q.size /\ q.len + 1 # 0
      BY <1>1, <2>4
    <3>2. rg_child_req_count' = 1 /\ rg_child_burst' = q.size
          /\ rg_req_beat' = (IF q.len = 255 THEN 0 ELSE q.len + 1)
      BY <1>s, <1>m, <3>1
    <3>3. accesses' = BeatNo(q)' * q.size + 1
      BY <1>1, <1>5, <1>6, <2>1
    <3>4. BeatNo(q)' \in 0 .. q.len
      BY <1>1, <1>5
    <3>5. rg_request'.addr = B!BeatAddr(q, BeatNo(q)')
      BY <1>5, <2>2
    <3>. QED BY <1>1, <2>2, <3>1, <3>2, <3>3, <3>4, <3>5 DEF Requested, Wrapped
  <2>. QED BY <1>1, <2>3, <2>4
<1>8. Answered' = 0 /\ AnsweredBeats(q)' = 0
  <2>1. accesses' = 1
    BY <1>2
  <2>2. Answered' = 0
    BY <1>3, <2>1 DEF Answered
  <2>. QED BY <1>1, <1>s, <1>m, <2>2 DEF AnsweredBeats
<1>9. Responded(q)'
  <2>1. Answered' = AnsweredBeats(q)' * q.size + 0
    BY <1>6, <1>8
  <2>2. q.len = 255 => rg_resp_beat' = 0
    BY <1>s, <1>m
  <2>3. q.len # 255 => rg_resp_beat' \in 1 .. q.len + 1
    BY <1>1, <1>s, <1>m
  <2>4. CASE q.size = 1
    BY <1>s, <2>1, <2>2, <2>3, <2>4 DEF Responded
  <2>5. CASE q.size \in {2, 4, 8}
    <3>1. q.size > 1 /\ 1 \in 1 .. q.size
      BY <1>1, <2>5
    <3>. QED BY <1>s, <2>1, <2>2, <2>3, <3>1 DEF Responded
  <2>. QED BY <1>1, <2>4, <2>5
<1>10. Queued(q)'
  <2>1. accesses' - Len(i_request') = 0 /\ 0 .. accesses' - Len(i_request') - 1 = {}
    BY <1>2, <1>3
  <2>2. ASSUME NEW k \in 1 .. Len(i_request')
        PROVE  LET n == accesses' - Len(i_request') + k - 1
               IN  i_request'[k].nth = n /\ i_request'[k].addr = AddrOf(q, n)
    <3>1. k = 1 /\ accesses' - Len(i_request') + k - 1 = 0
      BY <1>2, <1>3, <2>1
    <3>. QED BY <1>3, <1>4, <1>6, <3>1
  <2>. QED BY <1>2, <2>1, <2>2 DEF Queued
<1>. QED BY <1>7, <1>8, <1>9, <1>10, <1>s DEF Progress

(* The access that comes next is word c of beat n.                         *)
LEMMA NextAccess ==
  ASSUME NEW q \in Bursts, Registers, Requested(q), rg_req_beat # 0
  PROVE  LET n == accesses \div q.size
             c == accesses % q.size
         IN  /\ ~Wrapped(q) /\ n = q.len + 1 - rg_req_beat /\ n \in 0 .. q.len
             /\ c \in 0 .. q.size - 1 /\ c = (IF B!Child THEN rg_child_req_count ELSE 0)
             /\ accesses = n * q.size + c
             /\ B!NextAddr = B!BeatAddr(q, n) + c
             /\ n = BeatNo(q) + (IF B!Child THEN 0 ELSE 1)
<1>1. /\ q.size \in {1, 2, 4, 8} /\ q.len \in 0 .. 255 /\ q.size \in Nat
      /\ rg_req_beat \in 1 .. 255 /\ rg_child_req_count \in Nat
  BY BurstFacts DEF BurstOK, Registers
<1>2. ~Wrapped(q)
  BY DEF Requested
<1> DEFINE t == BeatNo(q)
<1>3. /\ t \in 0 .. q.len /\ t \in Nat
      /\ t = q.len - rg_req_beat + (IF q.size > 1 /\ rg_child_req_count # q.size THEN 1 ELSE 0)
      /\ accesses = t * q.size + (IF q.size > 1 THEN rg_child_req_count ELSE 1)
  BY <1>1, <1>2 DEF Requested, BeatNo
<1>4. /\ rg_request.addr = B!BeatAddr(q, t) /\ rg_request.len = q.len
      /\ rg_request.size = q.size /\ rg_request.burst = q.burst
  BY DEF Requested
<1>5. B!fn_axi4burst_addr(rg_request) = B!BeatAddr(q, t + 1) /\ B!BeatAddr(q, t) \in Nat
      /\ B!BeatAddr(q, t + 1) \in Nat
  BY <1>3, <1>4, AddrSteps, AddrNat
<1>6. CASE q.size = 1
  <2>1. ~B!Child
    BY <1>6 DEF B!Child, Requested
  <2>2. B!NextAddr = B!BeatAddr(q, t + 1)
    BY <1>5, <2>1 DEF B!NextAddr
  <2>. HIDE DEF t
  <2>3. t = q.len - rg_req_beat /\ accesses = t + 1
    BY <1>1, <1>3, <1>6
  <2>4. accesses \div q.size = t + 1 /\ accesses % q.size = 0 /\ t + 1 \in 0 .. q.len
    BY <1>1, <1>3, <1>6, <2>3
  <2>. QED BY <1>1, <1>2, <1>3, <1>5, <1>6, <2>1, <2>2, <2>3, <2>4 DEF t
<1>7. CASE q.size > 1 /\ rg_child_req_count # q.size
  <2>1. B!Child /\ rg_child_req_count \in 1 .. q.size - 1
    BY <1>1, <1>7 DEF B!Child, Requested
  <2>2. B!NextAddr = B!BeatAddr(q, t) + rg_child_req_count
    BY <1>4, <2>1 DEF B!NextAddr
  <2>3. t = q.len - rg_req_beat + 1 /\ accesses = t * q.size + rg_child_req_count
        /\ rg_child_req_count \in 0 .. q.size - 1
    BY <1>1, <1>3, <1>7, <2>1
  <2>. HIDE DEF t
  <2>4. accesses \div q.size = t /\ accesses % q.size = rg_child_req_count
    BY <1>1, <1>3, <2>3, Pieces
  <2>5. t = q.len + 1 - rg_req_beat
    BY <1>1, <2>3
  <2>. QED BY <1>2, <1>3, <2>1, <2>2, <2>3, <2>4, <2>5 DEF t
<1>8. CASE q.size > 1 /\ rg_child_req_count = q.size
  <2>1. ~B!Child
    BY <1>8 DEF B!Child, Requested
  <2>2. B!NextAddr = B!BeatAddr(q, t + 1)
    BY <1>5, <2>1 DEF B!NextAddr
  <2>3. t = q.len - rg_req_beat /\ accesses = t * q.size + q.size
    BY <1>1, <1>3, <1>8
  <2>. HIDE DEF t
  <2>4. accesses = (t + 1) * q.size + 0 /\ t + 1 \in Nat /\ 0 \in 0 .. q.size - 1
        /\ (t + 1) * q.size \in Nat
    BY <1>1, <1>3, <2>3
  <2>5. accesses \div q.size = t + 1 /\ accesses % q.size = 0
    BY <1>1, <2>4, Pieces
  <2>6. t + 1 = q.len + 1 - rg_req_beat /\ t + 1 \in 0 .. q.len
    <3>1. t = q.len - rg_req_beat /\ t \in Nat /\ q.len \in Nat
      BY <1>1, <1>3, <2>3
    <3>. QED BY <1>1, <3>1
  <2>7. B!BeatAddr(q, t + 1) + 0 = B!BeatAddr(q, t + 1)
    BY <1>5
  <2>. QED BY <1>2, <1>3, <2>1, <2>2, <2>3, <2>4, <2>5, <2>6, <2>7 DEF t
<1>. QED BY <1>1, <1>6, <1>7, <1>8

(* A request goes to the end of the queue, with the next number.           *)
LEMMA RequestQueued ==
  ASSUME NEW a \in AccessType, Registers, B!Request(a), UNCHANGED o_response
  PROVE  /\ accesses' = accesses + 1 /\ Answered' = Answered
         /\ i_request' \in Seq(AccessType) /\ Len(i_request') = Len(i_request) + 1
         /\ \A k \in 1 .. Len(i_request) : i_request'[k] = i_request[k]
         /\ LET e == i_request'[Len(i_request')]
            IN  /\ e.nth = accesses /\ e.addr = a.addr /\ e.write = a.write
                /\ e.beat = a.beat /\ e.lane = a.lane /\ e.strb = a.strb
<1> DEFINE e == [a EXCEPT !.nth = accesses]
<1>1. /\ e \in AccessType /\ e.nth = accesses /\ e.addr = a.addr /\ e.write = a.write
      /\ e.beat = a.beat /\ e.lane = a.lane /\ e.strb = a.strb
  BY DEF AccessType, Registers
<1>2. i_request' = Append(i_request, e) /\ accesses' = accesses + 1
  BY DEF B!Request
<1>3. i_request \in Seq(AccessType) /\ accesses \in Nat /\ Len(i_request) \in Nat
      /\ Len(o_response) \in Nat
  BY DEF Registers
<1> HIDE DEF e
<1>4. /\ i_request' \in Seq(AccessType) /\ Len(i_request') = Len(i_request) + 1
      /\ \A k \in 1 .. Len(i_request) : i_request'[k] = i_request[k]
      /\ i_request'[Len(i_request) + 1] = e
  BY <1>1, <1>2, <1>3
<1>5. Answered' = Answered
  BY <1>2, <1>3, <1>4 DEF Answered
<1>. QED BY <1>1, <1>2, <1>4, <1>5

(* A queue of accesses in their order stays so when the next joins it.     *)
LEMMA QueueGrows ==
  ASSUME NEW q \in Bursts, NEW a \in AccessType, Registers, Queued(q), a.addr = AddrOf(q, accesses),
         B!Request(a), UNCHANGED <<o_response, failed>>
  PROVE  Queued(q)'
<1>1. /\ accesses' = accesses + 1 /\ Answered' = Answered
      /\ Len(i_request') = Len(i_request) + 1
      /\ \A k \in 1 .. Len(i_request) : i_request'[k] = i_request[k]
      /\ i_request'[Len(i_request')].nth = accesses
      /\ i_request'[Len(i_request')].addr = AddrOf(q, accesses)
  BY RequestQueued
<1>2. accesses \in Nat /\ Len(i_request) \in Nat
  BY DEF Registers
<1>3. accesses' - Len(i_request') = accesses - Len(i_request)
  BY <1>1, <1>2
<1>4. ASSUME NEW k \in 1 .. Len(i_request')
      PROVE  LET n == accesses' - Len(i_request') + k - 1
             IN  i_request'[k].nth = n /\ i_request'[k].addr = AddrOf(q, n)
  <2>1. CASE k \in 1 .. Len(i_request)
    BY <1>1, <1>3, <2>1 DEF Queued
  <2>2. CASE k = Len(i_request')
    <3>1. accesses' - Len(i_request') + k - 1 = accesses
      BY <1>1, <1>2, <2>2
    <3>. QED BY <1>1, <2>2, <3>1
  <2>. QED BY <1>1, <1>2, <2>1, <2>2
<1>5. o_response' # <<>> => /\ o_response'[1].addr = AddrOf(q, Answered')
                            /\ o_response'[1].err <=> Answered' \in failed'
  BY Zenon, <1>1 DEF Queued
<1>6. failed' \subseteq 0 .. accesses' - Len(i_request') - 1
  BY <1>3 DEF Queued
<1>. QED BY <1>4, <1>5, <1>6 DEF Queued

(* The next request of a burst.                                            *)
LEMMA SendOK ==
  ASSUME NEW q \in Bursts, NEW a \in AccessType, a.addr = B!NextAddr, Registers, Progress(q),
         rg_req_beat # 0, B!ApbRoom, B!Request(a), B!SendNext
  PROVE  /\ Progress(q)' /\ AnsweredBeats(q)' = AnsweredBeats(q) /\ Answered' = Answered
         /\ rg_req_beat' = rg_req_beat - (IF B!BeatSent THEN 1 ELSE 0)
<1>1. /\ q.size \in {1, 2, 4, 8} /\ q.len \in 0 .. 255 /\ q.size \in Nat
      /\ rg_req_beat \in 1 .. 255 /\ rg_child_req_count \in Nat
  BY BurstFacts DEF BurstOK, Registers
<1>2. Requested(q) /\ Responded(q) /\ Queued(q)
  BY DEF Progress
<1> DEFINE n == accesses \div q.size
           c == accesses % q.size
<1>3. /\ ~Wrapped(q) /\ n = q.len + 1 - rg_req_beat /\ n \in 0 .. q.len
      /\ c \in 0 .. q.size - 1 /\ c = (IF B!Child THEN rg_child_req_count ELSE 0)
      /\ accesses = n * q.size + c /\ B!NextAddr = B!BeatAddr(q, n) + c
      /\ n = BeatNo(q) + (IF B!Child THEN 0 ELSE 1)
  BY <1>2, NextAccess
<1>4. /\ UNCHANGED <<rg_resp_beat, rg_child_burst, rg_child_res_count, o_response, failed>>
      /\ rg_req_beat' = rg_req_beat - (IF B!BeatSent THEN 1 ELSE 0)
      /\ IF B!Child THEN rg_child_req_count' = rg_child_req_count + 1 /\ rg_request' = rg_request
         ELSE /\ rg_request' = [rg_request EXCEPT !.addr = B!NextAddr]
              /\ rg_child_req_count' = IF rg_child_burst # 0 THEN 1 ELSE rg_child_req_count
  BY <1>1 DEF B!SendNext
<1>5. accesses' = accesses + 1 /\ Answered' = Answered
  BY <1>4, RequestQueued
<1>6. AnsweredBeats(q)' = AnsweredBeats(q) /\ Responded(q)'
  BY <1>2, <1>4, <1>5 DEF AnsweredBeats, Responded
<1>7. Queued(q)'
  BY <1>2, <1>3, <1>4, QueueGrows DEF AddrOf
<1>8. /\ rg_child_burst = (IF q.size > 1 THEN q.size ELSE 0)
      /\ IF q.size > 1 THEN rg_child_req_count \in 1 .. q.size ELSE rg_child_req_count = 0
      /\ rg_request \in BurstType /\ rg_request.addr = B!BeatAddr(q, BeatNo(q))
      /\ rg_request.len = q.len /\ rg_request.size = q.size /\ rg_request.burst = q.burst
  BY <1>2 DEF Requested
<1>9. B!BeatAddr(q, n) \in Nat /\ n \in Nat /\ BeatNo(q) \in Nat
  BY <1>1, <1>2, <1>3, AddrNat DEF Requested
<1> HIDE DEF n, c
<1>10. /\ rg_request' \in BurstType /\ rg_request'.addr = B!BeatAddr(q, n)
       /\ rg_request'.len = q.len /\ rg_request'.size = q.size /\ rg_request'.burst = q.burst
  <2>1. CASE B!Child
    <3>1. n = BeatNo(q)
      BY <1>3, <2>1, <1>9
    <3>. QED BY <1>4, <1>8, <2>1, <3>1
  <2>2. CASE ~B!Child
    <3>1. B!NextAddr = B!BeatAddr(q, n)
      BY <1>3, <1>9, <2>2
    <3>. QED BY <1>4, <1>8, <1>9, <2>2, <3>1 DEF BurstType
  <2>. QED BY <2>1, <2>2
<1>11. ASSUME BeatNo(q)' = n,
              rg_child_req_count' = (IF q.size > 1 THEN c + 1 ELSE 0),
              rg_req_beat' = 0 /\ q.size > 1 => rg_child_req_count' = q.size
       PROVE  Requested(q)'
  <2>1. accesses' = n * q.size + (IF q.size > 1 THEN rg_child_req_count' ELSE 1)
    <3>1. n * q.size \in Nat
      BY <1>1, <1>9
    <3>2. q.size # 1 => q.size > 1
      BY <1>1
    <3>3. q.size = 1 => c = 0
      BY <1>3
    <3>. QED BY <1>1, <1>3, <1>5, <1>11, <3>1, <3>2, <3>3
  <2>2. IF q.size > 1 THEN rg_child_req_count' \in 1 .. q.size ELSE rg_child_req_count' = 0
    BY <1>1, <1>3, <1>11
  <2>. QED BY <1>3, <1>4, <1>8, <1>10, <1>11, <2>1, <2>2 DEF Requested, Wrapped
<1>12. ASSUME q.size = 1  PROVE Requested(q)'
  <2>1. rg_child_burst = 0 /\ rg_child_req_count = 0
    BY <1>8, <1>12
  <2>2. rg_req_beat' = rg_req_beat - 1 /\ rg_child_req_count' = 0
    BY <1>4, <1>8, <1>12, <2>1 DEF B!BeatSent, B!Child
  <2>3. BeatNo(q)' = n
    BY <1>1, <1>3, <1>12, <2>2 DEF BeatNo, Wrapped
  <2>. QED BY <1>11, <1>12, <2>2, <2>3
<1>13. ASSUME q.size > 1, B!Child  PROVE Requested(q)'
  <2>1. rg_child_burst = q.size /\ c = rg_child_req_count /\ rg_child_req_count' = c + 1
    BY <1>3, <1>4, <1>8, <1>13
  <2>2. B!BeatSent <=> c = q.size - 1
    BY <1>1, <1>13, <2>1 DEF B!BeatSent
  <2>3. BeatNo(q)' = n
    <3>1. CASE B!BeatSent
      <4>1. rg_req_beat' = rg_req_beat - 1 /\ rg_child_req_count' = q.size
        BY <1>1, <1>4, <2>1, <2>2, <3>1
      <4>2. BeatNo(q)' = q.len - rg_req_beat' + 0
        BY <1>3, <4>1 DEF BeatNo, Wrapped
      <4>. QED BY <1>1, <1>3, <4>1, <4>2
    <3>2. CASE ~B!BeatSent
      <4>1. rg_req_beat' = rg_req_beat /\ rg_child_req_count' # q.size
        BY <1>1, <1>3, <1>4, <2>1, <2>2, <3>2
      <4>2. BeatNo(q)' = q.len - rg_req_beat' + 1
        BY <1>3, <1>13, <4>1 DEF BeatNo, Wrapped
      <4>. QED BY <1>1, <1>3, <4>1, <4>2
    <3>. QED BY <3>1, <3>2
  <2>4. rg_req_beat' = 0 => rg_child_req_count' = q.size
    BY <1>1, <1>4, <2>1, <2>2
  <2>. QED BY <1>11, <1>13, <2>1, <2>3, <2>4
<1>14. ASSUME q.size > 1, ~B!Child  PROVE Requested(q)'
  <2>1. rg_child_burst = q.size /\ rg_child_burst # 0 /\ rg_child_req_count = q.size /\ c = 0
    BY <1>1, <1>3, <1>8, <1>14 DEF B!Child
  <2>2. ~B!BeatSent
    BY <1>1, <2>1 DEF B!BeatSent
  <2>3. rg_req_beat' = rg_req_beat /\ rg_child_req_count' = 1 /\ q.size # 1
    BY <1>1, <1>4, <1>14, <2>1, <2>2
  <2>4. BeatNo(q)' = q.len - rg_req_beat' + 1
    BY <1>3, <1>14, <2>3 DEF BeatNo, Wrapped
  <2>5. BeatNo(q)' = n /\ c + 1 = 1
    BY <1>1, <1>3, <2>1, <2>3, <2>4
  <2>. QED BY <1>1, <1>11, <1>14, <2>3, <2>5
<1>15. Requested(q)'
  BY <1>1, <1>12, <1>13, <1>14
<1>. QED BY <1>4, <1>5, <1>6, <1>7, <1>15 DEF Progress

(* The words before a beat, and with it.                                   *)
LEMMA Products ==
  \A b \in Nat, s \in {1, 2, 4, 8} : b * s \in Nat /\ (b + 1) * s = b * s + s
<1> SUFFICES ASSUME NEW b \in Nat, NEW s \in {1, 2, 4, 8}
             PROVE  b * s \in Nat /\ (b + 1) * s = b * s + s
  OBVIOUS
<1>1. CASE s = 1 BY <1>1
<1>2. CASE s = 2 BY <1>2
<1>3. CASE s = 4 BY <1>3
<1>4. CASE s = 8 BY <1>4
<1>. QED BY <1>1, <1>2, <1>3, <1>4

(* A beat of other than one word has several.                             *)
LEMMA Sizes == \A q \in Bursts : q.size # 1 => q.size > 1
<1>1. \A q \in Bursts : q.size \in {1, 2, 4, 8}
  BY Zenon, BurstFacts DEF BurstOK
<1>2. \A s \in {1, 2, 4, 8} : s # 1 => s > 1
  OBVIOUS
<1>. QED BY Zenon, <1>1, <1>2

(* What the provers need to know of the numbers involved.                  *)
LEMMA Numbers ==
  ASSUME NEW q \in Bursts, Registers
  PROVE  /\ q.size \in {1, 2, 4, 8} /\ q.size \in Nat /\ q.len \in 0 .. 255 /\ q.len \in Nat
         /\ rg_req_beat \in Nat /\ rg_resp_beat \in Nat /\ rg_req_beat <= 255 /\ rg_resp_beat <= 255
         /\ rg_child_req_count \in Nat /\ rg_child_res_count \in Nat /\ accesses \in Nat
         /\ Len(i_request) \in Nat /\ Len(o_response) \in Nat /\ Len(o_response) <= 1
<1>1. q.size \in {1, 2, 4, 8} /\ q.len \in 0 .. 255
  BY BurstFacts DEF BurstOK
<1>2. q.size \in Nat /\ q.len \in Nat
  BY <1>1
<1>3. /\ rg_req_beat \in Nat /\ rg_resp_beat \in Nat /\ rg_req_beat <= 255 /\ rg_resp_beat <= 255
      /\ accesses \in Nat
  BY DEF Registers
<1>4. Ratio \in Nat
  BY BurstFacts
<1>5. rg_child_req_count \in Nat /\ rg_child_res_count \in Nat
  BY <1>4 DEF Registers
<1>6. Len(i_request) \in Nat
  BY LenProperties DEF Registers
<1>7. Len(o_response) \in Nat /\ Len(o_response) <= 1
  BY LenProperties DEF Registers
<1>. QED BY <1>1, <1>2, <1>3, <1>5, <1>6, <1>7

(* A burst makes no more accesses than it has words.                       *)
LEMMA AccessesBound ==
  ASSUME NEW q \in Bursts, Registers, Requested(q)
  PROVE  /\ accesses <= (q.len + 1) * q.size /\ (q.len + 1) * q.size \in Nat
         /\ accesses = (q.len + 1) * q.size => rg_req_beat = 0
<1>1. /\ q.size \in {1, 2, 4, 8} /\ q.len \in 0 .. 255 /\ q.size \in Nat /\ q.len \in Nat
      /\ rg_req_beat \in Nat /\ rg_child_req_count \in Nat /\ accesses \in Nat
  BY Numbers
<1> DEFINE t == BeatNo(q)
           k == IF q.size > 1 THEN rg_child_req_count ELSE 1
<1>2. t \in 0 .. q.len /\ accesses = t * q.size + k /\ k \in 1 .. q.size /\ t \in Nat /\ k \in Nat
  BY <1>1 DEF Requested
<1>3. Wrapped(q) => t = 0 /\ q.len = 255 /\ rg_req_beat = 0
  BY DEF Requested, BeatNo, Wrapped
<1>4. ~Wrapped(q) => t = q.len - rg_req_beat + (IF q.size > 1 /\ k # q.size THEN 1 ELSE 0)
  BY DEF BeatNo
<1> HIDE DEF t, k
<1>5. \A l \in Nat, z \in {1, 2, 4, 8} : \A u \in 0 .. l : \A v \in 1 .. z :
        /\ u * z + v <= (l + 1) * z /\ (l + 1) * z \in Nat
        /\ u * z + v = (l + 1) * z => u = l /\ v = z
  <2>1. \A l \in Nat : \A u \in 0 .. l :
          /\ \A v \in 1 .. 1 : u * 1 + v <= (l + 1) * 1 /\ (u * 1 + v = (l + 1) * 1 => u = l /\ v = 1)
          /\ \A v \in 1 .. 2 : u * 2 + v <= (l + 1) * 2 /\ (u * 2 + v = (l + 1) * 2 => u = l /\ v = 2)
          /\ \A v \in 1 .. 4 : u * 4 + v <= (l + 1) * 4 /\ (u * 4 + v = (l + 1) * 4 => u = l /\ v = 4)
          /\ \A v \in 1 .. 8 : u * 8 + v <= (l + 1) * 8 /\ (u * 8 + v = (l + 1) * 8 => u = l /\ v = 8)
    OBVIOUS
  <2>. QED BY <2>1
<1>6. accesses <= (q.len + 1) * q.size /\ (q.len + 1) * q.size \in Nat
      /\ (accesses = (q.len + 1) * q.size => t = q.len /\ k = q.size)
  <2>1. /\ t * q.size + k <= (q.len + 1) * q.size /\ (q.len + 1) * q.size \in Nat
        /\ (t * q.size + k = (q.len + 1) * q.size => t = q.len /\ k = q.size)
    <3> DEFINE powers == {1, 2, 4, 8}
    <3>1. q.len \in Nat /\ q.size \in powers /\ t \in 0 .. q.len /\ k \in 1 .. q.size
      BY Zenon, <1>1, <1>2
    <3>2. \A l \in Nat, z \in powers : \A u \in 0 .. l : \A v \in 1 .. z :
            /\ u * z + v <= (l + 1) * z /\ (l + 1) * z \in Nat
            /\ u * z + v = (l + 1) * z => u = l /\ v = z
      BY Zenon, <1>5
    <3> HIDE DEF powers
    <3>. QED BY Zenon, <3>1, <3>2
  <2>. QED BY Zenon, <1>2, <2>1
<1>7. ASSUME t = q.len, k = q.size  PROVE rg_req_beat = 0
  <2>1. CASE Wrapped(q)
    BY <1>3, <2>1
  <2>2. CASE ~Wrapped(q)
    <3>1. q.len = q.len - rg_req_beat + 0
      BY <1>4, <1>7, <2>2
    <3>. QED BY <1>1, <3>1
  <2>. QED BY <2>1, <2>2
<1>. QED BY <1>6, <1>7

(* The access that is answered next is word c of beat n.                   *)
LEMMA NextAnswer ==
  ASSUME NEW q \in Bursts, Registers, Progress(q), rg_resp_beat # 0, o_response # <<>>
  PROVE  LET n == AnsweredBeats(q)
             c == IF q.size > 1 THEN rg_child_res_count - 1 ELSE 0
         IN  /\ q.len # 255 /\ n = q.len + 1 - rg_resp_beat /\ n \in 0 .. q.len
             /\ c \in 0 .. q.size - 1 /\ Answered = n * q.size + c
             /\ Answered \div q.size = n /\ Answered % q.size = c
             /\ B!Accumulate <=> c # q.size - 1
             /\ Answered \in Nat /\ Len(o_response) = 1 /\ Answered < accesses
<1>1. /\ q.size \in {1, 2, 4, 8} /\ q.len \in 0 .. 255 /\ q.size \in Nat /\ q.len \in Nat
      /\ rg_resp_beat \in 1 .. 255 /\ rg_child_res_count \in Nat /\ accesses \in Nat
  <2>1. rg_resp_beat \in 1 .. 255
    BY DEF Registers
  <2>. QED BY <2>1, Numbers
<1> DEFINE n == AnsweredBeats(q)
           c == IF q.size > 1 THEN rg_child_res_count - 1 ELSE 0
<1>2. q.len # 255 /\ rg_resp_beat \in 1 .. q.len + 1 /\ Answered = n * q.size + c
      /\ (IF q.size > 1 THEN rg_child_res_count \in 1 .. q.size ELSE rg_child_res_count = 0)
  BY DEF Progress, Responded
<1>3. n = q.len + 1 - rg_resp_beat /\ n \in 0 .. q.len /\ n \in Nat
  BY <1>1, <1>2 DEF AnsweredBeats
<1>4. c \in 0 .. q.size - 1
  BY <1>1, <1>2
<1>5. B!Accumulate <=> c # q.size - 1
  <2>1. rg_child_burst = (IF q.size > 1 THEN q.size ELSE 0)
    BY DEF Progress, Requested
  <2>2. CASE q.size = 1
    BY <2>1, <2>2 DEF B!Accumulate
  <2>3. CASE q.size > 1
    BY <1>1, <1>2, <2>1, <2>3 DEF B!Accumulate
  <2>. QED BY <1>1, <2>2, <2>3
<1>6. Len(o_response) = 1 /\ Len(i_request) \in Nat
  <2>1. Len(o_response) \in Nat /\ Len(o_response) <= 1 /\ Len(i_request) \in Nat
    BY Zenon, Numbers
  <2>2. Len(o_response) # 0
    BY EmptySeq DEF Registers
  <2>3. \A x \in Nat : x <= 1 /\ x # 0 => x = 1
    OBVIOUS
  <2>. QED BY Zenon, <2>1, <2>2, <2>3
<1> HIDE DEF n, c
<1>7. Answered \div q.size = n /\ Answered % q.size = c /\ Answered \in Nat
  <2>1. /\ (n * q.size + c) \div q.size = n /\ (n * q.size + c) % q.size = c
        /\ n * q.size + c \in Nat
    BY Zenon, <1>1, <1>3, <1>4, Pieces
  <2>. QED BY Zenon, <1>2, <2>1
<1>8. Answered < accesses
  BY <1>1, <1>6 DEF Answered
<1>. QED BY <1>2, <1>3, <1>4, <1>5, <1>6, <1>7, <1>8 DEF n, c

(* An answer of a burst, which may be its last.                            *)
LEMMA RespondOK ==
  ASSUME NEW q \in Bursts, Registers, Progress(q), rg_resp_beat # 0, B!Respond
  PROVE  /\ Answered \in Nat
         /\ B!Ends => Resting' /\ accesses = (q.len + 1) * q.size /\ AnsweredBeats(q) = q.len
         /\ ~B!Ends => /\ Progress(q)' /\ Answered' = Answered + 1
                       /\ AnsweredBeats(q)' = AnsweredBeats(q) + (IF B!Accumulate THEN 0 ELSE 1)
<1>1. /\ q.size \in {1, 2, 4, 8} /\ q.len \in 0 .. 255 /\ q.size \in Nat /\ q.len \in Nat
      /\ rg_resp_beat \in 1 .. 255 /\ rg_child_res_count \in Nat /\ accesses \in Nat
      /\ Len(i_request) \in Nat
  <2>1. rg_resp_beat \in 1 .. 255
    BY DEF Registers
  <2>. QED BY <2>1, Numbers
<1> DEFINE n == AnsweredBeats(q)
           c == IF q.size > 1 THEN rg_child_res_count - 1 ELSE 0
<1>2. /\ q.len # 255 /\ n = q.len + 1 - rg_resp_beat /\ n \in 0 .. q.len
      /\ c \in 0 .. q.size - 1 /\ Answered = n * q.size + c
      /\ B!Accumulate <=> c # q.size - 1
      /\ Answered \in Nat /\ Len(o_response) = 1 /\ Answered < accesses
  BY NextAnswer DEF B!Respond
<1>3. Requested(q) /\ Responded(q) /\ Queued(q)
  BY DEF Progress
<1>4. /\ o_response' = Tail(o_response) /\ i_request' = i_request
      /\ UNCHANGED <<rg_req_beat, rg_child_burst, rg_child_req_count>>
      /\ IF B!Accumulate
         THEN rg_child_res_count' = rg_child_res_count + 1 /\ rg_resp_beat' = rg_resp_beat
         ELSE /\ rg_resp_beat' = rg_resp_beat - 1
              /\ rg_child_res_count' = IF rg_child_burst # 0 THEN 1 ELSE rg_child_res_count
      /\ rg_request' = (IF B!Ends THEN B!None ELSE rg_request)
      /\ accesses' = (IF B!Ends THEN 0 ELSE accesses) /\ failed' = (IF B!Ends THEN {} ELSE failed)
  BY DEF B!Respond
<1>5. o_response' = <<>> /\ Len(o_response') = 0
  <2>1. o_response \in Seq(AnswerType) /\ o_response # <<>>
    BY DEF Registers, B!Respond
  <2>. QED BY <1>2, <1>4, <2>1
<1>6. ASSUME B!Ends
      PROVE  Resting' /\ accesses = (q.len + 1) * q.size /\ n = q.len
  <2>1. n = q.len /\ c = q.size - 1
    BY <1>1, <1>2, <1>6 DEF B!Ends
  <2> HIDE DEF n, c
  <2>2. PICK p \in Nat : p = q.len * q.size /\ (q.len + 1) * q.size = p + q.size
    BY Zenon, <1>1, Products
  <2>3. accesses <= (q.len + 1) * q.size
        /\ (accesses = (q.len + 1) * q.size => rg_req_beat = 0)
    BY <1>3, AccessesBound
  <2>4. accesses = (q.len + 1) * q.size /\ Len(i_request) = 0
    <3>1. Answered = p + (q.size - 1) /\ accesses <= p + q.size
      BY Zenon, <1>2, <2>1, <2>2, <2>3
    <3>2. Answered = accesses - Len(i_request) - 1 /\ Answered < accesses
      BY <1>1, <1>2 DEF Answered
    <3>3. accesses = p + q.size
      BY <1>1, <3>1, <3>2
    <3>4. Len(i_request) = 0
      BY <1>1, <3>1, <3>2, <3>3
    <3>. QED BY Zenon, <2>2, <3>3, <3>4
  <2>5. Len(i_request) = 0
    BY <2>4
  <2>6. i_request = <<>>
    BY <2>5 DEF Registers
  <2>. QED BY <1>4, <1>5, <1>6, <2>1, <2>3, <2>4, <2>6 DEF Resting
<1>7. ASSUME ~B!Ends
      PROVE  /\ Progress(q)' /\ Answered' = Answered + 1
             /\ AnsweredBeats(q)' = AnsweredBeats(q) + (IF B!Accumulate THEN 0 ELSE 1)
  <2>1. accesses' = accesses /\ rg_request' = rg_request /\ failed' = failed
    BY <1>4, <1>7
  <2>2. Requested(q)' /\ Wrapped(q)' = Wrapped(q)
    BY <1>3, <1>4, <2>1 DEF Requested, BeatNo, Wrapped
  <2>3. Answered' = Answered + 1
    <3>1. Answered = accesses - Len(i_request) - 1 /\ Answered' = accesses - Len(i_request) - 0
      BY Zenon, <1>2, <1>4, <1>5, <2>1 DEF Answered
    <3>. QED BY <1>1, <3>1
  <2>4. Queued(q)'
    BY <1>3, <1>4, <1>5, <2>1 DEF Queued
  <2>5. rg_child_burst = (IF q.size > 1 THEN q.size ELSE 0)
        /\ (IF q.size > 1 THEN rg_child_res_count \in 1 .. q.size ELSE rg_child_res_count = 0)
    BY <1>3 DEF Requested, Responded
  <2>6. CASE B!Accumulate
    <3>1. AnsweredBeats(q)' = n /\ rg_resp_beat' = rg_resp_beat /\ rg_resp_beat \in 1 .. q.len + 1
      <4>1. rg_resp_beat' = rg_resp_beat
        BY Zenon, <1>4, <2>6
      <4>2. rg_resp_beat \in 1 .. q.len + 1
        BY Zenon, <1>2, <1>3 DEF Responded
      <4>. QED BY Zenon, <4>1, <4>2 DEF AnsweredBeats
    <3>2. q.size > 1 /\ c = rg_child_res_count - 1 /\ rg_child_res_count' = rg_child_res_count + 1
          /\ rg_child_res_count' \in 1 .. q.size
      <4>1. rg_child_res_count' = rg_child_res_count + 1 /\ rg_child_burst # 0
            /\ rg_child_res_count # rg_child_burst
        BY Zenon, <1>4, <2>6 DEF B!Accumulate
      <4>2. q.size > 1
        BY Zenon, <2>5, <4>1
      <4>. QED BY <1>1, <2>5, <4>1, <4>2
    <3>3. Answered' = AnsweredBeats(q)' * q.size + (rg_child_res_count' - 1)
      <4> HIDE DEF n
      <4>p. n \in Nat
        BY <1>1, <1>2
      <4>q. n * q.size \in Nat
        BY <1>1, <4>p, Products
      <4>1. PICK p \in Nat : p = n * q.size
        BY <4>q
      <4>2. Answered = p + c /\ AnsweredBeats(q)' * q.size = p
        BY Zenon, <1>2, <3>1, <4>1
      <4>3. Answered' = p + (rg_child_res_count' - 1)
        BY <1>1, <2>3, <3>2, <4>2
      <4>. QED BY Zenon, <4>2, <4>3
    <3>4. Responded(q)'
      BY <1>2, <3>1, <3>2, <3>3 DEF Responded
    <3>. QED BY <2>2, <2>3, <2>4, <2>6, <3>1, <3>4, <1>1, <1>2 DEF Progress
  <2>7. CASE ~B!Accumulate
    <3>1. rg_resp_beat' = rg_resp_beat - 1 /\ rg_resp_beat' \in 1 .. q.len + 1
      BY <1>1, <1>2, <1>4, <1>7, <2>7 DEF B!Ends
    <3>2. AnsweredBeats(q)' = n + 1
      BY <1>1, <1>2, <3>1 DEF AnsweredBeats
    <3>3. rg_child_res_count' = (IF q.size > 1 THEN 1 ELSE 0)
      BY <1>1, <1>4, <2>5, <2>7
    <3>4. Answered' = AnsweredBeats(q)' * q.size + 0
      <4>1. c = q.size - 1
        BY <1>2, <2>7
      <4> HIDE DEF n, c
      <4>p. n \in Nat
        BY <1>1, <1>2
      <4>q. n * q.size \in Nat /\ (n + 1) * q.size = n * q.size + q.size
        BY <1>1, <4>p, Products
      <4>2. PICK p \in Nat : p = n * q.size /\ (n + 1) * q.size = p + q.size
        BY <4>q
      <4>3. Answered = p + c /\ AnsweredBeats(q)' * q.size = p + q.size
        BY Zenon, <1>2, <3>2, <4>2
      <4>4. Answered' = p + q.size + 0
        BY <1>1, <2>3, <4>1, <4>3
      <4>. QED BY Zenon, <4>3, <4>4
    <3>5. Responded(q)'
      <4>1. q.len # 255 /\ rg_resp_beat' \in 1 .. q.len + 1
        BY Zenon, <1>2, <3>1
      <4>2. CASE q.size > 1
        <5>1. rg_child_res_count' = 1 /\ 1 \in 1 .. q.size /\ 1 - 1 = 0
          BY <1>1, <3>3, <4>2
        <5>. QED BY Zenon, <3>4, <4>1, <4>2, <5>1 DEF Responded
      <4>3. CASE ~(q.size > 1)
        BY Zenon, <3>3, <3>4, <4>1, <4>3 DEF Responded
      <4>. QED BY <4>2, <4>3
    <3>. QED BY <2>2, <2>3, <2>4, <2>7, <3>2, <3>5 DEF Progress
  <2>. QED BY <2>6, <2>7
<1>. QED BY <1>2, <1>6, <1>7

----------------------------------------------------------------------------
(* While a burst is in progress its registers have their types.            *)
LEMMA RegistersNext ==
  ASSUME NEW q \in Bursts, Progress(q)', rg_req_beat' \in 0 .. 255,
         i_request' \in Seq(AccessType), Len(i_request') <= 2,
         o_response' \in Seq(AnswerType), Len(o_response') <= 1
  PROVE  Registers'
<1>1. /\ q.size \in {1, 2, 4, 8} /\ q.size \in Nat /\ q.len \in 0 .. 255 /\ q.len \in Nat
      /\ q.size <= Ratio /\ q.size \in B!Sizes /\ Ratio \in Nat
  <2>1. q.size \in {1, 2, 4, 8} /\ q.len \in 0 .. 255 /\ q.size <= Ratio /\ Ratio \in Nat
    BY BurstFacts DEF BurstOK
  <2>2. q.size \in B!Sizes
    BY Zenon, <2>1 DEF B!Sizes
  <2>3. (\A x \in {1, 2, 4, 8} : x \in Nat) /\ (\A x \in 0 .. 255 : x \in Nat)
    OBVIOUS
  <2>. QED BY Zenon, <2>1, <2>2, <2>3
<1>2. /\ rg_child_burst' = (IF q.size > 1 THEN q.size ELSE 0)
      /\ IF q.size > 1 THEN rg_child_req_count' \in 1 .. q.size ELSE rg_child_req_count' = 0
      /\ BeatNo(q)' \in 0 .. q.len
      /\ accesses' = BeatNo(q)' * q.size + (IF q.size > 1 THEN rg_child_req_count' ELSE 1)
  BY DEF Progress, Requested
<1>3. /\ IF q.size > 1 THEN rg_child_res_count' \in 1 .. q.size ELSE rg_child_res_count' = 0
      /\ IF q.len = 255 THEN rg_resp_beat' = 0 ELSE rg_resp_beat' \in 1 .. q.len + 1
  BY DEF Progress, Responded
<1>4. rg_child_burst' \in B!Sizes \union {0}
  BY <1>1, <1>2
<1>5. rg_child_req_count' \in 0 .. Ratio /\ rg_child_res_count' \in 0 .. Ratio
  <2>1. \A s, r \in Nat : s <= r => 0 \in 0 .. r /\ \A x \in 1 .. s : x \in 0 .. r
    OBVIOUS
  <2>2. 0 \in 0 .. Ratio /\ \A x \in 1 .. q.size : x \in 0 .. Ratio
    BY Zenon, <1>1, <2>1
  <2>. QED BY Zenon, <1>2, <1>3, <2>2
<1>6. rg_resp_beat' \in 0 .. 255
  <2>1. PICK l \in 0 .. 255 : l = q.len
    BY <1>1
  <2>2. CASE l = 255
    <3>1. rg_resp_beat' = 0
      BY Zenon, <1>3, <2>1, <2>2
    <3>. QED BY <3>1
  <2>3. CASE l # 255
    <3>1. rg_resp_beat' \in 1 .. l + 1
      BY Zenon, <1>3, <2>1, <2>3
    <3>. QED BY <2>3, <3>1
  <2>. QED BY <2>2, <2>3
<1>7. accesses' \in Nat
  <2>1. BeatNo(q)' \in Nat
    BY <1>1, <1>2
  <2>2. BeatNo(q)' * q.size \in Nat
    BY <1>1, <2>1, Products
  <2>3. PICK p \in Nat : p = BeatNo(q)' * q.size
    BY <2>2
  <2>4. accesses' = p + (IF q.size > 1 THEN rg_child_req_count' ELSE 1)
    BY Zenon, <1>2, <2>3
  <2>5. q.size > 1 => rg_child_req_count' \in 1 .. q.size
    BY Zenon, <1>2
  <2>6. q.size > 1 => rg_child_req_count' \in Nat
    BY <1>1, <2>5
  <2>. QED BY SMT, <2>4, <2>6
<1>. QED BY <1>4, <1>5, <1>6, <1>7 DEF Registers

(* So do they when it starts.                                              *)
LEMMA StartRegisters ==
  ASSUME NEW q \in Bursts, NEW a \in AccessType, Registers, Resting, B!ApbRoom,
         B!Request(a), Progress(q)', UNCHANGED o_response,
         rg_req_beat' = (IF q.size > 1 THEN (q.len + 1) % 256 ELSE q.len)
  PROVE  Registers'
<1>1. i_request' \in Seq(AccessType) /\ Len(i_request') = Len(i_request) + 1
  BY Zenon, RequestQueued
<1>2. Len(i_request') <= 2
  <2>1. Len(i_request) < 2 /\ Len(i_request) \in Nat
    BY Zenon, Numbers DEF B!ApbRoom
  <2>. QED BY <1>1, <2>1
<1>3. rg_req_beat' \in 0 .. 255
  <2>1. \A l \in 0 .. 255 : (l + 1) % 256 \in 0 .. 255
    OBVIOUS
  <2>2. q.len \in 0 .. 255
    BY Zenon, Numbers
  <2>. QED BY Zenon, <2>1, <2>2
<1>4. o_response' \in Seq(AnswerType) /\ Len(o_response') <= 1
  BY Zenon DEF Registers
<1>. QED BY Zenon, <1>1, <1>2, <1>3, <1>4, RegistersNext

(* So do they when it asks for another access.                             *)
LEMMA SendRegisters ==
  ASSUME NEW q \in Bursts, NEW a \in AccessType, Registers, B!ApbRoom, rg_req_beat # 0,
         B!Request(a), Progress(q)', UNCHANGED o_response,
         rg_req_beat' = rg_req_beat - (IF B!BeatSent THEN 1 ELSE 0)
  PROVE  Registers'
<1>1. i_request' \in Seq(AccessType) /\ Len(i_request') = Len(i_request) + 1
  BY Zenon, RequestQueued
<1>2. Len(i_request') <= 2
  <2>1. Len(i_request) < 2 /\ Len(i_request) \in Nat
    BY Zenon, Numbers DEF B!ApbRoom
  <2>. QED BY <1>1, <2>1
<1>3. rg_req_beat' \in 0 .. 255
  BY DEF Registers
<1>4. o_response' \in Seq(AnswerType) /\ Len(o_response') <= 1
  BY Zenon DEF Registers
<1>. QED BY Zenon, <1>1, <1>2, <1>3, <1>4, RegistersNext

(* The number of the next answer is a number.                              *)
LEMMA AnsweredNat ==
  ASSUME NEW q \in Bursts, Registers, Progress(q)
  PROVE  Answered \in Nat
<1>1. /\ q.size \in {1, 2, 4, 8} /\ q.size \in Nat /\ q.len \in Nat /\ q.len \in 0 .. 255
      /\ rg_child_res_count \in Nat
  BY Zenon, Numbers
<1>2. Responded(q)
  BY DEF Progress
<1>3. AnsweredBeats(q) \in Nat
  BY <1>1, <1>2 DEF Responded, AnsweredBeats
<1>4. PICK p \in Nat : p = AnsweredBeats(q) * q.size
  BY <1>1, <1>3, Products
<1>5. Answered = p + (IF q.size > 1 THEN rg_child_res_count - 1 ELSE 0)
  BY Zenon, <1>2, <1>4 DEF Responded
<1>6. q.size > 1 => rg_child_res_count >= 1
  BY <1>1, <1>2 DEF Responded
<1>. QED BY <1>1, <1>5, <1>6

(* The APB answers the access at the head of the queue.                    *)
LEMMA ApbOK ==
  ASSUME NEW q \in Bursts, Registers, Progress(q), B!ApbAccess
  PROVE  /\ Progress(q)' /\ Registers' /\ Answered' = Answered /\ AnsweredBeats(q)' = AnsweredBeats(q)
         /\ o_response = <<>> /\ o_response' # <<>>
         /\ failed' # {} <=> failed # {} \/ o_response'[1].err
<1>1. /\ i_request \in Seq(AccessType) /\ i_request # <<>> /\ o_response = <<>>
      /\ i_request' = Tail(i_request) /\ Len(i_request) <= 2
      /\ UNCHANGED <<B!axi, rg_state, rg_request, B!count, B!accum, accesses>>
  BY DEF B!ApbAccess, Registers
<1>2. /\ Len(i_request) \in Nat \ {0} /\ i_request' \in Seq(AccessType)
      /\ Len(i_request') = Len(i_request) - 1 /\ Len(o_response) = 0
      /\ \A k \in 1 .. Len(i_request') : i_request'[k] = i_request[k + 1]
      /\ Head(i_request) = i_request[1] /\ i_request[1] \in AccessType
  <2>1. Len(i_request) \in Nat \ {0} /\ Len(o_response) = 0
    BY <1>1, EmptySeq
  <2>2. i_request' \in Seq(AccessType) /\ Len(i_request') = Len(i_request) - 1
        /\ \A k \in 1 .. Len(i_request') : i_request'[k] = i_request[k + 1]
    BY <1>1, <2>1, HeadTailProperties
  <2>3. Head(i_request) = i_request[1] /\ i_request[1] \in AccessType
    BY <1>1, <2>1, HeadTailProperties
  <2>. QED BY <2>1, <2>2, <2>3
<1>3. PICK err \in BOOLEAN :
        /\ o_response' = <<[addr |-> i_request[1].addr, err |-> err]>>
        /\ failed' = IF err THEN failed \union {i_request[1].nth} ELSE failed
  BY Zenon, <1>2 DEF B!ApbAccess
<1>4. /\ o_response' \in Seq(AnswerType) /\ Len(o_response') = 1 /\ o_response' # <<>>
      /\ o_response'[1].addr = i_request[1].addr /\ (o_response'[1].err <=> err)
  <2>1. i_request[1].addr \in Nat
    BY <1>2 DEF AccessType
  <2>2. PICK e : e = [addr |-> i_request[1].addr, err |-> err]
    BY Zenon
  <2>3. e \in AnswerType /\ e.addr = i_request[1].addr /\ e.err = err
    BY <2>1, <2>2 DEF AnswerType
  <2>4. o_response' = <<e>>
    BY Zenon, <1>3, <2>2
  <2>5. o_response' \in Seq(AnswerType) /\ Len(o_response') = 1 /\ o_response' # <<>> /\ o_response'[1] = e
    BY <2>3, <2>4
  <2>. QED BY Zenon, <2>3, <2>5
<1>5. /\ UNCHANGED <<rg_request, rg_req_beat, rg_resp_beat, rg_child_burst, rg_child_req_count,
                     rg_child_res_count, accesses>>
  BY <1>1 DEF B!count
<1>6. accesses \in Nat /\ rg_req_beat \in 0 .. 255
  BY DEF Registers
<1>7. PICK len \in Nat : len = Len(i_request) /\ Len(i_request') = len - 1 /\ len # 0
  BY <1>2
<1>8. Answered = accesses - len /\ Answered' = accesses - len
  <2>1. Answered = accesses - len - 0 /\ Answered' = accesses - (len - 1) - 1
    BY Zenon, <1>2, <1>4, <1>5, <1>7 DEF Answered
  <2>. QED BY <1>6, <1>7, <2>1
<1>9. Requested(q)' /\ Responded(q)' /\ AnsweredBeats(q)' = AnsweredBeats(q)
  <2>1. Requested(q) /\ Responded(q) /\ BeatNo(q)' = BeatNo(q)
    BY <1>5 DEF Progress, BeatNo, Wrapped
  <2>. QED BY <1>5, <1>8, <2>1 DEF Requested, Responded, AnsweredBeats, Wrapped
<1>10. i_request[1].nth = Answered /\ i_request[1].addr = AddrOf(q, Answered)
  <2>1. 1 \in 1 .. len /\ accesses - len + 1 - 1 = accesses - len
    BY <1>6, <1>7
  <2>2. LET m == accesses - len + 1 - 1 IN i_request[1].nth = m /\ i_request[1].addr = AddrOf(q, m)
    BY Zenon, <1>7, <2>1 DEF Progress, Queued
  <2>. QED BY Zenon, <1>8, <2>1, <2>2
<1>11. failed \subseteq 0 .. accesses - len - 1 /\ Answered \notin failed
  <2>1. failed \subseteq 0 .. accesses - len - 1
    BY Zenon, <1>7 DEF Progress, Queued
  <2>2. accesses - len \notin 0 .. accesses - len - 1
    BY <1>6, <1>7
  <2>. QED BY Zenon, <1>8, <2>1, <2>2
<1>12. Queued(q)'
  <2>1. ASSUME NEW k \in 1 .. Len(i_request')
        PROVE  LET m == accesses' - Len(i_request') + k - 1
               IN  i_request'[k].nth = m /\ i_request'[k].addr = AddrOf(q, m)
    <3>1. k \in 1 .. len - 1
      BY Zenon, <1>7
    <3>2. k + 1 \in 1 .. len /\ accesses - (len - 1) + k - 1 = accesses - len + (k + 1) - 1
      BY <1>6, <1>7, <3>1
    <3>3. LET m == accesses - len + (k + 1) - 1
          IN  i_request[k + 1].nth = m /\ i_request[k + 1].addr = AddrOf(q, m)
      BY Zenon, <1>7, <3>2 DEF Progress, Queued
    <3>. QED BY Zenon, <1>2, <1>5, <1>7, <3>2, <3>3
  <2>2. o_response'[1].addr = AddrOf(q, Answered') /\ (o_response'[1].err <=> Answered' \in failed')
    BY Zenon, <1>3, <1>4, <1>8, <1>10, <1>11
  <2>3. failed' \subseteq 0 .. accesses' - Len(i_request') - 1
    <3>1. failed' \subseteq failed \union {accesses - len}
      BY Zenon, <1>3, <1>8, <1>10
    <3>2. \A x \in 0 .. accesses - len - 1 : x \in 0 .. accesses - (len - 1) - 1
      BY <1>6, <1>7
    <3>3. accesses - len \in 0 .. accesses - (len - 1) - 1
      <4>1. accesses - len \in Nat
        <5>1. Answered \in Nat
          BY Zenon, AnsweredNat
        <5>. QED BY Zenon, <1>8, <5>1
      <4>. QED BY <1>6, <1>7, <4>1
    <3>4. failed' \subseteq 0 .. accesses - (len - 1) - 1
      BY Zenon, <1>11, <3>1, <3>2, <3>3
    <3>. QED BY Zenon, <1>5, <1>7, <3>4
  <2>. QED BY Zenon, <2>1, <2>2, <2>3 DEF Queued
<1>13. Progress(q)'
  BY Zenon, <1>9, <1>12 DEF Progress
<1>14. Registers'
  <2>1. Len(i_request') <= 2 /\ Len(o_response') <= 1 /\ rg_req_beat' \in 0 .. 255
    BY <1>1, <1>2, <1>4, <1>5, <1>6
  <2>. QED BY Zenon, <1>2, <1>4, <1>13, <2>1, RegistersNext
<1>15. failed' # {} <=> failed # {} \/ o_response'[1].err
  BY Zenon, <1>3, <1>4
<1>. QED BY Zenon, <1>1, <1>4, <1>8, <1>9, <1>13, <1>14, <1>15

----------------------------------------------------------------------------
(* What a side of the master's keeps while only the other side moves.      *)
LEMMA ReadStays ==
  ASSUME ReadSide, UNCHANGED <<reading, received, i_rd_data, o_rd_addr>>,
         rg_state' = "ReadResp" <=> rg_state = "ReadResp",
         rg_state = "ReadResp" => AnsweredBeats(reading)' = AnsweredBeats(reading)
  PROVE  ReadSide'
  BY Zenon DEF ReadSide

(* The same of the write side.                                             *)
LEMMA WriteStays ==
  ASSUME WriteSide, UNCHANGED <<writing, given, o_wr_addr, o_wr_data, i_wr_resp>>,
         rg_state' = "WriteResp" <=> rg_state = "WriteResp",
         rg_state = "WriteResp" => Used(writing)' = Used(writing)
  PROVE  WriteSide'
<1>1. writing # B!None => GivenData(writing)'
  BY Zenon DEF WriteSide, GivenData
<1>. QED BY Zenon, <1>1 DEF WriteSide

(* What has been gathered of a beat stays while no answer is taken.        *)
LEMMA CollectedStays ==
  ASSUME NEW q, UNCHANGED <<rg_child_res_count, rg_accum_data, rg_accum_mask>>,
         Answered' = Answered, AnsweredBeats(q)' = AnsweredBeats(q)
  PROVE  Collected(q)' = Collected(q)
<1>1. PICK n, m : n = AnsweredBeats(q) /\ n = AnsweredBeats(q)' /\ m = Answered /\ m = Answered'
  BY Zenon
<1>2. Collected(q) = (IF q.size = 1 THEN rg_accum_mask = B!Lanes
                      ELSE /\ rg_accum_mask = {m % Ratio}
                           /\ \A c \in 0 .. rg_child_res_count - 2 :
                                rg_accum_data[(n * q.size + c) % Ratio] = B!BeatAddr(q, n) + c)
  BY Zenon, <1>1 DEF Collected
<1>3. Collected(q)' = (IF q.size = 1 THEN rg_accum_mask' = B!Lanes
                      ELSE /\ rg_accum_mask' = {m % Ratio}
                           /\ \A c \in 0 .. rg_child_res_count' - 2 :
                                rg_accum_data'[(n * q.size + c) % Ratio] = B!BeatAddr(q, n) + c)
  BY Zenon, <1>1 DEF Collected
<1>. QED BY Zenon, <1>2, <1>3

(* The master's own steps change nothing in the bridge.                    *)
LEMMA BridgeStays ==
  ASSUME UNCHANGED B!bridge
  PROVE  /\ Registers' = Registers /\ Resting' = Resting /\ Answered' = Answered
         /\ \A q : /\ Progress(q)' = Progress(q) /\ AnsweredBeats(q)' = AnsweredBeats(q)
                   /\ Used(q)' = Used(q) /\ Collected(q)' = Collected(q)
         /\ UNCHANGED <<rg_state, rg_accum_data, rg_accum_mask>>
         /\ ErrSide' = ErrSide
<1>1. UNCHANGED <<i_request, o_response, rg_state, rg_request, rg_req_beat, rg_resp_beat,
                  rg_child_burst, rg_child_req_count, rg_child_res_count, rg_accum_data,
                  rg_accum_mask, rg_accum_err, accesses, failed>>
  BY DEF B!bridge, B!count, B!accum
<1>2. Registers' = Registers /\ Resting' = Resting /\ Answered' = Answered /\ ErrSide' = ErrSide
  <2>1. Registers' = Registers
    BY SMT, <1>1 DEF Registers
  <2>2. Answered' = Answered /\ Resting' = Resting /\ ErrSide' = ErrSide
    BY Zenon, <1>1 DEF Answered, Resting, ErrSide
  <2>. QED BY Zenon, <2>1, <2>2
<1>3. ASSUME NEW q
      PROVE  /\ BeatNo(q)' = BeatNo(q) /\ AnsweredBeats(q)' = AnsweredBeats(q)
             /\ Used(q)' = Used(q)
  BY Zenon, <1>1 DEF BeatNo, Wrapped, AnsweredBeats, Used
<1>4. ASSUME NEW q  PROVE Progress(q)' = Progress(q)
  <2>1. Requested(q)' = Requested(q)
    BY <1>1, <1>3 DEF Requested, Wrapped
  <2>2. Responded(q)' = Responded(q)
    BY <1>1, <1>2, <1>3 DEF Responded
  <2>3. Queued(q)' = Queued(q)
    BY Zenon, <1>1, <1>2 DEF Queued, AddrOf
  <2>. QED BY Zenon, <2>1, <2>2, <2>3 DEF Progress
<1>5. ASSUME NEW q  PROVE Collected(q)' = Collected(q)
  BY Zenon, <1>1, <1>2, <1>3, CollectedStays
<1>. QED BY Zenon, <1>1, <1>2, <1>3, <1>4, <1>5

(* Nor do they change how far the burst in progress is.                    *)
LEMMA ProgressStays ==
  ASSUME InProgress, UNCHANGED B!bridge,
         rg_state = "ReadResp" => reading' = reading,
         rg_state = "WriteResp" => writing' = writing
  PROVE  InProgress'
<1>1. UNCHANGED rg_state /\ Registers' = Registers /\ Resting' = Resting
      /\ \A q : Progress(q)' = Progress(q)
  BY Zenon, BridgeStays
<1>2. rg_state = "ReadResp" => Progress(reading)'
  <2>1. ASSUME rg_state = "ReadResp"  PROVE Progress(reading)'
    <3>1. PICK q : q = reading
      OBVIOUS
    <3>2. q = reading' /\ Progress(q)
      BY Zenon, <2>1, <3>1 DEF InProgress
    <3>. QED BY Zenon, <1>1, <3>1, <3>2
  <2>. QED BY <2>1
<1>3. rg_state = "WriteResp" => Progress(writing)'
  <2>1. ASSUME rg_state = "WriteResp"  PROVE Progress(writing)'
    <3>1. PICK q : q = writing
      OBVIOUS
    <3>2. q = writing' /\ Progress(q)
      BY Zenon, <2>1, <3>1 DEF InProgress
    <3>. QED BY Zenon, <1>1, <3>1, <3>2
  <2>. QED BY <2>1
<1>. QED BY Zenon, <1>1, <1>2, <1>3 DEF InProgress

(* A beat is on lanes of the bus.                                          *)
LEMMA LanesOK == \A q \in Bursts, n \in Nat : B!BeatLanes(q, n) \subseteq B!Lanes
<1> SUFFICES ASSUME NEW q \in Bursts, NEW n \in Nat, NEW c \in 0 .. q.size - 1
             PROVE  (B!BeatAddr(q, n) + c) % Ratio \in 0 .. Ratio - 1
  BY DEF B!BeatLanes, B!Lanes
<1>1. PICK a \in Nat : a = B!BeatAddr(q, n)
  BY AddrNat
<1>2. c \in Nat /\ Ratio \in Nat /\ Ratio > 0
  BY BurstFacts DEF BurstOK
<1>. QED BY <1>1, <1>2

(* The master's steps.                                                     *)
LEMMA MasterReadsOK == ASSUME BInv, B!MasterReads PROVE BInv'
<1>1. /\ reading = B!None /\ reading' \in Bursts /\ o_rd_addr' = <<reading'>>
      /\ UNCHANGED <<i_rd_data, o_wr_addr, o_wr_data, i_wr_resp, received, writing, given>>
      /\ UNCHANGED B!bridge
  BY DEF B!MasterReads
<1>2. /\ InProgress /\ ReadSide /\ WriteSide /\ ErrSide /\ DataSide
  BY DEF BInv
<1>3. /\ UNCHANGED <<rg_state, rg_accum_data, rg_accum_mask>> /\ ErrSide' = ErrSide
      /\ \A q : Used(q)' = Used(q)
  BY Zenon, <1>1, BridgeStays
<1>4. i_rd_data = <<>> /\ received = 0 /\ rg_state # "ReadResp"
  BY Zenon, <1>1, <1>2 DEF ReadSide
<1>5. InProgress'
  BY Zenon, <1>1, <1>2, <1>4, ProgressStays
<1>6. ReadSide'
  <2>1. reading' # B!None /\ \A k \in 1 .. Len(i_rd_data') : i_rd_data'[k].last <=> k = Len(i_rd_data')
    <3>1. Len(i_rd_data') = 0
      BY <1>1, <1>4
    <3>2. reading' # B!None
      BY Zenon, <1>1, BurstFacts
    <3>. QED BY <3>1, <3>2
  <2>2. received' \in Nat /\ i_rd_data' \in Seq(BeatType) /\ Len(i_rd_data') <= 2
    BY Zenon, <1>1, <1>2 DEF ReadSide
  <2>. QED BY Zenon, <1>1, <1>3, <1>4, <2>1, <2>2 DEF ReadSide
<1>7. WriteSide'
  <2>1. Used(writing)' = Used(writing)
    BY <1>1, <1>3 DEF Used, Wrapped
  <2>. QED BY Zenon, <1>1, <1>2, <1>3, <2>1, WriteStays
<1>8. DataSide'
  BY Zenon, <1>2, <1>3, <1>4 DEF DataSide
<1>. QED BY Zenon, <1>2, <1>3, <1>5, <1>6, <1>7, <1>8 DEF BInv

(* It asks for a write when the data of the last are gone.                 *)
LEMMA MasterWritesOK == ASSUME BInv, B!MasterWrites PROVE BInv'
<1>1. /\ writing = B!None /\ writing' \in Bursts /\ o_wr_addr' = <<writing'>>
      /\ UNCHANGED <<o_rd_addr, i_rd_data, o_wr_data, i_wr_resp, reading, received, given>>
      /\ UNCHANGED B!bridge
  BY DEF B!MasterWrites
<1>2. /\ InProgress /\ ReadSide /\ WriteSide /\ ErrSide /\ DataSide
  BY DEF BInv
<1>3. /\ UNCHANGED <<rg_state, rg_accum_data, rg_accum_mask>> /\ ErrSide' = ErrSide
      /\ \A q : AnsweredBeats(q)' = AnsweredBeats(q) /\ Collected(q)' = Collected(q)
  BY Zenon, <1>1, BridgeStays
<1>4. o_wr_data = <<>> /\ i_wr_resp = <<>> /\ given = 0 /\ rg_state # "WriteResp"
  BY Zenon, <1>1, <1>2 DEF WriteSide
<1>5. InProgress'
  BY Zenon, <1>1, <1>2, <1>4, ProgressStays
<1>6. AnsweredBeats(reading)' = AnsweredBeats(reading) /\ Collected(reading)' = Collected(reading)
  <2>1. PICK q : q = reading /\ q = reading'
    BY <1>1
  <2>2. /\ AnsweredBeats(reading)' = AnsweredBeats(q)' /\ AnsweredBeats(reading) = AnsweredBeats(q)
        /\ Collected(reading)' = Collected(q)' /\ Collected(reading) = Collected(q)
    BY Zenon, <2>1
  <2>. QED BY Zenon, <1>3, <2>2
<1>7. ReadSide'
  BY Zenon, <1>1, <1>2, <1>3, <1>6, ReadStays
<1>8. WriteSide'
  <2>1. Len(o_wr_data') = 0 /\ given' = 0
    BY <1>1, <1>4
  <2>2. GivenData(writing)'
    BY <2>1 DEF GivenData
  <2>3. given' <= writing'.len + 1 /\ given' \in Nat
    <3>1. PICK q \in Bursts : q = writing'
      BY <1>1
    <3>2. q.len \in 0 .. 255
      BY BurstFacts DEF BurstOK
    <3>3. \A l \in 0 .. 255 : 0 <= l + 1
      OBVIOUS
    <3>4. 0 \in Nat
      OBVIOUS
    <3>. QED BY Zenon, <2>1, <3>1, <3>2, <3>3, <3>4
  <2>4. writing' # B!None
    BY Zenon, <1>1, BurstFacts
  <2>5. o_wr_data' \in Seq(DataType) /\ Len(o_wr_data') <= 2
    BY Zenon, <1>1, <1>2 DEF WriteSide
  <2>. QED BY Zenon, <1>1, <1>3, <1>4, <2>1, <2>2, <2>3, <2>4, <2>5 DEF WriteSide
<1>9. DataSide'
  BY Zenon, <1>2, <1>3, <1>6 DEF DataSide
<1>. QED BY Zenon, <1>2, <1>3, <1>5, <1>7, <1>8, <1>9 DEF BInv

(* It takes the response of a write.                                       *)
LEMMA MasterTakesRespOK == ASSUME BInv, B!MasterTakesResp PROVE BInv'
<1>1. /\ i_wr_resp # <<>> /\ i_wr_resp' = <<>> /\ writing' = B!None /\ given' = 0
      /\ UNCHANGED <<o_rd_addr, i_rd_data, o_wr_addr, o_wr_data, reading, received>>
      /\ UNCHANGED B!bridge
  BY DEF B!MasterTakesResp
<1>2. /\ InProgress /\ ReadSide /\ WriteSide /\ ErrSide /\ DataSide
  BY DEF BInv
<1>3. /\ UNCHANGED <<rg_state, rg_accum_data, rg_accum_mask>> /\ ErrSide' = ErrSide
      /\ \A q : AnsweredBeats(q)' = AnsweredBeats(q) /\ Collected(q)' = Collected(q)
  BY Zenon, <1>1, BridgeStays
<1>4. o_wr_data = <<>> /\ o_wr_addr = <<>> /\ rg_state # "WriteResp"
  BY Zenon, <1>1, <1>2 DEF WriteSide
<1>5. InProgress'
  BY Zenon, <1>1, <1>2, <1>4, ProgressStays
<1>6. AnsweredBeats(reading)' = AnsweredBeats(reading) /\ Collected(reading)' = Collected(reading)
  <2>1. PICK q : q = reading /\ q = reading'
    BY <1>1
  <2>2. /\ AnsweredBeats(reading)' = AnsweredBeats(q)' /\ AnsweredBeats(reading) = AnsweredBeats(q)
        /\ Collected(reading)' = Collected(q)' /\ Collected(reading) = Collected(q)
    BY Zenon, <2>1
  <2>. QED BY Zenon, <1>3, <2>2
<1>7. ReadSide'
  BY Zenon, <1>1, <1>2, <1>3, <1>6, ReadStays
<1>8. WriteSide'
  <2>1. 0 \in Nat
    OBVIOUS
  <2>2. o_wr_data' \in Seq(DataType) /\ Len(o_wr_data') <= 2
    BY Zenon, <1>1, <1>2 DEF WriteSide
  <2>. QED BY Zenon, <1>1, <1>3, <1>4, <2>1, <2>2 DEF WriteSide
<1>9. DataSide'
  BY Zenon, <1>2, <1>3, <1>6 DEF DataSide
<1>. QED BY Zenon, <1>2, <1>3, <1>5, <1>7, <1>8, <1>9 DEF BInv

(* It takes a beat of a read, the last of which ends it.                   *)
LEMMA MasterTakesBeatOK == ASSUME BInv, B!MasterTakesBeat PROVE BInv'
<1>1. /\ i_rd_data # <<>> /\ i_rd_data' = Tail(i_rd_data)
      /\ IF Head(i_rd_data).last THEN reading' = B!None /\ received' = 0
         ELSE received' = received + 1 /\ reading' = reading
      /\ UNCHANGED <<o_rd_addr, o_wr_addr, o_wr_data, i_wr_resp, writing, given>>
      /\ UNCHANGED B!bridge
  BY DEF B!MasterTakesBeat
<1>2. /\ InProgress /\ ReadSide /\ WriteSide /\ ErrSide /\ DataSide
  BY DEF BInv
<1>3. /\ UNCHANGED <<rg_state, rg_accum_data, rg_accum_mask>> /\ ErrSide' = ErrSide
      /\ \A q : /\ AnsweredBeats(q)' = AnsweredBeats(q) /\ Collected(q)' = Collected(q)
                /\ Used(q)' = Used(q)
  BY Zenon, <1>1, BridgeStays
<1>4. PICK n \in Nat : n = Len(i_rd_data) /\ n # 0 /\ n <= 2
  <2>1. i_rd_data \in Seq(BeatType) /\ Len(i_rd_data) <= 2
    BY Zenon, <1>2 DEF ReadSide
  <2>2. Len(i_rd_data) \in Nat \ {0}
    BY <1>1, <2>1, EmptySeq
  <2>. QED BY <2>1, <2>2
<1>5. /\ i_rd_data' \in Seq(BeatType) /\ Len(i_rd_data') = n - 1
      /\ \A k \in 1 .. n - 1 : i_rd_data'[k] = i_rd_data[k + 1]
      /\ Head(i_rd_data) = i_rd_data[1]
  <2>1. i_rd_data \in Seq(BeatType)
    BY Zenon, <1>2 DEF ReadSide
  <2>2. /\ Tail(i_rd_data) \in Seq(BeatType) /\ Len(Tail(i_rd_data)) = Len(i_rd_data) - 1
        /\ \A k \in 1 .. Len(Tail(i_rd_data)) : Tail(i_rd_data)[k] = i_rd_data[k + 1]
    BY <1>1, <2>1, HeadTailProperties
  <2>3. Head(i_rd_data) = i_rd_data[1]
    BY <1>1, <2>1
  <2>. QED BY Zenon, <1>1, <1>4, <2>2, <2>3
<1>6. o_rd_addr = <<>> /\ reading # B!None
  BY Zenon, <1>1, <1>2 DEF ReadSide
<1>7. rg_state = "ReadResp" => ~i_rd_data[1].last /\ reading' = reading
  <2>1. 1 \in 1 .. n
    BY <1>4
  <2>. QED BY Zenon, <1>1, <1>2, <1>4, <1>5, <2>1 DEF ReadSide
<1>8. InProgress'
  BY Zenon, <1>1, <1>2, <1>7, ProgressStays
<1>9. ASSUME rg_state = "ReadResp"  PROVE ReadSide' /\ DataSide'
  <2>1. AnsweredBeats(reading)' = AnsweredBeats(reading) /\ Collected(reading)' = Collected(reading)
    <3>1. PICK q : q = reading /\ q = reading'
      BY <1>7, <1>9
    <3>2. /\ AnsweredBeats(reading)' = AnsweredBeats(q)' /\ AnsweredBeats(reading) = AnsweredBeats(q)
          /\ Collected(reading)' = Collected(q)' /\ Collected(reading) = Collected(q)
      BY Zenon, <3>1
    <3>. QED BY Zenon, <1>3, <3>2
  <2>2. received' = received + 1 /\ received \in Nat /\ received + n = AnsweredBeats(reading)
        /\ \A k \in 1 .. n : ~i_rd_data[k].last
    BY Zenon, <1>1, <1>2, <1>4, <1>5, <1>7, <1>9 DEF ReadSide
  <2>3. received' + (n - 1) = AnsweredBeats(reading)' /\ received' \in Nat
    BY <1>4, <2>1, <2>2
  <2>4. \A k \in 1 .. n - 1 : ~i_rd_data'[k].last
    <3>1. \A k \in 1 .. n - 1 : k + 1 \in 1 .. n
      BY <1>4
    <3>. QED BY Zenon, <1>5, <2>2, <3>1
  <2>5. Len(i_rd_data') <= 2
    BY <1>4, <1>5
  <2>6. reading' \in Bursts /\ reading' # B!None
    BY Zenon, <1>2, <1>6, <1>7, <1>9 DEF ReadSide
  <2>7. ReadSide'
    BY Zenon, <1>1, <1>3, <1>5, <1>6, <1>9, <2>3, <2>4, <2>5, <2>6 DEF ReadSide
  <2>8. DataSide'
    BY Zenon, <1>2, <1>3, <2>1 DEF DataSide
  <2>. QED BY Zenon, <2>7, <2>8
<1>10. ASSUME rg_state # "ReadResp"  PROVE ReadSide' /\ DataSide'
  <2>1. \A k \in 1 .. n : i_rd_data[k].last <=> k = n
    BY Zenon, <1>2, <1>4, <1>10 DEF ReadSide
  <2>2. \A k \in 1 .. n - 1 : i_rd_data'[k].last <=> k = n - 1
    <3>1. \A k \in 1 .. n - 1 : k + 1 \in 1 .. n /\ (k + 1 = n <=> k = n - 1)
      BY <1>4
    <3>. QED BY Zenon, <1>5, <2>1, <3>1
  <2>3. i_rd_data[1].last <=> n = 1
    <3>1. 1 \in 1 .. n
      BY <1>4
    <3>. QED BY Zenon, <2>1, <3>1
  <2>4. n = 1 => i_rd_data' = <<>>
    BY <1>5
  <2>5. Len(i_rd_data') <= 2 /\ 0 \in Nat /\ \A r \in Nat : r + 1 \in Nat
    BY <1>4, <1>5
  <2>6. reading \in Bursts /\ received \in Nat
    BY Zenon, <1>2, <1>6 DEF ReadSide
  <2>7. ReadSide'
    <3>1. \A k \in 1 .. Len(i_rd_data') : i_rd_data'[k].last <=> k = Len(i_rd_data')
      BY Zenon, <1>5, <2>2
    <3>2. reading' \in Bursts \union {B!None} /\ received' \in Nat /\ o_rd_addr' = <<>>
          /\ rg_state' # "ReadResp"
      BY Zenon, <1>1, <1>3, <1>6, <1>10, <2>5, <2>6
    <3>3. reading' = B!None => i_rd_data' = <<>> /\ received' = 0
      BY Zenon, <1>1, <1>5, <1>6, <2>3, <2>4
    <3>. QED BY Zenon, <1>5, <2>5, <3>1, <3>2, <3>3 DEF ReadSide
  <2>8. DataSide'
    BY Zenon, <1>2, <1>3, <1>10 DEF DataSide
  <2>. QED BY Zenon, <2>7, <2>8
<1>11. WriteSide'
  <2>1. Used(writing)' = Used(writing)
    <3>1. PICK q : q = writing /\ q = writing'
      BY <1>1
    <3>. QED BY Zenon, <1>3, <3>1
  <2>. QED BY Zenon, <1>1, <1>2, <1>3, <2>1, WriteStays
<1>. QED BY Zenon, <1>2, <1>3, <1>8, <1>9, <1>10, <1>11 DEF BInv

(* It gives the next beat of the data of a write.                          *)
LEMMA MasterGivesBeatOK == ASSUME BInv, B!MasterGivesBeat PROVE BInv'
<1> DEFINE d == [beat |-> given, strb |-> B!BeatLanes(writing, given)]
<1>1. /\ writing # B!None /\ given <= writing.len /\ Len(o_wr_data) < 2
      /\ o_wr_data' = Append(o_wr_data, d) /\ given' = given + 1
      /\ UNCHANGED <<o_rd_addr, i_rd_data, o_wr_addr, i_wr_resp, reading, received, writing>>
      /\ UNCHANGED B!bridge
  BY DEF B!MasterGivesBeat
<1>2. /\ InProgress /\ ReadSide /\ WriteSide /\ ErrSide /\ DataSide
  BY DEF BInv
<1>3. /\ UNCHANGED <<rg_state, rg_accum_data, rg_accum_mask>> /\ ErrSide' = ErrSide
      /\ \A q : /\ AnsweredBeats(q)' = AnsweredBeats(q) /\ Collected(q)' = Collected(q)
                /\ Used(q)' = Used(q)
  BY Zenon, <1>1, BridgeStays
<1>4. InProgress'
  BY Zenon, <1>1, <1>2, ProgressStays
<1>5. AnsweredBeats(reading)' = AnsweredBeats(reading) /\ Collected(reading)' = Collected(reading)
      /\ Used(writing)' = Used(writing)
  <2>1. PICK q : q = reading /\ q = reading'
    BY <1>1
  <2>2. /\ AnsweredBeats(reading)' = AnsweredBeats(q)' /\ AnsweredBeats(reading) = AnsweredBeats(q)
        /\ Collected(reading)' = Collected(q)' /\ Collected(reading) = Collected(q)
    BY Zenon, <2>1
  <2>3. PICK r : r = writing /\ r = writing'
    BY <1>1
  <2>. QED BY Zenon, <1>3, <2>2, <2>3
<1>6. ReadSide' /\ DataSide'
  BY Zenon, <1>1, <1>2, <1>3, <1>5, ReadStays DEF DataSide
<1>7. PICK q \in Bursts : q = writing /\ q = writing'
  BY Zenon, <1>1, <1>2 DEF WriteSide
<1>8. PICK n \in Nat, g \in Nat : n = Len(o_wr_data) /\ n <= 1 /\ g = given /\ g <= q.len
  <2>1. o_wr_data \in Seq(DataType) /\ given \in Nat
    BY Zenon, <1>2 DEF WriteSide
  <2>2. Len(o_wr_data) \in Nat
    BY <2>1
  <2>3. \A x \in Nat : x < 2 => x <= 1
    OBVIOUS
  <2>. QED BY Zenon, <1>1, <1>7, <2>1, <2>2, <2>3
<1>9. d \in DataType
  <2>1. B!BeatLanes(q, g) \subseteq B!Lanes
    BY Zenon, <1>7, LanesOK
  <2>. QED BY Zenon, <1>7, <1>8, <2>1 DEF DataType
<1>10. d.beat = g /\ d.strb = B!BeatLanes(q, g)
  BY Zenon, <1>7, <1>8
<1> HIDE DEF d
<1>11. /\ o_wr_data' \in Seq(DataType) /\ Len(o_wr_data') = n + 1
       /\ \A k \in 1 .. n : o_wr_data'[k] = o_wr_data[k]
       /\ o_wr_data'[n + 1] = d
  <2>1. o_wr_data \in Seq(DataType)
    BY Zenon, <1>2 DEF WriteSide
  <2>. QED BY <1>1, <1>8, <1>9, <2>1, AppendProperties
<1>12. GivenData(q)'
  <2>1. ASSUME NEW k \in 1 .. Len(o_wr_data')
        PROVE  LET m == given' - Len(o_wr_data') + k - 1
               IN  o_wr_data'[k].beat = m /\ o_wr_data'[k].strb = B!BeatLanes(q, m)
    <3>1. k \in 1 .. n \/ k = n + 1
      BY <1>8, <1>11
    <3>2. CASE k \in 1 .. n
      <4>1. (g + 1) - (n + 1) + k - 1 = g - n + k - 1
        BY <1>8, <3>2
      <4>2. LET m == g - n + k - 1 IN o_wr_data[k].beat = m /\ o_wr_data[k].strb = B!BeatLanes(q, m)
        BY Zenon, <1>1, <1>2, <1>7, <1>8, <3>2 DEF WriteSide, GivenData
      <4>. QED BY Zenon, <1>1, <1>8, <1>11, <3>2, <4>1, <4>2
    <3>3. CASE k = n + 1
      <4>1. (g + 1) - (n + 1) + k - 1 = g
        BY <1>8, <3>3
      <4>. QED BY Zenon, <1>1, <1>8, <1>10, <1>11, <3>3, <4>1
    <3>. QED BY <3>1, <3>2, <3>3
  <2>. QED BY Zenon, <2>1 DEF GivenData
<1>13. GivenData(writing)'
  BY Zenon, <1>7, <1>12
<1>14. /\ given' \in Nat /\ given' <= q.len + 1 /\ Len(o_wr_data') <= 2
       /\ given' - Len(o_wr_data') = given - Len(o_wr_data)
       /\ (given = Len(o_wr_data) => given' = Len(o_wr_data'))
  <2>1. q.len \in Nat
    BY BurstFacts DEF BurstOK
  <2>2. given' = g + 1 /\ Len(o_wr_data') = n + 1 /\ given = g /\ Len(o_wr_data) = n
    BY Zenon, <1>1, <1>8, <1>11
  <2>. QED BY <1>8, <2>1, <2>2
<1>15. i_wr_resp = <<>>
  <2>1. \A l, h \in Nat : h = l + 1 => ~(h <= l)
    OBVIOUS
  <2>2. q.len \in Nat
    BY BurstFacts DEF BurstOK
  <2>. QED BY Zenon, <1>2, <1>7, <1>8, <2>1, <2>2 DEF WriteSide
<1>16. WriteSide'
  BY Zenon, <1>1, <1>2, <1>3, <1>5, <1>7, <1>11, <1>13, <1>14, <1>15 DEF WriteSide
<1>. QED BY Zenon, <1>2, <1>3, <1>4, <1>6, <1>16 DEF BInv

(* The APB's step.                                                         *)
LEMMA ApbAccessOK == ASSUME BInv, B!ApbAccess PROVE BInv'
<1>1. /\ i_request # <<>>
      /\ UNCHANGED <<o_rd_addr, i_rd_data, o_wr_addr, o_wr_data, i_wr_resp, reading, received,
                     writing, given, rg_state, rg_request, rg_req_beat, rg_resp_beat,
                     rg_child_burst, rg_child_req_count, rg_child_res_count, rg_accum_data,
                     rg_accum_mask, rg_accum_err, accesses>>
  BY DEF B!ApbAccess, B!axi, B!count, B!accum
<1>2. /\ InProgress /\ ReadSide /\ WriteSide /\ ErrSide /\ DataSide
  BY DEF BInv
<1>3. rg_state \in {"ReadResp", "WriteResp"} /\ Registers
  BY Zenon, <1>1, <1>2 DEF InProgress, Resting
<1>4. \A q : Used(q)' = Used(q)
  BY Zenon, <1>1 DEF Used, Wrapped
<1>5. CASE rg_state = "ReadResp"
  <2>1. PICK q \in Bursts : q = reading /\ q = reading' /\ Progress(q)
    BY Zenon, <1>1, <1>2, <1>5 DEF InProgress, ReadSide
  <2>2. Progress(q)' /\ Registers' /\ Answered' = Answered /\ AnsweredBeats(q)' = AnsweredBeats(q)
    BY Zenon, <1>3, <2>1, ApbOK
  <2>3. Progress(reading)' /\ AnsweredBeats(reading)' = AnsweredBeats(reading)
        /\ Collected(reading)' = Collected(reading)
    <3>1. Collected(q)' = Collected(q)
      BY Zenon, <1>1, <2>2, CollectedStays
    <3>. QED BY Zenon, <2>1, <2>2, <3>1
  <2>4. InProgress' /\ ErrSide'
    BY Zenon, <1>1, <1>5, <2>2, <2>3 DEF InProgress, ErrSide
  <2>5. ReadSide' /\ WriteSide'
    BY Zenon, <1>1, <1>2, <1>5, <2>3, ReadStays, WriteStays
  <2>6. DataSide'
    BY Zenon, <1>1, <1>2, <2>3 DEF DataSide
  <2>. QED BY Zenon, <2>4, <2>5, <2>6 DEF BInv
<1>6. CASE rg_state = "WriteResp"
  <2>1. PICK q \in Bursts : q = writing /\ q = writing' /\ Progress(q)
    BY Zenon, <1>1, <1>2, <1>6 DEF InProgress, WriteSide
  <2>2. Progress(q)' /\ Registers' /\ o_response = <<>> /\ o_response' # <<>>
        /\ (failed' # {} <=> failed # {} \/ o_response'[1].err)
    BY Zenon, <1>3, <2>1, ApbOK
  <2>3. Progress(writing)' /\ Used(writing)' = Used(writing)
    BY Zenon, <1>4, <2>1, <2>2
  <2>4. InProgress'
    BY Zenon, <1>1, <1>6, <2>2, <2>3 DEF InProgress
  <2>5. ReadSide' /\ WriteSide'
    BY Zenon, <1>1, <1>2, <1>6, <2>3, ReadStays, WriteStays
  <2>6. ErrSide'
    <3>1. failed # {} <=> rg_accum_err
      BY Zenon, <1>2, <1>6, <2>2 DEF ErrSide
    <3>. QED BY Zenon, <1>1, <2>2, <3>1 DEF ErrSide
  <2>7. DataSide'
    BY Zenon, <1>1, <1>2, <1>6 DEF DataSide
  <2>. QED BY Zenon, <2>4, <2>5, <2>6, <2>7 DEF BInv
<1>. QED BY <1>3, <1>5, <1>6

----------------------------------------------------------------------------
(* The bridge's rules.  A burst is accepted with an access to its address. *)
LEMMA ReadAcceptedOK == ASSUME BInv, B!rl_read_frm_axi PROVE BInv'
<1>1. /\ rg_state = "Idle" /\ o_rd_addr # <<>> /\ B!ApbRoom
      /\ o_rd_addr' = Tail(o_rd_addr) /\ rg_state' = "ReadResp" /\ failed' = {}
      /\ UNCHANGED <<i_rd_data, o_wr_addr, o_wr_data, i_wr_resp, reading, received, writing, given,
                     o_response, rg_accum_data, rg_accum_err>>
  BY DEF B!rl_read_frm_axi
<1>2. /\ InProgress /\ ReadSide /\ WriteSide /\ ErrSide /\ DataSide
  BY DEF BInv
<1>3. Resting /\ Registers
  BY Zenon, <1>1, <1>2 DEF InProgress
<1>4. o_rd_addr = <<reading>> /\ i_rd_data = <<>> /\ received = 0 /\ reading # B!None
  BY Zenon, <1>1, <1>2 DEF ReadSide
<1>5. PICK q \in Bursts : q = reading /\ q = reading' /\ q = Head(o_rd_addr)
  <2>1. Head(o_rd_addr) = reading /\ reading \in Bursts
    BY <1>2, <1>4 DEF ReadSide
  <2>. QED BY Zenon, <1>1, <2>1
<1>6. B!Request(B!Access(q.addr)) /\ rg_request' = q /\ B!Started(q)
  BY Zenon, <1>5 DEF B!rl_read_frm_axi
<1>7. B!Access(q.addr) \in AccessType /\ B!Access(q.addr).addr = q.addr
  BY BurstFacts DEF BurstOK, AccessType, B!Access
<1>8. /\ Progress(q)' /\ rg_req_beat' = (IF q.size > 1 THEN (q.len + 1) % 256 ELSE q.len)
      /\ AnsweredBeats(q)' = 0 /\ Answered' = 0
  BY Zenon, <1>1, <1>3, <1>6, <1>7, StartOK
<1>9. Registers'
  BY Zenon, <1>1, <1>3, <1>6, <1>7, <1>8, StartRegisters
<1>10. InProgress' /\ ErrSide'
  <2>1. Progress(reading)'
    BY Zenon, <1>5, <1>8
  <2>. QED BY Zenon, <1>1, <1>9, <2>1 DEF InProgress, ErrSide
<1>11. ReadSide'
  <2>1. /\ o_rd_addr' = <<>> /\ Len(i_rd_data') = 0 /\ i_rd_data' \in Seq(BeatType)
        /\ received' = 0 /\ 0 \in Nat /\ 0 + 0 = 0 /\ 0 <= 2 /\ 1 .. 0 = {}
    BY <1>1, <1>4
  <2>2. AnsweredBeats(reading)' = 0
    BY Zenon, <1>5, <1>8
  <2>. QED BY Zenon, <1>1, <1>2, <1>4, <2>1, <2>2 DEF ReadSide
<1>12. WriteSide'
  BY Zenon, <1>1, <1>2, WriteStays
<1>13. DataSide'
  <2>1. rg_accum_mask' = (IF q.size > 1 THEN {0} ELSE B!Lanes)
        /\ rg_child_res_count' = (IF q.size > 1 THEN 1 ELSE 0)
    BY Zenon, <1>6 DEF B!Started
  <2>2. Ratio \in Nat /\ Ratio > 0 /\ q.size \in {1, 2, 4, 8}
    BY BurstFacts DEF BurstOK
  <2>3. (q.size = 1 <=> ~(q.size > 1)) /\ 0 % Ratio = 0 /\ 0 .. 1 - 2 = {} /\ 0 \in B!Lanes
    BY <2>2 DEF B!Lanes
  <2>4. Collected(q)'
    BY Zenon, <1>8, <2>1, <2>3 DEF Collected
  <2>5. Collected(reading)'
    BY Zenon, <1>5, <2>4
  <2>6. rg_accum_mask' \subseteq B!Lanes /\ rg_accum_data' \in [B!Lanes -> Nat]
    BY Zenon, <1>1, <1>2, <2>1, <2>3 DEF DataSide
  <2>. QED BY Zenon, <2>5, <2>6 DEF DataSide
<1>. QED BY Zenon, <1>10, <1>11, <1>12, <1>13 DEF BInv

(* The data at the head of the queue, and the queue without it.            *)
LEMMA DataTaken ==
  ASSUME NEW q \in Bursts, WriteSide, o_wr_data # <<>>, GivenData(q)
  PROVE  /\ Tail(o_wr_data) \in Seq(DataType) /\ Len(Tail(o_wr_data)) = Len(o_wr_data) - 1
         /\ Head(o_wr_data) \in DataType
         /\ Head(o_wr_data).beat = given - Len(o_wr_data)
         /\ Head(o_wr_data).strb = B!BeatLanes(q, given - Len(o_wr_data))
         /\ o_wr_data' = Tail(o_wr_data) /\ given' = given => GivenData(q)'
         /\ Len(o_wr_data) \in Nat /\ given \in Nat
<1>1. o_wr_data \in Seq(DataType) /\ given \in Nat
  BY Zenon DEF WriteSide
<1>2. PICK n \in Nat : n = Len(o_wr_data) /\ n # 0
  BY <1>1, EmptySeq
<1>3. PICK g \in Nat : g = given
  BY <1>1
<1>4. /\ Tail(o_wr_data) \in Seq(DataType) /\ Len(Tail(o_wr_data)) = n - 1
      /\ \A k \in 1 .. Len(Tail(o_wr_data)) : Tail(o_wr_data)[k] = o_wr_data[k + 1]
      /\ Head(o_wr_data) = o_wr_data[1] /\ Head(o_wr_data) \in DataType
  BY <1>1, <1>2, HeadTailProperties
<1>5. 1 \in 1 .. n /\ g - n + 1 - 1 = g - n
  BY <1>2, <1>3
<1>6. LET m == g - n + 1 - 1 IN o_wr_data[1].beat = m /\ o_wr_data[1].strb = B!BeatLanes(q, m)
  BY Zenon, <1>2, <1>3, <1>5 DEF GivenData
<1>7. ASSUME o_wr_data' = Tail(o_wr_data), given' = given  PROVE GivenData(q)'
  <2>1. ASSUME NEW k \in 1 .. Len(o_wr_data')
        PROVE  LET m == given' - Len(o_wr_data') + k - 1
               IN  o_wr_data'[k].beat = m /\ o_wr_data'[k].strb = B!BeatLanes(q, m)
    <3>1. k \in 1 .. n - 1
      BY Zenon, <1>4, <1>7
    <3>2. k + 1 \in 1 .. n /\ g - (n - 1) + k - 1 = g - n + (k + 1) - 1
      BY <1>2, <1>3, <3>1
    <3>3. LET m == g - n + (k + 1) - 1
          IN  o_wr_data[k + 1].beat = m /\ o_wr_data[k + 1].strb = B!BeatLanes(q, m)
      BY Zenon, <1>2, <1>3, <3>2 DEF GivenData
    <3>. QED BY Zenon, <1>3, <1>4, <1>7, <3>2, <3>3
  <2>. QED BY Zenon, <2>1 DEF GivenData
<1>. QED BY Zenon, <1>1, <1>2, <1>3, <1>4, <1>5, <1>6, <1>7

(* The data of a write come into their accesses.                           *)
LEMMA WrAccessType ==
  ASSUME NEW paddr \in Nat, NEW d \in DataType, NEW shift \in Nat
  PROVE  LET a == B!WrAccess(paddr, d, shift)
         IN  /\ a \in AccessType /\ a.addr = paddr /\ a.beat = d.beat /\ a.lane = shift
             /\ a.strb <=> shift \in d.strb
<1>1. d.beat \in Nat /\ (shift \in d.strb) \in BOOLEAN
  BY DEF DataType
<1> DEFINE s == shift \in d.strb
           n == d.beat
<1>2. B!WrAccess(paddr, d, shift)
        = [addr |-> paddr, write |-> TRUE, beat |-> n, lane |-> shift, strb |-> s, nth |-> 0]
  BY Zenon DEF B!WrAccess
<1>3. s \in BOOLEAN /\ n \in Nat
  BY <1>1
<1> HIDE DEF s, n
<1>4. LET a == [addr |-> paddr, write |-> TRUE, beat |-> n, lane |-> shift, strb |-> s, nth |-> 0]
      IN  a \in AccessType /\ a.addr = paddr /\ a.beat = n /\ a.lane = shift /\ a.strb = s
  BY <1>3 DEF AccessType
<1>. QED BY Zenon, <1>2, <1>4 DEF s, n

(* A write is accepted with the first beat of its data.                    *)
LEMMA WriteAcceptedOK == ASSUME BInv, B!rl_write_frm_axi PROVE BInv'
<1>1. /\ rg_state = "Idle" /\ o_wr_addr # <<>> /\ o_wr_data # <<>> /\ B!ApbRoom
      /\ o_wr_addr' = Tail(o_wr_addr) /\ rg_state' = "WriteResp" /\ rg_accum_err' = FALSE
      /\ failed' = {}
      /\ UNCHANGED <<o_rd_addr, i_rd_data, i_wr_resp, reading, received, writing, given,
                     o_response, rg_accum_data>>
  BY DEF B!rl_write_frm_axi
<1>2. /\ InProgress /\ ReadSide /\ WriteSide /\ ErrSide /\ DataSide
  BY DEF BInv
<1>3. Resting /\ Registers
  BY Zenon, <1>1, <1>2 DEF InProgress
<1>4. o_wr_addr = <<writing>> /\ i_wr_resp = <<>> /\ given = Len(o_wr_data) /\ writing # B!None
  BY Zenon, <1>1, <1>2 DEF WriteSide
<1>5. PICK q \in Bursts : q = writing /\ q = writing' /\ q = Head(o_wr_addr)
  <2>1. Head(o_wr_addr) = writing /\ writing \in Bursts
    BY <1>2, <1>4 DEF WriteSide
  <2>. QED BY Zenon, <1>1, <2>1
<1> DEFINE shift == IF q.size = 1 THEN q.addr % Ratio ELSE 0
           d == Head(o_wr_data)
           a == B!WrAccess(q.addr, d, shift)
<1>6. /\ B!Request(a) /\ rg_request' = q /\ B!Started(q)
      /\ o_wr_data' = IF q.size > 1 THEN o_wr_data ELSE Tail(o_wr_data)
  BY Zenon, <1>5 DEF B!rl_write_frm_axi
<1>7. GivenData(q)
  BY Zenon, <1>2, <1>4, <1>5 DEF WriteSide
<1>8. /\ Tail(o_wr_data) \in Seq(DataType) /\ Len(Tail(o_wr_data)) = Len(o_wr_data) - 1
      /\ d \in DataType /\ Len(o_wr_data) \in Nat /\ given \in Nat
      /\ o_wr_data' = Tail(o_wr_data) /\ given' = given => GivenData(q)'
  BY Zenon, <1>1, <1>2, <1>7, DataTaken
<1>9. q.addr \in Nat /\ shift \in Nat /\ q.size \in {1, 2, 4, 8} /\ q.len \in 0 .. 255
  BY BurstFacts DEF BurstOK
<1> HIDE DEF shift, d
<1>10. a \in AccessType /\ a.addr = q.addr
  <2>1. d \in DataType /\ q.addr \in Nat /\ shift \in Nat
    BY Zenon, <1>8, <1>9
  <2>. QED BY <2>1, WrAccessType
<1> HIDE DEF a
<1>11. /\ Progress(q)' /\ rg_req_beat' = (IF q.size > 1 THEN (q.len + 1) % 256 ELSE q.len)
      /\ AnsweredBeats(q)' = 0 /\ Answered' = 0
  BY Zenon, <1>1, <1>3, <1>6, <1>10, StartOK
<1>12. Registers'
  BY Zenon, <1>1, <1>3, <1>6, <1>10, <1>11, StartRegisters
<1>13. InProgress'
  <2>1. Progress(writing)'
    BY Zenon, <1>5, <1>11
  <2>. QED BY Zenon, <1>1, <1>12, <2>1 DEF InProgress
<1>14. ErrSide'
  BY Zenon, <1>1, <1>3 DEF ErrSide, Resting
<1>15. ReadSide'
  BY Zenon, <1>1, <1>2, ReadStays
<1>16. DataSide'
  <2>1. rg_accum_mask' = (IF q.size > 1 THEN {0} ELSE B!Lanes)
    BY Zenon, <1>6 DEF B!Started
  <2>2. 0 \in B!Lanes
    BY BurstFacts DEF B!Lanes
  <2>. QED BY Zenon, <1>1, <1>2, <2>1, <2>2 DEF DataSide
<1>17. WriteSide'
  <2>1. o_wr_data' \in Seq(DataType) /\ Len(o_wr_data') <= 2
    <3>1. Len(o_wr_data) <= 2 /\ o_wr_data \in Seq(DataType)
      BY Zenon, <1>2 DEF WriteSide
    <3>2. Len(o_wr_data) - 1 <= 2
      BY <1>8, <3>1
    <3>. QED BY Zenon, <1>6, <1>8, <3>1, <3>2
  <2>2. GivenData(q)'
    <3>1. CASE q.size > 1
      BY Zenon, <1>1, <1>6, <1>7, <3>1 DEF GivenData
    <3>2. CASE ~(q.size > 1)
      BY Zenon, <1>1, <1>6, <1>8, <3>2
    <3>. QED BY <3>1, <3>2
  <2>3. given' - Len(o_wr_data') = Used(q)'
    <3>1. PICK n \in Nat : n = Len(o_wr_data) /\ given = n
      BY <1>4, <1>8
    <3>2. CASE q.size > 1
      <4>1. given' - Len(o_wr_data') = n - n
        BY Zenon, <1>1, <1>6, <3>1, <3>2
      <4>2. Used(q)' = 0
        BY <1>9, <1>11, <3>2 DEF Used, Wrapped
      <4>. QED BY <3>1, <4>1, <4>2
    <3>3. CASE ~(q.size > 1)
      <4>1. given' - Len(o_wr_data') = n - (n - 1)
        BY Zenon, <1>1, <1>6, <1>8, <3>1, <3>3
      <4>2. Used(q)' = 1
        BY <1>9, <1>11, <3>3 DEF Used, Wrapped
      <4>. QED BY <3>1, <4>1, <4>2
    <3>. QED BY <3>2, <3>3
  <2>4. o_wr_addr' = <<>>
    BY <1>1, <1>4
  <2>5. given' \in Nat /\ given <= writing.len + 1
    BY Zenon, <1>1, <1>2, <1>4, <1>8 DEF WriteSide
  <2>6. GivenData(writing)' /\ given' - Len(o_wr_data') = Used(writing)'
    BY Zenon, <1>5, <2>2, <2>3
  <2>. QED BY Zenon, <1>1, <1>4, <1>5, <2>1, <2>4, <2>5, <2>6 DEF WriteSide
<1>. QED BY Zenon, <1>13, <1>14, <1>15, <1>16, <1>17 DEF BInv

(* The next address is a number.                                           *)
LEMMA NextAddrNat ==
  ASSUME NEW q \in Bursts, Registers, Progress(q), rg_req_beat # 0
  PROVE  B!NextAddr \in Nat /\ ~Wrapped(q)
<1> DEFINE n == accesses \div q.size
           c == accesses % q.size
<1>1. Requested(q)
  BY Zenon DEF Progress
<1>2. ~Wrapped(q) /\ n \in 0 .. q.len /\ c \in 0 .. q.size - 1 /\ B!NextAddr = B!BeatAddr(q, n) + c
  BY Zenon, <1>1, NextAccess
<1> HIDE DEF n, c
<1>3. q.len \in Nat /\ q.size \in Nat
  BY Zenon, Numbers
<1>4. n \in Nat /\ c \in Nat
  BY <1>2, <1>3
<1>5. B!BeatAddr(q, n) \in Nat
  BY Zenon, <1>4, AddrNat
<1>. QED BY <1>2, <1>4, <1>5

(* The next access of a read, of the beat and word that come next.         *)
LEMMA SendReadOK == ASSUME BInv, B!rl_send_rd_burst_req PROVE BInv'
<1>1. /\ rg_state = "ReadResp" /\ rg_req_beat # 0 /\ B!ApbRoom
      /\ B!Request(B!Access(B!NextAddr)) /\ B!SendNext
      /\ UNCHANGED <<o_rd_addr, i_rd_data, o_wr_addr, o_wr_data, i_wr_resp, reading, received,
                     writing, given>>
  BY DEF B!rl_send_rd_burst_req, B!axi
<1>2. /\ InProgress /\ ReadSide /\ WriteSide /\ ErrSide /\ DataSide
  BY DEF BInv
<1>3. UNCHANGED <<rg_state, rg_child_res_count, rg_accum_data, rg_accum_mask, o_response>>
  <2>1. UNCHANGED <<rg_state, rg_child_res_count, o_response, failed>> /\ UNCHANGED B!accum
    BY <1>1 DEF B!SendNext
  <2>. QED BY <2>1 DEF B!accum
<1>4. PICK q \in Bursts : q = reading /\ q = reading' /\ Progress(q) /\ Registers
  BY Zenon, <1>1, <1>2 DEF InProgress, ReadSide
<1>5. B!Access(B!NextAddr) \in AccessType /\ B!Access(B!NextAddr).addr = B!NextAddr
  <2>1. B!NextAddr \in Nat
    BY Zenon, <1>1, <1>4, NextAddrNat
  <2>. QED BY <2>1 DEF AccessType, B!Access
<1>6. /\ Progress(q)' /\ AnsweredBeats(q)' = AnsweredBeats(q) /\ Answered' = Answered
      /\ rg_req_beat' = rg_req_beat - (IF B!BeatSent THEN 1 ELSE 0)
  BY Zenon, <1>1, <1>4, <1>5, SendOK
<1>7. Registers'
  BY Zenon, <1>1, <1>3, <1>4, <1>5, <1>6, SendRegisters
<1>8. /\ Progress(reading)' /\ AnsweredBeats(reading)' = AnsweredBeats(reading)
      /\ Collected(reading)' = Collected(reading)
  <2>1. Collected(q)' = Collected(q)
    BY Zenon, <1>3, <1>6, CollectedStays
  <2>. QED BY Zenon, <1>4, <1>6, <2>1
<1>9. InProgress' /\ ErrSide'
  BY Zenon, <1>1, <1>3, <1>7, <1>8 DEF InProgress, ErrSide
<1>10. ReadSide' /\ WriteSide'
  BY Zenon, <1>1, <1>2, <1>3, <1>8, ReadStays, WriteStays
<1>11. DataSide'
  BY Zenon, <1>1, <1>2, <1>3, <1>8 DEF DataSide
<1>. QED BY Zenon, <1>9, <1>10, <1>11 DEF BInv

(* The next access of a write, with the data that wait for it.             *)
LEMMA SendWriteOK == ASSUME BInv, B!rl_send_wr_burst_req PROVE BInv'
<1> DEFINE shift == IF B!Child THEN rg_child_req_count ELSE 0
           d == Head(o_wr_data)
           a == B!WrAccess(B!NextAddr, d, shift)
<1>1. /\ rg_state = "WriteResp" /\ rg_req_beat # 0 /\ B!ApbRoom /\ o_wr_data # <<>>
      /\ B!Request(a) /\ B!SendNext
      /\ o_wr_data' = IF B!BeatSent THEN Tail(o_wr_data) ELSE o_wr_data
      /\ UNCHANGED <<o_rd_addr, i_rd_data, o_wr_addr, i_wr_resp, reading, received,
                     writing, given>>
  BY DEF B!rl_send_wr_burst_req
<1>2. /\ InProgress /\ ReadSide /\ WriteSide /\ ErrSide /\ DataSide
  BY DEF BInv
<1>3. UNCHANGED <<rg_state, rg_child_res_count, rg_accum_data, rg_accum_mask, rg_accum_err,
                  o_response, failed>>
  <2>1. UNCHANGED <<rg_state, rg_child_res_count, o_response, failed>> /\ UNCHANGED B!accum
    BY <1>1 DEF B!SendNext
  <2>. QED BY <2>1 DEF B!accum
<1>4. PICK q \in Bursts : q = writing /\ q = writing' /\ Progress(q) /\ Registers
  BY Zenon, <1>1, <1>2 DEF InProgress, WriteSide
<1>5. GivenData(q) /\ given <= q.len + 1 /\ given - Len(o_wr_data) = Used(q)
      /\ o_wr_addr = <<>> /\ i_wr_resp = <<>>
  BY Zenon, <1>1, <1>2, <1>4 DEF WriteSide
<1>6. /\ Tail(o_wr_data) \in Seq(DataType) /\ Len(Tail(o_wr_data)) = Len(o_wr_data) - 1
      /\ d \in DataType /\ Len(o_wr_data) \in Nat /\ given \in Nat
      /\ o_wr_data' = Tail(o_wr_data) /\ given' = given => GivenData(q)'
  BY Zenon, <1>1, <1>2, <1>5, DataTaken
<1>7. B!NextAddr \in Nat /\ shift \in Nat /\ ~Wrapped(q)
  <2>1. B!NextAddr \in Nat /\ ~Wrapped(q)
    BY Zenon, <1>1, <1>4, NextAddrNat
  <2>2. rg_child_req_count \in Nat /\ 0 \in Nat
    BY Zenon, <1>4, Numbers
  <2>. QED BY Zenon, <2>1, <2>2
<1> HIDE DEF shift, d
<1>8. a \in AccessType /\ a.addr = B!NextAddr
  BY <1>6, <1>7, WrAccessType
<1> HIDE DEF a
<1>9. /\ Progress(q)' /\ rg_req_beat' = rg_req_beat - (IF B!BeatSent THEN 1 ELSE 0)
  BY Zenon, <1>1, <1>4, <1>8, SendOK
<1>10. Registers'
  BY Zenon, <1>1, <1>3, <1>4, <1>8, <1>9, SendRegisters
<1>11. InProgress'
  <2>1. Progress(writing)'
    BY Zenon, <1>4, <1>9
  <2>. QED BY Zenon, <1>1, <1>3, <1>10, <2>1 DEF InProgress
<1>12. ErrSide'
  BY Zenon, <1>1, <1>2, <1>3 DEF ErrSide
<1>13. ReadSide'
  BY Zenon, <1>1, <1>2, <1>3, ReadStays
<1>14. DataSide'
  BY Zenon, <1>1, <1>2, <1>3 DEF DataSide
<1>15. WriteSide'
  <2>1. o_wr_data' \in Seq(DataType) /\ Len(o_wr_data') <= 2
    <3>1. Len(o_wr_data) <= 2 /\ o_wr_data \in Seq(DataType)
      BY Zenon, <1>2 DEF WriteSide
    <3>2. Len(o_wr_data) - 1 <= 2
      BY <1>6, <3>1
    <3>. QED BY Zenon, <1>1, <1>6, <3>1, <3>2
  <2>2. GivenData(q)'
    <3>1. CASE ~B!BeatSent
      BY Zenon, <1>1, <1>5, <3>1 DEF GivenData
    <3>2. CASE B!BeatSent
      BY Zenon, <1>1, <1>6, <3>2
    <3>. QED BY <3>1, <3>2
  <2>3. given' - Len(o_wr_data') = Used(q)'
    <3>1. PICK n \in Nat, g \in Nat : n = Len(o_wr_data) /\ g = given
      BY <1>6
    <3>2. PICK r \in Nat, l \in Nat : r = rg_req_beat /\ l = q.len
      BY Zenon, <1>4, Numbers
    <3>3. g - n = l + 1 - r
      BY Zenon, <1>5, <1>7, <3>1, <3>2 DEF Used
    <3>4. Used(q)' = l + 1 - rg_req_beat'
      BY Zenon, <1>7, <3>2 DEF Used, Wrapped
    <3>5. CASE B!BeatSent
      <4>1. given' - Len(o_wr_data') = g - (n - 1) /\ Used(q)' = l + 1 - (r - 1)
        BY Zenon, <1>1, <1>6, <1>9, <3>1, <3>2, <3>4, <3>5
      <4>2. g - (n - 1) = l + 1 - (r - 1)
        BY <3>3
      <4>. QED BY Zenon, <4>1, <4>2
    <3>6. CASE ~B!BeatSent
      <4>1. given' - Len(o_wr_data') = g - n /\ Used(q)' = l + 1 - (r - 0)
        BY Zenon, <1>1, <1>9, <3>1, <3>2, <3>4, <3>6
      <4>2. g - n = l + 1 - (r - 0)
        BY <3>3
      <4>. QED BY Zenon, <4>1, <4>2
    <3>. QED BY <3>5, <3>6
  <2>4. GivenData(writing)' /\ given' - Len(o_wr_data') = Used(writing)'
    BY Zenon, <1>4, <2>2, <2>3
  <2>5. given' \in Nat /\ given' <= writing'.len + 1
    BY Zenon, <1>1, <1>4, <1>5, <1>6
  <2>6. writing' \in Bursts /\ writing' # B!None
    BY Zenon, <1>4, BurstFacts
  <2>. QED BY Zenon, <1>1, <1>3, <1>5, <2>1, <2>4, <2>5, <2>6 DEF WriteSide
<1>. QED BY Zenon, <1>11, <1>12, <1>13, <1>14, <1>15 DEF BInv

(* An answer leaves the registers in their types, and the queue empty.     *)
LEMMA RespondRegisters ==
  ASSUME NEW q \in Bursts, Registers, Progress(q), rg_resp_beat # 0, B!Respond
  PROVE  Registers' /\ o_response' = <<>> /\ UNCHANGED rg_req_beat
<1>1. /\ o_response' = Tail(o_response) /\ i_request' = i_request /\ o_response # <<>>
      /\ UNCHANGED <<rg_req_beat, rg_child_burst, rg_child_req_count>>
      /\ IF B!Accumulate
         THEN rg_child_res_count' = rg_child_res_count + 1 /\ rg_resp_beat' = rg_resp_beat
         ELSE /\ rg_resp_beat' = rg_resp_beat - 1
              /\ rg_child_res_count' = IF rg_child_burst # 0 THEN 1 ELSE rg_child_res_count
      /\ accesses' = (IF B!Ends THEN 0 ELSE accesses)
  BY DEF B!Respond
<1>2. Len(o_response) = 1 /\ o_response \in Seq(AnswerType)
  BY Zenon, <1>1, NextAnswer DEF Registers
<1>3. o_response' = <<>> /\ o_response' \in Seq(AnswerType) /\ Len(o_response') <= 1
  BY <1>1, <1>2
<1>4. rg_req_beat' \in 0 .. 255 /\ i_request' \in Seq(AccessType) /\ Len(i_request') <= 2
  BY Zenon, <1>1 DEF Registers
<1>5. CASE B!Ends
  <2>1. rg_resp_beat' \in 0 .. 255 /\ rg_child_res_count' \in 0 .. Ratio
    <3>1. ~B!Accumulate /\ rg_resp_beat = 1
      BY Zenon, <1>5 DEF B!Ends
    <3>2. rg_resp_beat' = 1 - 1 /\ rg_child_res_count \in 0 .. Ratio
      BY Zenon, <1>1, <3>1 DEF Registers
    <3>3. 1 \in 0 .. Ratio /\ 1 - 1 \in 0 .. 255
      BY BurstFacts
    <3>. QED BY Zenon, <1>1, <3>1, <3>2, <3>3
  <2>2. accesses' \in Nat
    BY <1>1, <1>5
  <2>. QED BY Zenon, <1>1, <1>3, <1>4, <2>1, <2>2 DEF Registers
<1>6. CASE ~B!Ends
  <2>1. Progress(q)'
    BY Zenon, <1>6, RespondOK
  <2>2. Registers'
    BY Zenon, <1>3, <1>4, <2>1, RegistersNext
  <2>. QED BY Zenon, <1>1, <1>3, <2>2
<1>. QED BY <1>5, <1>6

(* Arithmetic of lanes.                                                    *)
LEMMA LaneTurns == \A r \in {1, 2, 4, 8}, x \in Nat : ((x % r) + 1) % r = (x + 1) % r
<1>1. \A x \in Nat : ((x % 1) + 1) % 1 = (x + 1) % 1
  OBVIOUS
<1>2. \A x \in Nat : ((x % 2) + 1) % 2 = (x + 1) % 2
  OBVIOUS
<1>3. \A x \in Nat : ((x % 4) + 1) % 4 = (x + 1) % 4
  OBVIOUS
<1>4. \A x \in Nat : ((x % 8) + 1) % 8 = (x + 1) % 8
  OBVIOUS
<1>. QED BY <1>1, <1>2, <1>3, <1>4

(* Words of one beat have lanes of their own.                              *)
LEMMA LanesDiffer ==
  \A r \in {1, 2, 4, 8}, b \in Nat : \A x, y \in 0 .. r - 1 : (b + x) % r = (b + y) % r => x = y
<1>1. \A b \in Nat : \A x, y \in 0 .. 0 : (b + x) % 1 = (b + y) % 1 => x = y
  OBVIOUS
<1>2. \A b \in Nat : \A x, y \in 0 .. 1 : (b + x) % 2 = (b + y) % 2 => x = y
  OBVIOUS
<1>3. \A b \in Nat : \A x, y \in 0 .. 3 : (b + x) % 4 = (b + y) % 4 => x = y
  OBVIOUS
<1>4. \A b \in Nat : \A x, y \in 0 .. 7 : (b + x) % 8 = (b + y) % 8 => x = y
  OBVIOUS
<1>. QED BY <1>1, <1>2, <1>3, <1>4

(* Words that follow words on like lanes are on like lanes.                *)
LEMMA LanesAlike ==
  \A r \in {1, 2, 4, 8}, a, b, c \in Nat : a % r = b % r => (a + c) % r = (b + c) % r
<1>1. \A a, b, c \in Nat : a % 1 = b % 1 => (a + c) % 1 = (b + c) % 1
  OBVIOUS
<1>2. \A a, b, c \in Nat : a % 2 = b % 2 => (a + c) % 2 = (b + c) % 2
  OBVIOUS
<1>3. \A a, b, c \in Nat : a % 4 = b % 4 => (a + c) % 4 = (b + c) % 4
  OBVIOUS
<1>4. \A a, b, c \in Nat : a % 8 = b % 8 => (a + c) % 8 = (b + c) % 8
  OBVIOUS
<1>. QED BY <1>1, <1>2, <1>3, <1>4

(* A beat that starts at lane 0 has word x on lane x.                      *)
LEMMA LanesFromZero ==
  \A r \in {1, 2, 4, 8}, a \in Nat : \A x \in 0 .. r - 1 : a % r = 0 => (a + x) % r = x
<1>1. \A a \in Nat : \A x \in 0 .. 0 : a % 1 = 0 => (a + x) % 1 = x
  OBVIOUS
<1>2. \A a \in Nat : \A x \in 0 .. 1 : a % 2 = 0 => (a + x) % 2 = x
  OBVIOUS
<1>3. \A a \in Nat : \A x \in 0 .. 3 : a % 4 = 0 => (a + x) % 4 = x
  OBVIOUS
<1>4. \A a \in Nat : \A x \in 0 .. 7 : a % 8 = 0 => (a + x) % 8 = x
  OBVIOUS
<1>. QED BY <1>1, <1>2, <1>3, <1>4

(* The answer at the head of the queue is that of the next access.         *)
LEMMA AnswerIs ==
  ASSUME NEW q \in Bursts, Registers, Progress(q), rg_resp_beat # 0, o_response # <<>>
  PROVE  LET n == AnsweredBeats(q)
             c == IF q.size > 1 THEN rg_child_res_count - 1 ELSE 0
             e == Head(o_response)
         IN  /\ e.addr = B!BeatAddr(q, n) + c /\ e.addr \in Nat /\ B!BeatAddr(q, n) \in Nat
             /\ e.err \in BOOLEAN /\ (e.err <=> Answered \in failed) /\ e = o_response[1]
             /\ n \in Nat /\ c \in Nat /\ n <= q.len
<1> DEFINE n == AnsweredBeats(q)
           c == IF q.size > 1 THEN rg_child_res_count - 1 ELSE 0
<1>1. n \in 0 .. q.len /\ c \in 0 .. q.size - 1 /\ Answered \div q.size = n /\ Answered % q.size = c
      /\ Len(o_response) = 1
  BY Zenon, NextAnswer
<1>2. o_response \in Seq(AnswerType)
  BY Zenon DEF Registers
<1>3. Head(o_response) = o_response[1] /\ o_response[1] \in AnswerType
  BY <1>1, <1>2
<1>4. o_response[1].addr = AddrOf(q, Answered) /\ (o_response[1].err <=> Answered \in failed)
  BY Zenon DEF Progress, Queued
<1>5. o_response[1].addr = B!BeatAddr(q, n) + c
  BY Zenon, <1>1, <1>4 DEF AddrOf
<1>6. o_response[1].addr \in Nat /\ o_response[1].err \in BOOLEAN
  BY <1>3 DEF AnswerType
<1> HIDE DEF n, c
<1>7. n \in Nat /\ c \in Nat /\ n <= q.len
  <2>1. q.len \in Nat /\ q.size \in Nat
    BY Zenon, Numbers
  <2>. QED BY <1>1, <2>1
<1>8. B!BeatAddr(q, n) \in Nat
  BY Zenon, <1>7, AddrNat
<1>. QED BY Zenon, <1>3, <1>4, <1>5, <1>6, <1>7, <1>8 DEF n, c

(* With it the words of the beat are on their lanes up to that one.        *)
LEMMA Gathered ==
  ASSUME NEW q \in Bursts, Registers, Progress(q), rg_resp_beat # 0, o_response # <<>>,
         DataSide, Collected(q),
         NEW data, data = [l \in B!Lanes |-> IF l \in rg_accum_mask THEN Head(o_response).addr
                                             ELSE rg_accum_data[l]]
  PROVE  LET n == AnsweredBeats(q)
             c == IF q.size > 1 THEN rg_child_res_count - 1 ELSE 0
         IN  /\ data \in [B!Lanes -> Nat]
             /\ q.size = 1 => \A l \in B!Lanes : data[l] = B!BeatAddr(q, n)
             /\ q.size # 1 => \A x \in 0 .. c :
                                data[(n * q.size + x) % Ratio] = B!BeatAddr(q, n) + x
<1> DEFINE n == AnsweredBeats(q)
           c == IF q.size > 1 THEN rg_child_res_count - 1 ELSE 0
           w == Head(o_response).addr
<1>1. w = B!BeatAddr(q, n) + c /\ w \in Nat /\ B!BeatAddr(q, n) \in Nat /\ n \in Nat /\ c \in Nat
  BY Zenon, AnswerIs
<1>2. rg_accum_data \in [B!Lanes -> Nat]
  BY Zenon DEF DataSide
<1>3. data \in [B!Lanes -> Nat]
  <2>1. PICK h \in Nat : h = Head(o_response).addr
    BY Zenon, <1>1
  <2>2. data = [l \in B!Lanes |-> IF l \in rg_accum_mask THEN h ELSE rg_accum_data[l]]
    BY Zenon, <2>1
  <2>. QED BY <1>2, <2>2
<1>4. ASSUME q.size = 1  PROVE \A l \in B!Lanes : data[l] = B!BeatAddr(q, n)
  <2>1. rg_accum_mask = B!Lanes
    BY Zenon, <1>4 DEF Collected
  <2>2. \A l \in B!Lanes : data[l] = w
    BY Zenon, <2>1
  <2>3. ~(q.size > 1)
    BY <1>4
  <2>4. w = B!BeatAddr(q, n) + 0
    BY Zenon, <1>1, <2>3
  <2>5. w = B!BeatAddr(q, n)
    BY <1>1, <2>4
  <2>. QED BY Zenon, <2>2, <2>5
<1>5. ASSUME q.size # 1
      PROVE  \A x \in 0 .. c : data[(n * q.size + x) % Ratio] = B!BeatAddr(q, n) + x
  <2>1. /\ rg_accum_mask = {Answered % Ratio}
        /\ \A x \in 0 .. rg_child_res_count - 2 :
             rg_accum_data[(n * q.size + x) % Ratio] = B!BeatAddr(q, n) + x
    BY Zenon, <1>5 DEF Collected
  <2>2. /\ q.size \in {1, 2, 4, 8} /\ q.size \in Nat /\ rg_child_res_count \in Nat
        /\ q.size > 1 /\ Ratio \in {1, 2, 4, 8} /\ q.size <= Ratio /\ Ratio \in Nat
    <3>1. q.size \in {1, 2, 4, 8} /\ q.size \in Nat /\ rg_child_res_count \in Nat
      BY Zenon, Numbers
    <3>2. Ratio \in {1, 2, 4, 8} /\ q.size <= Ratio
      BY Zenon, BurstFacts DEF BurstOK
    <3>3. (\A z \in {1, 2, 4, 8} : z # 1 => z > 1) /\ \A z \in {1, 2, 4, 8} : z \in Nat
      OBVIOUS
    <3>. QED BY Zenon, <1>5, <3>1, <3>2, <3>3
  <2>3. c \in 0 .. q.size - 1 /\ Answered = n * q.size + c
    BY Zenon, NextAnswer
  <2>4. c = rg_child_res_count - 1
    BY Zenon, <2>2
  <2> HIDE DEF n, c, w
  <2>5. PICK p \in Nat : p = n * q.size
    <3>1. n * q.size \in Nat
      BY <1>1, <2>2, Products
    <3>. QED BY <3>1
  <2>6. c \in 0 .. Ratio - 1 /\ \A x \in 0 .. c : x \in 0 .. Ratio - 1
    BY <2>2, <2>3
  <2>7. \A y \in Nat : y % Ratio \in B!Lanes
    BY <2>2 DEF B!Lanes
  <2>8. ASSUME NEW x \in 0 .. c
        PROVE  data[(n * q.size + x) % Ratio] = B!BeatAddr(q, n) + x
    <3>1. x \in Nat /\ p + x \in Nat
      BY <1>1
    <3>2. (p + x) % Ratio \in B!Lanes
      BY Zenon, <2>7, <3>1
    <3>3. CASE x = c
      <4>1. (p + x) % Ratio \in rg_accum_mask
        BY Zenon, <2>1, <2>3, <2>5, <3>3
      <4>2. data[(p + x) % Ratio] = w
        BY Zenon, <3>2, <4>1 DEF w
      <4>. QED BY Zenon, <1>1, <2>5, <3>3, <4>2
    <3>4. CASE x # c
      <4>1. x \in 0 .. rg_child_res_count - 2
        BY <1>1, <2>2, <2>4, <3>4
      <4>2. (p + x) % Ratio # (p + c) % Ratio
        BY Zenon, <2>2, <2>6, <3>4, LanesDiffer
      <4>3. (p + x) % Ratio \notin rg_accum_mask
        BY Zenon, <2>1, <2>3, <2>5, <4>2
      <4>4. data[(p + x) % Ratio] = rg_accum_data[(p + x) % Ratio]
        BY Zenon, <3>2, <4>3 DEF w
      <4>. QED BY Zenon, <2>1, <2>5, <4>1, <4>4
    <3>. QED BY <3>3, <3>4
  <2>. QED BY <2>8
<1>. QED BY Zenon, <1>3, <1>4, <1>5 DEF n, c

(* The mask turns with the answers.                                        *)
LEMMA MaskTurns ==
  ASSUME NEW q \in Bursts, Answered \in Nat, DataSide, Collected(q),
         NEW turned, turned = {(l + 1) % Ratio : l \in rg_accum_mask}
  PROVE  /\ turned \subseteq B!Lanes
         /\ turned = (IF q.size = 1 THEN B!Lanes ELSE {(Answered + 1) % Ratio})
<1>1. Ratio \in {1, 2, 4, 8} /\ Ratio \in Nat /\ Ratio > 0
  BY BurstFacts
<1>2. rg_accum_mask \subseteq B!Lanes
  BY Zenon DEF DataSide
<1>3. \A l \in B!Lanes : (l + 1) % Ratio \in B!Lanes
  BY <1>1 DEF B!Lanes
<1>4. turned \subseteq B!Lanes
  BY Zenon, <1>2, <1>3
<1>5. ASSUME q.size = 1  PROVE turned = B!Lanes
  <2>1. turned = {(l + 1) % Ratio : l \in B!Lanes}
    BY Zenon, <1>5 DEF Collected
  <2>2. \A l \in B!Lanes : \E k \in B!Lanes : l = (k + 1) % Ratio
    <3>1. ASSUME NEW l \in 0 .. Ratio - 1  PROVE \E k \in 0 .. Ratio - 1 : l = (k + 1) % Ratio
      <4>1. CASE l = 0
        <5>1. Ratio - 1 \in 0 .. Ratio - 1 /\ 0 = ((Ratio - 1) + 1) % Ratio
          BY <1>1
        <5>. QED BY Zenon, <4>1, <5>1
      <4>2. CASE l # 0
        <5>1. l - 1 \in 0 .. Ratio - 1 /\ l = ((l - 1) + 1) % Ratio
          BY <1>1, <4>2
        <5>. QED BY Zenon, <5>1
      <4>. QED BY <4>1, <4>2
    <3>. QED BY Zenon, <3>1 DEF B!Lanes
  <2>. QED BY Zenon, <1>4, <2>1, <2>2
<1>6. ASSUME q.size # 1  PROVE turned = {(Answered + 1) % Ratio}
  <2>1. turned = {((Answered % Ratio) + 1) % Ratio}
    BY Zenon, <1>6 DEF Collected
  <2>2. ((Answered % Ratio) + 1) % Ratio = (Answered + 1) % Ratio
    BY Zenon, <1>1, LaneTurns
  <2>. QED BY Zenon, <2>1, <2>2
<1>. QED BY Zenon, <1>4, <1>5, <1>6

(* An answer of a write, the last of which becomes the response.           *)
LEMMA RespondWriteOK == ASSUME BInv, B!rl_write_response_to_axi PROVE BInv'
<1>1. /\ rg_state = "WriteResp" /\ rg_resp_beat # 0 /\ i_wr_resp = <<>> /\ B!Respond
      /\ rg_accum_err' = (~B!Ends /\ (rg_accum_err \/ Head(o_response).err))
      /\ i_wr_resp' = IF B!Ends THEN <<B!WriteError>> ELSE i_wr_resp
      /\ UNCHANGED <<o_rd_addr, i_rd_data, o_wr_addr, o_wr_data, reading, received, writing, given,
                     rg_accum_data, rg_accum_mask>>
  BY DEF B!rl_write_response_to_axi
<1>2. /\ InProgress /\ ReadSide /\ WriteSide /\ ErrSide /\ DataSide
  BY DEF BInv
<1>3. /\ o_response # <<>> /\ rg_state' = (IF B!Ends THEN "Idle" ELSE rg_state)
      /\ failed' = (IF B!Ends THEN {} ELSE failed)
  BY Zenon, <1>1 DEF B!Respond
<1>4. PICK q \in Bursts : q = writing /\ q = writing' /\ Progress(q) /\ Registers
  BY Zenon, <1>1, <1>2 DEF InProgress, WriteSide
<1>5. Registers' /\ o_response' = <<>> /\ UNCHANGED rg_req_beat
  BY Zenon, <1>1, <1>4, RespondRegisters
<1>6. /\ B!Ends => Resting'
      /\ ~B!Ends => Progress(q)'
  BY Zenon, <1>1, <1>4, RespondOK
<1>7. InProgress'
  <2>1. ~B!Ends => Progress(writing)'
    BY Zenon, <1>4, <1>6
  <2>2. "Idle" # "ReadResp" /\ "Idle" # "WriteResp" /\ "WriteResp" # "ReadResp"
    OBVIOUS
  <2>. QED BY Zenon, <1>1, <1>3, <1>5, <1>6, <2>1, <2>2 DEF InProgress
<1>8. ErrSide'
  <2>1. Head(o_response) = o_response[1]
    <3>1. o_response \in Seq(AnswerType)
      BY Zenon, <1>4 DEF Registers
    <3>. QED BY <1>3, <3>1
  <2>2. failed # {} <=> rg_accum_err \/ o_response[1].err
    BY Zenon, <1>1, <1>2, <1>3 DEF ErrSide
  <2>. QED BY Zenon, <1>1, <1>3, <1>5, <2>1, <2>2 DEF ErrSide
<1>9. ReadSide'
  BY Zenon, <1>1, <1>2, <1>3, ReadStays
<1>10. DataSide'
  BY Zenon, <1>1, <1>2, <1>3 DEF DataSide
<1>11. CASE ~B!Ends
  <2>1. Used(writing)' = Used(writing)
    BY Zenon, <1>1, <1>5 DEF Used, Wrapped
  <2>2. WriteSide'
    BY Zenon, <1>1, <1>2, <1>3, <1>11, <2>1, WriteStays
  <2>. QED BY Zenon, <1>7, <1>8, <1>9, <1>10, <2>2 DEF BInv
<1>12. CASE B!Ends
  <2>1. rg_req_beat = 0
    BY Zenon, <1>5, <1>6, <1>12 DEF Resting
  <2>2. q.len # 255
    BY Zenon, <1>1, <1>4 DEF Progress, Responded
  <2>3. /\ GivenData(q) /\ given <= q.len + 1 /\ given - Len(o_wr_data) = Used(q) /\ given \in Nat
        /\ o_wr_addr = <<>> /\ o_wr_data \in Seq(DataType)
    BY Zenon, <1>1, <1>2, <1>4 DEF WriteSide
  <2>4. Used(q) = q.len + 1 - 0
    BY Zenon, <2>1, <2>2 DEF Used, Wrapped
  <2>5. given = q.len + 1 /\ Len(o_wr_data) = 0
    <3>1. q.len \in Nat
      BY Zenon, <1>4, Numbers
    <3>2. Len(o_wr_data) \in Nat
      BY <2>3, LenProperties
    <3>. QED BY <2>3, <2>4, <3>1, <3>2
  <2>6. o_wr_data = <<>>
    BY <2>3, <2>5
  <2>7. "Idle" # "WriteResp" /\ writing # B!None
    BY Zenon, <1>4, BurstFacts
  <2>8. given = writing.len + 1 /\ GivenData(writing)
    BY Zenon, <1>4, <2>3, <2>5
  <2>9. GivenData(writing)'
    BY Zenon, <1>1, <2>8 DEF GivenData
  <2>10. WriteSide'
    BY Zenon, <1>1, <1>2, <1>3, <1>12, <2>3, <2>6, <2>7, <2>8, <2>9 DEF WriteSide
  <2>. QED BY Zenon, <1>7, <1>8, <1>9, <1>10, <2>10 DEF BInv
<1>. QED BY <1>11, <1>12

(* An answer of a read: its word is gathered, and the last of a beat makes *)
(* the beat.                                                               *)
LEMMA RespondReadOK == ASSUME BInv, B!rl_read_response_to_axi PROVE BInv'
<1> DEFINE data == [l \in B!Lanes |-> IF l \in rg_accum_mask THEN Head(o_response).addr
                                      ELSE rg_accum_data[l]]
           e == Head(o_response).err
           beat == [data |-> data, err |-> e, last |-> rg_resp_beat = 1]
<1>1. /\ rg_state = "ReadResp" /\ rg_resp_beat # 0 /\ Len(i_rd_data) < 2 /\ B!Respond
      /\ rg_accum_data' = (IF B!Ends THEN [l \in B!Lanes |-> 0] ELSE data)
      /\ i_rd_data' = (IF B!Accumulate THEN i_rd_data ELSE Append(i_rd_data, beat))
      /\ rg_accum_mask' = {(l + 1) % Ratio : l \in rg_accum_mask}
      /\ UNCHANGED <<o_rd_addr, o_wr_addr, o_wr_data, i_wr_resp, reading, received, writing, given>>
  BY DEF B!rl_read_response_to_axi
<1>2. /\ InProgress /\ ReadSide /\ WriteSide /\ ErrSide /\ DataSide
  BY DEF BInv
<1>3. /\ o_response # <<>> /\ rg_state' = (IF B!Ends THEN "Idle" ELSE rg_state)
      /\ IF B!Accumulate THEN rg_child_res_count' = rg_child_res_count + 1
         ELSE rg_child_res_count' = IF rg_child_burst # 0 THEN 1 ELSE rg_child_res_count
  BY Zenon, <1>1 DEF B!Respond
<1>4. PICK q \in Bursts : q = reading /\ q = reading' /\ Progress(q) /\ Registers
  BY Zenon, <1>1, <1>2 DEF InProgress, ReadSide
<1>5. Registers' /\ o_response' = <<>>
  BY Zenon, <1>1, <1>4, RespondRegisters
<1>6. /\ Answered \in Nat
      /\ B!Ends => Resting' /\ AnsweredBeats(q) = q.len
      /\ ~B!Ends => /\ Progress(q)' /\ Answered' = Answered + 1
                    /\ AnsweredBeats(q)' = AnsweredBeats(q) + (IF B!Accumulate THEN 0 ELSE 1)
  BY Zenon, <1>1, <1>4, RespondOK
<1>7. Collected(q)
  BY Zenon, <1>1, <1>2, <1>4 DEF DataSide
<1> DEFINE n == AnsweredBeats(q)
           c == IF q.size > 1 THEN rg_child_res_count - 1 ELSE 0
<1>8. /\ data \in [B!Lanes -> Nat]
      /\ q.size = 1 => \A l \in B!Lanes : data[l] = B!BeatAddr(q, n)
      /\ q.size # 1 => \A x \in 0 .. c :
                         data[(n * q.size + x) % Ratio] = B!BeatAddr(q, n) + x
  BY <1>1, <1>2, <1>3, <1>4, <1>7, Gathered
<1>9. e \in BOOLEAN /\ n \in Nat /\ c \in Nat
  BY Zenon, <1>1, <1>3, <1>4, AnswerIs
<1>10. /\ rg_accum_mask' \subseteq B!Lanes
       /\ rg_accum_mask' = (IF q.size = 1 THEN B!Lanes ELSE {(Answered + 1) % Ratio})
  BY Zenon, <1>1, <1>2, <1>6, <1>7, MaskTurns
<1> HIDE DEF data, e
<1>11. beat \in BeatType
  <2>1. (rg_resp_beat = 1) \in BOOLEAN
    OBVIOUS
  <2> DEFINE z == rg_resp_beat = 1
  <2>2. z \in BOOLEAN
    BY <2>1
  <2> HIDE DEF z
  <2>3. [data |-> data, err |-> e, last |-> z] \in BeatType
    BY Zenon, <1>8, <1>9, <2>2 DEF BeatType
  <2>. QED BY Zenon, <2>3 DEF z
<1>12. InProgress' /\ ErrSide'
  <2>1. ~B!Ends => Progress(reading)'
    BY Zenon, <1>4, <1>6
  <2>2. "Idle" # "ReadResp" /\ "Idle" # "WriteResp" /\ "WriteResp" # "ReadResp"
    OBVIOUS
  <2>. QED BY Zenon, <1>1, <1>3, <1>5, <1>6, <2>1, <2>2 DEF InProgress, ErrSide
<1>13. WriteSide'
  BY Zenon, <1>1, <1>2, <1>3, WriteStays
<1>14. PICK r \in Nat, m \in Nat : r = received /\ r = received' /\ m = Len(i_rd_data) /\ m < 2
  <2>1. i_rd_data \in Seq(BeatType) /\ received \in Nat
    BY Zenon, <1>2 DEF ReadSide
  <2>2. Len(i_rd_data) \in Nat
    BY <2>1, LenProperties
  <2>. QED BY Zenon, <1>1, <2>1, <2>2
<1>15. /\ o_rd_addr = <<>> /\ r + m = n /\ \A k \in 1 .. m : ~i_rd_data[k].last
       /\ i_rd_data \in Seq(BeatType)
  <2>1. reading # B!None /\ reading = q
    BY Zenon, <1>4, BurstFacts
  <2>2. received + Len(i_rd_data) = AnsweredBeats(reading)
        /\ \A k \in 1 .. Len(i_rd_data) : ~i_rd_data[k].last
    BY Zenon, <1>1, <1>2 DEF ReadSide
  <2>. QED BY Zenon, <1>1, <1>2, <1>14, <2>1, <2>2 DEF ReadSide
<1> DEFINE grown == Append(i_rd_data, beat)
<1>16. /\ grown \in Seq(BeatType) /\ Len(grown) = m + 1 /\ grown[m + 1] = beat
       /\ \A k \in 1 .. m : grown[k] = i_rd_data[k]
  <2> HIDE DEF beat
  <2>. QED BY <1>11, <1>14, <1>15, AppendProperties
<1>17. beat.last <=> rg_resp_beat = 1
  BY Zenon
<1> HIDE DEF beat, grown, n
<1>18. \A k \in 1 .. m + 1 : k = m + 1 \/ k \in 1 .. m
  BY <1>14
<1>19. ReadSide'
  <2>1. CASE B!Accumulate
    <3>1. ~B!Ends /\ "Idle" # "ReadResp"
      BY Zenon, <2>1 DEF B!Ends
    <3>2. AnsweredBeats(q)' = n + 0
      BY Zenon, <1>6, <2>1, <3>1 DEF n
    <3>3. AnsweredBeats(q)' = n
      BY <1>9, <3>2
    <3>4. AnsweredBeats(reading)' = AnsweredBeats(reading)
      BY Zenon, <1>4, <3>3 DEF n
    <3>. QED BY Zenon, <1>1, <1>2, <1>3, <2>1, <3>1, <3>4, ReadStays
  <2>2. CASE ~B!Accumulate
    <3>1. i_rd_data' = grown
      BY Zenon, <1>1, <2>2 DEF grown
    <3>2. Len(i_rd_data') <= 2
      BY <1>14, <1>16, <3>1
    <3>3. CASE B!Ends
      <4>1. rg_resp_beat = 1 /\ rg_state' = "Idle" /\ "Idle" # "ReadResp"
        BY Zenon, <1>3, <3>3 DEF B!Ends
      <4>2. \A k \in 1 .. m : k # m + 1
        BY <1>14
      <4>3. \A k \in 1 .. m + 1 : grown[k].last <=> k = m + 1
        BY Zenon, <1>15, <1>16, <1>17, <1>18, <4>1, <4>2
      <4>4. \A k \in 1 .. Len(i_rd_data') : i_rd_data'[k].last <=> k = Len(i_rd_data')
        BY Zenon, <1>16, <3>1, <4>3
      <4>5. reading' \in Bursts /\ reading' # B!None
        BY Zenon, <1>4, BurstFacts
      <4>. QED BY Zenon, <1>1, <1>14, <1>15, <1>16, <3>1, <3>2, <4>1, <4>4, <4>5 DEF ReadSide
    <3>4. CASE ~B!Ends
      <4>1. rg_resp_beat # 1 /\ rg_state' = "ReadResp"
        BY Zenon, <1>1, <1>3, <2>2, <3>4 DEF B!Ends
      <4>2. AnsweredBeats(q)' = n + 1
        BY Zenon, <1>6, <2>2, <3>4 DEF n
      <4>3. received' + Len(i_rd_data') = AnsweredBeats(reading)'
        <5>1. r + (m + 1) = n + 1
          BY <1>9, <1>14, <1>15
        <5>. QED BY Zenon, <1>4, <1>14, <1>16, <3>1, <4>2, <5>1
      <4>4. \A k \in 1 .. Len(i_rd_data') : ~i_rd_data'[k].last
        BY Zenon, <1>15, <1>16, <1>17, <1>18, <3>1, <4>1
      <4>5. reading' \in Bursts /\ reading' # B!None
        BY Zenon, <1>4, BurstFacts
      <4>. QED BY Zenon, <1>1, <1>14, <1>15, <1>16, <3>1, <3>2, <4>1, <4>3, <4>4, <4>5 DEF ReadSide
    <3>. QED BY <3>3, <3>4
  <2>. QED BY <2>1, <2>2
<1>20. DataSide'
  <2>1. CASE B!Ends
    <3>1. rg_accum_data' \in [B!Lanes -> Nat]
      BY <1>1, <2>1
    <3>2. "Idle" # "ReadResp"
      OBVIOUS
    <3>. QED BY Zenon, <1>3, <1>10, <2>1, <3>1, <3>2 DEF DataSide
  <2>2. CASE ~B!Ends
    <3>1. rg_accum_data' = data /\ Answered' = Answered + 1
      BY Zenon, <1>1, <1>6, <2>2
    <3>2. ASSUME q.size # 1, NEW x \in 0 .. rg_child_res_count' - 2
          PROVE  LET k == AnsweredBeats(q)'
                 IN  data[(k * q.size + x) % Ratio] = B!BeatAddr(q, k) + x
      <4>1. q.size > 1
        BY Zenon, <1>4, <3>2, Sizes
      <4>2. rg_child_res_count \in Nat
        BY Zenon, <1>4, Numbers
      <4>3. CASE B!Accumulate
        <5>1. AnsweredBeats(q)' = n + 0
          BY Zenon, <1>6, <2>2, <4>3 DEF n
        <5>2. AnsweredBeats(q)' = n
          BY <1>9, <5>1
        <5>3. c = rg_child_res_count - 1 /\ rg_child_res_count' = rg_child_res_count + 1
          BY Zenon, <1>3, <4>1, <4>3
        <5>4. x \in 0 .. c
          BY <4>2, <5>3
        <5>. QED BY Zenon, <1>8, <3>2, <5>2, <5>4 DEF n
      <4>4. CASE ~B!Accumulate
        <5>1. rg_child_burst = q.size
          BY Zenon, <1>4, <4>1 DEF Progress, Requested
        <5>2. rg_child_res_count' = 1
          BY <1>3, <4>1, <4>4, <5>1
        <5>3. FALSE
          BY <5>2
        <5>. QED BY <5>3
      <4>. QED BY <4>3, <4>4
    <3>3. Collected(q)'
      BY Zenon, <1>10, <3>1, <3>2 DEF Collected
    <3>4. Collected(reading)'
      BY Zenon, <1>4, <3>3
    <3>. QED BY Zenon, <1>8, <1>10, <3>1, <3>4 DEF DataSide
  <2>. QED BY <2>1, <2>2
<1>. QED BY Zenon, <1>12, <1>13, <1>19, <1>20 DEF BInv

----------------------------------------------------------------------------
(* The invariant holds at reset.                                           *)
LEMMA BridgeInit == B!Init => BInv
<1> SUFFICES ASSUME B!Init PROVE BInv
  OBVIOUS
<1>1. /\ o_rd_addr = <<>> /\ i_rd_data = <<>> /\ o_wr_addr = <<>> /\ o_wr_data = <<>>
      /\ i_wr_resp = <<>> /\ i_request = <<>> /\ o_response = <<>> /\ rg_state = "Idle"
      /\ rg_req_beat = 0 /\ rg_resp_beat = 0 /\ rg_child_burst = 0
      /\ rg_child_req_count = 0 /\ rg_child_res_count = 0
      /\ rg_accum_data = [l \in B!Lanes |-> 0] /\ rg_accum_mask = B!Lanes
      /\ reading = B!None /\ received = 0 /\ writing = B!None /\ given = 0
      /\ accesses = 0 /\ failed = {}
  BY DEF B!Init
<1>2. /\ 0 \in 0 .. 255 /\ 0 \in 0 .. Ratio /\ 0 \in Nat /\ 0 <= 2 /\ 0 <= 1 /\ 1 .. 0 = {}
      /\ "Idle" # "ReadResp" /\ "Idle" # "WriteResp"
  BY BurstFacts
<1>3. InProgress
  <2>1. Registers
    BY <1>1, <1>2 DEF Registers
  <2>. QED BY Zenon, <1>1, <1>2, <2>1 DEF InProgress, Resting
<1>4. ReadSide
  <2>1. i_rd_data \in Seq(BeatType) /\ Len(i_rd_data) = 0
    BY <1>1
  <2>. QED BY Zenon, <1>1, <1>2, <2>1 DEF ReadSide
<1>5. WriteSide
  <2>1. o_wr_data \in Seq(DataType) /\ Len(o_wr_data) = 0
    BY <1>1
  <2>. QED BY Zenon, <1>1, <1>2, <2>1 DEF WriteSide
<1>6. ErrSide
  BY Zenon, <1>1, <1>2 DEF ErrSide
<1>7. DataSide
  <2>1. rg_accum_data \in [B!Lanes -> Nat]
    BY <1>1
  <2>. QED BY Zenon, <1>1, <1>2, <2>1 DEF DataSide
<1>. QED BY Zenon, <1>3, <1>4, <1>5, <1>6, <1>7 DEF BInv

(* Every rule, every step of the APB cluster and of the master keeps it.   *)
LEMMA BridgeStep == BInv /\ [B!Next]_(B!vars) => BInv'
<1>1. ASSUME BInv, UNCHANGED B!vars  PROVE BInv'
  <2>1. UNCHANGED <<o_rd_addr, i_rd_data, o_wr_addr, o_wr_data, i_wr_resp, reading, received,
                    writing, given>> /\ UNCHANGED B!bridge
    BY <1>1 DEF B!vars, B!axi
  <2>2. /\ InProgress /\ ReadSide /\ WriteSide /\ ErrSide /\ DataSide
    BY Zenon, <1>1 DEF BInv
  <2>3. /\ UNCHANGED <<rg_state, rg_accum_data, rg_accum_mask>> /\ ErrSide' = ErrSide
        /\ \A q : /\ AnsweredBeats(q)' = AnsweredBeats(q) /\ Collected(q)' = Collected(q)
                  /\ Used(q)' = Used(q)
    BY Zenon, <2>1, BridgeStays
  <2>4. InProgress' /\ ErrSide'
    BY Zenon, <2>1, <2>2, <2>3, ProgressStays
  <2>5. PICK q, p : q = reading /\ q = reading' /\ p = writing /\ p = writing'
    BY Zenon, <2>1
  <2>6. /\ AnsweredBeats(reading)' = AnsweredBeats(reading) /\ Used(writing)' = Used(writing)
        /\ Collected(reading)' = Collected(reading)
    BY Zenon, <2>3, <2>5
  <2>7. ReadSide' /\ WriteSide'
    BY Zenon, <2>1, <2>2, <2>3, <2>6, ReadStays, WriteStays
  <2>8. DataSide'
    BY Zenon, <2>2, <2>3, <2>6 DEF DataSide
  <2>. QED BY Zenon, <2>4, <2>7, <2>8 DEF BInv
<1>. QED BY Zenon, <1>1, ReadAcceptedOK, SendReadOK, RespondReadOK, WriteAcceptedOK, SendWriteOK,
            RespondWriteOK, ApbAccessOK, MasterReadsOK, MasterTakesBeatOK, MasterWritesOK,
            MasterGivesBeatOK, MasterTakesRespOK DEF B!Next

(* Seen through the variables of one part, a behaviour of the composition  *)
(* is one of that part.                                                    *)
LEMMA PartsSteps ==
  /\ DInit => Init /\ B!Init
  /\ [DNext]_<<vars, bvars, part>> => [Next]_vars /\ [B!Next]_(B!vars)
<1>1. DInit => Init /\ B!Init
  BY Zenon DEF DInit
<1>2. UNCHANGED bvars => UNCHANGED B!vars
  BY DEF bvars, B!vars, B!axi, B!bridge, B!count, B!accum
<1>3. DNext => [Next]_vars /\ [B!Next]_(B!vars)
  BY Zenon, <1>2 DEF DNext
<1>4. UNCHANGED <<vars, bvars, part>> => UNCHANGED vars /\ UNCHANGED bvars
  OBVIOUS
<1>. QED BY Zenon, <1>1, <1>2, <1>3, <1>4

(* The bridge's invariant holds in every run.                              *)
LEMMA BridgeInvariant == DSpec => []BInv /\ [][B!Next]_(B!vars)
<1>1. DInit => BInv
  BY Zenon, PartsSteps, BridgeInit
<1>2. BInv /\ [DNext]_<<vars, bvars, part>> => BInv' /\ [B!Next]_(B!vars)
  BY Zenon, PartsSteps, BridgeStep
<1>. QED BY <1>1, <1>2, PTL DEF DSpec

(* So is every behaviour of the composition one of the driver.             *)
LEMMA DriverPart == DSpec => Spec
<1>1. DInit => Init
  BY Zenon, PartsSteps
<1>2. [DNext]_<<vars, bvars, part>> => [Next]_vars
  BY Zenon, PartsSteps
<1>. QED BY <1>1, <1>2, PTL DEF DSpec, Spec

(* Counters and queues of the driver and of the bridge keep within their   *)
(* widths, and the bridge is idle only when nothing of a burst is left.    *)
THEOREM DevicesTypeCorrect == DSpec => []TypesOK
<1>1. BInv => B!TypeOK
  <2> SUFFICES ASSUME BInv PROVE B!TypeOK
    OBVIOUS
  <2>1. Registers /\ (rg_state = "Idle" => Resting)
    BY Zenon DEF BInv, InProgress
  <2>2. Len(i_rd_data) <= 2 /\ rg_accum_mask \subseteq B!Lanes
    BY Zenon DEF BInv, ReadSide, DataSide
  <2>. QED BY Zenon, <2>1, <2>2 DEF B!TypeOK, Registers, Resting
<1>2. TypeOK /\ B!TypeOK => TypesOK
  BY Zenon DEF TypesOK
<1>. QED BY <1>1, <1>2, DriverPart, TypeCorrect, BridgeInvariant, PTL

----------------------------------------------------------------------------
(* A write that has beat n of the data, as the master gave it, and takes   *)
(* word c of it to the address of that word, has the word of its address.  *)
LEMMA WordFits ==
  ASSUME NEW q \in Bursts, NEW n \in Nat, NEW c \in 0 .. q.size - 1,
         NEW lane \in Nat, NEW strb \in BOOLEAN, strb <=> lane \in B!BeatLanes(q, n),
         \/ lane = (B!BeatAddr(q, n) + c) % Ratio
         \/ lane = c /\ B!BeatAddr(q, n) % Ratio = 0
  PROVE  lane = (B!BeatAddr(q, n) + c) % Ratio /\ strb
<1>1. lane = (B!BeatAddr(q, n) + c) % Ratio
  <2>1. CASE lane = c /\ B!BeatAddr(q, n) % Ratio = 0
    <3>1. PICK a \in Nat : a = B!BeatAddr(q, n)
      BY AddrNat
    <3>2. Ratio \in {1, 2, 4, 8} /\ q.size <= Ratio /\ q.size \in {1, 2, 4, 8}
      BY Zenon, BurstFacts DEF BurstOK
    <3>3. c \in 0 .. Ratio - 1
      BY <3>2
    <3>4. (a + c) % Ratio = c
      BY Zenon, <2>1, <3>1, <3>2, <3>3, LanesFromZero
    <3>. QED BY Zenon, <2>1, <3>1, <3>4
  <2>. QED BY <2>1
<1>2. lane \in B!BeatLanes(q, n)
  BY Zenon, <1>1 DEF B!BeatLanes
<1>. QED BY Zenon, <1>1, <1>2

(* What WordsAreWritten says of a step.                                    *)
WordStep ==
  rg_state' = "WriteResp" /\ Len(i_request') > Len(i_request) =>
    LET q == writing
        n == accesses \div q.size
        access == i_request'[Len(i_request')]
    IN  /\ n <= q.len /\ access.addr = B!BeatAddr(q, n) + (accesses % q.size)
        /\ (n = 0 /\ q.size = 1) \/ B!BeatAddr(q, n) % Ratio = 0 =>
             access.beat = n /\ access.lane = access.addr % Ratio /\ access.strb

(* The first access of a write.                                            *)
LEMMA FirstWord == BInv /\ B!rl_write_frm_axi => WordStep
<1> SUFFICES ASSUME BInv, B!rl_write_frm_axi PROVE WordStep
  OBVIOUS
<1>1. /\ rg_state = "Idle" /\ o_wr_addr # <<>> /\ o_wr_data # <<>> /\ UNCHANGED o_response
  BY DEF B!rl_write_frm_axi
<1>2. /\ InProgress /\ WriteSide
  BY Zenon DEF BInv
<1>3. Resting /\ Registers
  BY Zenon, <1>1, <1>2 DEF InProgress
<1>4. o_wr_addr = <<writing>> /\ given = Len(o_wr_data) /\ writing # B!None
  BY Zenon, <1>1, <1>2 DEF WriteSide
<1>5. PICK q \in Bursts : q = writing /\ q = Head(o_wr_addr)
  <2>1. Head(o_wr_addr) = writing /\ writing \in Bursts
    BY <1>2, <1>4 DEF WriteSide
  <2>. QED BY Zenon, <2>1
<1> DEFINE shift == IF q.size = 1 THEN q.addr % Ratio ELSE 0
           d == Head(o_wr_data)
           a == B!WrAccess(q.addr, d, shift)
           access == i_request'[Len(i_request')]
<1>6. B!Request(a)
  BY Zenon, <1>5 DEF B!rl_write_frm_axi
<1>7. GivenData(q)
  BY Zenon, <1>2, <1>4, <1>5 DEF WriteSide
<1>8. d \in DataType /\ d.beat = 0 /\ d.strb = B!BeatLanes(q, 0)
  <2>1. d \in DataType /\ d.beat = given - Len(o_wr_data)
        /\ d.strb = B!BeatLanes(q, given - Len(o_wr_data)) /\ given \in Nat
    BY Zenon, <1>1, <1>2, <1>7, DataTaken
  <2>2. given - Len(o_wr_data) = 0
    BY <1>4, <2>1
  <2>. QED BY Zenon, <2>1, <2>2
<1>9. q.addr \in Nat /\ shift \in Nat /\ q.size \in {1, 2, 4, 8} /\ q.len \in 0 .. 255
  BY BurstFacts DEF BurstOK
<1> HIDE DEF shift, d
<1>10. /\ a \in AccessType /\ a.addr = q.addr /\ a.beat = 0 /\ a.lane = shift
       /\ (a.strb <=> shift \in B!BeatLanes(q, 0)) /\ a.strb \in BOOLEAN
  <2>1. a \in AccessType /\ a.addr = q.addr /\ a.beat = d.beat /\ a.lane = shift
        /\ (a.strb <=> shift \in d.strb)
    BY <1>8, <1>9, WrAccessType
  <2>2. a.strb \in BOOLEAN
    BY <2>1 DEF AccessType
  <2>. QED BY Zenon, <1>8, <2>1, <2>2
<1> HIDE DEF a
<1>11. access.addr = q.addr /\ access.beat = 0 /\ access.lane = shift /\ access.strb = a.strb
  BY Zenon, <1>1, <1>3, <1>6, <1>10, RequestQueued
<1>12. accesses \div q.size = 0 /\ accesses % q.size = 0 /\ 0 <= q.len /\ 0 \in 0 .. q.size - 1
       /\ 0 \in Nat
  <2>1. accesses = 0
    BY Zenon, <1>3 DEF Resting
  <2>. QED BY <1>9, <2>1
<1>13. q.addr = B!BeatAddr(q, 0) + 0 /\ B!BeatAddr(q, 0) = q.addr
  BY <1>9, AddrZero
<1>14. ASSUME q.size = 1 \/ B!BeatAddr(q, 0) % Ratio = 0
       PROVE  shift = q.addr % Ratio /\ a.strb
  <2>1. \/ shift = (B!BeatAddr(q, 0) + 0) % Ratio
        \/ shift = 0 /\ B!BeatAddr(q, 0) % Ratio = 0
    BY Zenon, <1>13, <1>14 DEF shift
  <2>. QED BY Zenon, <1>9, <1>10, <1>12, <1>13, <2>1, WordFits
<1>. QED BY Zenon, <1>5, <1>10, <1>11, <1>12, <1>13, <1>14 DEF WordStep

(* The next ones.                                                          *)
LEMMA NextWord == BInv /\ B!rl_send_wr_burst_req => WordStep
<1> SUFFICES ASSUME BInv, B!rl_send_wr_burst_req PROVE WordStep
  OBVIOUS
<1> DEFINE shift == IF B!Child THEN rg_child_req_count ELSE 0
           d == Head(o_wr_data)
           a == B!WrAccess(B!NextAddr, d, shift)
           access == i_request'[Len(i_request')]
<1>1. /\ rg_state = "WriteResp" /\ rg_req_beat # 0 /\ o_wr_data # <<>>
      /\ B!Request(a) /\ UNCHANGED o_response
  BY DEF B!rl_send_wr_burst_req, B!SendNext
<1>2. /\ InProgress /\ WriteSide
  BY Zenon DEF BInv
<1>3. PICK q \in Bursts : q = writing /\ Progress(q) /\ Registers
  BY Zenon, <1>1, <1>2 DEF InProgress, WriteSide
<1>4. GivenData(q) /\ given - Len(o_wr_data) = Used(q)
  BY Zenon, <1>1, <1>2, <1>3 DEF WriteSide
<1> DEFINE n == accesses \div q.size
           c == accesses % q.size
<1>5. /\ ~Wrapped(q) /\ n = q.len + 1 - rg_req_beat /\ n \in 0 .. q.len
      /\ c \in 0 .. q.size - 1 /\ c = shift /\ B!NextAddr = B!BeatAddr(q, n) + c
  BY Zenon, <1>1, <1>3, NextAccess DEF Progress
<1>6. d \in DataType /\ d.beat = n /\ d.strb = B!BeatLanes(q, n)
  <2>1. d \in DataType /\ d.beat = given - Len(o_wr_data)
        /\ d.strb = B!BeatLanes(q, given - Len(o_wr_data))
    BY Zenon, <1>1, <1>2, <1>4, DataTaken
  <2>2. given - Len(o_wr_data) = n
    BY Zenon, <1>4, <1>5 DEF Used
  <2>. QED BY Zenon, <2>1, <2>2
<1>7. B!NextAddr \in Nat /\ q.size \in Nat /\ q.len \in Nat
  BY Zenon, <1>1, <1>3, NextAddrNat, Numbers
<1> HIDE DEF shift, d, n, c
<1>8. n \in Nat /\ n <= q.len /\ shift \in Nat
  BY <1>5, <1>7
<1>9. /\ a \in AccessType /\ a.addr = B!NextAddr /\ a.beat = n /\ a.lane = shift
      /\ (a.strb <=> shift \in B!BeatLanes(q, n)) /\ a.strb \in BOOLEAN
  <2>1. a \in AccessType /\ a.addr = B!NextAddr /\ a.beat = d.beat /\ a.lane = shift
        /\ (a.strb <=> shift \in d.strb)
    BY <1>6, <1>7, <1>8, WrAccessType
  <2>2. a.strb \in BOOLEAN
    BY <2>1 DEF AccessType
  <2>. QED BY Zenon, <1>6, <2>1, <2>2
<1> HIDE DEF a
<1>10. /\ access.addr = B!NextAddr /\ access.beat = n /\ access.lane = shift
       /\ access.strb = a.strb
  BY Zenon, <1>1, <1>3, <1>9, RequestQueued
<1>11. ASSUME B!BeatAddr(q, n) % Ratio = 0
       PROVE  shift = B!NextAddr % Ratio /\ a.strb
  <2>1. \/ shift = (B!BeatAddr(q, n) + c) % Ratio
        \/ shift = c /\ B!BeatAddr(q, n) % Ratio = 0
    BY Zenon, <1>5, <1>11
  <2>2. shift = (B!BeatAddr(q, n) + c) % Ratio /\ a.strb
    BY <1>5, <1>8, <1>9, <2>1, WordFits
  <2>. QED BY Zenon, <1>5, <2>2
<1>12. ~(n = 0 /\ q.size = 1)
  <2>1. n = BeatNo(q) + (IF B!Child THEN 0 ELSE 1) /\ BeatNo(q) \in 0 .. q.len
    BY Zenon, <1>1, <1>3, NextAccess DEF Progress, Requested, n
  <2>2. q.size = 1 => ~B!Child
    BY <1>3 DEF Progress, Requested, B!Child
  <2>. QED BY <1>7, <2>1, <2>2
<1>. QED BY Zenon, <1>3, <1>5, <1>8, <1>10, <1>11, <1>12 DEF WordStep, n, c

(* Requests come from the bridge's own rules only.                         *)
LEMMA RequestsGrow ==
  ASSUME BInv, B!Next, Len(i_request') > Len(i_request), rg_state' = "WriteResp"
  PROVE  B!rl_write_frm_axi \/ B!rl_send_wr_burst_req
<1>1. i_request \in Seq(AccessType) /\ Len(i_request) \in Nat
  <2>1. i_request \in Seq(AccessType)
    BY Zenon DEF BInv, InProgress, Registers
  <2>. QED BY <2>1, LenProperties
<1>2. i_request' # i_request
  BY <1>1
<1>3. ASSUME UNCHANGED B!bridge  PROVE FALSE
  BY <1>2, <1>3 DEF B!bridge
<1>4. ASSUME B!ApbAccess  PROVE FALSE
  <2>1. i_request # <<>> /\ i_request' = Tail(i_request)
    BY Zenon, <1>4 DEF B!ApbAccess
  <2>2. Len(i_request') = Len(i_request) - 1
    BY <1>1, <2>1
  <2>. QED BY <1>1, <2>2
<1>5. ASSUME B!rl_read_frm_axi \/ B!rl_send_rd_burst_req  PROVE FALSE
  <2>1. rg_state' = "ReadResp"
    BY <1>5 DEF B!rl_read_frm_axi, B!rl_send_rd_burst_req, B!SendNext
  <2>. QED BY <2>1
<1>6. ASSUME B!rl_read_response_to_axi \/ B!rl_write_response_to_axi  PROVE FALSE
  BY Zenon, <1>2, <1>6 DEF B!rl_read_response_to_axi, B!rl_write_response_to_axi, B!Respond
<1>. QED BY Zenon, <1>3, <1>4, <1>5, <1>6
         DEF B!Next, B!MasterReads, B!MasterTakesBeat, B!MasterWrites, B!MasterGivesBeat,
             B!MasterTakesResp

(* "fn_axi4burst_addr" and the counters of a write keep in step with the   *)
(* data: each access has the address of its word, and where the lanes      *)
(* agree the word itself.                                                  *)
THEOREM WritesAreAddressed == DSpec => WordsAreWritten
<1>1. BInv /\ B!Next => WordStep
  BY Zenon, FirstWord, NextWord, RequestsGrow DEF WordStep
<1>2. BInv /\ [B!Next]_(B!vars) => [WordStep]_(B!vars)
  BY Zenon, <1>1
<1>3. DSpec => [][WordStep]_(B!vars)
  BY <1>2, BridgeInvariant, PTL
<1>. QED BY <1>3 DEF WordsAreWritten, B!WordsAreWritten, WordStep

----------------------------------------------------------------------------
(* What ErrorsReach says of a step.                                        *)
ErrorStep ==
  /\ i_wr_resp' # i_wr_resp /\ i_wr_resp' # <<>> =>
       accesses = (writing.len + 1) * writing.size /\ i_wr_resp' = <<failed # {}>>
  /\ Len(i_rd_data') > Len(i_rd_data) =>
       LET n == received + Len(i_rd_data)
           last == (n * reading.size) + reading.size - 1
       IN  i_rd_data'[Len(i_rd_data')].err <=> last \in failed

(* Responses come from the bridge's own rules only.                        *)
LEMMA ResponsesGrow ==
  ASSUME BInv, B!Next
  PROVE  /\ i_wr_resp' # i_wr_resp /\ i_wr_resp' # <<>> => B!rl_write_response_to_axi
         /\ Len(i_rd_data') > Len(i_rd_data) => B!rl_read_response_to_axi
<1>1. i_rd_data \in Seq(BeatType) /\ Len(i_rd_data) \in Nat
  <2>1. i_rd_data \in Seq(BeatType)
    BY Zenon DEF BInv, ReadSide
  <2>. QED BY <2>1, LenProperties
<1>2. Len(i_rd_data') > Len(i_rd_data) => i_rd_data' # i_rd_data
  BY <1>1
<1>3. CASE B!rl_read_frm_axi \/ B!rl_write_frm_axi
  BY Zenon, <1>2, <1>3 DEF B!rl_read_frm_axi, B!rl_write_frm_axi
<1>4. CASE B!rl_send_rd_burst_req \/ B!rl_send_wr_burst_req \/ B!ApbAccess
  <2>1. UNCHANGED <<i_rd_data, i_wr_resp>>
    BY <1>4 DEF B!rl_send_rd_burst_req, B!rl_send_wr_burst_req, B!ApbAccess, B!axi
  <2>. QED BY Zenon, <1>2, <2>1
<1>5. CASE B!rl_read_response_to_axi
  BY Zenon, <1>5 DEF B!rl_read_response_to_axi
<1>6. CASE B!rl_write_response_to_axi
  BY Zenon, <1>2, <1>6 DEF B!rl_write_response_to_axi
<1>7. CASE B!MasterReads \/ B!MasterWrites \/ B!MasterGivesBeat
  BY Zenon, <1>2, <1>7 DEF B!MasterReads, B!MasterWrites, B!MasterGivesBeat
<1>8. CASE B!MasterTakesResp
  BY Zenon, <1>2, <1>8 DEF B!MasterTakesResp
<1>9. CASE B!MasterTakesBeat
  <2>1. i_rd_data # <<>> /\ i_rd_data' = Tail(i_rd_data) /\ UNCHANGED i_wr_resp
    BY Zenon, <1>9 DEF B!MasterTakesBeat
  <2>2. Len(i_rd_data') = Len(i_rd_data) - 1
    BY <1>1, <2>1
  <2>3. ~(Len(i_rd_data') > Len(i_rd_data))
    BY <1>1, <2>2
  <2>. QED BY Zenon, <2>1, <2>3
<1>. QED BY Zenon, <1>3, <1>4, <1>5, <1>6, <1>7, <1>8, <1>9 DEF B!Next

(* The response of a write gathers the errors of all its accesses.         *)
LEMMA WriteErrors == BInv /\ B!rl_write_response_to_axi => ErrorStep
<1> SUFFICES ASSUME BInv, B!rl_write_response_to_axi PROVE ErrorStep
  OBVIOUS
<1>1. /\ rg_state = "WriteResp" /\ rg_resp_beat # 0 /\ B!Respond /\ o_response # <<>>
      /\ i_wr_resp' = IF B!Ends THEN <<B!WriteError>> ELSE i_wr_resp
      /\ UNCHANGED i_rd_data
  BY Zenon DEF B!rl_write_response_to_axi, B!Respond
<1>2. InProgress /\ WriteSide /\ ErrSide /\ ReadSide
  BY Zenon DEF BInv
<1>3. PICK q \in Bursts : q = writing /\ Progress(q) /\ Registers
  BY Zenon, <1>1, <1>2 DEF InProgress, WriteSide
<1>4. B!Ends => accesses = (q.len + 1) * q.size
  BY Zenon, <1>1, <1>3, RespondOK
<1>5. B!WriteError <=> failed # {}
  <2>1. Head(o_response) = o_response[1]
    <3>1. o_response \in Seq(AnswerType)
      BY Zenon, <1>3 DEF Registers
    <3>. QED BY <1>1, <3>1
  <2>2. failed # {} <=> rg_accum_err \/ o_response[1].err
    BY Zenon, <1>1, <1>2 DEF ErrSide
  <2>. QED BY Zenon, <2>1, <2>2 DEF B!WriteError
<1>6. B!WriteError = (failed # {})
  <2>1. B!WriteError \in BOOLEAN
    BY DEF B!WriteError
  <2>. QED BY <1>5, <2>1
<1>7. ~(Len(i_rd_data') > Len(i_rd_data))
  <2>1. i_rd_data \in Seq(BeatType)
    BY Zenon, <1>2 DEF ReadSide
  <2>2. Len(i_rd_data) \in Nat
    BY <2>1, LenProperties
  <2>. QED BY <1>1, <2>2
<1>. QED BY Zenon, <1>1, <1>3, <1>4, <1>6, <1>7 DEF ErrorStep

(* The beat that an answer completes.                                      *)
ReadBeat ==
  [data |-> [l \in B!Lanes |-> IF l \in rg_accum_mask THEN Head(o_response).addr
                               ELSE rg_accum_data[l]],
   err  |-> Head(o_response).err,
   last |-> rg_resp_beat = 1]

(* It is the one that the master gets next.                                *)
LEMMA BeatIsNext ==
  ASSUME BInv, B!rl_read_response_to_axi, Len(i_rd_data') > Len(i_rd_data)
  PROVE  /\ ~B!Accumulate /\ rg_resp_beat # 0 /\ o_response # <<>> /\ DataSide /\ Registers
         /\ i_rd_data'[Len(i_rd_data')] = ReadBeat
         /\ reading \in Bursts /\ Progress(reading) /\ Collected(reading)
         /\ received + Len(i_rd_data) = AnsweredBeats(reading)
<1>1. /\ rg_state = "ReadResp" /\ rg_resp_beat # 0 /\ o_response # <<>>
      /\ i_rd_data' = IF B!Accumulate THEN i_rd_data ELSE Append(i_rd_data, ReadBeat)
  BY DEF B!rl_read_response_to_axi, B!Respond, ReadBeat
<1>2. InProgress /\ ReadSide /\ DataSide
  BY Zenon DEF BInv
<1>3. i_rd_data \in Seq(BeatType) /\ Len(i_rd_data) \in Nat
  <2>1. i_rd_data \in Seq(BeatType)
    BY Zenon, <1>2 DEF ReadSide
  <2>. QED BY <2>1, LenProperties
<1>4. ~B!Accumulate
  BY <1>1, <1>3
<1>5. i_rd_data'[Len(i_rd_data')] = ReadBeat
  <2> HIDE DEF ReadBeat
  <2>1. i_rd_data' = Append(i_rd_data, ReadBeat)
    BY Zenon, <1>1, <1>4
  <2>. QED BY <1>3, <2>1
<1>6. reading \in Bursts /\ received + Len(i_rd_data) = AnsweredBeats(reading)
  BY Zenon, <1>1, <1>2 DEF ReadSide
<1>7. Progress(reading) /\ Collected(reading) /\ Registers
  BY Zenon, <1>1, <1>2 DEF InProgress, DataSide
<1>. QED BY Zenon, <1>1, <1>2, <1>4, <1>5, <1>6, <1>7

(* A beat has the error of its last access.                                *)
LEMMA ReadErrors == BInv /\ B!rl_read_response_to_axi => ErrorStep
<1> SUFFICES ASSUME BInv, B!rl_read_response_to_axi PROVE ErrorStep
  OBVIOUS
<1>1. UNCHANGED i_wr_resp
  BY Zenon DEF B!rl_read_response_to_axi
<1> DEFINE n == received + Len(i_rd_data)
           last == (n * reading.size) + reading.size - 1
           beat == i_rd_data'[Len(i_rd_data')]
<1>2. ASSUME Len(i_rd_data') > Len(i_rd_data)
      PROVE  beat.err <=> last \in failed
  <2>1. PICK q \in Bursts :
          /\ q = reading /\ Progress(q) /\ Registers /\ n = AnsweredBeats(q)
          /\ beat = ReadBeat /\ rg_resp_beat # 0 /\ o_response # <<>> /\ ~B!Accumulate
    BY Zenon, <1>2, BeatIsNext
  <2>2. beat.err = Head(o_response).err
    <3>1. ReadBeat.err = Head(o_response).err
      BY DEF ReadBeat
    <3>. QED BY Zenon, <2>1, <3>1
  <2>3. beat.err <=> Answered \in failed
    BY Zenon, <2>1, <2>2, AnswerIs
  <2>4. PICK c : c = q.size - 1 /\ Answered = n * q.size + c /\ n \in 0 .. q.len
    BY <2>1, NextAnswer
  <2>5. Answered = last
    <3>1. q.size \in Nat /\ q.len \in Nat
      BY Zenon, <2>1, Numbers
    <3>2. n \in Nat
      BY <2>4, <3>1
    <3>3. (n * q.size) \in Nat
      BY <3>1, <3>2
    <3> HIDE DEF n, beat
    <3>4. PICK m \in Nat : m = n * q.size
      BY Zenon, <3>3
    <3>5. last = m + q.size - 1
      BY Zenon, <2>1, <3>4
    <3>6. Answered = m + (q.size - 1)
      BY Zenon, <2>4, <3>4
    <3>. QED BY <3>1, <3>4, <3>5, <3>6
  <2> HIDE DEF last, beat, n
  <2>. QED BY Zenon, <2>3, <2>5
<1>. QED BY Zenon, <1>1, <1>2 DEF ErrorStep

(* "The APB PSLVERR is mapped to the AXI4 SLVERR": no error of a write is  *)
(* lost, and a read beat has exactly the error of its last access.         *)
THEOREM ErrorsAreKept == DSpec => ErrorsReach
<1>1. BInv /\ B!Next => ErrorStep
  BY Zenon, WriteErrors, ReadErrors, ResponsesGrow DEF ErrorStep
<1>2. BInv /\ [B!Next]_(B!vars) => [ErrorStep]_(B!vars)
  BY Zenon, <1>1
<1>3. DSpec => [][ErrorStep]_(B!vars)
  BY <1>2, BridgeInvariant, PTL
<1>. QED BY <1>3, PTL DEF ErrorsReach, B!ErrorsReach, ErrorStep

----------------------------------------------------------------------------
(* What BeatsAreRead says of a step.                                       *)
BeatStep ==
  Len(i_rd_data') > Len(i_rd_data) =>
    LET n == received + Len(i_rd_data)
        q == reading
        beat == i_rd_data'[Len(i_rd_data')]
    IN  /\ n <= q.len /\ (beat.last <=> n = q.len)
        /\ q.size = 1 \/ B!BeatAddr(q, n) % Ratio = (n * q.size) % Ratio =>
             \A c \in 0 .. q.size - 1 :
               beat.data[(B!BeatAddr(q, n) + c) % Ratio] = B!BeatAddr(q, n) + c

(* The words gathered are those of the beat, on the lanes of their         *)
(* addresses where the bus counts lanes as the mask does.                  *)
LEMMA BeatIsRead == BInv /\ B!rl_read_response_to_axi => BeatStep
<1> SUFFICES ASSUME BInv, B!rl_read_response_to_axi, Len(i_rd_data') > Len(i_rd_data)
             PROVE  BeatStep
  BY Zenon DEF BeatStep
<1> DEFINE n == received + Len(i_rd_data)
           beat == i_rd_data'[Len(i_rd_data')]
           data == [l \in B!Lanes |-> IF l \in rg_accum_mask THEN Head(o_response).addr
                                      ELSE rg_accum_data[l]]
<1>1. PICK q \in Bursts :
        /\ q = reading /\ Progress(q) /\ Registers /\ n = AnsweredBeats(q) /\ Collected(q)
        /\ DataSide /\ beat = ReadBeat /\ rg_resp_beat # 0 /\ o_response # <<>> /\ ~B!Accumulate
  BY Zenon, BeatIsNext
<1> DEFINE last == IF q.size > 1 THEN rg_child_res_count - 1 ELSE 0
<1>2. /\ data \in [B!Lanes -> Nat]
      /\ q.size = 1 => \A l \in B!Lanes : data[l] = B!BeatAddr(q, n)
      /\ q.size # 1 => \A x \in 0 .. last : data[(n * q.size + x) % Ratio] = B!BeatAddr(q, n) + x
  <2>1. n = AnsweredBeats(q)
    BY Zenon, <1>1
  <2>2. LET m == AnsweredBeats(q)
        IN  /\ data \in [B!Lanes -> Nat]
            /\ q.size = 1 => \A l \in B!Lanes : data[l] = B!BeatAddr(q, m)
            /\ q.size # 1 => \A x \in 0 .. last :
                               data[(m * q.size + x) % Ratio] = B!BeatAddr(q, m) + x
    BY <1>1, Gathered
  <2> HIDE DEF n, data, last
  <2>. QED BY Zenon, <2>1, <2>2
<1>3. beat.data = data /\ (beat.last <=> rg_resp_beat = 1)
  <2>1. ReadBeat.data = data /\ (ReadBeat.last <=> rg_resp_beat = 1)
    BY Zenon DEF ReadBeat
  <2>. QED BY Zenon, <1>1, <2>1
<1>4. /\ n = q.len + 1 - rg_resp_beat /\ n \in 0 .. q.len /\ last = q.size - 1
  BY <1>1, NextAnswer
<1>5. /\ q.size \in {1, 2, 4, 8} /\ q.size \in Nat /\ q.len \in Nat /\ rg_resp_beat \in Nat
  BY Zenon, <1>1, Numbers
<1> HIDE DEF n, beat, data, last
<1>6. n \in Nat /\ n <= q.len /\ (rg_resp_beat = 1 <=> n = q.len)
  BY <1>4, <1>5
<1>7. PICK a \in Nat : a = B!BeatAddr(q, n)
  BY <1>6, AddrNat
<1>8. Ratio \in {1, 2, 4, 8} /\ \A y \in Nat : y % Ratio \in B!Lanes
  <2>1. Ratio \in {1, 2, 4, 8}
    BY BurstFacts
  <2>2. \A y \in Nat : y % Ratio \in 0 .. Ratio - 1
    BY <2>1
  <2>. QED BY Zenon, <2>1, <2>2 DEF B!Lanes
<1>9. ASSUME q.size = 1, NEW c \in 0 .. q.size - 1  PROVE data[(a + c) % Ratio] = a + c
  <2>1. c = 0 /\ a + c = a
    BY <1>9
  <2>2. a % Ratio \in B!Lanes
    BY Zenon, <1>7, <1>8
  <2>. QED BY Zenon, <1>2, <1>7, <1>9, <2>1, <2>2
<1>10. ASSUME q.size # 1, a % Ratio = (n * q.size) % Ratio, NEW c \in 0 .. q.size - 1
       PROVE  data[(a + c) % Ratio] = a + c
  <2>1. n * q.size \in Nat
    BY <1>5, <1>6, Products
  <2>2. c \in Nat
    BY <1>5
  <2>3. (a + c) % Ratio = (n * q.size + c) % Ratio
    BY Zenon, <1>8, <1>10, <2>1, <2>2, LanesAlike
  <2>4. data[(n * q.size + c) % Ratio] = a + c
    BY Zenon, <1>2, <1>4, <1>7, <1>10
  <2>. QED BY Zenon, <2>3, <2>4
<1>. QED BY Zenon, <1>1, <1>3, <1>6, <1>7, <1>9, <1>10 DEF BeatStep, n, beat

(* A master gets the words of the addresses it asked for, and the last     *)
(* beat last.                                                              *)
THEOREM ReadsAreGathered == DSpec => BeatsAreRead
<1>1. BInv /\ B!Next => BeatStep
  BY Zenon, BeatIsRead, ResponsesGrow DEF BeatStep
<1>2. BInv /\ [B!Next]_(B!vars) => [BeatStep]_(B!vars)
  BY Zenon, <1>1
<1>3. DSpec => [][BeatStep]_(B!vars)
  BY <1>2, BridgeInvariant, PTL
<1>. QED BY <1>3 DEF BeatsAreRead, B!BeatsAreRead, BeatStep
=============================================================================
