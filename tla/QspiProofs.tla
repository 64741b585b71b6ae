----------------------------- MODULE QspiProofs -----------------------------
(***************************************************************************)
(* The flash drivers on the controller, for any number of calls in any     *)
(* order.  A program is followed by labels: one for each place between two *)
(* of its steps, with what is known of the controller there.               *)
(***************************************************************************)
EXTENDS QspiDriver, SequenceTheorems, TLAPS

(* What a program is made of.                                              *)
Plain == {"ar", "wait", "reset", "take", "ifret", "note", "poll", "ifid", "return0", "status",
          "abort"}
Moves == [do : Plain] \union [do : {"ccr"}, cmd : DOMAIN Commands]
           \union [do : {"dlr", "dr"}, len : 1 .. Size]

(* A program leads from label a to label b: there are labels in between,   *)
(* and the relation R has what each step does to them.                     *)
Runs(R, s, a, b) ==
  /\ s \in Seq(Moves)
  /\ \E L : /\ L[1] = a /\ L[Len(s) + 1] = b
            /\ \A i \in 1 .. Len(s) : <<L[i], s[i], L[i + 1]>> \in R

(* The empty program.                                                      *)
LEMMA RunsEmpty == ASSUME NEW R, NEW a, NEW b PROVE Runs(R, <<>>, a, b) <=> a = b
<1>1. ASSUME a = b  PROVE Runs(R, <<>>, a, b)
  <2> DEFINE L == [i \in {1} |-> a]
  <2>1. L[1] = a /\ L[Len(<<>>) + 1] = b /\ \A i \in 1 .. Len(<<>>) : <<L[i], <<>>[i], L[i + 1]>> \in R
    BY <1>1
  <2>2. <<>> \in Seq(Moves)
    OBVIOUS
  <2> HIDE DEF L
  <2>. QED BY <2>1, <2>2, Zenon DEF Runs
<1>2. ASSUME Runs(R, <<>>, a, b)  PROVE a = b
  <2>1. Len(<<>>) + 1 = 1
    OBVIOUS
  <2>. QED BY <1>2, <2>1 DEF Runs
<1>. QED BY <1>1, <1>2

(* A program of one step.                                                  *)
LEMMA RunsOne ==
  ASSUME NEW R, NEW a, NEW b, NEW e \in Moves, <<a, e, b>> \in R
  PROVE  Runs(R, <<e>>, a, b)
<1> DEFINE L == [i \in 1 .. 2 |-> IF i = 1 THEN a ELSE b]
<1>1. Len(<<e>>) = 1 /\ <<e>>[1] = e /\ <<e>> \in Seq(Moves) /\ L[1] = a /\ L[1 + 1] = b
  OBVIOUS
<1>2. \A i \in 1 .. Len(<<e>>) : <<L[i], <<e>>[i], L[i + 1]>> \in R
  <2>1. \A i \in 1 .. Len(<<e>>) : i = 1
    BY <1>1
  <2> HIDE DEF L
  <2>. QED BY <1>1, <2>1, Zenon
<1>. QED BY <1>1, <1>2, Zenon DEF Runs

(* One program after the other.                                            *)
LEMMA RunsConcat ==
  ASSUME NEW R, NEW a, NEW b, NEW c, NEW s, NEW t, Runs(R, s, a, b), Runs(R, t, b, c)
  PROVE  Runs(R, s \o t, a, c)
<1>1. s \in Seq(Moves) /\ t \in Seq(Moves) /\ s \o t \in Seq(Moves)
      /\ Len(s) \in Nat /\ Len(t) \in Nat /\ Len(s \o t) = Len(s) + Len(t)
  BY DEF Runs
<1>2. PICK L : L[1] = a /\ L[Len(s) + 1] = b /\ \A i \in 1 .. Len(s) : <<L[i], s[i], L[i + 1]>> \in R
  BY DEF Runs
<1>3. PICK K : K[1] = b /\ K[Len(t) + 1] = c /\ \A i \in 1 .. Len(t) : <<K[i], t[i], K[i + 1]>> \in R
  BY DEF Runs
<1> DEFINE n == Len(s)
           J == [i \in 1 .. Len(s) + Len(t) + 1 |-> IF i <= n THEN L[i] ELSE K[i - n]]
<1>4. \A i \in 1 .. n + 1 : J[i] = L[i]
  <2> TAKE i \in 1 .. n + 1
  <2>1. CASE i <= n
    BY <1>1, <2>1
  <2>2. CASE i = n + 1
    <3>1. i \in 1 .. Len(s) + Len(t) + 1 /\ ~(i <= n) /\ i - n = 1
      BY <1>1, <2>2
    <3>2. J[i] = K[1]
      BY <3>1
    <3>. QED BY <1>2, <1>3, <2>2, <3>2
  <2>. QED BY <1>1, <2>1, <2>2
<1>5. \A i \in 1 .. Len(t) + 1 : J[n + i] = K[i]
  <2> TAKE i \in 1 .. Len(t) + 1
  <2>1. n + i \in 1 .. Len(s) + Len(t) + 1 /\ ~(n + i <= n) /\ (n + i) - n = i
    BY <1>1
  <2>. QED BY <2>1
<1> HIDE DEF J
<1>6. J[1] = a /\ J[Len(s \o t) + 1] = c
  <2>1. 1 \in 1 .. n + 1 /\ Len(t) + 1 \in 1 .. Len(t) + 1 /\ Len(s \o t) + 1 = n + (Len(t) + 1)
    BY <1>1
  <2>. QED BY <1>2, <1>3, <1>4, <1>5, <2>1
<1>7. \A i \in 1 .. Len(s \o t) : <<J[i], (s \o t)[i], J[i + 1]>> \in R
  <2> TAKE i \in 1 .. Len(s \o t)
  <2>1. CASE i <= n
    <3>1. i \in 1 .. n /\ i \in 1 .. n + 1 /\ i + 1 \in 1 .. n + 1 /\ (s \o t)[i] = s[i]
      BY <1>1, <2>1
    <3>. QED BY <1>2, <1>4, <3>1
  <2>2. CASE ~(i <= n)
    <3> DEFINE k == i - n
    <3>1. k \in 1 .. Len(t) /\ k \in 1 .. Len(t) + 1 /\ k + 1 \in 1 .. Len(t) + 1
          /\ i = n + k /\ i + 1 = n + (k + 1) /\ (s \o t)[i] = t[k]
      BY <1>1, <2>2
    <3> HIDE DEF k
    <3>. QED BY <1>3, <1>5, <3>1
  <2>. QED BY <2>1, <2>2
<1>. QED BY <1>1, <1>6, <1>7 DEF Runs

(* What is left when the first step has been taken.                        *)
LEMMA RunsTail ==
  ASSUME NEW R, NEW a, NEW b, NEW s, s # <<>>, Runs(R, s, a, b)
  PROVE  Head(s) \in Moves /\ \E c : <<a, Head(s), c>> \in R /\ Runs(R, Tail(s), c, b)
<1>1. /\ s \in Seq(Moves) /\ Len(s) \in Nat /\ Len(s) >= 1 /\ Head(s) = s[1]
      /\ Tail(s) \in Seq(Moves) /\ Len(Tail(s)) = Len(s) - 1
      /\ \A i \in 1 .. Len(s) - 1 : Tail(s)[i] = s[i + 1]
      /\ Head(s) \in Moves
  BY DEF Runs
<1>2. PICK L : L[1] = a /\ L[Len(s) + 1] = b /\ \A i \in 1 .. Len(s) : <<L[i], s[i], L[i + 1]>> \in R
  BY DEF Runs
<1> DEFINE K == [i \in 1 .. Len(s) |-> L[i + 1]]
<1>3. <<a, Head(s), L[2]>> \in R
  <2>1. 1 \in 1 .. Len(s) /\ 1 + 1 = 2
    BY <1>1
  <2>. QED BY <1>1, <1>2, <2>1
<1>4. \A i \in 1 .. Len(s) : K[i] = L[i + 1]
  OBVIOUS
<1> HIDE DEF K
<1>5. K[1] = L[2] /\ K[Len(Tail(s)) + 1] = b
  <2>1. 1 \in 1 .. Len(s) /\ 1 + 1 = 2 /\ Len(Tail(s)) + 1 = Len(s) /\ Len(s) \in 1 .. Len(s)
    BY <1>1
  <2>. QED BY <1>2, <1>4, <2>1
<1>6. ASSUME NEW i \in 1 .. Len(Tail(s))  PROVE <<K[i], Tail(s)[i], K[i + 1]>> \in R
  <2>1. i \in 1 .. Len(s) - 1 /\ i \in 1 .. Len(s) /\ i + 1 \in 1 .. Len(s)
    BY <1>1
  <2>. QED BY <1>1, <1>2, <1>4, <2>1
<1>7. Runs(R, Tail(s), L[2], b)
  BY <1>1, <1>5, <1>6 DEF Runs
<1>. QED BY <1>1, <1>3, <1>7

----------------------------------------------------------------------------
(* The flags along every program.                                          *)
FLabels == {"start", "ready", "clean", "sixteen", "page", "loaded", "begun", "waited", "must", "end"}

Immediate == {"wren", "wrdi", "b4", "rdsr", "id", "vcr"}
Addressed == {"ida", "read", "erase"}
Silent    == {"take", "note", "ifret"}

(* From "start" a command may be begun, by CCR or ("ready") by AR; "begun" *)
(* it is waited for, and the flag is reset before the next.  A page        *)
(* program goes its own way: DLR is set ("sixteen"), then CCR ("page"),    *)
(* then the data come ("loaded").                                          *)
FStep(a, e, b) ==
  \/ a = "start" /\ e.do = "ccr" /\ e.cmd \in Immediate /\ b = "begun"
  \/ a = "start" /\ e.do = "ccr" /\ e.cmd \in Addressed /\ b = "ready"
  \/ a = "start" /\ e.do = "ccr" /\ e.cmd = "mmap" /\ b = "start"
  \/ a = "start" /\ e.do \in Silent \union {"dlr", "dr", "reset", "abort", "ifid", "poll"} /\ b = "start"
  \/ a = "start" /\ e.do \in {"return0", "status"} /\ b = "end"
  \/ a = "ready" /\ e.do = "dlr" /\ b = "ready"
  \/ a = "ready" /\ e.do = "ar" /\ b = "begun"
  \/ a = "begun" /\ e.do = "wait" /\ b = "waited"
  \/ a = "waited" /\ e.do \in Silent /\ b = "waited"
  \/ a = "waited" /\ e.do = "ifid" /\ b = "must"
  \/ a \in {"waited", "must"} /\ e.do = "reset" /\ b \in {"start", "clean"}
  \/ a = "clean" /\ e.do = "dlr" /\ e.len = 16 /\ b = "sixteen"
  \/ a = "sixteen" /\ e.do = "ccr" /\ e.cmd = "prog" /\ b = "page"
  \/ a = "page" /\ e.do = "ar" /\ b = "page"
  \/ a \in {"page", "loaded"} /\ e.do = "dr" /\ b = "loaded"
  \/ a = "loaded" /\ e.do = "wait" /\ b = "waited"
FRel == {t \in FLabels \X Moves \X FLabels : FStep(t[1], t[2], t[3])}

(* The steps, as elements of programs.                                     *)
LEMMA MoveKinds ==
  /\ \A c \in DOMAIN Commands : [do |-> "ccr", cmd |-> c] \in Moves
  /\ \A n \in 1 .. Size : [do |-> "dlr", len |-> n] \in Moves /\ [do |-> "dr", len |-> n] \in Moves
  /\ \A x \in Plain : [do |-> x] \in Moves
  BY DEF Moves

(* A step as a program.                                                    *)
LEMMA FOne ==
  /\ \A c \in DOMAIN Commands, a, b \in FLabels :
       FStep(a, [do |-> "ccr", cmd |-> c], b) => Runs(FRel, Ccr(c), a, b)
  /\ \A n \in 1 .. Size, a, b \in FLabels :
       /\ FStep(a, [do |-> "dlr", len |-> n], b) => Runs(FRel, Dlr(n), a, b)
       /\ FStep(a, [do |-> "dr", len |-> n], b) => Runs(FRel, Dr(n), a, b)
  /\ \A x \in Plain, a, b \in FLabels : FStep(a, [do |-> x], b) => Runs(FRel, Step(x), a, b)
<1>1. \A a, b \in FLabels, e \in Moves : FStep(a, e, b) => Runs(FRel, <<e>>, a, b)
  <2> TAKE a, b \in FLabels, e \in Moves
  <2> HAVE FStep(a, e, b)
  <2>1. <<a, e, b>> \in FRel
    BY DEF FRel
  <2>. QED BY <2>1, RunsOne
<1>. QED BY <1>1, MoveKinds, Zenon DEF Ccr, Dlr, Dr, Step

(* What each step does to the labels.                                      *)
LEMMA FMoves ==
  /\ \A c \in Immediate : Runs(FRel, Ccr(c), "start", "begun")
  /\ \A c \in Addressed : Runs(FRel, Ccr(c), "start", "ready")
  /\ Runs(FRel, Ccr("mmap"), "start", "start")
  /\ \A n \in 1 .. Size : Runs(FRel, Dlr(n), "start", "start") /\ Runs(FRel, Dlr(n), "ready", "ready")
                          /\ Runs(FRel, Dr(n), "start", "start")
  /\ \A x \in {"take", "note", "ifret"} :
       Runs(FRel, Step(x), "start", "start") /\ Runs(FRel, Step(x), "waited", "waited")
  /\ \A x \in {"reset", "ifid", "poll", "abort"} : Runs(FRel, Step(x), "start", "start")
  /\ \A x \in {"return0", "status"} : Runs(FRel, Step(x), "start", "end")
  /\ Runs(FRel, Ar, "ready", "begun") /\ Runs(FRel, Wait, "begun", "waited")
  /\ Runs(FRel, Reset, "waited", "start") /\ Runs(FRel, Reset, "waited", "clean")
  /\ Runs(FRel, IfId, "waited", "must") /\ Runs(FRel, Reset, "must", "start")
  /\ Runs(FRel, Dlr(16), "clean", "sixteen") /\ Runs(FRel, Ccr("prog"), "sixteen", "page")
  /\ Runs(FRel, Ar, "page", "page") /\ Runs(FRel, Dr(4), "page", "loaded")
  /\ Runs(FRel, Dr(4), "loaded", "loaded") /\ Runs(FRel, Wait, "loaded", "waited")
<1> USE DEF FLabels
<1>1. (\A c \in Immediate : Runs(FRel, Ccr(c), "start", "begun"))
      /\ (\A c \in Addressed : Runs(FRel, Ccr(c), "start", "ready"))
      /\ Runs(FRel, Ccr("mmap"), "start", "start")
      /\ Runs(FRel, Ccr("prog"), "sixteen", "page")
  <2>1. Immediate \union Addressed \union {"mmap", "prog"} \subseteq DOMAIN Commands
    BY DEF Immediate, Addressed, Commands
  <2>. QED BY <2>1, FOne DEF FStep, Immediate, Addressed
<1>2. /\ \A n \in 1 .. Size : Runs(FRel, Dlr(n), "start", "start") /\ Runs(FRel, Dlr(n), "ready", "ready")
                              /\ Runs(FRel, Dr(n), "start", "start")
      /\ Runs(FRel, Dlr(16), "clean", "sixteen")
      /\ Runs(FRel, Dr(4), "page", "loaded") /\ Runs(FRel, Dr(4), "loaded", "loaded")
  <2>1. 4 \in 1 .. Size /\ 16 \in 1 .. Size
    BY DEF Size
  <2>. QED BY <2>1, FOne DEF FStep
<1>3. \A x \in {"take", "note", "ifret"} :
       Runs(FRel, Step(x), "start", "start") /\ Runs(FRel, Step(x), "waited", "waited")
  BY FOne DEF FStep, Silent, Plain
<1>4. \A x \in {"reset", "ifid", "poll", "abort"} : Runs(FRel, Step(x), "start", "start")
  BY FOne DEF FStep, Plain
<1>5. \A x \in {"return0", "status"} : Runs(FRel, Step(x), "start", "end")
  BY FOne DEF FStep, Plain
<1>6. /\ Runs(FRel, Ar, "ready", "begun") /\ Runs(FRel, Wait, "begun", "waited")
      /\ Runs(FRel, Reset, "waited", "start") /\ Runs(FRel, Reset, "waited", "clean")
      /\ Runs(FRel, IfId, "waited", "must") /\ Runs(FRel, Reset, "must", "start")
      /\ Runs(FRel, Ar, "page", "page") /\ Runs(FRel, Wait, "loaded", "waited")
  BY FOne DEF FStep, Plain, Ar, Wait, Reset, IfId
<1>. QED BY <1>1, <1>2, <1>3, <1>4, <1>5, <1>6

(* What the programs have in common.                                       *)
LEMMA FBlocks ==
  /\ Runs(FRel, micron_write_enable, "start", "waited")
  /\ Runs(FRel, micron_enable_4byte_addressing, "start", "waited")
  /\ Runs(FRel, micron_configure_xip_volatile, "start", "waited")
  /\ Runs(FRel, flashReadStatusRegister, "start", "start")
  /\ Runs(FRel, cypressReadStatusRegister, "start", "start")
  /\ Runs(FRel, WriteEnabled, "start", "start") /\ Runs(FRel, WriteEnabled, "start", "clean")
  /\ \A d : Runs(FRel, wait_for_wip(d), "start", "start")
<1>1. Runs(FRel, micron_write_enable, "start", "waited")
  <2>1. /\ Runs(FRel, Ccr("wren"), "start", "begun") /\ Runs(FRel, Wait, "begun", "waited")
        /\ Runs(FRel, IfRet, "waited", "waited")
    BY FMoves DEF Size, Immediate, Addressed, IfRet
  <2>. QED BY <2>1, RunsConcat, Zenon DEF micron_write_enable
<1>2. Runs(FRel, micron_enable_4byte_addressing, "start", "waited")
  <2>1. /\ Runs(FRel, Ccr("b4"), "start", "begun") /\ Runs(FRel, Wait, "begun", "waited")
        /\ Runs(FRel, IfRet, "waited", "waited")
    BY FMoves DEF Size, Immediate, Addressed, IfRet
  <2>. QED BY <2>1, RunsConcat, Zenon DEF micron_enable_4byte_addressing
<1>3. Runs(FRel, micron_configure_xip_volatile, "start", "waited")
  <2>1. /\ Runs(FRel, Dlr(1), "start", "start") /\ Runs(FRel, Dr(1), "start", "start")
        /\ Runs(FRel, Ccr("vcr"), "start", "begun") /\ Runs(FRel, Wait, "begun", "waited")
        /\ Runs(FRel, Take, "waited", "waited") /\ Runs(FRel, IfRet, "waited", "waited")
    BY FMoves DEF Size, Immediate, Addressed, Take, IfRet
  <2>. QED BY <2>1, RunsConcat, Zenon DEF micron_configure_xip_volatile
<1>4. Runs(FRel, flashReadStatusRegister, "start", "start")
  <2>1. /\ Runs(FRel, Dlr(4), "start", "start") /\ Runs(FRel, Ccr("rdsr"), "start", "begun")
        /\ Runs(FRel, Wait, "begun", "waited") /\ Runs(FRel, Take, "waited", "waited")
        /\ Runs(FRel, Reset, "waited", "start") /\ Runs(FRel, NoteFail, "start", "start")
    BY FMoves DEF Size, Immediate, Addressed, Take, Reset, NoteFail
  <2>. QED BY <2>1, RunsConcat, Zenon DEF flashReadStatusRegister
<1>5. Runs(FRel, cypressReadStatusRegister, "start", "start")
  <2>1. /\ Runs(FRel, Dlr(4), "start", "start") /\ Runs(FRel, Ccr("rdsr"), "start", "begun")
        /\ Runs(FRel, Wait, "begun", "waited") /\ Runs(FRel, NoteFail, "waited", "waited")
        /\ Runs(FRel, Reset, "waited", "start") /\ Runs(FRel, Take, "start", "start")
    BY FMoves DEF Size, Immediate, Addressed, NoteFail, Reset, Take
  <2>. QED BY <2>1, RunsConcat, Zenon DEF cypressReadStatusRegister
<1>6. Runs(FRel, WriteEnabled, "start", "start") /\ Runs(FRel, WriteEnabled, "start", "clean")
  BY <1>1, FMoves, RunsConcat DEF WriteEnabled, Reset
<1>7. \A d : Runs(FRel, wait_for_wip(d), "start", "start")
  <2>1. Runs(FRel, Poll, "start", "start")
    BY FMoves DEF Poll
  <2>. QED BY <1>4, <1>5, <2>1, RunsConcat DEF wait_for_wip
<1>. QED BY <1>1, <1>2, <1>3, <1>4, <1>5, <1>6, <1>7

(* The programs.                                                           *)
LEMMA FProgs ==
  /\ Runs(FRel, flashIdentificationDevice, "start", "end")
  /\ Runs(FRel, flashEnable4ByteAddressingMode, "start", "end")
  /\ Runs(FRel, flashReadSingleSPI, "start", "end")
  /\ Runs(FRel, flashReadQuadSPI, "start", "end")
  /\ Runs(FRel, flashWriteVolatileConfigReg, "start", "start")
  /\ Runs(FRel, flash_Write_disable, "start", "end")
  /\ Runs(FRel, flashSingleSPIXip, "start", "end")
  /\ Runs(FRel, issiIdentification, "start", "end")
  /\ Runs(FRel, cypressflashIdentification, "start", "end")
  /\ Runs(FRel, setVCR, "start", "end")
  /\ Runs(FRel, cypressEnterXIP, "start", "end")
  /\ Runs(FRel, cypressExitXIP, "start", "end")
  /\ \A d : Runs(FRel, eraseSector(d), "start", "end")
  /\ \A d : Runs(FRel, PageProgram(d), "start", "end")
  /\ Runs(FRel, flashQuadSPIXip, "start", "end")
<1>1. Runs(FRel, flashIdentificationDevice, "start", "end")
  <2>1. /\ Runs(FRel, Dlr(4), "start", "start") /\ Runs(FRel, Ccr("ida"), "start", "ready")
        /\ Runs(FRel, Ar, "ready", "begun") /\ Runs(FRel, Wait, "begun", "waited")
        /\ Runs(FRel, Take, "waited", "waited") /\ Runs(FRel, Reset, "waited", "start")
        /\ Runs(FRel, IfId, "start", "start") /\ Runs(FRel, Return0, "start", "end")
    BY FMoves, FBlocks DEF Size, Immediate, Addressed, Take, Reset, IfId, Return0
  <2>. QED BY <2>1, RunsConcat, Zenon DEF flashIdentificationDevice
<1>2. Runs(FRel, flashEnable4ByteAddressingMode, "start", "end")
  <2>1. /\ Runs(FRel, Ccr("wren"), "start", "begun") /\ Runs(FRel, Wait, "begun", "waited")
        /\ Runs(FRel, Reset, "waited", "start") /\ Runs(FRel, IfRet, "start", "start")
        /\ Runs(FRel, Ccr("b4"), "start", "begun")
        /\ Runs(FRel, flashReadStatusRegister, "start", "start")
        /\ Runs(FRel, Return0, "start", "end")
    BY FMoves, FBlocks DEF Size, Immediate, Addressed, Reset, IfRet, Return0
  <2>. QED BY <2>1, RunsConcat, Zenon DEF flashEnable4ByteAddressingMode
<1>3. Runs(FRel, flashReadSingleSPI, "start", "end")
  <2>1. /\ Runs(FRel, Dlr(4), "start", "start") /\ Runs(FRel, Ccr("read"), "start", "ready")
        /\ Runs(FRel, Ar, "ready", "begun") /\ Runs(FRel, Wait, "begun", "waited")
        /\ Runs(FRel, Take, "waited", "waited") /\ Runs(FRel, IfRet, "waited", "waited")
        /\ Runs(FRel, Reset, "waited", "start") /\ Runs(FRel, Return0, "start", "end")
    BY FMoves, FBlocks DEF Size, Immediate, Addressed, Take, IfRet, Reset, Return0
  <2>. QED BY <2>1, RunsConcat, Zenon DEF flashReadSingleSPI
<1>4. Runs(FRel, flashReadQuadSPI, "start", "end")
  <2>1. /\ Runs(FRel, Dlr(16), "start", "start") /\ Runs(FRel, Ccr("read"), "start", "ready")
        /\ Runs(FRel, Ar, "ready", "begun") /\ Runs(FRel, Wait, "begun", "waited")
        /\ Runs(FRel, Take, "waited", "waited") /\ Runs(FRel, IfRet, "waited", "waited")
        /\ Runs(FRel, Reset, "waited", "start") /\ Runs(FRel, Return0, "start", "end")
    BY FMoves, FBlocks DEF Size, Immediate, Addressed, Take, IfRet, Reset, Return0
  <2>. QED BY <2>1, RunsConcat, Zenon DEF flashReadQuadSPI
<1>5. Runs(FRel, flashWriteVolatileConfigReg, "start", "start")
  <2>1. /\ Runs(FRel, WriteEnabled, "start", "start") /\ Runs(FRel, Dlr(1), "start", "start")
        /\ Runs(FRel, Dr(1), "start", "start") /\ Runs(FRel, Ccr("vcr"), "start", "begun")
        /\ Runs(FRel, Wait, "begun", "waited") /\ Runs(FRel, Take, "waited", "waited")
        /\ Runs(FRel, Reset, "waited", "start") /\ Runs(FRel, IfRet, "start", "start")
    BY FMoves, FBlocks DEF Size, Immediate, Addressed, Take, Reset, IfRet
  <2>. QED BY <2>1, RunsConcat, Zenon DEF flashWriteVolatileConfigReg
<1>6. Runs(FRel, flash_Write_disable, "start", "end")
  <2>1. /\ Runs(FRel, Ccr("wrdi"), "start", "begun") /\ Runs(FRel, Wait, "begun", "waited")
        /\ Runs(FRel, Reset, "waited", "start")
        /\ Runs(FRel, wait_for_wip("micron"), "start", "start")
        /\ Runs(FRel, ReturnStatus, "start", "end")
    BY FMoves, FBlocks DEF Size, Immediate, Addressed, Reset, ReturnStatus
  <2>. QED BY <2>1, RunsConcat, Zenon DEF flash_Write_disable
<1>7. Runs(FRel, flashSingleSPIXip, "start", "end")
  <2>1. /\ Runs(FRel, Ccr("read"), "start", "ready") /\ Runs(FRel, Dlr(4), "ready", "ready")
        /\ Runs(FRel, Ar, "ready", "begun") /\ Runs(FRel, Wait, "begun", "waited")
        /\ Runs(FRel, Take, "waited", "waited") /\ Runs(FRel, Reset, "waited", "start")
        /\ Runs(FRel, Ccr("mmap"), "start", "start") /\ Runs(FRel, Return0, "start", "end")
    BY FMoves, FBlocks DEF Size, Immediate, Addressed, Take, Reset, Return0
  <2>. QED BY <2>1, RunsConcat, Zenon DEF flashSingleSPIXip
<1>8. Runs(FRel, issiIdentification, "start", "end")
  <2>1. /\ Runs(FRel, Dlr(4), "start", "start") /\ Runs(FRel, Ccr("id"), "start", "begun")
        /\ Runs(FRel, Wait, "begun", "waited") /\ Runs(FRel, Take, "waited", "waited")
        /\ Runs(FRel, Reset, "waited", "start") /\ Runs(FRel, Return0, "start", "end")
    BY FMoves, FBlocks DEF Size, Immediate, Addressed, Take, Reset, Return0
  <2>. QED BY <2>1, RunsConcat, Zenon DEF issiIdentification
<1>9. Runs(FRel, cypressflashIdentification, "start", "end")
  <2>1. /\ Runs(FRel, WriteEnabled, "start", "start") /\ Runs(FRel, Dlr(4), "start", "start")
        /\ Runs(FRel, Ccr("id"), "start", "begun") /\ Runs(FRel, Wait, "begun", "waited")
        /\ Runs(FRel, Take, "waited", "waited") /\ Runs(FRel, IfId, "waited", "must")
        /\ Runs(FRel, Reset, "must", "start") /\ Runs(FRel, IfRet, "start", "start")
        /\ Runs(FRel, Return0, "start", "end")
    BY FMoves, FBlocks DEF Size, Immediate, Addressed, Take, IfId, Reset, IfRet, Return0
  <2>. QED BY <2>1, RunsConcat, Zenon DEF cypressflashIdentification
<1>10. Runs(FRel, setVCR, "start", "end")
  <2>1. /\ Runs(FRel, WriteEnabled, "start", "start") /\ Runs(FRel, Dlr(2), "start", "start")
        /\ Runs(FRel, Dr(1), "start", "start") /\ Runs(FRel, Ccr("vcr"), "start", "begun")
        /\ Runs(FRel, Wait, "begun", "waited") /\ Runs(FRel, Take, "waited", "waited")
        /\ Runs(FRel, Reset, "waited", "start")
        /\ Runs(FRel, wait_for_wip("cypress"), "start", "start")
        /\ Runs(FRel, ReturnStatus, "start", "end")
    BY FMoves, FBlocks DEF Size, Immediate, Addressed, Take, Reset, ReturnStatus
  <2>. QED BY <2>1, RunsConcat, Zenon DEF setVCR
<1>11. Runs(FRel, cypressEnterXIP, "start", "end")
  <2>1. /\ Runs(FRel, Dlr(4), "start", "start") /\ Runs(FRel, Ccr("read"), "start", "ready")
        /\ Runs(FRel, Ar, "ready", "begun") /\ Runs(FRel, Wait, "begun", "waited")
        /\ Runs(FRel, Take, "waited", "waited") /\ Runs(FRel, Reset, "waited", "start")
        /\ Runs(FRel, Ccr("mmap"), "start", "start") /\ Runs(FRel, Return0, "start", "end")
    BY FMoves, FBlocks DEF Size, Immediate, Addressed, Take, Reset, Return0
  <2>. QED BY <2>1, RunsConcat, Zenon DEF cypressEnterXIP
<1>12. Runs(FRel, cypressExitXIP, "start", "end")
  <2>1. Runs(FRel, Step("abort"), "start", "start") /\ Runs(FRel, Return0, "start", "end")
    BY FMoves, FBlocks DEF Size, Immediate, Addressed, Return0
  <2>. QED BY <2>1, RunsConcat, Zenon DEF cypressExitXIP
<1>13. \A d : Runs(FRel, eraseSector(d), "start", "end")
  <2> TAKE d
  <2>1. /\ Runs(FRel, WriteEnabled, "start", "start")
        /\ Runs(FRel, Ccr("erase"), "start", "ready") /\ Runs(FRel, Ar, "ready", "begun")
        /\ Runs(FRel, Wait, "begun", "waited") /\ Runs(FRel, Reset, "waited", "start")
        /\ Runs(FRel, wait_for_wip(d), "start", "start")
        /\ Runs(FRel, ReturnStatus, "start", "end")
    BY FMoves, FBlocks DEF Size, Immediate, Addressed, Reset, ReturnStatus
  <2>. QED BY <2>1, RunsConcat, Zenon DEF eraseSector
<1>14. \A d : Runs(FRel, PageProgram(d), "start", "end")
  <2> TAKE d
  <2>1. /\ Runs(FRel, WriteEnabled, "start", "clean")
        /\ Runs(FRel, Dlr(16), "clean", "sixteen")
        /\ Runs(FRel, Ccr("prog"), "sixteen", "page") /\ Runs(FRel, Ar, "page", "page")
        /\ Runs(FRel, Dr(4), "page", "loaded") /\ Runs(FRel, Dr(4), "loaded", "loaded")
        /\ Runs(FRel, Wait, "loaded", "waited") /\ Runs(FRel, Reset, "waited", "start")
        /\ Runs(FRel, wait_for_wip(d), "start", "start")
        /\ Runs(FRel, ReturnStatus, "start", "end")
    BY FMoves, FBlocks DEF Size, Immediate, Addressed, Reset, ReturnStatus
  <2>. QED BY <2>1, RunsConcat, Zenon DEF PageProgram
<1>15. Runs(FRel, flashQuadSPIXip, "start", "end")
  <2>1. Runs(FRel, Reset, "start", "start")
    BY FMoves DEF Reset
  <2>. QED BY <1>5, <1>7, <2>1, FBlocks, RunsConcat DEF flashQuadSPIXip
<1>. QED BY <1>1, <1>2, <1>3, <1>4, <1>5, <1>6, <1>7, <1>8, <1>9, <1>10, <1>11, <1>12, <1>13, <1>14, <1>15

(* Every function of every driver.                                         *)
LEMMA FFunctions ==
  \A d \in DOMAIN Functions : \A f \in DOMAIN Functions[d] : Runs(FRel, Functions[d][f], "start", "end")
<1>1. /\ Runs(FRel, IfRet, "start", "start") /\ Runs(FRel, Return0, "start", "end")
      /\ Runs(FRel, Reset, "waited", "start") /\ Runs(FRel, Dlr(4), "start", "start")
      /\ Runs(FRel, Ccr("id"), "start", "begun") /\ Runs(FRel, Wait, "begun", "waited")
      /\ Runs(FRel, Take, "waited", "waited")
  BY FMoves DEF Size, Immediate, IfRet, Return0, Reset, Take
<1>2. \A f \in DOMAIN Micron : Runs(FRel, Micron[f], "start", "end")
  <2>1. /\ Runs(FRel, flashReadStatusRegister \o IfRet \o Return0, "start", "end")
        /\ Runs(FRel, flashWriteVolatileConfigReg \o Return0, "start", "end")
    BY <1>1, FBlocks, FProgs, RunsConcat
  <2>2. /\ Micron["status"] = flashReadStatusRegister \o IfRet \o Return0
        /\ Micron["setVcr"] = flashWriteVolatileConfigReg \o Return0
    BY DEF Micron
  <2>3. \A f \in DOMAIN Micron : f \notin {"status", "setVcr"} => Runs(FRel, Micron[f], "start", "end")
    BY FProgs DEF Micron
  <2>. QED BY <2>1, <2>2, <2>3
<1>3. \A f \in DOMAIN Issi : Runs(FRel, Issi[f], "start", "end")
  BY <1>2, FProgs DEF Issi, Micron
<1>4. \A f \in DOMAIN Cypress : Runs(FRel, Cypress[f], "start", "end")
  BY FProgs DEF Cypress
<1>5. \A f \in DOMAIN Dma : Runs(FRel, Dma[f], "start", "end")
  <2>1. Runs(FRel, WriteEnabled \o Return0, "start", "end")
    BY <1>1, FBlocks, RunsConcat
  <2>2. Runs(FRel, Dlr(4) \o Ccr("id") \o Wait \o Take \o Reset \o Return0, "start", "end")
    BY <1>1, RunsConcat, Zenon
  <2>3. Runs(FRel, micron_enable_4byte_addressing \o Reset \o Return0, "start", "end")
    BY <1>1, FBlocks, RunsConcat, Zenon
  <2>4. Runs(FRel, WriteEnabled \o micron_configure_xip_volatile \o Reset \o Return0, "start", "end")
    BY <1>1, FBlocks, RunsConcat, Zenon
  <2>5. /\ Dma["enable"] = WriteEnabled \o Return0
        /\ Dma["identify"] = Dlr(4) \o Ccr("id") \o Wait \o Take \o Reset \o Return0
        /\ Dma["fourByte"] = micron_enable_4byte_addressing \o Reset \o Return0
        /\ Dma["setVcr"] = WriteEnabled \o micron_configure_xip_volatile \o Reset \o Return0
        /\ Dma["xip"] = flashSingleSPIXip
        /\ DOMAIN Dma = {"enable", "identify", "fourByte", "setVcr", "xip"}
    BY DEF Dma
  <2>. QED BY <2>1, <2>2, <2>3, <2>4, <2>5, FProgs
<1>. QED BY <1>2, <1>3, <1>4, <1>5 DEF Functions

----------------------------------------------------------------------------
(* What is known at a label, as long as no wait has given up on a command  *)
(* under way: where the controller stands.  "Skipped" is the state the     *)
(* Cypress identification leaves.                                          *)
Clear == phase = "Idle" /\ ~busy /\ ~tcf
Held  == phase = "Idle" /\ ~busy /\ tcf
Going == phase = "Active" /\ busy /\ ~tcf
Stuck == skipped /\ Wedged /\ ~tcf
Skipped == skipped /\ (Wedged \/ Held)

Begins == {Command(TRUE, TRUE, "rd"), Command(TRUE, FALSE, "wr")}

FMeans(l) ==
  /\ l \in {"start", "end"} => Clear \/ Skipped
  /\ l = "ready"   => (Clear /\ Commands[ccr] \in Begins) \/ Skipped
  /\ l = "clean"   => Clear \/ Stuck
  /\ l = "sixteen" => (Clear /\ dlr = 16) \/ Stuck
  /\ l = "page"    => (Clear /\ dlr = 16 /\ ccr = "prog") \/ Stuck
  /\ l = "loaded"  => (phase = "DataWait" /\ ~busy /\ ~tcf /\ dlr = 16) \/ Stuck
  /\ l = "begun"   => Going \/ Held \/ (skipped /\ Wedged)
  /\ l \in {"waited", "must"} => ~ret /\ (Held \/ (skipped /\ Wedged))
  /\ l \notin {"page", "loaded"} => ccr # "prog"

(* What is left of the function runs to its end, from a label that means   *)
(* what it should.                                                         *)
FlagsInv == \E l \in FLabels : Runs(FRel, todo, l, "end") /\ (~late => FMeans(l))

(* The types of the driver's variables, beside TypeOK.                     *)
DriverTypes ==
  /\ driver \in DOMAIN Functions /\ odd \in BOOLEAN /\ ret \in BOOLEAN /\ status \in BOOLEAN
  /\ fail_bit \in BOOLEAN /\ late \in BOOLEAN /\ skipped \in BOOLEAN /\ gaveUp \in BOOLEAN
  /\ failedAt \in BOOLEAN /\ wedgedAt \in BOOLEAN /\ jobAt \in BOOLEAN /\ stale \in BOOLEAN

StartInv == TypeOK /\ DriverTypes /\ FlagsInv

(* Only the empty program is at its end.                                   *)
LEMMA FEnd ==
  ASSUME NEW s, NEW l, Runs(FRel, s, l, "end")
  PROVE  s = <<>> <=> l = "end"
<1>1. ASSUME s = <<>>  PROVE l = "end"
  BY <1>1, RunsEmpty
<1>2. ASSUME s # <<>>  PROVE l # "end"
  <2>1. PICK c : <<l, Head(s), c>> \in FRel
    BY <1>2, RunsTail
  <2>. QED BY <2>1 DEF FRel, FStep
<1>. QED BY <1>1, <1>2

(* The step a function takes next.                                         *)
LEMMA FHead ==
  ASSUME StartInv, result = "running"
  PROVE  /\ Head(todo) \in Moves
         /\ \E l, c \in FLabels :
              /\ FStep(l, Head(todo), c) /\ Runs(FRel, Tail(todo), c, "end")
              /\ ~late => FMeans(l)
<1>1. todo # <<>>
  BY DEF StartInv, TypeOK
<1>2. PICK l \in FLabels : Runs(FRel, todo, l, "end") /\ (~late => FMeans(l))
  BY DEF StartInv, FlagsInv
<1>3. PICK c : <<l, Head(todo), c>> \in FRel /\ Runs(FRel, Tail(todo), c, "end")
  BY <1>1, <1>2, RunsTail
<1>4. Head(todo) \in Moves
  BY <1>1, <1>2, RunsTail
<1>5. c \in FLabels /\ FStep(l, Head(todo), c)
  BY <1>3 DEF FRel
<1>. QED BY <1>2, <1>3, <1>4, <1>5

(* The words taken from the FIFO.                                          *)
LEMMA TakenType ==
  ASSUME fifo \in Seq(Byte)
  PROVE  /\ Taken \in 0 .. 4 /\ Taken <= Len(fifo)
         /\ SubSeq(fifo, 1, Taken) \in Seq(Byte) /\ Len(SubSeq(fifo, 1, Taken)) = Taken
         /\ SubSeq(fifo, Taken + 1, Len(fifo)) \in Seq(Byte)
         /\ Len(SubSeq(fifo, Taken + 1, Len(fifo))) = Len(fifo) - Taken
<1> DEFINE Fits(n) == n <= Len(fifo) /\ \A m \in {4, 2, 1} : m <= Len(fifo) => m <= n
<1>1. Len(fifo) \in Nat
  OBVIOUS
<1>2. \E n \in {4, 2, 1, 0} : Fits(n)
  <2>1. CASE Len(fifo) >= 4
    BY <2>1
  <2>2. CASE Len(fifo) \in {2, 3}
    BY <2>2
  <2>3. CASE Len(fifo) = 1
    BY <2>3
  <2>4. CASE Len(fifo) = 0
    BY <2>4
  <2>. QED BY <1>1, <2>1, <2>2, <2>3, <2>4
<1>3. Taken \in {4, 2, 1, 0} /\ Fits(Taken)
  <2>1. Taken = CHOOSE n \in {4, 2, 1, 0} : Fits(n)
    BY DEF Taken
  <2> HIDE DEF Fits
  <2>. QED BY <1>2, <2>1, Zenon
<1>4. Taken \in 0 .. 4 /\ Taken <= Len(fifo)
  BY <1>3
<1>. QED BY <1>1, <1>4, SubSeqProperties

(* The types survive every step of the controller and of the driver; for   *)
(* the driver's, what is left to do apart.                                 *)
RunningInv == result = "running" <=> todo # <<>>
CtrlTypes ==
  /\ busy \in BOOLEAN /\ phase \in {"Idle", "DataWait", "Active"} /\ tcf \in BOOLEAN
  /\ ccr \in DOMAIN Commands /\ dlr \in 0 .. Size
  /\ fifo \in Seq(Byte) /\ Len(fifo) <= Size /\ broken \in BOOLEAN
  /\ busy => phase = "Active"
FlashTypes == wel \in BOOLEAN /\ job \in Jobs \cup {"none"} /\ err \in BOOLEAN /\ done \subseteq Jobs
WordTypes == word \in Seq(Byte) /\ Len(word) <= 4

LEMMA TypesParts == TypeOK <=> CtrlTypes /\ FlashTypes /\ WordTypes /\ RunningInv
  BY DEF TypeOK, CtrlTypes, FlashTypes, WordTypes, RunningInv

(* Bytes as the flash and the driver make them.                            *)
LEMMA Bytes ==
  /\ \A of \in {"id", "rdsr", "read", "data", "none"}, b \in BOOLEAN :
       Data(of, b) \in Byte /\ [Data(of, b) EXCEPT !.fresh = FALSE] \in Byte
  /\ \A b, e \in BOOLEAN : [Data("rdsr", b) EXCEPT !.err = e] \in Byte
  /\ \A b \in Byte : [b EXCEPT !.fresh = FALSE] \in Byte
  /\ \A n \in Nat, b \in Byte : Repeat(n, b) \in Seq(Byte) /\ Len(Repeat(n, b)) = n
<1>1. \A of \in {"id", "rdsr", "read", "data", "none"}, b \in BOOLEAN : Data(of, b) \in Byte
  BY DEF Data, Byte
<1>2. \A b \in Byte : [b EXCEPT !.fresh = FALSE] \in Byte
  BY DEF Byte
<1>3. \A b, e \in BOOLEAN : [Data("rdsr", b) EXCEPT !.err = e] \in Byte
  BY DEF Data, Byte
<1>4. \A n \in Nat, b \in Byte : Repeat(n, b) \in Seq(Byte) /\ Len(Repeat(n, b)) = n
  BY DEF Repeat
<1>. QED BY <1>1, <1>2, <1>3, <1>4

(* A function of 1 .. n is a sequence of that length.                      *)
LEMMA OfLength ==
  ASSUME NEW S, NEW n \in Nat, NEW f, \A i \in 1 .. n : f[i] \in S, f = [i \in 1 .. n |-> f[i]]
  PROVE  f \in Seq(S) /\ Len(f) = n
<1>1. f \in [1 .. n -> S]
  OBVIOUS
<1>. QED BY <1>1, SeqDef

(* A register access.                                                      *)
LEMMA AccessTypes ==
  ASSUME CtrlTypes, odd \in BOOLEAN, result = "running" => Head(todo) \in Moves, Access
  PROVE  CtrlTypes'
<1> USE DEF CtrlTypes
<1>1. result = "running" /\ Head(todo) \in Moves
  BY DEF Access, At
<1>2. CASE At("ccr") /\ WriteCcr(Head(todo).cmd)
  <2>1. Head(todo).cmd \in DOMAIN Commands
    BY <1>1, <1>2 DEF At, Moves, Plain
  <2>2. fifo' \in Seq(Byte) /\ Len(fifo') = Len(fifo)
    <3>1. Len(fifo) \in Nat /\ DOMAIN fifo = 1 .. Len(fifo) /\ \A i \in 1 .. Len(fifo) : fifo[i] \in Byte
      OBVIOUS
    <3>2. fifo' = [i \in 1 .. Len(fifo) |-> [fifo[i] EXCEPT !.fresh = FALSE]]
      BY <1>2, <3>1 DEF WriteCcr
    <3>. QED BY <3>1, <3>2, Bytes, OfLength
  <2>. QED BY <1>2, <2>1, <2>2 DEF WriteCcr, Begin
<1>3. CASE At("dlr") /\ WriteDlr(Head(todo).len)
  <2>1. Head(todo).len \in 1 .. Size
    BY <1>1, <1>3 DEF At, Moves, Plain
  <2>. QED BY <1>3, <2>1 DEF WriteDlr, Size
<1>4. CASE At("ar") /\ WriteAr
  BY <1>4 DEF WriteAr, Begin
<1>5. CASE At("dr") /\ WriteDr(Repeat(Head(todo).len, Data("data", odd)))
  <2>1. Head(todo).len \in Nat
    BY <1>1, <1>5 DEF At, Moves, Plain
  <2>2. Repeat(Head(todo).len, Data("data", odd)) \in Seq(Byte)
        /\ Len(Repeat(Head(todo).len, Data("data", odd))) \in Nat
    BY <2>1, Bytes
  <2>3. fifo' \in Seq(Byte) /\ Len(fifo') <= Size
    BY <1>5, <2>2 DEF WriteDr, FifoWith, Size
  <2>. QED BY <1>5, <2>3 DEF WriteDr
<1>6. CASE At("reset") /\ ClearFlags
  BY <1>6 DEF ClearFlags
<1>7. CASE At("abort") /\ Abort
  <2>1. <<>> \in Seq(Byte) /\ Len(<<>>) = 0
    BY EmptySeq
  <2>2. fifo' \in Seq(Byte) /\ Len(fifo') <= Size
    BY <1>7, <2>1 DEF Abort, Size
  <2>. QED BY <1>7, <2>2 DEF Abort
<1>. QED BY <1>2, <1>3, <1>4, <1>5, <1>6, <1>7 DEF Access

(* A step of the controller or of the flash.                               *)
LEMMA ControllerTypes ==
  ASSUME CtrlTypes, FlashTypes, odd \in BOOLEAN, DataReady \/ Instruct \/ Read \/ Write \/ FlashEnds
  PROVE  CtrlTypes' /\ FlashTypes'
<1>1. CASE DataReady
  BY <1>1 DEF CtrlTypes, FlashTypes, DataReady, flashVars
<1>2. CASE Instruct
  BY <1>2 DEF CtrlTypes, FlashTypes, Instruct, Finished, Jobs
<1>3. CASE Read
  <2>1. PICK k \in {4, dlr + 1} :
          LET came == [i \in 1..(dlr + 1) |->
                         IF ccr = "rdsr"
                         THEN [Data("rdsr", job # "none" /\ i <= k) EXCEPT !.err = err]
                         ELSE Data(IF ccr \in {"id", "ida"} THEN "id" ELSE "read", odd)]
          IN  /\ k # dlr + 1 => ccr = "rdsr" /\ job # "none"
              /\ IF Len(fifo) + dlr + 1 <= Size THEN fifo' = fifo \o came /\ UNCHANGED broken
                 ELSE broken' = TRUE /\ UNCHANGED fifo
              /\ IF k # dlr + 1 THEN job' = "none" /\ sent' = <<>> /\ done' = done \cup {job}
                 ELSE UNCHANGED <<job, sent, done>>
    BY <1>3 DEF Read
  <2> DEFINE came == [i \in 1..(dlr + 1) |->
                        IF ccr = "rdsr"
                        THEN [Data("rdsr", job # "none" /\ i <= k) EXCEPT !.err = err]
                        ELSE Data(IF ccr \in {"id", "ida"} THEN "id" ELSE "read", odd)]
  <2>2. \A i \in 1 .. (dlr + 1) : came[i] \in Byte
    <3> TAKE i \in 1 .. (dlr + 1)
    <3>1. (job # "none" /\ i <= k) \in BOOLEAN /\ err \in BOOLEAN
      BY DEF FlashTypes
    <3>2. [Data("rdsr", job # "none" /\ i <= k) EXCEPT !.err = err] \in Byte
      BY <3>1, Bytes, Zenon
    <3>3. Data(IF ccr \in {"id", "ida"} THEN "id" ELSE "read", odd) \in Byte
      BY Bytes
    <3>. QED BY <3>2, <3>3
  <2>3. came \in Seq(Byte) /\ Len(came) = dlr + 1
    <3>1. dlr + 1 \in Nat /\ came = [i \in 1 .. dlr + 1 |-> came[i]]
      BY DEF CtrlTypes, Size
    <3> HIDE DEF came
    <3>. QED BY <2>2, <3>1, OfLength
  <2> HIDE DEF came
  <2>4. fifo' \in Seq(Byte) /\ Len(fifo') <= Size /\ broken' \in BOOLEAN
    <3>1. CASE Len(fifo) + dlr + 1 <= Size
      <4>1. fifo' = fifo \o came /\ broken' = broken
        BY <2>1, <3>1 DEF came
      <4>. QED BY <2>3, <3>1, <4>1 DEF CtrlTypes, Size
    <3>2. CASE ~(Len(fifo) + dlr + 1 <= Size)
      BY <2>1, <3>2 DEF CtrlTypes
    <3>. QED BY <3>1, <3>2
  <2>5. FlashTypes'
    BY <1>3, <2>1 DEF FlashTypes, Read
  <2>. QED BY <1>3, <2>4, <2>5 DEF CtrlTypes, Read, Finished
<1>4. CASE Write
  <2>1. fifo' \in Seq(Byte) /\ Len(fifo') <= Size /\ broken' \in BOOLEAN
    <3>1. CASE Len(fifo) > dlr
      <4>1. fifo' = SubSeq(fifo, dlr + 2, Len(fifo)) /\ broken' = broken
        BY <1>4, <3>1 DEF Write
      <4>2. SubSeq(fifo, dlr + 2, Len(fifo)) \in Seq(Byte)
            /\ Len(SubSeq(fifo, dlr + 2, Len(fifo))) <= Len(fifo)
        BY <3>1, SubSeqProperties DEF CtrlTypes
      <4>. QED BY <4>1, <4>2 DEF CtrlTypes, Size
    <3>2. CASE ~(Len(fifo) > dlr)
      BY <1>4, <3>2 DEF CtrlTypes, Write
    <3>. QED BY <3>1, <3>2
  <2>2. ccr \in Jobs
    BY <1>4 DEF CtrlTypes, Write, Commands, Command, Jobs
  <2>3. FlashTypes'
    BY <1>4, <2>2 DEF FlashTypes, Write
  <2>. QED BY <1>4, <2>1, <2>3 DEF CtrlTypes, Write, Finished
<1>5. CASE FlashEnds
  BY <1>5 DEF CtrlTypes, FlashTypes, FlashEnds, ctrlVars
<1>. QED BY <1>1, <1>2, <1>3, <1>4, <1>5

(* The commands the controller tells apart.                                *)
LEMMA CommandKinds ==
  /\ \A k \in Immediate : ~Commands[k].adr /\ Commands[k].mode # "mm" /\ k # "prog"
  /\ \A k \in Addressed : Commands[k] \in Begins /\ Commands[k].adr /\ k # "prog"
  /\ \A k \in DOMAIN Commands : k = "prog" <=> Commands[k] = Command(TRUE, TRUE, "wr")
  /\ Commands["prog"] \notin Begins /\ Commands["prog"].adr /\ Commands["mmap"].mode = "mm"
<1>1. /\ \A k \in Immediate : ~Commands[k].adr /\ Commands[k].mode # "mm" /\ k # "prog"
      /\ \A k \in Addressed : Commands[k].adr /\ k # "prog"
      /\ Commands["prog"].adr /\ Commands["mmap"].mode = "mm"
      /\ \A k \in DOMAIN Commands : k # "prog" =>
           ~Commands[k].adr \/ ~Commands[k].dat \/ Commands[k].mode # "wr"
  BY DEF Immediate, Addressed, Commands, Command
<1>2. /\ Command(TRUE, TRUE, "wr").adr /\ Command(TRUE, TRUE, "wr").dat
      /\ Command(TRUE, TRUE, "wr").mode = "wr"
      /\ Command(TRUE, TRUE, "rd").mode = "rd" /\ ~Command(TRUE, FALSE, "wr").dat
  BY DEF Command
<1>3. /\ Commands["ida"] = Command(TRUE, TRUE, "rd") /\ Commands["read"] = Command(TRUE, TRUE, "rd")
      /\ Commands["erase"] = Command(TRUE, FALSE, "wr") /\ Commands["prog"] = Command(TRUE, TRUE, "wr")
  BY DEF Commands
<1>4. \A k \in Addressed : Commands[k] \in Begins
  BY <1>3 DEF Addressed, Begins
<1>5. \A k \in DOMAIN Commands : k = "prog" <=> Commands[k] = Command(TRUE, TRUE, "wr")
  BY <1>1, <1>2, <1>3, Zenon
<1>6. Commands["prog"] \notin Begins
  <2>1. Command(TRUE, TRUE, "wr") # Command(TRUE, TRUE, "rd")
    BY <1>2
  <2>2. Command(TRUE, TRUE, "wr") # Command(TRUE, FALSE, "wr")
    BY <1>2, Zenon
  <2>. QED BY <1>3, <2>1, <2>2 DEF Begins
<1>. QED BY <1>1, <1>4, <1>5, <1>6

(* What a register access of the driver does to the controller's flags.    *)
LEMMA AccessFlags ==
  ASSUME StartInv, Access, NEW l \in FLabels, NEW c \in FLabels, FStep(l, Head(todo), c),
         FMeans(l)
  PROVE  FMeans(c)' /\ c # "end"
<1> DEFINE e == Head(todo)
<1>1. /\ phase \in {"Idle", "DataWait", "Active"} /\ busy \in BOOLEAN /\ tcf \in BOOLEAN
      /\ skipped' = skipped /\ ret' = ret /\ skipped \in BOOLEAN /\ ret \in BOOLEAN
      /\ FStep(l, e, c) /\ FMeans(l)
  BY DEF StartInv, TypeOK, DriverTypes, Access, ghosts
<1>2. CASE e.do = "ccr" /\ WriteCcr(e.cmd)
  <2>1. \/ l = "start" /\ e.cmd \in Immediate /\ c = "begun"
        \/ l = "start" /\ e.cmd \in Addressed /\ c = "ready"
        \/ l = "start" /\ e.cmd = "mmap" /\ c = "start"
        \/ l = "sixteen" /\ e.cmd = "prog" /\ c = "page"
    BY <1>1, <1>2 DEF FStep, Silent
  <2>2. CASE l = "start" /\ e.cmd \in Immediate /\ c = "begun"
    <3>1. ~Commands[e.cmd].adr /\ Commands[e.cmd].mode # "mm" /\ e.cmd # "prog"
      BY <2>2, CommandKinds
    <3>. QED BY <1>1, <1>2, <2>2, <3>1 DEF FMeans, WriteCcr, Begin, Clear, Held, Going, Skipped, Wedged
  <2>3. CASE l = "start" /\ e.cmd \in Addressed /\ c = "ready"
    <3>1. Commands[e.cmd] \in Begins /\ Commands[e.cmd].adr /\ e.cmd # "prog"
      BY <2>3, CommandKinds
    <3>. QED BY <1>1, <1>2, <2>3, <3>1 DEF FMeans, WriteCcr, Clear, Held, Skipped, Wedged
  <2>4. CASE l = "start" /\ e.cmd = "mmap" /\ c = "start"
    <3>1. Commands[e.cmd].mode = "mm" /\ e.cmd # "prog"
      BY <2>4, CommandKinds
    <3>. QED BY <1>1, <1>2, <2>4, <3>1 DEF FMeans, WriteCcr, Clear, Held, Skipped, Wedged
  <2>5. CASE l = "sixteen" /\ e.cmd = "prog" /\ c = "page"
    <3>1. Commands[e.cmd].adr
      BY <2>5, CommandKinds
    <3>. QED BY <1>1, <1>2, <2>5, <3>1 DEF FMeans, WriteCcr, Clear, Stuck, Wedged
  <2>. QED BY <2>1, <2>2, <2>3, <2>4, <2>5
<1>3. CASE e.do = "dlr" /\ WriteDlr(e.len)
  <2>1. \/ l = c /\ l \in {"start", "ready"}
        \/ l = "clean" /\ c = "sixteen" /\ e.len = 16
    BY <1>1, <1>3 DEF FStep, Silent
  <2>. QED BY <1>1, <1>3, <2>1 DEF FMeans, WriteDlr, Clear, Held, Skipped, Stuck, Wedged
<1>4. CASE e.do = "ar" /\ WriteAr
  <2>1. (l = "ready" /\ c = "begun") \/ (l = "page" /\ c = "page")
    BY <1>1, <1>4 DEF FStep, Silent
  <2>2. CASE l = "ready" /\ c = "begun"
    BY <1>1, <1>4, <2>2 DEF FMeans, WriteAr, Begin, Begins, Clear, Held, Going, Skipped, Wedged
  <2>3. CASE l = "page" /\ c = "page"
    <3>1. ccr = "prog" => Commands[ccr] \notin Begins
      BY CommandKinds
    <3>. QED BY <1>1, <1>4, <2>3, <3>1 DEF FMeans, WriteAr, Begin, Begins, Clear, Stuck, Wedged
  <2>. QED BY <2>1, <2>2, <2>3
<1>5. CASE e.do = "dr" /\ WriteDr(Repeat(e.len, Data("data", odd)))
  <2>1. (l = "start" /\ c = "start") \/ (l \in {"page", "loaded"} /\ c = "loaded")
    BY <1>1, <1>5 DEF FStep, Silent
  <2>2. ccr = "prog" <=> Commands[ccr] = Command(TRUE, TRUE, "wr")
    BY CommandKinds DEF StartInv, TypeOK
  <2>. QED BY <1>1, <1>5, <2>1, <2>2 DEF FMeans, WriteDr, Clear, Held, Skipped, Stuck, Wedged
<1>6. CASE e.do = "reset" /\ ClearFlags
  <2>1. (l = "start" /\ c = "start") \/ (l \in {"waited", "must"} /\ c \in {"start", "clean"})
    BY <1>1, <1>6 DEF FStep, Silent
  <2>. QED BY <1>1, <1>6, <2>1 DEF FMeans, ClearFlags, Clear, Held, Skipped, Stuck, Wedged
<1>7. CASE e.do = "abort" /\ Abort
  <2>1. l = "start" /\ c = "start"
    BY <1>1, <1>7 DEF FStep, Silent
  <2>. QED BY <1>1, <1>7, <2>1 DEF FMeans, Abort, Clear, Held, Skipped, Wedged
<1>. QED BY <1>2, <1>3, <1>4, <1>5, <1>6, <1>7 DEF Access, At

(* A step of the controller or of the flash: only a command under way      *)
(* moves, and it ends with its flag set.                                   *)
LEMMA ControllerFlags ==
  ASSUME StartInv, DataReady \/ Instruct \/ Read \/ Write \/ FlashEnds, UNCHANGED driverVars,
         NEW l \in FLabels, FMeans(l)
  PROVE  FMeans(l)'
<1>1. UNCHANGED <<ret, skipped>>
  BY DEF driverVars, ghosts
<1>2. CASE DataReady
  <2>1. phase = "DataWait" /\ ~busy /\ ~(dlr = 16)
    BY <1>2 DEF DataReady, AllDataIn, StartInv, TypeOK, Size
  <2>2. FALSE
    BY <2>1 DEF FMeans, FLabels, Clear, Held, Going, Skipped, Stuck, Wedged
  <2>. QED BY <2>2
<1>3. CASE Instruct \/ Read \/ Write
  <2>1. busy /\ phase = "Active" /\ Finished
    BY <1>3 DEF Instruct, Read, Write, InFlight
  <2>2. l = "begun" /\ Going
    BY <2>1 DEF FMeans, FLabels, Clear, Held, Going, Skipped, Stuck, Wedged
  <2>. QED BY <1>1, <2>1, <2>2 DEF FMeans, Finished, Held
<1>4. CASE FlashEnds
  BY <1>1, <1>4 DEF FlashEnds, ctrlVars, FMeans, Clear, Held, Going, Skipped, Stuck, Wedged
<1>. QED BY <1>2, <1>3, <1>4

(* A step that goes on to the label after it.                              *)
LEMMA GoesOn ==
  ASSUME StartInv, result = "running", result' = result, todo' = Tail(todo),
         NEW c \in FLabels, Runs(FRel, Tail(todo), c, "end"), c # "end", ~late' => FMeans(c)'
  PROVE  RunningInv' /\ FlagsInv'
<1>1. Tail(todo) # <<>>
  <2>1. ASSUME NEW s, Runs(FRel, s, c, "end")  PROVE s # <<>>
    BY <2>1, FEnd
  <2>. QED BY <2>1
<1>2. Runs(FRel, todo', c, "end")
  OBVIOUS
<1>. QED BY <1>1, <1>2 DEF RunningInv, FlagsInv

(* A step that returns.                                                    *)
LEMMA Ends ==
  ASSUME todo' = <<>>, result' # "running", ~late' => FMeans("end")'
  PROVE  RunningInv' /\ FlagsInv'
<1>1. Runs(FRel, todo', "end", "end") /\ "end" \in FLabels
  BY RunsEmpty DEF FLabels
<1>. QED BY <1>1 DEF RunningInv, FlagsInv

(* A call begins where the one before it ended.                            *)
LEMMA CallStarts ==
  ASSUME StartInv, NEW f \in DOMAIN Functions[driver], Call(f)
  PROVE  StartInv'
<1>1. Runs(FRel, todo', "start", "end")
  BY FFunctions DEF Call, StartInv, DriverTypes
<1>2. RunningInv'
  <2>1. todo' # <<>>
    BY <1>1, FEnd
  <2>. QED BY <2>1 DEF Call, RunningInv
<1>3. ~late => FMeans("start")
  <2>1. todo = <<>>
    BY DEF StartInv, TypeOK, Call
  <2>2. ~late => FMeans("end")
    BY <2>1, FEnd DEF StartInv, FlagsInv
  <2>. QED BY <2>2 DEF FMeans
<1>4. FlagsInv'
  <2>1. FMeans("start") => FMeans("start")'
    BY DEF Call, ctrlVars, FMeans, Clear, Skipped, Wedged, Held
  <2>. QED BY <1>1, <1>3, <2>1 DEF FlagsInv, FLabels, Call
<1>5. DriverTypes'
  BY DEF StartInv, DriverTypes, TypeOK, Call, Wedged
<1>6. CtrlTypes' /\ FlashTypes' /\ WordTypes'
  <2>1. CtrlTypes' /\ FlashTypes'
    BY TypesParts DEF StartInv, CtrlTypes, FlashTypes, Call, ctrlVars
  <2>2. word' \in Seq(Byte) /\ Len(word') = 0
    BY EmptySeq DEF Call
  <2>. QED BY <2>1, <2>2 DEF WordTypes
<1>. QED BY <1>2, <1>4, <1>5, <1>6, TypesParts DEF StartInv, TypeOK, CtrlTypes, FlashTypes, WordTypes, RunningInv

(* The steps of a function.                                                *)
LEMMA DriveKeeps ==
  ASSUME StartInv, Drive
  PROVE  StartInv'
<1>1. result = "running"
  BY DEF Drive, Access, WaitEnds, WaitGivesUp, TakeWord, TestRet, TestId, TestWip, Return, At
<1>2. PICK l \in FLabels, c \in FLabels :
        /\ FStep(l, Head(todo), c) /\ Runs(FRel, Tail(todo), c, "end")
        /\ ~late => FMeans(l)
  BY <1>1, FHead
<1>3. Head(todo) \in Moves
  BY <1>1, FHead
<1>4. CtrlTypes /\ FlashTypes /\ WordTypes /\ DriverTypes
  BY TypesParts DEF StartInv
<1>5. ASSUME CtrlTypes', FlashTypes', WordTypes', DriverTypes', RunningInv', FlagsInv'
      PROVE  StartInv'
  BY <1>5 DEF StartInv, TypeOK, CtrlTypes, FlashTypes, WordTypes, RunningInv
<1>6. CASE Access
  <2>1. CtrlTypes'
    BY <1>3, <1>4, <1>6, AccessTypes DEF DriverTypes
  <2>2. /\ UNCHANGED flashVars /\ UNCHANGED <<ret, word, status, fail_bit, result, ghosts, driver, odd>>
        /\ todo' = Tail(todo)
    BY <1>6 DEF Access, Onward
  <2>3. FlashTypes' /\ WordTypes' /\ DriverTypes'
    BY <1>4, <2>2 DEF FlashTypes, WordTypes, DriverTypes, flashVars, ghosts
  <2>4. c # "end"
    BY <1>2, <1>6 DEF FStep, Access, At
  <2>5. ~late' => FMeans(c)'
    BY <1>2, <1>6, <2>2, AccessFlags DEF ghosts
  <2>6. RunningInv' /\ FlagsInv'
    BY <1>1, <1>2, <2>2, <2>4, <2>5, GoesOn
  <2>. QED BY <1>5, <2>1, <2>3, <2>6
<1>7. CASE WaitEnds
  <2>1. /\ CtrlTypes' /\ FlashTypes' /\ WordTypes' /\ DriverTypes'
    <3>1. CtrlTypes' /\ FlashTypes' /\ WordTypes'
      BY <1>4, <1>7 DEF WaitEnds, CtrlTypes, FlashTypes, WordTypes, ctrlVars, flashVars
    <3>2. DriverTypes'
      BY <1>4, <1>7 DEF WaitEnds, Onward, DriverTypes, ghosts
    <3>. QED BY <3>1, <3>2
  <2>2. /\ l \in {"begun", "loaded"} /\ c = "waited"
    BY <1>2, <1>7 DEF FStep, WaitEnds, At, Silent
  <2>3. ~late' => FMeans(c)'
    BY <1>2, <1>7, <2>2 DEF FMeans, WaitEnds, ctrlVars, ghosts, Clear, Held, Going, Skipped, Stuck, Wedged
  <2>4. RunningInv' /\ FlagsInv'
    BY <1>1, <1>2, <1>7, <2>2, <2>3, GoesOn DEF WaitEnds, Onward
  <2>. QED BY <1>5, <2>1, <2>4
<1>8. CASE WaitGivesUp
  <2>1. /\ CtrlTypes' /\ FlashTypes' /\ WordTypes' /\ DriverTypes'
    BY <1>4, <1>8 DEF WaitGivesUp, Onward, CtrlTypes, FlashTypes, WordTypes, DriverTypes, ctrlVars, flashVars
  <2>2. /\ l \in {"begun", "loaded"} /\ c = "waited"
    BY <1>2, <1>8 DEF FStep, WaitGivesUp, At, Silent
  <2>3. late'
    BY <1>2, <1>8, <2>2 DEF FMeans, WaitGivesUp, TimedOut, Held, Going, Stuck, Wedged
  <2>4. RunningInv' /\ FlagsInv'
    BY <1>1, <1>2, <1>8, <2>2, <2>3, GoesOn DEF WaitGivesUp, Onward
  <2>. QED BY <1>5, <2>1, <2>4
<1>9. CASE TakeWord
  <2>1. CtrlTypes' /\ WordTypes'
    <3>1. /\ SubSeq(fifo, 1, Taken) \in Seq(Byte) /\ Len(SubSeq(fifo, 1, Taken)) <= 4
          /\ SubSeq(fifo, Taken + 1, Len(fifo)) \in Seq(Byte)
          /\ Len(SubSeq(fifo, Taken + 1, Len(fifo))) <= Size
      BY <1>4, TakenType DEF CtrlTypes, Size
    <3>2. fifo' = SubSeq(fifo, Taken + 1, Len(fifo)) /\ word' = SubSeq(fifo, 1, Taken)
          /\ UNCHANGED <<busy, phase, tcf, ccr, dlr, broken>>
      BY <1>9 DEF TakeWord, ReadDr
    <3>3. fifo' \in Seq(Byte) /\ Len(fifo') <= Size /\ word' \in Seq(Byte) /\ Len(word') <= 4
      BY <3>1, <3>2
    <3>. QED BY <1>4, <3>2, <3>3 DEF CtrlTypes, WordTypes, Size
  <2>2. FlashTypes' /\ DriverTypes'
    BY <1>4, <1>9 DEF TakeWord, Onward, FlashTypes, DriverTypes, flashVars, ghosts
  <2>3. l = c /\ c \in {"start", "waited"}
    BY <1>2, <1>9 DEF FStep, TakeWord, At, Silent
  <2>4. ~late' => FMeans(c)'
    BY <1>2, <1>9, <2>3 DEF FMeans, TakeWord, ReadDr, ghosts, Clear, Held, Going, Skipped, Stuck, Wedged
  <2>5. RunningInv' /\ FlagsInv'
    BY <1>1, <1>2, <1>9, <2>3, <2>4, GoesOn DEF TakeWord, Onward
  <2>. QED BY <1>5, <2>1, <2>2, <2>5
<1>10. CASE TestRet
  <2>1. /\ CtrlTypes' /\ FlashTypes' /\ WordTypes'
    BY <1>4, <1>10 DEF TestRet, CtrlTypes, FlashTypes, WordTypes, ctrlVars, flashVars
  <2>2. DriverTypes'
    BY <1>4, <1>10 DEF TestRet, Onward, Returns, DriverTypes, ghosts, At
  <2>3. l = c /\ c \in {"start", "waited"}
    BY <1>2, <1>10 DEF FStep, TestRet, At, Silent
  <2>4. UNCHANGED <<ctrlVars, ret, late, skipped>>
    BY <1>10 DEF TestRet, ghosts
  <2>5. ASSUME ~late'  PROVE FMeans(c)'
    BY <1>2, <2>3, <2>4, <2>5 DEF FMeans, ctrlVars, Clear, Held, Skipped, Wedged
  <2>6. CASE Onward /\ UNCHANGED result
    BY <1>1, <1>2, <2>3, <2>5, <2>6, GoesOn, <1>5, <2>1, <2>2 DEF Onward
  <2>7. CASE ret /\ Returns("fail")
    <3>1. ~late' => FMeans("end")'
      BY <1>2, <2>3, <2>4, <2>7 DEF FMeans, ctrlVars, Clear, Held, Skipped, Wedged
    <3>. QED BY <2>7, <3>1, Ends, <1>5, <2>1, <2>2 DEF Returns
  <2>. QED BY <1>10, <2>6, <2>7 DEF TestRet
<1>11. CASE TestId
  <2>1. /\ CtrlTypes' /\ FlashTypes' /\ WordTypes'
    BY <1>4, <1>11 DEF TestId, CtrlTypes, FlashTypes, WordTypes, ctrlVars, flashVars
  <2>2. DriverTypes'
    BY <1>4, <1>11 DEF TestId, Onward, Returns, DriverTypes
  <2>3. (l = "start" /\ c = "start") \/ (l = "waited" /\ c = "must")
    BY <1>2, <1>11 DEF FStep, TestId, At, Silent
  <2>4. UNCHANGED <<ctrlVars, ret, late>>
    BY <1>11 DEF TestId
  <2>5. CASE Onward /\ UNCHANGED <<result, skipped>>
    <3>1. ~late' => FMeans(c)'
      BY <1>2, <2>3, <2>4, <2>5 DEF FMeans, ctrlVars, Clear, Held, Skipped, Wedged
    <3>. QED BY <1>1, <1>2, <2>3, <2>5, <3>1, GoesOn, <1>5, <2>1, <2>2 DEF Onward
  <2>6. CASE Returns("fail") /\ skipped' = (skipped \/ Head(Tail(todo)).do = "reset")
    <3>1. c = "must" => Head(Tail(todo)).do = "reset"
      <4> HAVE c = "must"
      <4>1. ASSUME NEW s, Runs(FRel, s, c, "end")  PROVE s # <<>>
        BY <4>1, FEnd
      <4>2. Tail(todo) # <<>>
        BY <1>2, <4>1
      <4>3. PICK b : <<c, Head(Tail(todo)), b>> \in FRel
        BY <1>2, <4>2, RunsTail, Zenon
      <4>. QED BY <4>3 DEF FRel, FStep, Silent
    <3>2. ~late' => FMeans("end")'
      BY <1>2, <2>3, <2>4, <2>6, <3>1 DEF FMeans, ctrlVars, Clear, Held, Skipped, Wedged
    <3>. QED BY <2>6, <3>2, Ends, <1>5, <2>1, <2>2 DEF Returns
  <2>. QED BY <1>11, <2>5, <2>6 DEF TestId
<1>12. CASE TestWip
  <2>1. /\ CtrlTypes' /\ FlashTypes' /\ WordTypes'
    BY <1>4, <1>12 DEF TestWip, CtrlTypes, FlashTypes, WordTypes, ctrlVars, flashVars
  <2>2. DriverTypes'
    BY <1>4, <1>12 DEF TestWip, DriverTypes, FailBitChecked
  <2>3. l = "start" /\ c = "start"
    BY <1>2, <1>12 DEF FStep, TestWip, At, Silent
  <2>4. UNCHANGED <<ctrlVars, ret, late, skipped, result>>
    BY <1>12 DEF TestWip
  <2>5. ~late' => FMeans("start")'
    BY <1>2, <2>3, <2>4 DEF FMeans, ctrlVars, Clear, Held, Skipped, Wedged
  <2>6. Runs(FRel, todo', "start", "end")
    <3>1. todo' = Tail(todo) \/ todo' = wait_for_wip(driver) \o Tail(todo)
      BY <1>12 DEF TestWip
    <3>. QED BY <1>2, <2>3, <3>1, FBlocks, RunsConcat
  <2>7. todo' # <<>>
    BY <2>6, FEnd
  <2>8. RunningInv' /\ FlagsInv'
    BY <1>1, <2>4, <2>5, <2>6, <2>7 DEF RunningInv, FlagsInv, FLabels
  <2>. QED BY <1>5, <2>1, <2>2, <2>8
<1>13. CASE Return
  <2>1. /\ CtrlTypes' /\ FlashTypes' /\ WordTypes' /\ DriverTypes'
    BY <1>4, <1>13 DEF Return, Returns, CtrlTypes, FlashTypes, WordTypes, DriverTypes, ctrlVars, flashVars, ghosts
  <2>2. l = "start"
    BY <1>2, <1>13 DEF FStep, Return, At, Silent
  <2>3. ~late' => FMeans("end")'
    BY <1>2, <1>13, <2>2 DEF FMeans, Return, Returns, ctrlVars, ghosts, Clear, Held, Skipped, Wedged
  <2>4. todo' = <<>> /\ result' # "running"
    BY <1>13 DEF Return, Returns
  <2>. QED BY <1>5, <2>1, <2>3, <2>4, Ends
<1>. QED BY <1>6, <1>7, <1>8, <1>9, <1>10, <1>11, <1>12, <1>13 DEF Drive

(* The steps of the controller and the flash, and steps of none.           *)
LEMMA OthersKeep ==
  ASSUME StartInv, Controller \/ Flash \/ UNCHANGED vars
  PROVE  StartInv'
<1>1. CASE Controller \/ Flash
  <2>1. (DataReady \/ Instruct \/ Read \/ Write \/ FlashEnds) /\ UNCHANGED driverVars
    BY <1>1 DEF Controller, Flash
  <2>2. CtrlTypes' /\ FlashTypes'
    BY <2>1, TypesParts, ControllerTypes DEF StartInv, DriverTypes
  <2>3. PICK l \in FLabels : Runs(FRel, todo, l, "end") /\ (~late => FMeans(l))
    BY DEF StartInv, FlagsInv
  <2>4. ~late => FMeans(l)'
    BY <2>1, <2>3, ControllerFlags
  <2>5. UNCHANGED <<todo, late, result, word>> /\ (DriverTypes => DriverTypes')
    BY <2>1 DEF driverVars, ghosts, DriverTypes
  <2>6. Runs(FRel, todo', l, "end")
    BY <2>3, <2>5
  <2>7. FlagsInv' /\ DriverTypes'
    BY <2>3, <2>4, <2>5, <2>6 DEF FlagsInv, StartInv
  <2>. QED BY <2>2, <2>5, <2>7 DEF StartInv, TypeOK, CtrlTypes, FlashTypes
<1>2. CASE UNCHANGED vars
  <2>1. TypeOK' /\ DriverTypes'
    BY <1>2 DEF StartInv, TypeOK, DriverTypes, vars, ctrlVars, flashVars, driverVars, ghosts
  <2>2. FlagsInv'
    <3>1. PICK l \in FLabels : Runs(FRel, todo, l, "end") /\ (~late => FMeans(l))
      BY DEF StartInv, FlagsInv
    <3>2. UNCHANGED <<todo, late>> /\ (FMeans(l) => FMeans(l)')
      BY <1>2 DEF vars, ctrlVars, flashVars, driverVars, ghosts, FMeans, Clear, Held, Going, Skipped, Stuck, Wedged
    <3>3. Runs(FRel, todo', l, "end")
      BY <3>1, <3>2
    <3>. QED BY <3>1, <3>2, <3>3 DEF FlagsInv
  <2>. QED BY <2>1, <2>2 DEF StartInv
<1>. QED BY <1>1, <1>2

(* What is known along the programs holds in every state.                  *)
LEMMA DriverStarts == Spec => []StartInv
<1>1. Init => StartInv
  <2> SUFFICES ASSUME Init  PROVE StartInv
    OBVIOUS
  <2>1. TypeOK
    <3>1. <<>> \in Seq(Byte) /\ Len(<<>>) = 0
      BY EmptySeq
    <3>2. "none" \in DOMAIN Commands
      BY DEF Commands
    <3>3. fifo \in Seq(Byte) /\ Len(fifo) <= Size /\ word \in Seq(Byte) /\ Len(word) <= 4
      BY <3>1 DEF Init, CtrlInit, Size
    <3>4. ccr \in DOMAIN Commands
      BY <3>2 DEF Init, CtrlInit
    <3>5. wel \in BOOLEAN /\ job \in Jobs \cup {"none"} /\ err \in BOOLEAN /\ done \subseteq Jobs
          /\ (result = "running" <=> todo # <<>>)
      BY DEF Init, CtrlInit
    <3>6. busy = FALSE /\ phase = "Idle" /\ tcf = FALSE /\ dlr = 0 /\ broken = FALSE
      BY DEF Init, CtrlInit
    <3>7. /\ busy \in BOOLEAN /\ phase \in {"Idle", "DataWait", "Active"} /\ tcf \in BOOLEAN
          /\ broken \in BOOLEAN /\ (busy => phase = "Active")
      BY <3>6, Zenon
    <3>8. dlr \in 0 .. Size
      BY <3>6 DEF Size
    <3>. QED BY <3>3, <3>4, <3>5, <3>7, <3>8, Zenon DEF TypeOK
  <2>2. DriverTypes
    BY QspiAssumption DEF Init, CtrlInit, DriverTypes
  <2>3. FlagsInv
    <3>1. Runs(FRel, todo, "end", "end") /\ "end" \in FLabels /\ FMeans("end")
      BY RunsEmpty DEF Init, CtrlInit, FMeans, Clear, FLabels
    <3>. QED BY <3>1 DEF FlagsInv
  <2>. QED BY <2>1, <2>2, <2>3 DEF StartInv
<1>2. StartInv /\ [Next]_vars => StartInv'
  BY CallStarts, DriveKeeps, OthersKeep DEF Next
<1>. QED BY <1>1, <1>2, PTL DEF Spec

(* Every command begins and runs, in every order of calls: no TCF is left  *)
(* over from the command before it, unless a wait gave up early or the     *)
(* Cypress identification returned before its reset (qspi_cypress.h:22).   *)
THEOREM EveryCommandStarts == Spec => []CommandsStart
<1>1. StartInv => CommandsStart
  <2>1. ASSUME StartInv, Wedged, ~late, ~skipped  PROVE FALSE
    BY <2>1 DEF StartInv, FlagsInv, FMeans, FLabels, Clear, Held, Going, Skipped, Stuck, Wedged
  <2>. QED BY <2>1 DEF StartInv, CommandsStart
<1>. QED BY <1>1, DriverStarts, PTL

----------------------------------------------------------------------------
(* Why a function that ends in wait_for_wip fails.  Its program goes from  *)
(* "free" to the read of the status register ("reading"), to the word      *)
(* taken ("taken") and the tests of it ("judged").                         *)
CLabels == {"free", "reading", "taken", "judged", "end"}
CStep(a, e, b) ==
  \/ a = "free" /\ e.do \in {"ccr", "dlr", "dr", "ar", "wait", "take", "reset", "ifret"} /\ b = "free"
  \/ a = "free" /\ e.do = "ccr" /\ b = "reading"
  \/ a = "free" /\ e.do = "return0" /\ b = "end"
  \/ a = "reading" /\ e.do \in {"wait", "note", "reset"} /\ b = "reading"
  \/ a = "reading" /\ e.do = "take" /\ b = "taken"
  \/ a = "taken" /\ e.do \in {"note", "reset"} /\ b = "taken"
  \/ a = "taken" /\ e.do = "poll" /\ b = "judged"
  \/ a = "judged" /\ e.do = "status" /\ b = "end"
CRel == {t \in CLabels \X Moves \X CLabels : CStep(t[1], t[2], t[3])}

(* A step as a program.                                                    *)
LEMMA COne ==
  /\ \A k \in DOMAIN Commands, a, b \in CLabels :
       CStep(a, [do |-> "ccr", cmd |-> k], b) => Runs(CRel, Ccr(k), a, b)
  /\ \A n \in 1 .. Size, a, b \in CLabels :
       /\ CStep(a, [do |-> "dlr", len |-> n], b) => Runs(CRel, Dlr(n), a, b)
       /\ CStep(a, [do |-> "dr", len |-> n], b) => Runs(CRel, Dr(n), a, b)
  /\ \A x \in Plain, a, b \in CLabels : CStep(a, [do |-> x], b) => Runs(CRel, Step(x), a, b)
<1>1. \A a, b \in CLabels, e \in Moves : CStep(a, e, b) => Runs(CRel, <<e>>, a, b)
  <2> TAKE a, b \in CLabels, e \in Moves
  <2> HAVE CStep(a, e, b)
  <2>1. <<a, e, b>> \in CRel
    BY DEF CRel
  <2>. QED BY <2>1, RunsOne
<1>. QED BY <1>1, MoveKinds, Zenon DEF Ccr, Dlr, Dr, Step

(* What each step does to the labels.                                      *)
LEMMA CMoves ==
  /\ \A k \in DOMAIN Commands : Runs(CRel, Ccr(k), "free", "free")
  /\ Runs(CRel, Ccr("rdsr"), "free", "reading")
  /\ \A n \in 1 .. Size : Runs(CRel, Dlr(n), "free", "free") /\ Runs(CRel, Dr(n), "free", "free")
  /\ Runs(CRel, Ar, "free", "free") /\ Runs(CRel, Wait, "free", "free")
  /\ Runs(CRel, Reset, "free", "free") /\ Runs(CRel, IfRet, "free", "free")
  /\ Runs(CRel, Take, "free", "free")
  /\ Runs(CRel, Wait, "reading", "reading") /\ Runs(CRel, NoteFail, "reading", "reading")
  /\ Runs(CRel, Reset, "reading", "reading") /\ Runs(CRel, Take, "reading", "taken")
  /\ Runs(CRel, NoteFail, "taken", "taken") /\ Runs(CRel, Reset, "taken", "taken")
  /\ Runs(CRel, Poll, "taken", "judged") /\ Runs(CRel, ReturnStatus, "judged", "end")
  /\ Runs(CRel, Return0, "free", "end")
<1> USE DEF CLabels
<1>1. "rdsr" \in DOMAIN Commands
  BY DEF Commands
<1>2. /\ \A k \in DOMAIN Commands : Runs(CRel, Ccr(k), "free", "free")
      /\ Runs(CRel, Ccr("rdsr"), "free", "reading")
  BY <1>1, COne DEF CStep
<1>3. \A n \in 1 .. Size : Runs(CRel, Dlr(n), "free", "free") /\ Runs(CRel, Dr(n), "free", "free")
  BY COne DEF CStep
<1>4. /\ Runs(CRel, Ar, "free", "free") /\ Runs(CRel, Wait, "free", "free")
      /\ Runs(CRel, Reset, "free", "free") /\ Runs(CRel, IfRet, "free", "free")
      /\ Runs(CRel, Take, "free", "free")
  BY COne DEF CStep, Plain, Ar, Wait, Reset, IfRet, Take
<1>5. /\ Runs(CRel, Wait, "reading", "reading") /\ Runs(CRel, NoteFail, "reading", "reading")
      /\ Runs(CRel, Reset, "reading", "reading") /\ Runs(CRel, Take, "reading", "taken")
  BY COne DEF CStep, Plain, Wait, NoteFail, Reset, Take
<1>6. /\ Runs(CRel, NoteFail, "taken", "taken") /\ Runs(CRel, Reset, "taken", "taken")
      /\ Runs(CRel, Poll, "taken", "judged") /\ Runs(CRel, ReturnStatus, "judged", "end")
      /\ Runs(CRel, Return0, "free", "end")
  BY COne DEF CStep, Plain, NoteFail, Reset, Poll, ReturnStatus, Return0
<1>. QED BY <1>2, <1>3, <1>4, <1>5, <1>6

(* The functions of DOMAIN Checked.                                        *)
LEMMA CFunctions ==
  /\ \A d \in DOMAIN Functions : \A f \in DOMAIN Functions[d] \cap DOMAIN Checked :
       Runs(CRel, Functions[d][f], "free", "end")
  /\ \A d : Runs(CRel, wait_for_wip(d), "free", "judged")
<1>1. /\ \A k \in DOMAIN Commands : Runs(CRel, Ccr(k), "free", "free")
      /\ {"wren", "erase", "prog", "vcr", "rdsr"} \subseteq DOMAIN Commands
      /\ \A n \in {1, 2, 4, 16} : Runs(CRel, Dlr(n), "free", "free") /\ Runs(CRel, Dr(n), "free", "free")
  BY CMoves DEF Commands, Size
<1>2. Runs(CRel, micron_write_enable, "free", "free") /\ Runs(CRel, WriteEnabled, "free", "free")
  BY <1>1, CMoves, RunsConcat DEF micron_write_enable, WriteEnabled
<1>3. Runs(CRel, flashReadStatusRegister, "free", "taken")
  BY <1>1, CMoves, RunsConcat, Zenon DEF flashReadStatusRegister
<1>4. Runs(CRel, cypressReadStatusRegister, "free", "taken")
  BY <1>1, CMoves, RunsConcat, Zenon DEF cypressReadStatusRegister
<1>5. \A d : Runs(CRel, wait_for_wip(d), "free", "judged")
  BY <1>3, <1>4, CMoves, RunsConcat DEF wait_for_wip
<1>6. \A d : Runs(CRel, eraseSector(d), "free", "end")
  <2> TAKE d
  <2>1. Runs(CRel, Ccr("erase"), "free", "free")
    BY <1>1
  <2>. QED BY <1>2, <1>5, <2>1, CMoves, RunsConcat, Zenon DEF eraseSector
<1>7. \A d : Runs(CRel, PageProgram(d), "free", "end")
  <2> TAKE d
  <2>1. /\ Runs(CRel, Ccr("prog"), "free", "free") /\ Runs(CRel, Dlr(16), "free", "free")
        /\ Runs(CRel, Dr(4), "free", "free")
    BY <1>1
  <2>. QED BY <1>2, <1>5, <2>1, CMoves, RunsConcat, Zenon DEF PageProgram
<1>8. Runs(CRel, setVCR, "free", "end")
  <2>1. /\ Runs(CRel, Ccr("vcr"), "free", "free") /\ Runs(CRel, Dlr(2), "free", "free")
        /\ Runs(CRel, Dr(1), "free", "free")
    BY <1>1
  <2>. QED BY <1>2, <1>5, <2>1, CMoves, RunsConcat, Zenon DEF setVCR
<1>9. /\ Runs(CRel, flashWriteVolatileConfigReg, "free", "free")
      /\ Runs(CRel, micron_configure_xip_volatile, "free", "free")
  <2>1. /\ Runs(CRel, Ccr("vcr"), "free", "free") /\ Runs(CRel, Dlr(1), "free", "free")
        /\ Runs(CRel, Dr(1), "free", "free")
    BY <1>1
  <2>2. Runs(CRel, flashWriteVolatileConfigReg, "free", "free")
    BY <1>2, <2>1, CMoves, RunsConcat, Zenon DEF flashWriteVolatileConfigReg
  <2>3. Runs(CRel, micron_configure_xip_volatile, "free", "free")
    BY <1>2, <2>1, CMoves, RunsConcat, Zenon DEF micron_configure_xip_volatile
  <2>. QED BY <2>2, <2>3
<1>10. \A f \in DOMAIN Micron \cap DOMAIN Checked : Runs(CRel, Micron[f], "free", "end")
  <2>1. Runs(CRel, flashWriteVolatileConfigReg \o Return0, "free", "end")
    BY <1>9, CMoves, RunsConcat
  <2>2. /\ Micron["setVcr"] = flashWriteVolatileConfigReg \o Return0
        /\ Micron["erase"] = eraseSector("micron") /\ Micron["program"] = PageProgram("micron")
        /\ DOMAIN Checked = {"erase", "program", "setVcr"}
    BY DEF Micron, Checked
  <2>. QED BY <1>6, <1>7, <2>1, <2>2
<1>11. \A f \in DOMAIN Issi \cap DOMAIN Checked : Runs(CRel, Issi[f], "free", "end")
  BY <1>10 DEF Issi, Micron, Checked
<1>12. \A f \in DOMAIN Cypress \cap DOMAIN Checked : Runs(CRel, Cypress[f], "free", "end")
  BY <1>6, <1>7, <1>8 DEF Cypress, Checked
<1>13. \A f \in DOMAIN Dma \cap DOMAIN Checked : Runs(CRel, Dma[f], "free", "end")
  <2>1. Runs(CRel, WriteEnabled \o micron_configure_xip_volatile \o Reset \o Return0, "free", "end")
    BY <1>2, <1>9, CMoves, RunsConcat, Zenon
  <2>2. /\ Dma["setVcr"] = WriteEnabled \o micron_configure_xip_volatile \o Reset \o Return0
        /\ DOMAIN Dma \cap DOMAIN Checked = {"setVcr"}
    BY DEF Dma, Checked
  <2>. QED BY <2>1, <2>2
<1>14. /\ DOMAIN Functions = {"micron", "issi", "cypress", "dma"}
       /\ Functions["micron"] = Micron /\ Functions["issi"] = Issi
       /\ Functions["cypress"] = Cypress /\ Functions["dma"] = Dma
  BY DEF Functions
<1>. QED BY <1>5, <1>10, <1>11, <1>12, <1>13, <1>14

(* A byte read with this command tells of the last job: if it reports an   *)
(* error, that error still stands and nothing is under way.                *)
Failed == err /\ phase = "Idle"
FreshReports == \A i \in 1 .. Len(fifo) : fifo[i].fresh /\ fifo[i].err => Failed
Cause == gaveUp \/ failedAt \/ stale \/ (driver = "cypress" /\ Failed)

CMeans(l) ==
  /\ l = "reading" => FreshReports
  /\ l = "taken"   => (Low.fresh /\ Low.err => Failed)
  /\ l = "judged"  => status \/ Cause
  /\ l = "end"     => (result = "fail" => Cause)

(* A wait that gives up and a bit left over are causes; an error that      *)
(* stands is one no job has replaced.                                      *)
Reasons == /\ ret => gaveUp
           /\ fail_bit => failedAt \/ gaveUp
           /\ err => job = "none"
CausesInv == op \in DOMAIN Checked => \E l \in CLabels : Runs(CRel, todo, l, "end") /\ CMeans(l)

(* The driver takes the next step of its program.                          *)
LEMMA CHead ==
  ASSUME TypeOK, CausesInv, result = "running", op \in DOMAIN Checked
  PROVE  \E l, c \in CLabels : CStep(l, Head(todo), c) /\ Runs(CRel, Tail(todo), c, "end") /\ CMeans(l)
<1>1. todo # <<>>
  BY DEF TypeOK
<1>2. PICK l \in CLabels : Runs(CRel, todo, l, "end") /\ CMeans(l)
  BY DEF CausesInv
<1>3. PICK c : <<l, Head(todo), c>> \in CRel /\ Runs(CRel, Tail(todo), c, "end")
  BY <1>1, <1>2, RunsTail
<1>4. c \in CLabels /\ CStep(l, Head(todo), c)
  BY <1>3 DEF CRel
<1>. QED BY <1>2, <1>3, <1>4

(* The byte the tests look at.                                             *)
LEMMA LowType ==
  ASSUME word \in Seq(Byte)
  PROVE  /\ word = <<>> => ~Low.fresh /\ ~Low.err /\ ~Low.wip
         /\ word # <<>> => Len(word) \in 1 .. Len(word) /\ Low = word[Len(word)] /\ Low \in Byte
<1>1. word = <<>> => ~Low.fresh /\ ~Low.err /\ ~Low.wip
  BY DEF Low, Data
<1>2. word # <<>> => Len(word) \in 1 .. Len(word) /\ word[Len(word)] \in Byte
  OBVIOUS
<1>. QED BY <1>1, <1>2 DEF Low

(* The bytes a read command brings: each shows the error of the last job,  *)
(* and a status byte whether the job went on.                              *)
LEMMA ReadBytes ==
  ASSUME TypeOK, Read
  PROVE  \E n \in {4, dlr + 1} : \E cs :
           /\ \A i \in 1 .. dlr + 1 : cs[i].err => err
           /\ ccr = "rdsr" => \A i \in 1 .. dlr + 1 :
                cs[i].err = err /\ (cs[i].wip <=> job # "none" /\ i <= n)
           /\ \A i \in 1 .. Len(fifo') : \/ i \in 1 .. Len(fifo) /\ fifo'[i] = fifo[i]
                                         \/ \E j \in 1 .. dlr + 1 : fifo'[i] = cs[j]
           /\ n # dlr + 1 => job # "none" /\ job' = "none" /\ done' = done \cup {job}
           /\ n = dlr + 1 => UNCHANGED <<job, done>>
<1>1. PICK n \in {4, dlr + 1} :
        LET came == [i \in 1..(dlr + 1) |->
                       IF ccr = "rdsr"
                       THEN [Data("rdsr", job # "none" /\ i <= n) EXCEPT !.err = err]
                       ELSE Data(IF ccr \in {"id", "ida"} THEN "id" ELSE "read", odd)]
        IN  /\ n # dlr + 1 => ccr = "rdsr" /\ job # "none"
            /\ IF Len(fifo) + dlr + 1 <= Size THEN fifo' = fifo \o came /\ UNCHANGED broken
               ELSE broken' = TRUE /\ UNCHANGED fifo
            /\ IF n # dlr + 1 THEN job' = "none" /\ sent' = <<>> /\ done' = done \cup {job}
               ELSE UNCHANGED <<job, sent, done>>
  BY DEF Read
<1> DEFINE came == [i \in 1..(dlr + 1) |->
                      IF ccr = "rdsr"
                      THEN [Data("rdsr", job # "none" /\ i <= n) EXCEPT !.err = err]
                      ELSE Data(IF ccr \in {"id", "ida"} THEN "id" ELSE "read", odd)]
<1>2. \A x, y, z : /\ ~Data(x, y).err /\ [Data(x, y) EXCEPT !.err = z].err = z
                  /\ [Data(x, y) EXCEPT !.err = z].wip = y
  <2> TAKE x, y, z
  <2>1. ~Data(x, y).err
    BY DEF Data
  <2>2. [Data(x, y) EXCEPT !.err = z].err = z /\ [Data(x, y) EXCEPT !.err = z].wip = y
    BY DEF Data
  <2>. QED BY <2>1, <2>2
<1>3. \A i \in 1 .. (dlr + 1) : came[i].err => err
  BY <1>2
<1>4. ASSUME ccr = "rdsr", NEW i \in 1 .. (dlr + 1)
      PROVE  came[i].err = err /\ (came[i].wip <=> job # "none" /\ i <= n)
  <2>1. PICK b \in BOOLEAN : b <=> job # "none" /\ i <= n
    OBVIOUS
  <2>2. came[i] = [Data("rdsr", b) EXCEPT !.err = err]
    BY <1>4, <2>1
  <2>3. [Data("rdsr", b) EXCEPT !.err = err].err = err /\ [Data("rdsr", b) EXCEPT !.err = err].wip = b
    BY DEF Data
  <2> HIDE DEF came
  <2>4. came[i].err = err /\ came[i].wip = b
    BY <2>2, <2>3
  <2>. QED BY <2>1, <2>4
<1>5. came \in Seq({came[i] : i \in 1 .. dlr + 1}) /\ Len(came) = dlr + 1
  <2>1. dlr + 1 \in Nat /\ came = [i \in 1 .. dlr + 1 |-> came[i]]
    BY DEF TypeOK, Size
  <2> HIDE DEF came
  <2>. QED BY <2>1, OfLength
<1>6. fifo' = fifo \/ fifo' = fifo \o came
  BY <1>1
<1> HIDE DEF came
<1>7. ASSUME NEW i \in 1 .. Len(fifo')
      PROVE  \/ i \in 1 .. Len(fifo) /\ fifo'[i] = fifo[i]
             \/ \E j \in 1 .. (dlr + 1) : fifo'[i] = came[j]
  <2>1. fifo \in Seq(Byte) /\ dlr + 1 \in Nat /\ Len(fifo) \in Nat
    BY DEF TypeOK, Size
  <2>2. CASE fifo' = fifo
    BY <2>2
  <2>3. CASE fifo' = fifo \o came
    <3>1. Len(fifo \o came) = Len(fifo) + (dlr + 1)
      BY <1>5, <2>1
    <3>2. CASE i <= Len(fifo)
      BY <1>5, <2>1, <2>3, <3>1, <3>2
    <3>3. CASE ~(i <= Len(fifo))
      <4>1. i - Len(fifo) \in 1 .. (dlr + 1)
        BY <2>1, <2>3, <3>1, <3>3
      <4>2. fifo'[i] = came[i - Len(fifo)]
        BY <1>5, <2>1, <2>3, <3>1, <3>3
      <4>. QED BY <4>1, <4>2
    <3>. QED BY <3>2, <3>3
  <2>. QED BY <1>6, <2>2, <2>3
<1>8. (n # dlr + 1 => job # "none" /\ job' = "none" /\ done' = done \cup {job})
      /\ (n = dlr + 1 => UNCHANGED <<job, done>>)
  BY <1>1
<1>. QED BY <1>3, <1>4, <1>7, <1>8

(* The steps of the controller and the flash.                              *)
LEMMA ControllerReports ==
  ASSUME TypeOK, Reasons, DataReady \/ Instruct \/ Read \/ Write \/ FlashEnds, UNCHANGED driverVars,
         NEW l \in CLabels, CMeans(l)
  PROVE  Reasons' /\ CMeans(l)'
<1>1. UNCHANGED <<ret, gaveUp, fail_bit, failedAt, stale, driver, status, result, word>>
  BY DEF driverVars, ghosts
<1>2. Low' = Low
  BY <1>1 DEF Low
<1>3. Reasons'
  <2>1. (err => job = "none")'
    BY DEF Reasons, DataReady, Instruct, Read, Write, FlashEnds, flashVars
  <2>. QED BY <1>1, <2>1 DEF Reasons
<1>4. Failed => Failed'
  BY DEF Failed, Reasons, DataReady, AllDataIn, Instruct, Read, Write, InFlight, FlashEnds, ctrlVars
<1>5. FreshReports => FreshReports'
  <2> HAVE FreshReports
  <2>1. CASE DataReady \/ Instruct \/ FlashEnds
    <3>1. fifo' = fifo
      BY <2>1 DEF DataReady, Instruct, FlashEnds, ctrlVars
    <3>. QED BY <1>4, <3>1 DEF FreshReports
  <2>2. CASE Read
    <3>1. PICK cs : /\ \A i \in 1 .. dlr + 1 : cs[i].err => err
                    /\ \A i \in 1 .. Len(fifo') : \/ i \in 1 .. Len(fifo) /\ fifo'[i] = fifo[i]
                                                  \/ \E j \in 1 .. dlr + 1 : fifo'[i] = cs[j]
      BY <2>2, ReadBytes
    <3>2. phase' = "Idle" /\ err' = err
      BY <2>2 DEF Read, Finished
    <3>. QED BY <1>4, <3>1, <3>2 DEF FreshReports, Failed
  <2>3. CASE Write
    <3>1. ~Failed
      BY <2>3 DEF Write, InFlight, Failed
    <3>2. \A i \in 1 .. Len(fifo') : \E j \in 1 .. Len(fifo) : fifo'[i] = fifo[j]
      <4>1. fifo \in Seq(Byte) /\ Len(fifo) \in Nat /\ dlr \in Nat
        BY DEF TypeOK, Size
      <4>2. CASE Len(fifo) > dlr
        <5>1. fifo' = SubSeq(fifo, dlr + 2, Len(fifo))
          BY <2>3, <4>2 DEF Write
        <5>2. \A i \in 1 .. Len(fifo') : dlr + 1 + i \in 1 .. Len(fifo) /\ fifo'[i] = fifo[dlr + 1 + i]
          BY <4>1, <4>2, <5>1
        <5>. QED BY <5>2
      <4>3. CASE ~(Len(fifo) > dlr)
        BY <2>3, <4>3 DEF Write
      <4>. QED BY <4>2, <4>3
    <3>. QED BY <3>1, <3>2 DEF FreshReports
  <2>. QED BY <2>1, <2>2, <2>3
<1>6. Cause => Cause'
  BY <1>1, <1>4 DEF Cause
<1>. QED BY <1>1, <1>2, <1>3, <1>4, <1>5, <1>6 DEF CMeans

(* The driver's own steps.                                                 *)
LEMMA DriveReports ==
  ASSUME StartInv, Reasons, CausesInv, Drive
  PROVE  Reasons' /\ CausesInv'
<1>1. result = "running" /\ UNCHANGED <<op, driver>>
  BY DEF Drive, Access, WaitEnds, WaitGivesUp, TakeWord, TestRet, TestId, TestWip, Return, At, Onward, Returns
<1>2. TypeOK
  BY DEF StartInv
<1>3. Reasons'
  <2>1. (err => job = "none")'
    BY DEF Reasons, Drive, Access, WaitEnds, WaitGivesUp, TakeWord, TestRet, TestId, TestWip, Return, flashVars
  <2>2. (ret => gaveUp)'
    BY DEF Reasons, Drive, Access, WaitEnds, WaitGivesUp, TakeWord, TestRet, TestId, TestWip, Return, ghosts
  <2>3. (fail_bit => failedAt \/ gaveUp)'
    <3>1. CASE TestRet
      BY <3>1 DEF Reasons, TestRet, ghosts
    <3>2. CASE ~TestRet
      BY <3>2 DEF Reasons, Drive, Access, WaitEnds, WaitGivesUp, TakeWord, TestId, TestWip, FailBitChecked, Return, ghosts
    <3>. QED BY <3>1, <3>2
  <2>. QED BY <2>1, <2>2, <2>3 DEF Reasons
<1>4. SUFFICES ASSUME op \in DOMAIN Checked  PROVE CausesInv'
  BY <1>1, <1>3 DEF CausesInv
<1>5. PICK l \in CLabels, c \in CLabels :
        CStep(l, Head(todo), c) /\ Runs(CRel, Tail(todo), c, "end") /\ CMeans(l)
  BY <1>1, <1>2, <1>4, CHead
<1>6. ASSUME todo' = Tail(todo), CMeans(c)'  PROVE CausesInv'
  BY <1>5, <1>6 DEF CausesInv
<1>7. ASSUME todo' = <<>>, CMeans("end")'  PROVE CausesInv'
  <2>1. Runs(CRel, todo', "end", "end") /\ "end" \in CLabels
    BY <1>7, RunsEmpty DEF CLabels
  <2>. QED BY <1>7, <2>1 DEF CausesInv
<1>8. CASE Access
  <2>1. /\ todo' = Tail(todo) /\ UNCHANGED <<word, err>>
    BY <1>8 DEF Access, Onward, flashVars
  <2>2. \/ c = "free"
        \/ c = "reading" /\ At("ccr")
        \/ l = c /\ c \in {"reading", "taken"} /\ At("reset")
    BY <1>5, <1>8 DEF CStep, Access, At
  <2>3. CMeans(c)'
    <3>1. CASE c = "free"
      BY <3>1 DEF CMeans
    <3>2. CASE c = "reading" /\ At("ccr")
      <4>1. fifo' = [i \in DOMAIN fifo |-> [fifo[i] EXCEPT !.fresh = FALSE]]
        BY <1>8, <3>2 DEF Access, At, WriteCcr
      <4>2. fifo \in Seq(Byte)
        BY <1>2 DEF TypeOK
      <4>3. Len(fifo) \in Nat /\ DOMAIN fifo = 1 .. Len(fifo) /\ \A i \in 1 .. Len(fifo) : fifo[i] \in Byte
        BY <4>2
      <4>4. fifo' = [i \in 1 .. Len(fifo) |-> [fifo[i] EXCEPT !.fresh = FALSE]]
        BY <4>1, <4>3
      <4>5. \A i \in 1 .. Len(fifo) : ~fifo'[i].fresh
        BY <4>3, <4>4 DEF Byte
      <4>6. Len(fifo') = Len(fifo)
        BY <4>3, <4>4
      <4>. QED BY <3>2, <4>5, <4>6 DEF CMeans, FreshReports
    <3>3. CASE l = c /\ c \in {"reading", "taken"} /\ At("reset")
      <4>1. UNCHANGED <<fifo, phase>>
        BY <1>8, <3>3 DEF Access, At, ClearFlags
      <4>. QED BY <1>5, <2>1, <3>3, <4>1 DEF CMeans, FreshReports, Failed, Low
    <3>. QED BY <2>2, <3>1, <3>2, <3>3
  <2>. QED BY <1>6, <2>1, <2>3
<1>9. CASE WaitEnds \/ WaitGivesUp
  <2>1. todo' = Tail(todo) /\ l = c /\ c \in {"free", "reading"} /\ UNCHANGED <<fifo, phase, err>>
    BY <1>5, <1>9 DEF CStep, WaitEnds, WaitGivesUp, At, Onward, ctrlVars, flashVars
  <2>2. CMeans(c)'
    BY <1>5, <2>1 DEF CMeans, FreshReports, Failed
  <2>. QED BY <1>6, <2>1, <2>2
<1>10. CASE TakeWord
  <2>1. /\ todo' = Tail(todo) /\ UNCHANGED <<phase, err>> /\ word' = SubSeq(fifo, 1, Taken)
        /\ (l = "reading" /\ c = "taken") \/ c = "free"
    BY <1>5, <1>10 DEF CStep, TakeWord, At, Onward, ReadDr, flashVars
  <2>2. c = "taken" => FreshReports
    BY <1>5, <2>1 DEF CMeans
  <2>3. ASSUME c = "taken", Low'.fresh, Low'.err  PROVE Failed
    <3>1. fifo \in Seq(Byte)
      BY <1>2 DEF TypeOK
    <3>2. word' \in Seq(Byte) /\ Len(word') = Taken /\ Taken \in 0 .. 4 /\ Taken <= Len(fifo)
      BY <2>1, <3>1, TakenType
    <3>3. CASE word' = <<>>
      <4>1. Low'.fresh = FALSE
        BY <3>3 DEF Low, Data
      <4>. QED BY <2>3, <4>1
    <3>4. CASE word' # <<>>
      <4>1. Low' = word'[Taken] /\ Taken \in 1 .. Len(fifo)
        BY <3>1, <3>2, <3>4 DEF Low
      <4>2. word'[Taken] = fifo[Taken]
        BY <2>1, <3>1, <3>2, <4>1
      <4>. QED BY <2>2, <2>3, <4>1, <4>2 DEF FreshReports
    <3>. QED BY <3>3, <3>4
  <2>4. CMeans(c)'
    BY <2>1, <2>3 DEF CMeans, Failed
  <2>. QED BY <1>6, <2>1, <2>4
<1>11. CASE TestRet
  <2>1. UNCHANGED <<fifo, phase, err, word, ret, ghosts, driver>>
    BY <1>11 DEF TestRet, ctrlVars, flashVars, Onward, Returns
  <2>2. l = c /\ c \in {"free", "reading", "taken"}
    BY <1>5, <1>11 DEF CStep, TestRet, At
  <2>3. CMeans(c)'
    BY <1>5, <2>1, <2>2 DEF CMeans, FreshReports, Failed, Low
  <2>4. CASE Onward
    BY <1>6, <2>3, <2>4 DEF Onward
  <2>5. CASE ret /\ Returns("fail")
    <3>1. Cause'
      BY <1>3, <2>1, <2>5 DEF Reasons, Cause
    <3>2. CMeans("end")'
      BY <3>1 DEF CMeans
    <3>. QED BY <1>7, <2>5, <3>2 DEF Returns
  <2>. QED BY <1>11, <2>4, <2>5 DEF TestRet
<1>12. CASE TestId
  BY <1>5, <1>12 DEF CStep, TestId, At
<1>13. CASE TestWip
  <2>1. l = "taken" /\ c = "judged"
    BY <1>5, <1>13 DEF CStep, TestWip, At
  <2>2. Low.fresh /\ Low.err => Failed
    BY <1>5, <2>1 DEF CMeans
  <2>3. CASE fail_bit \/ ProgrammingError
    <3>1. todo' = Tail(todo)
      BY <1>13, <2>3 DEF TestWip
    <3>2. Cause'
      <4>1. UNCHANGED <<gaveUp, failedAt, driver, err, phase>>
        BY <1>13 DEF TestWip, ctrlVars, flashVars
      <4>2. CASE fail_bit
        BY <4>1, <4>2 DEF Reasons, Cause
      <4>3. CASE ~fail_bit /\ ProgrammingError
        <5>1. driver = "cypress" /\ Low.err
          BY <4>3 DEF ProgrammingError
        <5>2. CASE Low.fresh
          BY <2>2, <4>1, <5>1, <5>2 DEF Cause, Failed
        <5>3. CASE ~Low.fresh
          BY <1>13, <4>3, <5>3 DEF TestWip, Cause
        <5>. QED BY <5>2, <5>3
      <4>. QED BY <2>3, <4>2, <4>3
    <3>3. CMeans(c)'
      BY <2>1, <3>2 DEF CMeans
    <3>. QED BY <1>6, <3>1, <3>3
  <2>4. CASE ~(fail_bit \/ ProgrammingError) /\ ~WriteInProgress
    <3>1. todo' = Tail(todo) /\ status' = TRUE
      BY <1>13, <2>4 DEF TestWip
    <3>2. CMeans(c)'
      BY <2>1, <3>1 DEF CMeans
    <3>. QED BY <1>6, <3>1, <3>2
  <2>5. CASE ~(fail_bit \/ ProgrammingError) /\ WriteInProgress
    <3>1. todo' = wait_for_wip(driver) \o Tail(todo)
      BY <1>13, <2>5 DEF TestWip
    <3>2. Runs(CRel, todo', "free", "end")
      BY <1>5, <2>1, <3>1, CFunctions, RunsConcat
    <3>3. "free" \in CLabels /\ CMeans("free")'
      BY DEF CMeans, CLabels
    <3>. QED BY <3>2, <3>3 DEF CausesInv
  <2>. QED BY <2>3, <2>4, <2>5
<1>14. CASE Return
  <2>1. todo' = <<>> /\ UNCHANGED <<phase, err, ghosts, driver>>
    BY <1>14 DEF Return, Returns, ctrlVars, flashVars
  <2>2. CASE At("return0") /\ Returns("ok")
    BY <1>7, <2>1, <2>2 DEF Returns, CMeans
  <2>3. CASE At("status") /\ Returns(IF status THEN "ok" ELSE "fail")
    <3>1. l = "judged"
      BY <1>5, <2>3 DEF CStep, At
    <3>2. status \/ Cause'
      BY <1>5, <2>1, <3>1 DEF CMeans, Cause, Failed, ghosts
    <3>3. CMeans("end")'
      BY <2>3, <3>2 DEF CMeans, Returns
    <3>. QED BY <1>7, <2>1, <3>3
  <2>. QED BY <1>14, <2>2, <2>3 DEF Return
<1>. QED BY <1>8, <1>9, <1>10, <1>11, <1>12, <1>13, <1>14 DEF Drive

(* The causes are kept, in every state.                                    *)
LEMMA CausesKept == Spec => [](Reasons /\ CausesInv)
<1>1. Init => Reasons /\ CausesInv
  BY DEF Init, CtrlInit, Reasons, CausesInv, Checked
<1>2. ASSUME StartInv, Reasons, CausesInv, [Next]_vars  PROVE Reasons' /\ CausesInv'
  <2>1. ASSUME NEW f \in DOMAIN Functions[driver], Call(f)  PROVE Reasons' /\ CausesInv'
    <3>1. Reasons'
      BY <1>2, <2>1 DEF Reasons, Call
    <3>2. ASSUME f \in DOMAIN Checked  PROVE Runs(CRel, todo', "free", "end")
      BY <1>2, <2>1, <3>2, CFunctions DEF Call, StartInv, DriverTypes
    <3>3. op' = f /\ "free" \in CLabels /\ CMeans("free")'
      BY <2>1 DEF Call, CMeans, CLabels
    <3>. QED BY <3>1, <3>2, <3>3 DEF CausesInv
  <2>2. CASE Drive
    BY <1>2, <2>2, DriveReports
  <2>3. CASE Controller \/ Flash
    <3>1. /\ DataReady \/ Instruct \/ Read \/ Write \/ FlashEnds
          /\ UNCHANGED driverVars /\ UNCHANGED <<op, todo>>
      BY <2>3 DEF Controller, Flash, driverVars
    <3>2. TypeOK
      BY <1>2 DEF StartInv
    <3>3. Reasons' /\ \A l \in CLabels : CMeans(l) => CMeans(l)'
      <4>1. ASSUME NEW l \in CLabels, CMeans(l)  PROVE Reasons' /\ CMeans(l)'
        BY <1>2, <3>1, <3>2, <4>1, ControllerReports
      <4>2. CMeans("free") /\ "free" \in CLabels
        BY DEF CMeans, CLabels
      <4>. QED BY <4>1, <4>2
    <3>. QED BY <1>2, <3>1, <3>3 DEF CausesInv
  <2>4. CASE UNCHANGED vars
    <3>1. UNCHANGED <<ret, gaveUp, fail_bit, failedAt, stale, driver, status, result, word, err, job,
                      phase, fifo, op, todo>>
      BY <2>4 DEF vars, driverVars, ghosts, ctrlVars, flashVars
    <3>2. \A l \in CLabels : CMeans(l) => CMeans(l)'
      BY <3>1 DEF CMeans, FreshReports, Failed, Cause, Low
    <3>. QED BY <1>2, <3>1, <3>2 DEF Reasons, CausesInv
  <2>. QED BY <1>2, <2>1, <2>2, <2>3, <2>4 DEF Next
<1>. QED BY <1>1, <1>2, DriverStarts, PTL DEF Spec

(* A function that ends in wait_for_wip fails only because a wait of it    *)
(* gave up, the flash reported an error that stands, the byte tested was   *)
(* an old one, or fail_bit was left set by the caller's last status read.  *)
THEOREM FailuresHaveCauses == Spec => []FailureHasCause
<1>1. ASSUME StartInv, CausesInv  PROVE FailureHasCause
  <2> SUFFICES ASSUME op \in DOMAIN Checked, result = "fail"  PROVE Cause
    BY DEF FailureHasCause, Cause, Failed
  <2>1. todo = <<>>
    BY <1>1 DEF StartInv, TypeOK
  <2>2. PICK l \in CLabels : Runs(CRel, todo, l, "end") /\ CMeans(l)
    BY <1>1 DEF CausesInv
  <2>3. l = "end"
    BY <2>1, <2>2, RunsEmpty
  <2>. QED BY <2>2, <2>3 DEF CMeans
<1>. QED BY <1>1, CausesKept, DriverStarts, PTL

----------------------------------------------------------------------------
(* What the success of a function that ends in wait_for_wip rests on.  Its *)
(* program enables writes ("start" to "armed"), has the flash begin its    *)
(* job k ("doing"), and asks until the job has ended ("asking" to "noted").*)
SLabels == {"start", "enabling", "enabled", "armed", "sixteen", "aimed", "page", "loaded", "doing", "did",
            "idle", "asking", "asked", "taken", "cleared", "marked", "emptied", "noted", "judged", "end"}
SStep(k, a, e, b) ==
  \/ a = "start" /\ e.do = "ccr" /\ e.cmd = "wren" /\ b = "enabling"
  \/ a = "enabling" /\ e.do = "wait" /\ b = "enabled"
  \/ a = "enabled" /\ e.do = "ifret" /\ b = "enabled"
  \/ a = "enabled" /\ e.do = "reset" /\ b = "armed"
  \/ a = "armed" /\ e.do \in {"dlr", "dr"} /\ b = "armed"
  \/ a = "armed" /\ e.do = "ccr" /\ e.cmd = "vcr" /\ k = "vcr" /\ b = "doing"
  \/ a = "armed" /\ e.do = "ccr" /\ e.cmd = "erase" /\ k = "erase" /\ b = "aimed"
  \/ a = "aimed" /\ e.do = "ar" /\ b = "doing"
  \/ a = "armed" /\ e.do = "dlr" /\ e.len = 16 /\ b = "sixteen"
  \/ a = "sixteen" /\ e.do = "ccr" /\ e.cmd = "prog" /\ b = "page"
  \/ a = "page" /\ e.do = "ar" /\ b = "page"
  \/ a \in {"page", "loaded"} /\ e.do = "dr" /\ b = "loaded"
  \/ a \in {"doing", "loaded"} /\ e.do = "wait" /\ b = "did"
  \/ a = "did" /\ e.do = "take" /\ b = "did"
  \/ a = "did" /\ e.do = "reset" /\ b = "idle"
  \/ a = "idle" /\ e.do = "dlr" /\ b = "idle"
  \/ a = "idle" /\ e.do = "ccr" /\ e.cmd = "rdsr" /\ b = "asking"
  \/ a = "asking" /\ e.do = "wait" /\ b = "asked"
  \/ a = "asked" /\ e.do = "take" /\ b = "taken"
  \/ a = "taken" /\ e.do = "reset" /\ b = "cleared"
  \/ a = "cleared" /\ e.do = "note" /\ b = "noted"
  \/ a = "asked" /\ e.do = "note" /\ b = "marked"
  \/ a = "marked" /\ e.do = "reset" /\ b = "emptied"
  \/ a = "emptied" /\ e.do = "take" /\ b = "noted"
  \/ a = "noted" /\ e.do = "poll" /\ b = "judged"
  \/ a = "judged" /\ e.do = "status" /\ b = "end"
SRel(k) == {t \in SLabels \X Moves \X SLabels : SStep(k, t[1], t[2], t[3])}

(* A step as a program.                                                    *)
LEMMA SOne ==
  ASSUME NEW k
  PROVE  /\ \A x \in DOMAIN Commands, a, b \in SLabels :
              SStep(k, a, [do |-> "ccr", cmd |-> x], b) => Runs(SRel(k), Ccr(x), a, b)
         /\ \A n \in 1 .. Size, a, b \in SLabels :
              /\ SStep(k, a, [do |-> "dlr", len |-> n], b) => Runs(SRel(k), Dlr(n), a, b)
              /\ SStep(k, a, [do |-> "dr", len |-> n], b) => Runs(SRel(k), Dr(n), a, b)
         /\ \A x \in Plain, a, b \in SLabels :
              SStep(k, a, [do |-> x], b) => Runs(SRel(k), Step(x), a, b)
<1>1. \A a, b \in SLabels, e \in Moves : SStep(k, a, e, b) => Runs(SRel(k), <<e>>, a, b)
  <2> TAKE a, b \in SLabels, e \in Moves
  <2> HAVE SStep(k, a, e, b)
  <2>1. <<a, e, b>> \in SRel(k)
    BY DEF SRel
  <2>. QED BY <2>1, RunsOne
<1>. QED BY <1>1, MoveKinds, Zenon DEF Ccr, Dlr, Dr, Step

(* What each step does to the labels.                                      *)
LEMMA SMoves ==
  ASSUME NEW k
  PROVE  /\ Runs(SRel(k), Ccr("wren"), "start", "enabling") /\ Runs(SRel(k), Wait, "enabling", "enabled")
         /\ Runs(SRel(k), IfRet, "enabled", "enabled") /\ Runs(SRel(k), Reset, "enabled", "armed")
         /\ \A n \in 1 .. Size : /\ Runs(SRel(k), Dlr(n), "armed", "armed")
                                 /\ Runs(SRel(k), Dr(n), "armed", "armed")
                                 /\ Runs(SRel(k), Dlr(n), "idle", "idle")
         /\ k = "vcr" => Runs(SRel(k), Ccr("vcr"), "armed", "doing")
         /\ k = "erase" => Runs(SRel(k), Ccr("erase"), "armed", "aimed")
         /\ Runs(SRel(k), Ar, "aimed", "doing")
         /\ Runs(SRel(k), Dlr(16), "armed", "sixteen") /\ Runs(SRel(k), Ccr("prog"), "sixteen", "page")
         /\ Runs(SRel(k), Ar, "page", "page")
         /\ Runs(SRel(k), Dr(4), "page", "loaded") /\ Runs(SRel(k), Dr(4), "loaded", "loaded")
         /\ Runs(SRel(k), Wait, "doing", "did") /\ Runs(SRel(k), Wait, "loaded", "did")
         /\ Runs(SRel(k), Take, "did", "did")
         /\ Runs(SRel(k), Reset, "did", "idle") /\ Runs(SRel(k), Ccr("rdsr"), "idle", "asking")
         /\ Runs(SRel(k), Wait, "asking", "asked") /\ Runs(SRel(k), Take, "asked", "taken")
         /\ Runs(SRel(k), Reset, "taken", "cleared") /\ Runs(SRel(k), NoteFail, "cleared", "noted")
         /\ Runs(SRel(k), NoteFail, "asked", "marked") /\ Runs(SRel(k), Reset, "marked", "emptied")
         /\ Runs(SRel(k), Take, "emptied", "noted")
         /\ Runs(SRel(k), Poll, "noted", "judged") /\ Runs(SRel(k), ReturnStatus, "judged", "end")
<1> USE DEF SLabels
<1>1. /\ {"wren", "vcr", "erase", "prog", "rdsr"} \subseteq DOMAIN Commands
      /\ 4 \in 1 .. Size /\ 16 \in 1 .. Size
  BY DEF Commands, Size
<1>2. /\ Runs(SRel(k), Ccr("wren"), "start", "enabling")
      /\ k = "vcr" => Runs(SRel(k), Ccr("vcr"), "armed", "doing")
      /\ k = "erase" => Runs(SRel(k), Ccr("erase"), "armed", "aimed")
      /\ Runs(SRel(k), Ccr("prog"), "sixteen", "page") /\ Runs(SRel(k), Ccr("rdsr"), "idle", "asking")
  BY <1>1, SOne DEF SStep
<1>3. /\ \A n \in 1 .. Size : /\ Runs(SRel(k), Dlr(n), "armed", "armed")
                              /\ Runs(SRel(k), Dr(n), "armed", "armed")
                              /\ Runs(SRel(k), Dlr(n), "idle", "idle")
      /\ Runs(SRel(k), Dlr(16), "armed", "sixteen")
      /\ Runs(SRel(k), Dr(4), "page", "loaded") /\ Runs(SRel(k), Dr(4), "loaded", "loaded")
  BY <1>1, SOne DEF SStep
<1>4. /\ Runs(SRel(k), Wait, "enabling", "enabled") /\ Runs(SRel(k), Wait, "doing", "did")
      /\ Runs(SRel(k), Wait, "loaded", "did") /\ Runs(SRel(k), Wait, "asking", "asked")
      /\ Runs(SRel(k), Ar, "aimed", "doing") /\ Runs(SRel(k), Ar, "page", "page")
      /\ Runs(SRel(k), IfRet, "enabled", "enabled")
  BY SOne DEF SStep, Plain, Wait, Ar, IfRet
<1>5. /\ Runs(SRel(k), Reset, "enabled", "armed") /\ Runs(SRel(k), Reset, "did", "idle")
      /\ Runs(SRel(k), Reset, "taken", "cleared") /\ Runs(SRel(k), Reset, "marked", "emptied")
      /\ Runs(SRel(k), Take, "asked", "taken") /\ Runs(SRel(k), Take, "emptied", "noted")
      /\ Runs(SRel(k), Take, "did", "did")
  BY SOne DEF SStep, Plain, Reset, Take
<1>6. /\ Runs(SRel(k), NoteFail, "cleared", "noted") /\ Runs(SRel(k), NoteFail, "asked", "marked")
      /\ Runs(SRel(k), Poll, "noted", "judged") /\ Runs(SRel(k), ReturnStatus, "judged", "end")
  BY SOne DEF SStep, Plain, NoteFail, Poll, ReturnStatus
<1>. QED BY <1>2, <1>3, <1>4, <1>5, <1>6

(* The functions that report the end of their job.                         *)
Reporting == op \in DOMAIN Checked /\ (op = "setVcr" => driver = "cypress")

LEMMA SFunctions ==
  /\ \A d \in DOMAIN Functions : \A f \in DOMAIN Functions[d] \cap DOMAIN Checked :
       (f = "setVcr" => d = "cypress") => Runs(SRel(Checked[f]), Functions[d][f], "start", "end")
  /\ \A d, k : Runs(SRel(k), wait_for_wip(d), "idle", "judged")
<1>1. /\ DOMAIN Checked = {"erase", "program", "setVcr"}
      /\ Checked["erase"] = "erase" /\ Checked["program"] = "prog" /\ Checked["setVcr"] = "vcr"
  BY DEF Checked
<1>2. 1 \in 1 .. Size /\ 2 \in 1 .. Size /\ 4 \in 1 .. Size
  BY DEF Size
<1>3. \A k : Runs(SRel(k), WriteEnabled, "start", "armed")
  <2> TAKE k
  <2>1. Runs(SRel(k), micron_write_enable, "start", "enabled")
    BY SMoves, RunsConcat, Zenon DEF micron_write_enable
  <2>. QED BY <2>1, SMoves, RunsConcat, Zenon DEF WriteEnabled
<1>4. \A d, k : Runs(SRel(k), wait_for_wip(d), "idle", "judged")
  <2> TAKE d, k
  <2>1. Runs(SRel(k), Dlr(4), "idle", "idle")
    BY <1>2, SMoves
  <2>2. Runs(SRel(k), flashReadStatusRegister, "idle", "noted")
    BY <2>1, SMoves, RunsConcat, Zenon DEF flashReadStatusRegister
  <2>3. Runs(SRel(k), cypressReadStatusRegister, "idle", "noted")
    BY <2>1, SMoves, RunsConcat, Zenon DEF cypressReadStatusRegister
  <2>. QED BY <2>2, <2>3, SMoves, RunsConcat DEF wait_for_wip
<1>5. \A d : Runs(SRel("erase"), eraseSector(d), "start", "end")
  <2> TAKE d
  <2>1. Runs(SRel("erase"), Ccr("erase"), "armed", "aimed")
    BY SMoves
  <2>. QED BY <1>3, <1>4, <2>1, SMoves, RunsConcat, Zenon DEF eraseSector
<1>6. \A d : Runs(SRel("prog"), PageProgram(d), "start", "end")
  <2> TAKE d
  <2>1. /\ Runs(SRel("prog"), Dlr(16), "armed", "sixteen") /\ Runs(SRel("prog"), Ccr("prog"), "sixteen", "page")
        /\ Runs(SRel("prog"), Ar, "page", "page") /\ Runs(SRel("prog"), Dr(4), "page", "loaded")
        /\ Runs(SRel("prog"), Dr(4), "loaded", "loaded") /\ Runs(SRel("prog"), Wait, "loaded", "did")
        /\ Runs(SRel("prog"), Reset, "did", "idle") /\ Runs(SRel("prog"), ReturnStatus, "judged", "end")
    BY SMoves
  <2>. QED BY <1>3, <1>4, <2>1, RunsConcat, Zenon DEF PageProgram
<1>7. Runs(SRel("vcr"), setVCR, "start", "end")
  <2>1. /\ Runs(SRel("vcr"), Ccr("vcr"), "armed", "doing") /\ Runs(SRel("vcr"), Dlr(2), "armed", "armed")
        /\ Runs(SRel("vcr"), Dr(1), "armed", "armed") /\ Runs(SRel("vcr"), Wait, "doing", "did")
        /\ Runs(SRel("vcr"), Take, "did", "did") /\ Runs(SRel("vcr"), Reset, "did", "idle")
        /\ Runs(SRel("vcr"), ReturnStatus, "judged", "end")
    BY <1>2, SMoves
  <2>. QED BY <1>3, <1>4, <2>1, RunsConcat, Zenon DEF setVCR
<1>8. /\ DOMAIN Functions = {"micron", "issi", "cypress", "dma"}
      /\ Functions["micron"] = Micron /\ Functions["issi"] = Issi
      /\ Functions["cypress"] = Cypress /\ Functions["dma"] = Dma
  BY DEF Functions
<1>9. /\ Micron["erase"] = eraseSector("micron") /\ Micron["program"] = PageProgram("micron")
      /\ Issi["erase"] = eraseSector("micron") /\ Issi["program"] = PageProgram("micron")
      /\ Cypress["erase"] = eraseSector("cypress") /\ Cypress["program"] = PageProgram("cypress")
      /\ Cypress["setVcr"] = setVCR /\ DOMAIN Dma \cap DOMAIN Checked = {"setVcr"}
  BY DEF Micron, Issi, Cypress, Dma, Checked
<1>10. ASSUME NEW d \in DOMAIN Functions, NEW f \in DOMAIN Functions[d] \cap DOMAIN Checked,
              f = "setVcr" => d = "cypress"
       PROVE  Runs(SRel(Checked[f]), Functions[d][f], "start", "end")
  BY <1>1, <1>5, <1>6, <1>7, <1>8, <1>9, <1>10
<1>. QED BY <1>4, <1>10

(* On a wedged controller no flag is set again once the first reset has    *)
(* cleared it: every wait gives up, and the status read marks fail_bit.    *)
WMeans(l) ==
  /\ l \in {"start", "enabling", "enabled"} => Wedged
  /\ l \in {"armed", "sixteen", "aimed", "page", "loaded", "doing"} => Wedged /\ ~tcf
  /\ l \in {"did", "idle", "asking", "asked", "taken", "cleared"} => Wedged /\ ~tcf /\ ret
  /\ l \in {"marked", "emptied", "noted"} => fail_bit
  /\ l = "judged" => ~status
  /\ l = "end" => result # "ok"

(* On a controller that runs, as long as no wait gives up early: the flash *)
(* is enabled to write, begins job k, and a byte read with the last status *)
(* command that shows no job in progress was read after k had ended, and   *)
(* shows the error of it.                                                  *)
Enabled(c) == ccr = c /\ wel /\ job = "none"
Made(k) == job = k \/ (job = "none" /\ k \in done)
Ended(k) == job = "none" /\ k \in done
Tells(k, b) == b.fresh /\ ~b.wip => Ended(k) /\ (err => b.err)
FreshTells(k) == \A i \in 1 .. Len(fifo) : Tells(k, fifo[i])
NoneFresh == \A i \in 1 .. Len(fifo) : ~fifo[i].fresh
JobDone(k) == phase = "Idle" /\ Ended(k) /\ (driver = "cypress" => ~err)

SMeans(k, l) ==
  /\ l = "start"    => phase = "Idle" /\ ~busy /\ job = "none"
  /\ l = "enabling" => (Going /\ ccr = "wren" /\ job = "none") \/ (Held /\ Enabled("wren"))
  /\ l = "enabled"  => Held /\ Enabled("wren")
  /\ l = "armed"    => Clear /\ Enabled("wren")
  /\ l = "sixteen"  => Clear /\ Enabled("wren") /\ dlr = 16
  /\ l = "aimed"    => Clear /\ Enabled("erase") /\ k = "erase"
  /\ l = "page"     => Clear /\ Enabled("prog") /\ dlr = 16
  /\ l = "loaded"   => phase = "DataWait" /\ ~busy /\ ~tcf /\ dlr = 16
  /\ l = "doing"    => (Going /\ Enabled(k) /\ k \in {"erase", "vcr"}) \/ (Held /\ Made(k))
  /\ l = "did"      => Held /\ Made(k)
  /\ l = "idle"     => Clear /\ Made(k)
  /\ l = "asking"   => Made(k) /\ ((Going /\ ccr = "rdsr" /\ NoneFresh) \/ (Held /\ FreshTells(k)))
  /\ l \in {"asked", "marked"} => Held /\ Made(k) /\ FreshTells(k)
  /\ l = "emptied"  => Clear /\ Made(k) /\ FreshTells(k)
  /\ l = "taken"    => Held /\ Made(k) /\ Tells(k, Low)
  /\ l \in {"cleared", "noted"} => Clear /\ Made(k) /\ Tells(k, Low)
  /\ l = "judged"   => (status /\ ~stale => JobDone(k))
  /\ l = "end"      => (result = "ok" /\ ~stale => JobDone(k))

Sound == ~wedgedAt /\ ~late /\ ~jobAt
Means(k, l) == (wedgedAt => WMeans(l)) /\ (Sound => WMeans(l) \/ SMeans(k, l))
SuccessInv ==
  Reporting => \A k \in Jobs : k = Checked[op] =>
                 \E l \in SLabels : Runs(SRel(k), todo, l, "end") /\ Means(k, l)

(* The driver takes the next step of its program.                          *)
LEMMA SHead ==
  ASSUME TypeOK, SuccessInv, result = "running", Reporting, NEW k \in Jobs, k = Checked[op]
  PROVE  \E l, c \in SLabels :
           SStep(k, l, Head(todo), c) /\ Runs(SRel(k), Tail(todo), c, "end") /\ Means(k, l)
<1>1. todo # <<>>
  BY DEF TypeOK
<1>2. PICK l \in SLabels : Runs(SRel(k), todo, l, "end") /\ Means(k, l)
  BY DEF SuccessInv
<1>3. PICK c : <<l, Head(todo), c>> \in SRel(k) /\ Runs(SRel(k), Tail(todo), c, "end")
  BY <1>1, <1>2, RunsTail
<1>4. c \in SLabels /\ SStep(k, l, Head(todo), c)
  BY <1>3 DEF SRel
<1>. QED BY <1>2, <1>3, <1>4

(* The wedged controller, step by step of the driver.                      *)
LEMMA WedgedGoesOn ==
  ASSUME NEW k, NEW l \in SLabels, NEW c \in SLabels, SStep(k, l, Head(todo), c), WMeans(l),
         Access \/ WaitEnds \/ WaitGivesUp \/ TakeWord \/ TestRet
  PROVE  WMeans(c)'
<1>1. CASE Access
  <2>1. UNCHANGED <<ret, fail_bit, status, result>> /\ ~At("abort")
    BY <1>1 DEF Access, SStep, At
  <2>2. Wedged => Wedged' /\ (~tcf => ~tcf') /\ (At("reset") => ~tcf')
    <3>1. ASSUME (At("ccr") /\ WriteCcr(Head(todo).cmd)) \/ (At("ar") /\ WriteAr), Wedged
          PROVE  Wedged' /\ tcf' = tcf
      BY <3>1 DEF Wedged, WriteCcr, WriteAr, Begin
    <3>2. ASSUME \/ At("dlr") /\ WriteDlr(Head(todo).len)
                 \/ At("dr") /\ WriteDr(Repeat(Head(todo).len, Data("data", odd))), Wedged
          PROVE  Wedged' /\ tcf' = tcf
      BY <3>2 DEF Wedged, WriteDlr, WriteDr
    <3>3. ASSUME At("reset") /\ ClearFlags, Wedged  PROVE Wedged' /\ ~tcf'
      BY <3>3 DEF Wedged, ClearFlags
    <3>4. At("reset") => ClearFlags
      BY <1>1 DEF Access, At
    <3>. QED BY <1>1, <2>1, <3>1, <3>2, <3>3, <3>4 DEF Access
  <2>3. \/ l = "start" /\ c = "enabling"
        \/ l = "enabled" /\ c = "armed" /\ At("reset")
        \/ {l, c} \subseteq {"armed", "sixteen", "aimed", "page", "loaded", "doing"}
        \/ {l, c} \subseteq {"did", "idle", "asking", "asked", "taken", "cleared"}
        \/ {l, c} \subseteq {"marked", "emptied", "noted"}
    BY <1>1, <2>1 DEF SStep, Access, At
  <2>. QED BY <2>1, <2>2, <2>3 DEF WMeans
<1>2. CASE WaitEnds
  <2>1. tcf /\ UNCHANGED ctrlVars
    BY <1>2 DEF WaitEnds
  <2>2. l \in {"enabling", "doing", "loaded", "asking"} /\ (l = "enabling" => c = "enabled")
    BY <1>2 DEF SStep, WaitEnds, At
  <2>. QED BY <2>1, <2>2 DEF WMeans, ctrlVars, Wedged
<1>3. CASE WaitGivesUp
  <2>1. ret' /\ UNCHANGED <<ctrlVars, fail_bit>>
    BY <1>3 DEF WaitGivesUp
  <2>2. \/ l = "enabling" /\ c = "enabled"
        \/ l \in {"doing", "loaded"} /\ c = "did"
        \/ l = "asking" /\ c = "asked"
    BY <1>3 DEF SStep, WaitGivesUp, At
  <2>. QED BY <2>1, <2>2 DEF WMeans, ctrlVars, Wedged
<1>4. CASE TakeWord
  <2>1. UNCHANGED <<busy, phase, tcf, ret, fail_bit>>
    BY <1>4 DEF TakeWord, ReadDr
  <2>2. (l = "asked" /\ c = "taken") \/ (l = "emptied" /\ c = "noted") \/ (l = "did" /\ c = "did")
    BY <1>4 DEF SStep, TakeWord, At
  <2>. QED BY <2>1, <2>2 DEF WMeans, Wedged
<1>5. CASE TestRet
  <2>1. UNCHANGED <<busy, phase, tcf, ret>> /\ (At("note") /\ ret => fail_bit')
    BY <1>5 DEF TestRet, ctrlVars
  <2>2. \/ l = "enabled" /\ c = "enabled"
        \/ l = "cleared" /\ c = "noted" /\ At("note")
        \/ l = "asked" /\ c = "marked" /\ At("note")
    BY <1>5 DEF SStep, TestRet, At
  <2>. QED BY <2>1, <2>2 DEF WMeans, Wedged
<1>. QED BY <1>1, <1>2, <1>3, <1>4, <1>5

(* The same on a controller that runs.  The command after a flag that was  *)
(* left set wedges it.                                                     *)
LEMMA AccessSucceeds ==
  ASSUME TypeOK, NEW k, NEW l \in SLabels, NEW c \in SLabels, SStep(k, l, Head(todo), c), SMeans(k, l), Access
  PROVE  SMeans(k, c)' \/ WMeans(c)'
<1> DEFINE e == Head(todo)
<1>1. /\ UNCHANGED <<wel, job, done, err, word, driver>> /\ busy \in BOOLEAN /\ tcf \in BOOLEAN
      /\ SStep(k, l, e, c) /\ SMeans(k, l) /\ fifo \in Seq(Byte)
  BY DEF Access, flashVars, Onward, TypeOK
<1>2. CASE e.do = "ccr" /\ WriteCcr(e.cmd)
  <2>1. \/ l = "start" /\ e.cmd = "wren" /\ c = "enabling"
        \/ l = "armed" /\ e.cmd = "vcr" /\ k = "vcr" /\ c = "doing"
        \/ l = "armed" /\ e.cmd = "erase" /\ k = "erase" /\ c = "aimed"
        \/ l = "sixteen" /\ e.cmd = "prog" /\ c = "page"
        \/ l = "idle" /\ e.cmd = "rdsr" /\ c = "asking"
    BY <1>1, <1>2 DEF SStep
  <2>2. /\ ~Commands["wren"].adr /\ Commands["wren"].mode # "mm" /\ ~Commands["vcr"].adr
        /\ Commands["vcr"].mode # "mm" /\ ~Commands["rdsr"].adr /\ Commands["rdsr"].mode # "mm"
        /\ Commands["erase"].adr /\ Commands["prog"].adr
    BY CommandKinds DEF Immediate, Addressed
  <2>3. CASE l = "start" /\ e.cmd = "wren" /\ c = "enabling"
    BY <1>1, <1>2, <2>2, <2>3 DEF SMeans, WMeans, WriteCcr, Begin, Going, Wedged
  <2>4. CASE l = "armed" /\ e.cmd = "vcr" /\ k = "vcr" /\ c = "doing"
    BY <1>1, <1>2, <2>2, <2>4 DEF SMeans, WriteCcr, Begin, Clear, Going, Enabled
  <2>5. CASE l = "armed" /\ e.cmd = "erase" /\ k = "erase" /\ c = "aimed"
    BY <1>1, <1>2, <2>2, <2>5 DEF SMeans, WriteCcr, Clear, Enabled
  <2>6. CASE l = "sixteen" /\ e.cmd = "prog" /\ c = "page"
    BY <1>1, <1>2, <2>2, <2>6 DEF SMeans, WriteCcr, Clear, Enabled
  <2>7. CASE l = "idle" /\ e.cmd = "rdsr" /\ c = "asking"
    <3>1. NoneFresh'
      <4>1. Len(fifo) \in Nat /\ DOMAIN fifo = 1 .. Len(fifo) /\ \A i \in 1 .. Len(fifo) : fifo[i] \in Byte
        BY <1>1
      <4>2. fifo' = [i \in 1 .. Len(fifo) |-> [fifo[i] EXCEPT !.fresh = FALSE]]
        BY <1>2, <4>1 DEF WriteCcr
      <4>3. \A i \in 1 .. Len(fifo) : ~fifo'[i].fresh
        BY <4>1, <4>2 DEF Byte
      <4>4. Len(fifo') = Len(fifo)
        BY <4>1, <4>2
      <4>. QED BY <4>3, <4>4 DEF NoneFresh
    <3>2. Going' /\ ccr' = "rdsr"
      BY <1>1, <1>2, <2>2, <2>7 DEF SMeans, WriteCcr, Begin, Clear, Going
    <3>3. Made(k)'
      BY <1>1, <2>7 DEF SMeans, Made
    <3>. QED BY <2>7, <3>1, <3>2, <3>3 DEF SMeans
  <2>. QED BY <2>1, <2>3, <2>4, <2>5, <2>6, <2>7
<1>3. CASE e.do = "dlr" /\ WriteDlr(e.len)
  <2>1. \/ l = "armed" /\ c = "armed"
        \/ l = "armed" /\ c = "sixteen" /\ e.len = 16
        \/ l = "idle" /\ c = "idle"
    BY <1>1, <1>3 DEF SStep
  <2>. QED BY <1>1, <1>3, <2>1 DEF SMeans, WriteDlr, Clear, Enabled, Made
<1>4. CASE e.do = "ar" /\ WriteAr
  <2>1. (l = "aimed" /\ c = "doing") \/ (l = "page" /\ c = "page")
    BY <1>1, <1>4 DEF SStep
  <2>2. CASE l = "aimed" /\ c = "doing"
    <3>1. Commands["erase"] \in Begins
      BY CommandKinds DEF Addressed
    <3>. QED BY <1>1, <1>4, <2>2, <3>1 DEF SMeans, WriteAr, Begin, Begins, Clear, Going, Enabled
  <2>3. CASE l = "page" /\ c = "page"
    <3>1. Commands["prog"] \notin Begins
      BY CommandKinds
    <3>. QED BY <1>1, <1>4, <2>3, <3>1 DEF SMeans, WriteAr, Begins, Clear, Enabled
  <2>. QED BY <2>1, <2>2, <2>3
<1>5. CASE e.do = "dr" /\ WriteDr(Repeat(e.len, Data("data", odd)))
  <2>1. (l = "armed" /\ c = "armed") \/ (l \in {"page", "loaded"} /\ c = "loaded")
    BY <1>1, <1>5 DEF SStep
  <2>2. ccr = "prog" <=> Commands[ccr] = Command(TRUE, TRUE, "wr")
    BY CommandKinds DEF TypeOK
  <2>3. CASE l = "armed" /\ c = "armed"
    BY <1>1, <1>5, <2>2, <2>3 DEF SMeans, WriteDr, Clear, Enabled
  <2>4. CASE l \in {"page", "loaded"} /\ c = "loaded"
    BY <1>1, <1>5, <2>2, <2>4 DEF SMeans, WriteDr, Clear, Enabled
  <2>. QED BY <2>1, <2>3, <2>4
<1>6. CASE e.do = "reset" /\ ClearFlags
  <2>1. \/ l = "enabled" /\ c = "armed"
        \/ l = "did" /\ c = "idle"
        \/ l = "taken" /\ c = "cleared"
        \/ l = "marked" /\ c = "emptied"
    BY <1>1, <1>6 DEF SStep
  <2>2. CASE (l = "enabled" /\ c = "armed") \/ (l = "did" /\ c = "idle")
    BY <1>1, <1>6, <2>2 DEF SMeans, ClearFlags, Clear, Held, Enabled, Made
  <2>3. CASE (l = "taken" /\ c = "cleared") \/ (l = "marked" /\ c = "emptied")
    BY <1>1, <1>6, <2>3 DEF SMeans, ClearFlags, Clear, Held, Made, Ended, Tells, FreshTells, Low
  <2>. QED BY <2>1, <2>2, <2>3
<1>7. CASE e.do = "abort"
  BY <1>1, <1>7 DEF SStep
<1>. QED BY <1>2, <1>3, <1>4, <1>5, <1>6, <1>7 DEF Access, At

(* The waits, the words taken and the tests of `ret'.                      *)
LEMMA WaitSucceeds ==
  ASSUME TypeOK, NEW k, NEW l \in SLabels, NEW c \in SLabels, SStep(k, l, Head(todo), c), SMeans(k, l),
         WaitEnds \/ WaitGivesUp \/ TakeWord \/ TestRet, ~late'
  PROVE  SMeans(k, c)'
<1>1. CASE WaitEnds \/ WaitGivesUp
  <2>1. tcf \/ (phase = "Idle" /\ ~tcf)
    BY <1>1 DEF WaitEnds, WaitGivesUp, TimedOut
  <2>2. \/ l = "enabling" /\ c = "enabled"
        \/ l \in {"doing", "loaded"} /\ c = "did"
        \/ l = "asking" /\ c = "asked"
    BY <1>1 DEF SStep, WaitEnds, WaitGivesUp, At
  <2>3. UNCHANGED <<ctrlVars, wel, job, done, err>>
    BY <1>1 DEF WaitEnds, WaitGivesUp, flashVars
  <2>4. ~Going /\ ~(phase = "DataWait" /\ ~tcf)
    BY <2>1 DEF Going
  <2>. QED BY <2>2, <2>3, <2>4 DEF SMeans, ctrlVars, Held, Enabled, Made, Ended, Tells, FreshTells
<1>2. CASE TakeWord
  <2>1. /\ UNCHANGED <<busy, phase, tcf, ccr, wel, job, done, err>>
        /\ word' = SubSeq(fifo, 1, Taken)
    BY <1>2 DEF TakeWord, ReadDr, flashVars
  <2>2. (l = "asked" /\ c = "taken") \/ (l = "emptied" /\ c = "noted") \/ (l = "did" /\ c = "did")
    BY <1>2 DEF SStep, TakeWord, At
  <2>3. CASE l = "did" /\ c = "did"
    BY <2>1, <2>3 DEF SMeans, Held, Made
  <2>4. ASSUME l # "did"  PROVE Tells(k, Low')
    <3>. FreshTells(k)
      BY <2>2, <2>4 DEF SMeans
    <3>1. fifo \in Seq(Byte)
      BY DEF TypeOK
    <3>2. word' \in Seq(Byte) /\ Len(word') = Taken /\ Taken \in 0 .. 4 /\ Taken <= Len(fifo)
      BY <2>1, <3>1, TakenType
    <3>3. CASE word' = <<>>
      <4>1. Low'.fresh = FALSE
        BY <3>3 DEF Low, Data
      <4>. QED BY <4>1 DEF Tells
    <3>4. CASE word' # <<>>
      <4>1. Low' = word'[Taken] /\ Taken \in 1 .. Len(fifo)
        BY <3>1, <3>2, <3>4 DEF Low
      <4>2. word'[Taken] = fifo[Taken]
        BY <2>1, <3>1, <3>2, <4>1
      <4>. QED BY <4>1, <4>2 DEF FreshTells
    <3>. QED BY <3>3, <3>4
  <2>. QED BY <2>1, <2>2, <2>3, <2>4 DEF SMeans, Clear, Held, Made, Ended, Tells
<1>3. CASE TestRet
  <2>1. UNCHANGED <<ctrlVars, wel, job, done, err, word>>
    BY <1>3 DEF TestRet, flashVars
  <2>2. \/ l = "enabled" /\ c = "enabled"
        \/ l = "cleared" /\ c = "noted"
        \/ l = "asked" /\ c = "marked"
    BY <1>3 DEF SStep, TestRet, At
  <2>. QED BY <2>1, <2>2 DEF SMeans, ctrlVars, Clear, Held, Enabled, Made, Ended, Tells, FreshTells, Low
<1>. QED BY <1>1, <1>2, <1>3

(* The controller and the flash.                                           *)
LEMMA ControllerWedged ==
  ASSUME DataReady \/ Instruct \/ Read \/ Write \/ FlashEnds, UNCHANGED driverVars,
         NEW l \in SLabels, WMeans(l)
  PROVE  WMeans(l)'
<1>1. UNCHANGED <<ret, fail_bit, status, result>>
  BY DEF driverVars
<1>2. Wedged => Wedged' /\ tcf' = tcf
  BY DEF Wedged, DataReady, AllDataIn, Instruct, Read, Write, InFlight, FlashEnds, ctrlVars
<1>. QED BY <1>1, <1>2 DEF WMeans

LEMMA ControllerSucceeds ==
  ASSUME TypeOK, Reasons, DataReady \/ Instruct \/ Read \/ Write \/ FlashEnds, UNCHANGED driverVars,
         NEW k \in Jobs, NEW l \in SLabels, SMeans(k, l)
  PROVE  SMeans(k, l)'
<1>1. UNCHANGED <<status, result, stale, driver, word>> /\ Low' = Low
  BY DEF driverVars, ghosts, Low
<1>2. CASE DataReady
  <2>1. phase = "DataWait" /\ ~(dlr = 16)
    BY <1>2 DEF DataReady, AllDataIn, TypeOK, Size
  <2>2. l \in {"judged", "end"}
    BY <2>1 DEF SMeans, SLabels, Clear, Held, Going
  <2>3. ~JobDone(k)
    BY <2>1 DEF JobDone
  <2>. QED BY <1>1, <2>2, <2>3 DEF SMeans
<1>3. CASE FlashEnds
  <2>1. /\ job # "none" /\ job' = "none" /\ done' = done \cup {job}
        /\ UNCHANGED <<busy, phase, tcf, ccr, dlr, fifo, wel>>
    BY <1>3 DEF FlashEnds, ctrlVars
  <2>2. Made(k) => Made(k)'
    BY <2>1 DEF Made
  <2>3. /\ FreshTells(k) => FreshTells(k)'
        /\ Tells(k, Low) => Tells(k, Low)'
        /\ ~JobDone(k) /\ (\A x : ~Enabled(x))
    BY <1>1, <2>1 DEF FreshTells, Tells, Ended, JobDone, Enabled
  <2>4. l \notin {"start", "enabled", "armed", "sixteen", "aimed", "page"}
        /\ (l = "enabling" => FALSE)
    BY <2>1, <2>3 DEF SMeans
  <2>. QED BY <1>1, <2>1, <2>2, <2>3, <2>4 DEF SMeans, SLabels, Clear, Held, Going, NoneFresh
<1>4. CASE Instruct \/ Read \/ Write
  <2>1. busy /\ phase = "Active" /\ tcf' = TRUE /\ busy' = FALSE /\ phase' = "Idle" /\ UNCHANGED ccr
    BY <1>4 DEF Instruct, Read, Write, InFlight, Finished
  <2>2. ~Clear /\ ~Held /\ ~JobDone(k) /\ Held'
    BY <2>1 DEF Clear, Held, JobDone
  <2>3. \/ l = "enabling" /\ ccr = "wren" /\ job = "none"
        \/ l = "doing" /\ Enabled(k) /\ k \in {"erase", "vcr"}
        \/ l = "asking" /\ Made(k) /\ ccr = "rdsr" /\ NoneFresh
        \/ l \in {"judged", "end"}
    BY <2>1, <2>2 DEF SMeans, SLabels
  <2>4. /\ ~Commands["wren"].dat /\ ~Commands["erase"].dat
        /\ Commands["vcr"].dat /\ Commands["vcr"].mode = "wr"
        /\ Commands["rdsr"].dat /\ Commands["rdsr"].mode = "rd"
    BY DEF Commands, Command
  <2>5. CASE l = "enabling" /\ ccr = "wren" /\ job = "none"
    <3>1. Instruct
      BY <1>4, <2>4, <2>5 DEF Read, Write
    <3>2. wel' = TRUE /\ job' = "none"
      BY <2>5, <3>1 DEF Instruct
    <3>. QED BY <2>1, <2>2, <2>5, <3>2 DEF SMeans, Enabled
  <2>6. CASE l = "doing" /\ Enabled(k) /\ k \in {"erase", "vcr"}
    <3>1. CASE k = "erase"
      <4>1. Instruct
        BY <1>4, <2>4, <2>6, <3>1 DEF Read, Write, Enabled
      <4>2. job' = k
        BY <2>6, <3>1, <4>1 DEF Instruct, Enabled
      <4>. QED BY <2>2, <2>6, <4>2 DEF SMeans, Made
    <3>2. CASE k = "vcr"
      <4>1. Write
        BY <1>4, <2>4, <2>6, <3>2 DEF Read, Instruct, Enabled
      <4>2. job' = k
        BY <2>6, <3>2, <4>1 DEF Write, Enabled
      <4>. QED BY <2>2, <2>6, <4>2 DEF SMeans, Made
    <3>. QED BY <2>6, <3>1, <3>2
  <2>7. CASE l = "asking" /\ Made(k) /\ ccr = "rdsr" /\ NoneFresh
    <3>1. Read
      BY <1>4, <2>4, <2>7 DEF Instruct, Write
    <3>2. PICK n \in {4, dlr + 1} : \E cs :
            /\ \A i \in 1 .. dlr + 1 : cs[i].err = err /\ (cs[i].wip <=> job # "none" /\ i <= n)
            /\ \A i \in 1 .. Len(fifo') : \/ i \in 1 .. Len(fifo) /\ fifo'[i] = fifo[i]
                                          \/ \E j \in 1 .. dlr + 1 : fifo'[i] = cs[j]
            /\ n # dlr + 1 => job # "none" /\ job' = "none" /\ done' = done \cup {job}
            /\ n = dlr + 1 => UNCHANGED <<job, done>>
      BY <2>7, <3>1, ReadBytes
    <3>3. PICK cs :
            /\ \A i \in 1 .. dlr + 1 : cs[i].err = err /\ (cs[i].wip <=> job # "none" /\ i <= n)
            /\ \A i \in 1 .. Len(fifo') : \/ i \in 1 .. Len(fifo) /\ fifo'[i] = fifo[i]
                                          \/ \E j \in 1 .. dlr + 1 : fifo'[i] = cs[j]
      BY <3>2
    <3>4. /\ n # dlr + 1 => job # "none" /\ job' = "none" /\ done' = done \cup {job}
          /\ n = dlr + 1 => UNCHANGED <<job, done>>
      BY <3>2
    <3>5. err' = err
      BY <3>1 DEF Read
    <3>6. Made(k)'
      BY <2>7, <3>4 DEF Made
    <3>7. ASSUME NEW j \in 1 .. dlr + 1  PROVE Tells(k, cs[j])'
      <4>1. SUFFICES ASSUME ~cs[j].wip  PROVE Ended(k)'
        BY <3>3, <3>5 DEF Tells
      <4>2. CASE job = "none"
        <5>1. n = dlr + 1
          BY <3>4, <4>2
        <5>2. job' = "none" /\ done' = done
          BY <3>4, <4>2, <5>1
        <5>3. k # "none" /\ k \in done
          BY <2>7, <4>2 DEF Made, Jobs
        <5>. QED BY <5>2, <5>3 DEF Ended
      <4>3. CASE job # "none"
        <5>1. ~(j <= n)
          BY <3>3, <4>1, <4>3
        <5>2. n # dlr + 1
          BY <5>1 DEF TypeOK, Size
        <5>3. job' = "none" /\ done' = done \cup {job} /\ job = k
          BY <2>7, <3>4, <4>3, <5>2 DEF Made
        <5>4. job' = "none" /\ k \in done'
          BY <5>3
        <5>. QED BY <5>4 DEF Ended
      <4>. QED BY <4>2, <4>3
    <3>8. FreshTells(k)'
      <4>1. ASSUME NEW i \in 1 .. Len(fifo), fifo'[i] = fifo[i]  PROVE Tells(k, fifo[i])'
        BY <2>7, <4>1 DEF NoneFresh, Tells
      <4>. QED BY <3>3, <3>7, <4>1 DEF FreshTells
    <3>. QED BY <2>2, <2>7, <3>6, <3>8 DEF SMeans
  <2>8. CASE l \in {"judged", "end"}
    BY <1>1, <2>2, <2>8 DEF SMeans
  <2>. QED BY <2>3, <2>5, <2>6, <2>7, <2>8
<1>. QED BY <1>2, <1>3, <1>4

(* The driver's own steps.                                                 *)
LEMMA DriveSucceeds ==
  ASSUME StartInv, SuccessInv, Drive
  PROVE  SuccessInv'
<1>1. result = "running" /\ UNCHANGED <<op, driver, wedgedAt, jobAt>> /\ (late => late')
  <2>1. result = "running" /\ UNCHANGED <<op, driver>>
    BY DEF Drive, Access, WaitEnds, WaitGivesUp, TakeWord, TestRet, TestId, TestWip, Return, At, Onward, Returns
  <2>2. UNCHANGED <<wedgedAt, jobAt>> /\ (late => late')
    <3>1. CASE Access \/ WaitEnds \/ TakeWord \/ TestRet \/ Return
      <4>1. CASE Access
        BY <4>1 DEF Access, ghosts
      <4>2. CASE WaitEnds
        BY <4>2 DEF WaitEnds, ghosts
      <4>3. CASE TakeWord
        BY <4>3 DEF TakeWord, ghosts
      <4>4. CASE TestRet
        BY <4>4 DEF TestRet, ghosts
      <4>5. CASE Return
        BY <4>5 DEF Return, ghosts
      <4>. QED BY <3>1, <4>1, <4>2, <4>3, <4>4, <4>5
    <3>2. CASE WaitGivesUp \/ TestId \/ TestWip
      <4>1. CASE WaitGivesUp
        <5>1. late' = (late \/ phase # "Idle")
          BY <4>1, Zenon DEF WaitGivesUp
        <5>2. UNCHANGED <<wedgedAt, jobAt>>
          BY <4>1 DEF WaitGivesUp
        <5>. QED BY <5>1, <5>2, Zenon
      <4>2. CASE TestId
        BY <4>2 DEF TestId
      <4>3. CASE TestWip
        BY <4>3 DEF TestWip
      <4>. QED BY <3>2, <4>1, <4>2, <4>3
    <3>. QED BY <3>1, <3>2 DEF Drive
  <2>. QED BY <2>1, <2>2
<1>2. TypeOK
  BY DEF StartInv
<1>3. SUFFICES ASSUME Reporting  PROVE SuccessInv'
  BY <1>1 DEF SuccessInv, Reporting
<1>4. PICK k \in Jobs : k = Checked[op] /\ k = Checked[op']
  <2>1. Checked[op] \in Jobs
    BY <1>3 DEF Reporting, Checked, Jobs
  <2>. QED BY <1>1, <2>1
<1>5. PICK l \in SLabels, c \in SLabels :
        SStep(k, l, Head(todo), c) /\ Runs(SRel(k), Tail(todo), c, "end") /\ Means(k, l)
  BY <1>1, <1>2, <1>3, <1>4, SHead
<1>6. ASSUME NEW b \in SLabels, Runs(SRel(k), todo', b, "end"), Means(k, b)'  PROVE SuccessInv'
  <2>1. \A j \in Jobs : j = Checked[op'] => j = k
    BY <1>4
  <2>. QED BY <1>6, <2>1 DEF SuccessInv
<1>7. ASSUME todo' = <<>>, WMeans("end")'  PROVE SuccessInv'
  <2>1. Runs(SRel(k), todo', "end", "end") /\ "end" \in SLabels
    BY <1>7, RunsEmpty DEF SLabels
  <2>2. Means(k, "end")'
    BY <1>1, <1>7 DEF Means
  <2>. QED BY <1>6, <2>1, <2>2
<1>8. ASSUME todo' = Tail(todo), WMeans(l) => WMeans(c)', ~late' /\ SMeans(k, l) => SMeans(k, c)' \/ WMeans(c)'
      PROVE  SuccessInv'
  <2>1. Means(k, c)'
    BY <1>1, <1>5, <1>8 DEF Means, Sound
  <2>. QED BY <1>5, <1>6, <1>8, <2>1
<1>9. CASE Access
  <2>1. todo' = Tail(todo)
    BY <1>9 DEF Access, Onward
  <2>2. WMeans(l) => WMeans(c)'
    BY <1>5, <1>9, WedgedGoesOn
  <2>3. SMeans(k, l) => SMeans(k, c)' \/ WMeans(c)'
    BY <1>2, <1>5, <1>9, AccessSucceeds
  <2>. QED BY <1>8, <2>1, <2>2, <2>3
<1>10. CASE WaitEnds \/ WaitGivesUp \/ TakeWord
  <2>1. todo' = Tail(todo)
    BY <1>10 DEF WaitEnds, WaitGivesUp, TakeWord, Onward
  <2>2. WMeans(l) => WMeans(c)'
    BY <1>5, <1>10, WedgedGoesOn
  <2>3. ~late' /\ SMeans(k, l) => SMeans(k, c)'
    BY <1>2, <1>5, <1>10, WaitSucceeds
  <2>. QED BY <1>8, <2>1, <2>2, <2>3
<1>11. CASE TestRet
  <2>1. CASE Onward
    <3>1. todo' = Tail(todo)
      BY <2>1 DEF Onward
    <3>2. WMeans(l) => WMeans(c)'
      BY <1>5, <1>11, WedgedGoesOn
    <3>3. ~late' /\ SMeans(k, l) => SMeans(k, c)'
      BY <1>2, <1>5, <1>11, WaitSucceeds
    <3>. QED BY <1>8, <3>1, <3>2, <3>3
  <2>2. CASE Returns("fail")
    BY <1>7, <2>2 DEF Returns, WMeans
  <2>. QED BY <1>11, <2>1, <2>2 DEF TestRet
<1>12. CASE TestId
  BY <1>5, <1>12 DEF SStep, TestId, At
<1>13. CASE TestWip
  <2>1. l = "noted" /\ c = "judged"
    BY <1>5, <1>13 DEF SStep, TestWip, At
  <2>2. UNCHANGED <<ctrlVars, job, done, err, word>>
    BY <1>13 DEF TestWip, flashVars
  <2>3. (wedgedAt => fail_bit) /\ (Sound => fail_bit \/ SMeans(k, "noted"))
    BY <1>5, <2>1 DEF Means, WMeans
  <2>4. CASE fail_bit \/ ProgrammingError
    <3>1. todo' = Tail(todo) /\ ~status'
      BY <1>13, <2>4 DEF TestWip
    <3>2. WMeans(c)'
      BY <2>1, <3>1 DEF WMeans
    <3>. QED BY <1>8, <3>1, <3>2
  <2>5. CASE ~(fail_bit \/ ProgrammingError) /\ ~WriteInProgress
    <3>1. todo' = Tail(todo) /\ stale' = (stale \/ ~Low.fresh)
      BY <1>13, <2>5 DEF TestWip
    <3>2. ASSUME Sound  PROVE SMeans(k, c)'
      <4>1. Clear /\ Tells(k, Low)
        BY <2>3, <2>5, <3>2 DEF SMeans
      <4>2. ~stale' => Ended(k) /\ (err => Low.err)
        BY <2>5, <3>1, <4>1 DEF Tells, WriteInProgress
      <4>3. driver = "cypress" => ~Low.err
        BY <2>5 DEF ProgrammingError
      <4>4. ~stale' => JobDone(k)'
        BY <1>1, <2>2, <4>1, <4>2, <4>3 DEF JobDone, Ended, Clear, ctrlVars
      <4>. QED BY <2>1, <4>4 DEF SMeans
    <3>3. Means(k, c)'
      BY <1>1, <2>3, <2>5, <3>2 DEF Means, Sound
    <3>. QED BY <1>5, <1>6, <3>1, <3>3
  <2>6. CASE ~(fail_bit \/ ProgrammingError) /\ WriteInProgress
    <3>1. todo' = wait_for_wip(driver) \o Tail(todo)
      BY <1>13, <2>6 DEF TestWip
    <3>2. Runs(SRel(k), todo', "idle", "end")
      BY <1>5, <2>1, <3>1, SFunctions, RunsConcat
    <3>3. Sound => SMeans(k, "idle")'
      BY <2>2, <2>3, <2>6 DEF SMeans, Clear, Made, ctrlVars
    <3>4. Means(k, "idle")' /\ "idle" \in SLabels
      BY <1>1, <2>3, <2>6, <3>3 DEF Means, Sound, SLabels
    <3>. QED BY <1>6, <3>2, <3>4
  <2>. QED BY <2>4, <2>5, <2>6
<1>14. CASE Return
  <2>1. l = "judged" /\ c = "end" /\ At("status")
    BY <1>5, <1>14 DEF SStep, Return, At
  <2>2. /\ todo' = <<>> /\ UNCHANGED <<phase, job, done, err, stale>>
        /\ result' = "ok" => status
    BY <1>14, <2>1 DEF Return, At, Returns, ctrlVars, flashVars, ghosts
  <2>3. WMeans(l) => WMeans("end")'
    BY <2>1, <2>2 DEF WMeans
  <2>4. SMeans(k, l) => SMeans(k, "end")'
    BY <1>1, <2>1, <2>2 DEF SMeans, JobDone, Ended
  <2>5. Means(k, "end")'
    BY <1>1, <1>5, <2>3, <2>4 DEF Means, Sound
  <2>6. Runs(SRel(k), todo', "end", "end") /\ "end" \in SLabels
    BY <2>2, RunsEmpty DEF SLabels
  <2>. QED BY <1>6, <2>5, <2>6
<1>. QED BY <1>9, <1>10, <1>11, <1>12, <1>13, <1>14 DEF Drive

(* A call finds the controller at rest or wedged.                          *)
LEMMA CallSucceeds ==
  ASSUME StartInv, NEW f \in DOMAIN Functions[driver], Call(f)
  PROVE  SuccessInv'
<1>1. /\ op' = f /\ todo' = Functions[driver][f] /\ UNCHANGED <<driver, late, busy, phase, job>>
      /\ wedgedAt' = Wedged /\ jobAt' = (job # "none") /\ driver \in DOMAIN Functions
  BY DEF Call, ctrlVars, StartInv, DriverTypes
<1>2. SUFFICES ASSUME Reporting', NEW k \in Jobs, k = Checked[f]
             PROVE  Runs(SRel(k), todo', "start", "end") /\ Means(k, "start")'
  <2>1. "start" \in SLabels
    BY DEF SLabels
  <2>2. ASSUME NEW k \in Jobs, k = Checked[op']  PROVE k = Checked[f]
    BY <1>1, <2>2
  <2>. QED BY <2>1, <2>2 DEF SuccessInv
<1>3. Runs(SRel(k), todo', "start", "end")
  <2>1. f \in DOMAIN Checked /\ (f = "setVcr" => driver = "cypress")
    BY <1>1, <1>2 DEF Reporting
  <2>2. Runs(SRel(Checked[f]), Functions[driver][f], "start", "end")
    BY <1>1, <2>1, SFunctions
  <2>. QED BY <1>1, <1>2, <2>2
<1>4. wedgedAt' => WMeans("start")'
  BY <1>1 DEF WMeans, Wedged
<1>5. Sound' => SMeans(k, "start")'
  <2> HAVE Sound'
  <2>1. ~Wedged /\ ~late /\ job = "none"
    BY <1>1 DEF Sound
  <2>2. todo = <<>>
    BY DEF StartInv, TypeOK, Call
  <2>3. FMeans("end")
    BY <2>1, <2>2, FEnd DEF StartInv, FlagsInv
  <2>4. phase = "Idle" /\ ~busy
    BY <2>1, <2>3 DEF FMeans, Clear, Skipped, Held
  <2>. QED BY <1>1, <2>1, <2>4 DEF SMeans
<1>. QED BY <1>3, <1>4, <1>5 DEF Means

(* A function that ends in wait_for_wip and returns 0 did its job: the     *)
(* flash began it, ended it and, on the Cypress driver, without an error,  *)
(* whatever was called before, provided every wait saw its command end and *)
(* the byte that was tested came with the last status read.                *)
THEOREM SuccessesAreReal == Spec => []SuccessIsReal
<1>1. Init => SuccessInv
  BY DEF Init, SuccessInv, Reporting, Checked
<1>2. ASSUME StartInv, Reasons, SuccessInv, [Next]_vars  PROVE SuccessInv'
  <2>1. ASSUME NEW f \in DOMAIN Functions[driver], Call(f)  PROVE SuccessInv'
    BY <1>2, <2>1, CallSucceeds
  <2>2. CASE Drive
    BY <1>2, <2>2, DriveSucceeds
  <2>3. CASE Controller \/ Flash
    <3>1. /\ DataReady \/ Instruct \/ Read \/ Write \/ FlashEnds
          /\ UNCHANGED driverVars /\ UNCHANGED <<op, todo, driver, late, wedgedAt, jobAt>>
      BY <2>3 DEF Controller, Flash, driverVars, ghosts
    <3>2. SUFFICES ASSUME Reporting  PROVE SuccessInv'
      BY <3>1 DEF SuccessInv, Reporting
    <3>3. SUFFICES ASSUME NEW k \in Jobs, k = Checked[op]
                  PROVE  \E l \in SLabels : Runs(SRel(k), todo', l, "end") /\ Means(k, l)'
      BY <3>1 DEF SuccessInv
    <3>4. PICK l \in SLabels : Runs(SRel(k), todo, l, "end") /\ Means(k, l)
      BY <1>2, <3>2, <3>3 DEF SuccessInv
    <3>5. WMeans(l) => WMeans(l)'
      BY <3>1, ControllerWedged
    <3>6. SMeans(k, l) => SMeans(k, l)'
      BY <1>2, <3>1, ControllerSucceeds DEF StartInv
    <3>7. Means(k, l)'
      BY <3>1, <3>4, <3>5, <3>6 DEF Means, Sound
    <3>8. todo' = todo
      BY <3>1
    <3>9. Runs(SRel(k), todo', l, "end")
      BY <3>4, <3>8
    <3>. QED BY <3>7, <3>9
  <2>4. CASE UNCHANGED vars
    <3>1. /\ UNCHANGED <<busy, phase, tcf, ccr, dlr, fifo, wel, job, err, done, driver, op, todo, ret, word>>
          /\ UNCHANGED <<status, fail_bit, result, late, wedgedAt, jobAt, stale>>
      BY <2>4 DEF vars, ctrlVars, flashVars, driverVars, ghosts
    <3>2. \A l : WMeans(l) => WMeans(l)'
      BY <3>1 DEF WMeans, Wedged
    <3>3. \A j, l : SMeans(j, l) => SMeans(j, l)'
      BY <3>1 DEF SMeans, Clear, Held, Going, Enabled, Made, Ended, Tells, FreshTells, NoneFresh, JobDone, Low
    <3>4. \A j, l : Means(j, l) => Means(j, l)'
      BY <3>1, <3>2, <3>3 DEF Means, Sound
    <3>. QED BY <1>2, <3>1, <3>4 DEF SuccessInv, Reporting
  <2>. QED BY <1>2, <2>1, <2>2, <2>3, <2>4 DEF Next
<1>3. ASSUME StartInv, SuccessInv  PROVE SuccessIsReal
  <2> SUFFICES ASSUME Reports  PROVE ~wedgedAt /\ (~stale /\ ~late /\ ~jobAt => JobDone(Checked[op]))
    BY DEF SuccessIsReal, JobDone, Ended
  <2>1. todo = <<>>
    BY <1>3 DEF StartInv, TypeOK, Reports
  <2>2. Reporting /\ Checked[op] \in Jobs
    BY DEF Reports, Reporting, Checked, Jobs
  <2>3. PICK l \in SLabels : Runs(SRel(Checked[op]), todo, l, "end") /\ Means(Checked[op], l)
    BY <1>3, <2>2 DEF SuccessInv
  <2>4. l = "end"
    BY <2>1, <2>3, RunsEmpty
  <2>. QED BY <2>3, <2>4 DEF Means, Sound, WMeans, SMeans, Reports
<1>. QED BY <1>1, <1>2, <1>3, CausesKept, DriverStarts, PTL DEF Spec
=============================================================================
