----------------------------- MODULE QspiDriver -----------------------------
(***************************************************************************)
(* The flash drivers of devices/qspi/driver on the QSPI controller.  A     *)
(* driver function is the sequence of its register accesses, waits and     *)
(* tests, and calling it puts that sequence into `todo'; one step takes    *)
(* its head.  qspi_micron.c, qspi_issi.c, qspi_cypress.h and qspi_dma.c    *)
(* each have their table of functions; the client calls them in any order, *)
(* as the four main functions do in theirs.                                *)
(***************************************************************************)
EXTENDS QspiCtrl

CONSTANTS Drivers,   \* the drivers to run, of DOMAIN Functions
          MaxCalls   \* bound, for each driver: calls in a behaviour

VARIABLES
  driver,    \* the driver linked in; never changes
  op,        \* the function last called
  todo,      \* what is left of it
  ret,       \* `ret': the last wait for TCF gave up
  word,      \* the bytes last read from DR, most significant first
  status,    \* what wait_for_wip returned: TRUE stands for 0
  fail_bit,
  result,    \* what the function returned, or "running"
  calls,
  late,      \* a wait gave up on a command that was yet to end
  skipped,   \* an identification returned before its reset of the flags
  gaveUp,    \* a wait gave up during this call
  failedAt,  \* fail_bit when the function was called
  wedgedAt,  \* the controller was wedged when it was called
  jobAt,     \* the flash was still at an earlier job when it was called
  stale      \* the status byte that ended the loop had been in the FIFO before

ghosts == <<late, skipped, gaveUp, failedAt, wedgedAt, jobAt, stale>>
driverVars == <<driver, odd, op, todo, ret, word, status, fail_bit, result, calls, ghosts>>
vars == <<ctrlVars, flashVars, driverVars>>

-----------------------------------------------------------------------------
(* What a function is made of.                                             *)
Step(what) == <<[do |-> what]>>
Ccr(c) == <<[do |-> "ccr", cmd |-> c]>>
Dlr(n) == <<[do |-> "dlr", len |-> n]>>
Dr(n)  == <<[do |-> "dr", len |-> n]>>
Ar == Step("ar")           \* ar = address
Wait == Step("wait")       \* ret = wait_for_tcf(status)
Reset == Step("reset")     \* reset_interrupt_flags()
Take == Step("take")       \* value = *dr; also where only a printf reads *dr
IfRet == Step("ifret")     \* if (ret) return -1
NoteFail == Step("note")   \* if (ret) fail_bit = 1
Poll == Step("poll")       \* the tests of wait_for_wip's loop
IfId == Step("ifid")       \* if (value != the id) return -1
Return0 == Step("return0")
ReturnStatus == Step("status")

(* qspi.h                                                                  *)
micron_write_enable == Ccr("wren") \o Wait \o IfRet
micron_enable_4byte_addressing == Ccr("b4") \o Wait \o IfRet
micron_configure_xip_volatile == Dlr(1) \o Dr(1) \o Ccr("vcr") \o Wait \o Take \o IfRet

(* Each use of micron_write_enable: if it succeeded, the flags are reset.  *)
(* Mutant: the flags are left set.                                         *)
LeftEnabled == micron_write_enable
WriteEnabled == micron_write_enable \o Reset

(* The two ways to read the status register, and the loop around it.       *)
flashReadStatusRegister == Dlr(4) \o Ccr("rdsr") \o Wait \o Take \o Reset \o NoteFail
cypressReadStatusRegister == Dlr(4) \o Ccr("rdsr") \o Wait \o NoteFail \o Reset \o Take
wait_for_wip(d) ==
  (IF d = "cypress" THEN cypressReadStatusRegister ELSE flashReadStatusRegister) \o Poll

eraseSector(d) == WriteEnabled \o Ccr("erase") \o Ar \o Wait \o Reset \o wait_for_wip(d) \o ReturnStatus
PageProgram(d) ==
  WriteEnabled \o Dlr(16) \o Ccr("prog") \o Ar \o Dr(4) \o Dr(4) \o Dr(4) \o Dr(4)
    \o Wait \o Reset \o wait_for_wip(d) \o ReturnStatus

(* qspi_micron.c                                                           *)
flashIdentificationDevice == Dlr(4) \o Ccr("ida") \o Ar \o Wait \o Take \o Reset \o IfId \o Return0
flashEnable4ByteAddressingMode ==
  Ccr("wren") \o Wait \o Reset \o IfRet \o Ccr("b4") \o Wait \o Reset \o flashReadStatusRegister \o Return0
flashReadSingleSPI == Dlr(4) \o Ccr("read") \o Ar \o Wait \o Take \o IfRet \o Reset \o Return0
flashReadQuadSPI ==
  Dlr(16) \o Ccr("read") \o Ar \o Wait \o Take \o Take \o Take \o Take \o IfRet \o Reset \o Return0
flashWriteVolatileConfigReg ==
  WriteEnabled \o Dlr(1) \o Dr(1) \o Ccr("vcr") \o Wait \o Take \o Reset \o IfRet
flash_Write_disable == Ccr("wrdi") \o Wait \o Reset \o wait_for_wip("micron") \o ReturnStatus
flashSingleSPIXip ==
  Ccr("read") \o Dlr(4) \o Ar \o Wait \o Take \o Reset \o Ccr("mmap") \o Return0
flashQuadSPIXip ==
  flashWriteVolatileConfigReg \o wait_for_wip("micron") \o Reset \o flashSingleSPIXip

Micron ==
  [identify |-> flashIdentificationDevice,
   status   |-> flashReadStatusRegister \o IfRet \o Return0,
   fourByte |-> flashEnable4ByteAddressingMode,
   setVcr   |-> flashWriteVolatileConfigReg \o Return0,
   erase    |-> eraseSector("micron"),
   program  |-> PageProgram("micron"),
   disable  |-> flash_Write_disable,
   read     |-> flashReadSingleSPI,
   quad     |-> flashReadQuadSPI,
   xip      |-> flashSingleSPIXip,
   quadXip  |-> flashQuadSPIXip]

(* qspi_issi.c: the identification sends no address and tests nothing; it  *)
(* has no return statement, and its caller refuses only -1.                *)
issiIdentification == Dlr(4) \o Ccr("id") \o Wait \o Take \o Reset \o Return0

(* The rest is as for Micron, but a quad read takes one word.              *)
Issi == [Micron EXCEPT !.identify = issiIdentification, !.quad = flashReadSingleSPI]

(* qspi_cypress.h                                                          *)
cypressflashIdentification ==
  WriteEnabled \o Dlr(4) \o Ccr("id") \o Wait \o Take \o IfId \o Reset \o IfRet \o Return0
setVCR == WriteEnabled \o Dlr(2) \o Dr(1) \o Dr(1) \o Ccr("vcr") \o Wait \o Take \o Reset
            \o wait_for_wip("cypress") \o ReturnStatus
cypressEnterXIP ==
  Dlr(4) \o Ccr("read") \o Ar \o Wait \o Take \o Reset \o Ccr("mmap") \o Return0
cypressExitXIP == Step("abort") \o Return0

Cypress ==
  [identify |-> cypressflashIdentification,
   setVcr   |-> setVCR,
   erase    |-> eraseSector("cypress"),
   program  |-> PageProgram("cypress"),
   read     |-> flashReadSingleSPI,
   xip      |-> cypressEnterXIP,
   exitXip  |-> cypressExitXIP]

(* qspi_dma.c: what its main calls, each call followed by the test of its  *)
(* result and the reset of the flags; the read of the id is not tested.    *)
Dma ==
  [enable   |-> WriteEnabled \o Return0,
   identify |-> Dlr(4) \o Ccr("id") \o Wait \o Take \o Reset \o Return0,
   fourByte |-> micron_enable_4byte_addressing \o Reset \o Return0,
   setVcr   |-> WriteEnabled \o micron_configure_xip_volatile \o Reset \o Return0,
   xip      |-> flashSingleSPIXip]

Functions == [micron |-> Micron, issi |-> Issi, cypress |-> Cypress, dma |-> Dma]

ASSUME QspiAssumption == Drivers \subseteq DOMAIN Functions /\ MaxCalls \in [Drivers -> Nat]

-----------------------------------------------------------------------------
(* The controller has left Idle without being busy: it never returns.      *)
Wedged == phase = "Active" /\ ~busy

Init ==
  /\ CtrlInit
  /\ driver \in Drivers
  /\ op = "none" /\ todo = <<>> /\ ret = FALSE /\ word = <<>> /\ status = TRUE
  /\ fail_bit = FALSE /\ result = "none" /\ calls = 0
  /\ late = FALSE /\ skipped = FALSE /\ gaveUp = FALSE /\ failedAt = FALSE
  /\ wedgedAt = FALSE /\ jobAt = FALSE /\ stale = FALSE

(* After an XIP function only memory is read, until cypressExitXIP.        *)
MayCall(f) == f = "exitXip" <=> op \in {"xip", "quadXip"} /\ result = "ok"

(* A main calls its next function, whatever the one before it returned.    *)
Call(f) ==
  /\ result # "running" /\ calls < MaxCalls[driver]
  /\ MayCall(f)
  /\ op' = f /\ todo' = Functions[driver][f] /\ result' = "running" /\ calls' = calls + 1
  /\ gaveUp' = FALSE /\ failedAt' = fail_bit /\ wedgedAt' = Wedged /\ jobAt' = (job # "none")
  /\ ret' = FALSE /\ word' = <<>> /\ status' = TRUE
  /\ stale' = FALSE /\ done' = {}
  /\ UNCHANGED <<driver, odd, fail_bit, late, skipped>>
  /\ UNCHANGED ctrlVars /\ UNCHANGED <<wel, job, sent, err>>

At(what) == result = "running" /\ Head(todo).do = what
Onward == todo' = Tail(todo) /\ UNCHANGED <<driver, odd, op, calls>>
Returns(r) == result' = r /\ todo' = <<>> /\ UNCHANGED <<driver, odd, op, calls>>

(* A register access of the driver.                                        *)
Access ==
  /\ \/ At("ccr") /\ WriteCcr(Head(todo).cmd)
     \/ At("dlr") /\ WriteDlr(Head(todo).len)
     \/ At("ar") /\ WriteAr
     \/ At("dr") /\ WriteDr(Repeat(Head(todo).len, Data("data", odd)))
     \/ At("reset") /\ ClearFlags
     \/ At("abort") /\ Abort
  /\ Onward
  /\ UNCHANGED flashVars /\ UNCHANGED <<ret, word, status, fail_bit, result, ghosts>>

(* wait_for_tcf: SR is read until TCF is set, DEF_TIMEOUT times at most.   *)
(* rl_data_wait takes one cycle and is never waited out.                   *)
WaitEnds ==
  /\ At("wait") /\ tcf /\ ret' = FALSE
  /\ Onward
  /\ UNCHANGED ctrlVars /\ UNCHANGED flashVars /\ UNCHANGED <<word, status, fail_bit, result, ghosts>>

(* Mutant: only a transfer that has begun is timed out.                    *)
TimedOutTransfer == ~tcf /\ busy
TimedOut == ~tcf /\ ~AllDataIn
WaitGivesUp ==
  /\ At("wait") /\ TimedOut
  /\ ret' = TRUE /\ gaveUp' = TRUE /\ late' = (late \/ phase # "Idle")
  /\ Onward
  /\ UNCHANGED ctrlVars /\ UNCHANGED flashVars
  /\ UNCHANGED <<word, status, fail_bit, result, skipped, failedAt, wedgedAt, jobAt, stale>>

TakeWord ==
  /\ At("take") /\ ReadDr /\ word' = SubSeq(fifo, 1, Taken)
  /\ Onward
  /\ UNCHANGED flashVars /\ UNCHANGED <<ret, status, fail_bit, result, ghosts>>

(* The tests, with the returns they decide.                                *)
Low == IF word = <<>> THEN [Data("none", FALSE) EXCEPT !.fresh = FALSE] ELSE word[Len(word)]

TestRet ==
  /\ \/ At("ifret") /\ IF ret THEN Returns("fail") ELSE Onward /\ UNCHANGED result
     \/ At("note") /\ Onward /\ UNCHANGED result
  /\ fail_bit' = (fail_bit \/ (At("note") /\ ret))
  /\ UNCHANGED ctrlVars /\ UNCHANGED flashVars /\ UNCHANGED <<ret, word, status, ghosts>>

TestId ==
  /\ At("ifid")
  /\ \/ /\ Len(word) = 4 /\ \A i \in 1..4 : word[i].of = "id" /\ word[i].fresh
        /\ Onward /\ UNCHANGED <<result, skipped>>
     \/ Returns("fail") /\ skipped' = (skipped \/ Head(Tail(todo)).do = "reset")
  /\ UNCHANGED ctrlVars /\ UNCHANGED flashVars
  /\ UNCHANGED <<ret, word, status, fail_bit, late, gaveUp, failedAt, wedgedAt, jobAt, stale>>

(* check_fail_bit, the programming error bit, which only the Cypress       *)
(* driver looks at, and WIP.                                               *)
(* Mutant: the mask of the test before it.                                 *)
MaskedOut == FALSE
WriteInProgress == Low.wip
(* Mutant: the mask of WIP. *)
MaskOfWip == driver = "cypress" /\ Low.wip
ProgrammingError == driver = "cypress" /\ Low.err
FailBitChecked == FALSE
TestWip ==
  /\ At("poll")
  /\ LET fails == fail_bit \/ ProgrammingError
         again == ~fails /\ WriteInProgress IN
     /\ status' = ~fails
     /\ todo' = IF again THEN wait_for_wip(driver) \o Tail(todo) ELSE Tail(todo)
     /\ fail_bit' = FailBitChecked
     /\ stale' = (stale \/ (~fail_bit /\ ~again /\ ~Low.fresh))
  /\ UNCHANGED ctrlVars /\ UNCHANGED flashVars
  /\ UNCHANGED <<driver, odd, op, calls, ret, word, result, late, skipped, gaveUp, failedAt, wedgedAt, jobAt>>

Return ==
  /\ \/ At("return0") /\ Returns("ok")
     \/ At("status") /\ Returns(IF status THEN "ok" ELSE "fail")
  /\ UNCHANGED ctrlVars /\ UNCHANGED flashVars /\ UNCHANGED <<ret, word, status, fail_bit, ghosts>>

Drive == Access \/ WaitEnds \/ WaitGivesUp \/ TakeWord \/ TestRet \/ TestId \/ TestWip \/ Return

(* The controller and the flash never stop, nor does the hart that runs    *)
(* the driver.  The driver's tests touch no register: they are taken at    *)
(* once, which leaves out no behaviour that differs to anyone.             *)
Testing == \E what \in {"ifret", "note", "ifid", "poll", "return0", "status"} : At(what)
Controller == ~Testing /\ (DataReady \/ Instruct \/ Read \/ Write) /\ UNCHANGED driverVars
Flash == ~Testing /\ FlashEnds /\ UNCHANGED driverVars

Next == ~broken /\ ((\E f \in DOMAIN Functions[driver] : Call(f)) \/ Drive \/ Controller \/ Flash)
Fairness == WF_vars(Drive) /\ WF_vars(Controller) /\ WF_vars(Flash)
Spec == Init /\ [][Next]_vars /\ Fairness

-----------------------------------------------------------------------------
(* The registers and FIFO of the controller, and where a call can stand.   *)
TypeOK ==
  /\ busy \in BOOLEAN /\ phase \in {"Idle", "DataWait", "Active"} /\ tcf \in BOOLEAN
  /\ ccr \in DOMAIN Commands /\ dlr \in 0..Size
  /\ fifo \in Seq(Byte) /\ Len(fifo) <= Size /\ broken \in BOOLEAN
  /\ wel \in BOOLEAN /\ job \in Jobs \cup {"none"} /\ err \in BOOLEAN /\ done \subseteq Jobs
  /\ busy => phase = "Active"
  /\ word \in Seq(Byte) /\ Len(word) <= 4
  /\ result = "running" <=> todo # <<>>

(* A command begins and runs: the flags the one before it set have been    *)
(* reset, whichever functions were called in whichever order, unless a     *)
(* wait gave up before its command ended or the Cypress identification     *)
(* returned early (qspi_cypress.h:22).  A TCF left over would stop the new *)
(* command and wedge the controller (rl_reset_busy_signal).                *)
CommandsStart == TypeOK /\ (Wedged => late \/ skipped)

(* The functions that end in wait_for_wip, and the job of each.            *)
Checked == [erase |-> "erase", program |-> "prog", setVcr |-> "vcr"]
Reports == op \in DOMAIN Checked /\ (op = "setVcr" => driver = "cypress") /\ result = "ok"

(* A function that ends in wait_for_wip and returns 0 has had the flash    *)
(* begin and end its job: the status it went by is one of its own, not     *)
(* the idle status of an earlier poll.  That needs every wait to have seen *)
(* its command end, the byte tested not to be one left in the FIFO, and no *)
(* job of an earlier call to be in progress: flashWriteVolatileConfigReg   *)
(* returns without waiting for its own, and the flash ignores what it is   *)
(* sent meanwhile.  On a wedged controller none returns 0 in any case,     *)
(* though its first wait ends at once on the TCF that did it.              *)
SuccessIsReal ==
  Reports =>
    /\ ~wedgedAt
    /\ ~stale /\ ~late /\ ~jobAt =>
         Checked[op] \in done /\ job = "none" /\ (driver = "cypress" => ~err)

(* None of them fails for nothing: a wait of this call gave up, the flash  *)
(* reported an error, the status byte was an old one, or a status read     *)
(* before the call had left fail_bit set, which wait_for_wip consumes.     *)
FailureHasCause ==
  op \in DOMAIN Checked /\ result = "fail" =>
    gaveUp \/ failedAt \/ stale \/ (driver = "cypress" /\ err)

(* Every call returns, because every wait for TCF is bounded and the flash *)
(* ends its jobs, so wait_for_wip, which is not bounded, sees it.          *)
CallsReturn == result = "running" ~> result # "running" \/ broken

(* A page program is "4 32-bit words per transfer (16 Byte Transfer)"      *)
(* (qspi_cypress.h:122): the flash that programs was sent the caller's     *)
(* sixteen bytes.                                                          *)
ProgramIsWhole == job = "prog" => sent = Repeat(16, "data")
=============================================================================
