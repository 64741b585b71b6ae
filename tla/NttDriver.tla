----------------------------- MODULE NttDriver -----------------------------
(***************************************************************************)
(* The drivers of the NTT accelerator: ntt_kyber_hw_drive of               *)
(* benchmarks/kyber/ref/ntt_kyber_hw.c with its call statistics, and       *)
(* hw_ntt_fwd_detailed of benchmarks/ntt/ntt_test.c, against the           *)
(* accelerator's registers.                                                *)
(*                                                                         *)
(* The driver is a sequential program; the accelerator runs beside it.     *)
(* Each register access is a step.  A word of the polynomial of call c is  *)
(* the number c.  A transform is named by the vector it was computed from, *)
(* and so is each of its words, since every output depends on all inputs.  *)
(* The accelerator (NTTAXI4.bsv) is not in this tree: its registers are    *)
(* modelled from the drivers and from README.md.                           *)
(***************************************************************************)
EXTENDS Integers, FiniteSets, FiniteSetsExt

CONSTANTS
  N,          \* words of a polynomial (HW_N = 256)
  MaxPolls,   \* reads of CTRL before a bounded loop gives up (2000000)
  LogSize,    \* NTT_HW_MAX_CALLS
  Handshakes, \* the drivers to run: TRUE for ntt_test.c, which first resets the
              \* handshake and then waits without bound; FALSE for ntt_kyber_hw.c
  Prompt,     \* TRUE: the accelerator is done before the driver gives up
  MaxCalls    \* bound: calls of the driver

ASSUME DriverAssumption ==
  /\ N \in Nat \ {0} /\ MaxPolls \in Nat \ {0} /\ MaxCalls \in Nat \ {0}
  /\ LogSize \in Nat /\ Handshakes \subseteq BOOLEAN /\ Prompt \in BOOLEAN

Words == 0 .. N - 1
Calls == 0 .. MaxCalls

VARIABLES
  handshake, \* the driver linked in; never changes
  pc,       \* where the driver is
  i,        \* the loop index over words
  timeout,  \* reads of CTRL so far, in either loop
  poly,     \* the caller's polynomial, transformed in place
  total_calls, min_cycles, max_cycles, total_cycles, log,  \* g_ntt_hw_stats
  st,       \* the accelerator's state
  din, dout, \* DATA_IN and DATA_OUT; dout is the vector they are computed from
  work,     \* the vector the core works on
  call,     \* ghost: calls so far, the number of the current one
  taken     \* ghost: the START of this call began a transform

driver == <<pc, i, timeout, poly, call, taken>>
stats  == <<total_calls, min_cycles, max_cycles, total_cycles, log>>
accel  == <<st, din, dout, work>>
vars   == <<handshake, driver, stats, accel>>

UINT64_MAX == MaxPolls + 1    \* above every count of cycles

(* The vector of call c, counting from 1; 0 is what registers hold at      *)
(* reset.  A coefficient is word `at' of the transform of vector `of', or  *)
(* still a word of `of' itself: at = N.                                    *)
Vector(c) == [w \in Words |-> c]
Coeffs    == [of : [Words -> Calls], at : Words \union {N}]
Input(c)  == [w \in Words |-> [of |-> Vector(c), at |-> N]]
Transform(v) == [w \in Words |-> [of |-> v, at |-> w]]

(* g_ntt_hw_stats is zeroed memory until ntt_hw_stats_reset runs.          *)
Init ==
  /\ handshake \in Handshakes
  /\ pc = "boot" /\ i = 0 /\ timeout = 0 /\ poly = Input(0)
  /\ call = 0 /\ taken = FALSE
  /\ total_calls = 0 /\ min_cycles = 0 /\ max_cycles = 0 /\ total_cycles = 0
  /\ log = <<>>
  /\ st = "IDLE" /\ din = Vector(0) /\ dout = Vector(0) /\ work = Vector(0)

----------------------------------------------------------------------------
(* The accelerator's side of a register access.                            *)

DONE == st = "DONE"
BUSY == st \in {"LOADING", "RUNNING"}

WriteCtrlStart ==
  IF st \in {"IDLE", "DONE"} THEN st' = "LOADING" /\ taken' = TRUE
                             ELSE UNCHANGED <<st, taken>>
WriteCtrlZero == st' = IF DONE THEN "IDLE" ELSE st

(* It loads DATA_IN, computes, and publishes the result.                   *)
Load ==
  /\ st = "LOADING"
  /\ st' = "RUNNING" /\ work' = din
  /\ UNCHANGED <<driver, stats, din, dout>>

Finish ==
  /\ st = "RUNNING"
  /\ st' = "DONE" /\ dout' = work
  /\ UNCHANGED <<driver, stats, din, work>>

----------------------------------------------------------------------------
(* The driver.                                                             *)

goto(l) == pc' = l /\ i' = 0

(* ntt_hw_stats_reset, before the calls that are measured.                 *)
ntt_hw_stats_reset ==
  /\ pc \in {"boot", "out"}
  /\ goto("out")
  /\ total_calls' = 0 /\ min_cycles' = UINT64_MAX /\ max_cycles' = 0
  /\ total_cycles' = 0 /\ log' = <<>>
  /\ UNCHANGED <<timeout, poly, call, taken, accel>>

(* A call with a polynomial of its own; ntt_test.c first writes CTRL = 0.  *)
Call ==
  /\ pc = "out" /\ call < MaxCalls
  /\ call' = call + 1 /\ poly' = Input(call + 1)
  /\ taken' = FALSE /\ timeout' = 0
  /\ IF handshake THEN goto("settle") /\ WriteCtrlZero
                  ELSE goto("pack") /\ UNCHANGED st
  /\ UNCHANGED <<stats, din, dout, work>>

(* ntt_reset_handshake: wait until neither BUSY nor DONE, but not for ever. *)
Settle ==
  /\ pc = "settle"
  /\ IF (BUSY \/ DONE) /\ timeout + 1 < MaxPolls
       THEN timeout' = timeout + 1 /\ UNCHANGED <<pc, i>>
       ELSE timeout' = 0 /\ goto("pack")
  /\ UNCHANGED <<poly, call, taken, stats, accel>>

(* Mutant: the loop stops one word early.                                *)
PackWord_short ==
  /\ pc = "pack"
  /\ din' = [din EXCEPT ![i] = poly[i].of[i]]
  /\ IF i >= N - 2 THEN goto("start") ELSE i' = i + 1 /\ UNCHANGED pc
  /\ UNCHANGED <<timeout, poly, call, taken, stats, st, dout, work>>

(* pack_data_in_burst, or the LOAD phase: one word of DATA_IN a step.      *)
PackWord ==
  /\ pc = "pack"
  /\ din' = [din EXCEPT ![i] = poly[i].of[i]]
  /\ IF i = N - 1 THEN goto("start") ELSE i' = i + 1 /\ UNCHANGED pc
  /\ UNCHANGED <<timeout, poly, call, taken, stats, st, dout, work>>

Start ==
  /\ pc = "start"
  /\ WriteCtrlStart
  /\ goto("poll")
  /\ UNCHANGED <<timeout, poly, call, stats, din, dout, work>>

PollDone ==
  /\ pc = "poll" /\ DONE
  /\ goto("stop")
  /\ UNCHANGED <<timeout, poly, call, taken, stats, accel>>

(* Mutant: the iterations are not counted.                               *)
PollAgain_uncounted ==
  /\ pc = "poll" /\ ~DONE
  /\ handshake \/ timeout + 1 < MaxPolls
  /\ UNCHANGED <<timeout, pc, i, poly, call, taken, stats, accel>>

(* DONE is not set.  The bounded loop counts, and leaves at the limit as   *)
(* if the transform were there.                                            *)
PollAgain ==
  /\ pc = "poll" /\ ~DONE
  /\ handshake \/ timeout + 1 < MaxPolls
  /\ timeout' = IF handshake THEN timeout ELSE timeout + 1
  /\ UNCHANGED <<pc, i, poly, call, taken, stats, accel>>

PollTimeout ==
  /\ pc = "poll" /\ ~DONE /\ ~handshake /\ ~Prompt
  /\ timeout + 1 >= MaxPolls
  /\ timeout' = timeout + 1
  /\ goto("stop")
  /\ UNCHANGED <<poly, call, taken, stats, accel>>

Stop ==
  /\ pc = "stop"
  /\ WriteCtrlZero
  /\ goto("unpack")
  /\ UNCHANGED <<timeout, poly, call, taken, stats, din, dout, work>>

(* Mutant: the loop stops one word early.                                *)
UnpackWord_short ==
  /\ pc = "unpack"
  /\ poly' = [poly EXCEPT ![i] = Transform(dout)[i]]
  /\ IF i >= N - 2 THEN goto("account") ELSE i' = i + 1 /\ UNCHANGED pc
  /\ UNCHANGED <<timeout, call, taken, stats, accel>>

(* unpack_data_out_burst, or the STORE phase.                              *)
UnpackWord ==
  /\ pc = "unpack"
  /\ poly' = [poly EXCEPT ![i] = Transform(dout)[i]]
  /\ IF i = N - 1 THEN goto("account") ELSE i' = i + 1 /\ UNCHANGED pc
  /\ UNCHANGED <<timeout, call, taken, stats, accel>>

(* The log has room for LogSize calls.                                     *)
Logged(detail) ==
  IF total_calls < LogSize
    THEN [k \in DOMAIN log \union {total_calls} |-> IF k = total_calls THEN detail ELSE log[k]]
    ELSE log

(* Mutant: min is only looked at when max did not change.                *)
Account_else ==
  /\ pc = "account"
  /\ goto("out")
  /\ total_calls' = total_calls + 1
  /\ total_cycles' = total_cycles + timeout
  /\ max_cycles' = Max({max_cycles, timeout})
  /\ min_cycles' = IF timeout > max_cycles THEN min_cycles ELSE Min({min_cycles, timeout})
  /\ log' = Logged([call_no |-> total_calls, total_cycles |-> timeout])
  /\ UNCHANGED <<timeout, poly, call, taken, accel>>

(* The statistics, which only the kyber driver keeps.  The cycles of a     *)
(* call are counted in reads of CTRL.                                      *)
Account ==
  /\ pc = "account"
  /\ goto("out")
  /\ IF handshake THEN UNCHANGED stats ELSE
       LET detail == [call_no |-> total_calls, total_cycles |-> timeout]
       IN  /\ total_calls' = total_calls + 1
           /\ total_cycles' = total_cycles + detail.total_cycles
           /\ min_cycles' = Min({min_cycles, detail.total_cycles})
           /\ max_cycles' = Max({max_cycles, detail.total_cycles})
           /\ log' = Logged(detail)
  /\ UNCHANGED <<timeout, poly, call, taken, accel>>

----------------------------------------------------------------------------
Driver == /\ \/ Call \/ Settle \/ PackWord \/ Start \/ PollDone \/ PollAgain
             \/ PollTimeout \/ Stop \/ UnpackWord \/ Account
          /\ UNCHANGED handshake
Accelerator == (Load \/ Finish) /\ UNCHANGED handshake

Next == (ntt_hw_stats_reset /\ UNCHANGED handshake) \/ Driver \/ Accelerator

Spec == Init /\ [][Next]_vars

(* The processor executes the driver once it is called.  The accelerator   *)
(* goes on under FairSpec; under DriverSpec it may hang unless ntt_test.c  *)
(* waits for it.                                                           *)
DriverSpec == Spec /\ WF_vars(Driver /\ pc # "out") /\ WF_vars(handshake /\ Accelerator)
FairSpec   == DriverSpec /\ WF_vars(Accelerator)

----------------------------------------------------------------------------
TypeOK ==
  /\ handshake \in BOOLEAN
  /\ pc \in {"boot", "out", "settle", "pack", "start", "poll", "stop", "unpack", "account"}
  /\ i \in Words /\ timeout \in 0 .. MaxPolls /\ taken \in BOOLEAN
  /\ st \in {"IDLE", "LOADING", "RUNNING", "DONE"}
  /\ din \in [Words -> Calls] /\ dout \in [Words -> Calls] /\ work \in [Words -> Calls]
  /\ poly \in [Words -> Coeffs]
  /\ call \in Calls /\ total_calls \in 0 .. call /\ DOMAIN log \subseteq Calls

(* When a call returns, the caller's polynomial is the transform of what   *)
(* the caller put into it: "Full NTT round-trip".                          *)
OwnTransform ==
  pc = "account" => poly = Transform(Vector(call))

(* It is so for the driver that waits as long as it takes, and for both if *)
(* the accelerator is done before the bounded wait ends.                   *)
WaitedIsOwn == Prompt \/ handshake => OwnTransform

(* Even after calls that gave up: a call whose START was taken and that    *)
(* saw DONE returns its own transform, because nothing of an earlier run   *)
(* of the accelerator can reach the registers once START was taken.        *)
TakenMeansOwn ==
  taken /\ pc = "stop" /\ DONE => dout = Vector(call)

(* min, max, the total and the log describe the same calls: log entry k is *)
(* call k, and calls beyond the log still count.                           *)
StatsAgree ==
  pc = "out" =>
    /\ DOMAIN log = {k \in Calls : k < total_calls /\ k < LogSize}
    /\ \A k \in DOMAIN log :
         /\ log[k].call_no = k
         /\ min_cycles <= log[k].total_cycles /\ log[k].total_cycles <= max_cycles
    /\ total_calls = 0 <=> min_cycles = UINT64_MAX
    /\ total_calls <= LogSize =>
         total_cycles = MapThenSumSet(LAMBDA k : log[k].total_cycles, DOMAIN log)

(* The driver always returns to its caller.                                *)
EveryCallReturns == (pc = "pack") ~> (pc = "out")
============================================================================
