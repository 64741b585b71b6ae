------------------------------ MODULE QspiCtrl ------------------------------
(***************************************************************************)
(* The QSPI controller, devices/qspi/qspi.bsv, seen from its registers, in *)
(* indirect mode, and the flash memory behind it.  One command is a write  *)
(* of CCR, of AR or of DR, whichever completes it; the phases that shift   *)
(* it out are one step.  A byte in the FIFO is kept as where it came from, *)
(* whether it was there before the last command was written (`fresh'), and *)
(* the two bits the drivers test in a status word.  The flash is outside   *)
(* the repository: it does what the drivers ask it for and needs time.     *)
(***************************************************************************)
EXTENDS Naturals, Sequences, SequencesExt

VARIABLES
  busy,    \* rg_sr_busy
  phase,   \* rg_phase: "Idle", "DataWait", or "Active" for all the others
  tcf,     \* rg_sr_tcf and rg_delay_sr_tcf
  ccr,     \* rg_ccr: the command last accepted
  dlr,     \* rg_dlr
  fifo,    \* the data FIFO behind DR
  odd,     \* the data written and read has its low bits set; never changes
  broken,  \* the unguarded FIFO was filled past its size or emptied past its
           \* end: what it holds and how much is undefined from then on
  wel,     \* flash: the write enable latch
  job,     \* flash: the erase, program or register write in progress, or "none"
  sent,    \* flash: where the bytes of the job under way came from
  err,     \* flash: the last job failed
  done     \* flash: the jobs finished since the driver was last called

ctrlVars  == <<busy, phase, tcf, ccr, dlr, fifo, broken>>
flashVars == <<wel, job, sent, err, done>>

Size == 16

(* What the fields of a CCR value decide: whether the command has an       *)
(* address and data, and its functional mode.                              *)
Command(adr, dat, mode) == [adr |-> adr, dat |-> dat, mode |-> mode]
Commands ==
  [none  |-> Command(FALSE, FALSE, "wr"), wren |-> Command(FALSE, FALSE, "wr"),
   wrdi  |-> Command(FALSE, FALSE, "wr"), b4   |-> Command(FALSE, FALSE, "wr"),
   rdsr  |-> Command(FALSE, TRUE, "rd"),  id   |-> Command(FALSE, TRUE, "rd"),
   ida   |-> Command(TRUE, TRUE, "rd"),   read |-> Command(TRUE, TRUE, "rd"),
   erase |-> Command(TRUE, FALSE, "wr"),  prog |-> Command(TRUE, TRUE, "wr"),
   vcr   |-> Command(FALSE, TRUE, "wr"),  mmap |-> Command(TRUE, TRUE, "mm")]

Jobs == {"erase", "prog", "vcr"}

Byte == [of : {"id", "rdsr", "read", "data", "none"}, fresh : BOOLEAN,
         wip : BOOLEAN, err : BOOLEAN]
Data(of, b) == [of |-> of, fresh |-> TRUE, wip |-> b, err |-> FALSE]
Repeat(n, byte) == [i \in 1..n |-> byte]

CtrlInit ==
  /\ busy = FALSE /\ phase = "Idle" /\ tcf = FALSE /\ ccr = "none" /\ dlr = 0
  /\ fifo = <<>> /\ broken = FALSE /\ odd \in BOOLEAN
  /\ wel = FALSE /\ job = "none" /\ sent = <<>> /\ err = FALSE /\ done = {}

-----------------------------------------------------------------------------
(* A command begins only in the Idle phase.  rl_reset_busy_signal drops    *)
(* busy as soon as TCF is set, also when it was set by an earlier command: *)
(* the phase has left Idle then and nothing will move it again.            *)
Begin ==
  IF phase = "Idle"
  THEN phase' = "Active" /\ busy' = ~tcf
  ELSE UNCHANGED <<phase, busy>>

(* The registers, as the drivers write them.  While busy, CCR is answered  *)
(* with an error and AR and DLR are ignored.                               *)
WriteCcr(c) ==
  /\ fifo' = [i \in DOMAIN fifo |-> [fifo[i] EXCEPT !.fresh = FALSE]]
  /\ IF busy THEN UNCHANGED <<ccr, phase, busy>>
     ELSE /\ ccr' = c
          /\ IF ~Commands[c].adr /\ Commands[c].mode # "mm" THEN Begin
             ELSE UNCHANGED <<phase, busy>>
  /\ UNCHANGED <<tcf, dlr, broken>>

WriteAr ==
  /\ IF ~busy /\ Commands[ccr] \in {Command(TRUE, TRUE, "rd"), Command(TRUE, FALSE, "wr")}
     THEN Begin ELSE UNCHANGED <<phase, busy>>
  /\ UNCHANGED <<tcf, ccr, dlr, fifo, broken>>

FifoWith(bytes) == IF Len(fifo) + Len(bytes) <= Size THEN fifo \o bytes ELSE fifo
WriteDr(bytes) ==
  /\ fifo' = FifoWith(bytes)
  /\ phase' = IF phase = "Idle" /\ ~busy /\ Commands[ccr] = Command(TRUE, TRUE, "wr")
              THEN "DataWait" ELSE phase
  /\ UNCHANGED <<busy, tcf, ccr, dlr, broken>>

WriteDlr(n) == dlr' = (IF busy THEN dlr ELSE n) /\ UNCHANGED <<busy, phase, tcf, ccr, fifo, broken>>
ClearFlags == tcf' = FALSE /\ UNCHANGED <<busy, phase, ccr, dlr, fifo, broken>>

(* CR without EN: rl_if_abort.  TCF is not cleared.                        *)
Abort ==
  /\ phase' = "Idle" /\ busy' = FALSE /\ fifo' = <<>>
  /\ UNCHANGED <<tcf, ccr, dlr, broken>>

(* A read of DR takes four bytes, or two, or one.                          *)
Taken == CHOOSE n \in {4, 2, 1, 0} :
           /\ n <= Len(fifo)
           /\ \A m \in {4, 2, 1} : m <= Len(fifo) => m <= n
ReadDr == fifo' = SubSeq(fifo, Taken + 1, Len(fifo)) /\ UNCHANGED <<busy, phase, tcf, ccr, dlr, broken>>

-----------------------------------------------------------------------------
(* The controller's own steps.  rl_data_wait: all the data is in the FIFO. *)
AllDataIn == phase = "DataWait" /\ ~busy /\ Len(fifo) >= dlr + 1
DataReady ==
  /\ AllDataIn
  /\ busy' = ~tcf /\ phase' = "Active"
  /\ UNCHANGED <<tcf, ccr, dlr, fifo, broken>> /\ UNCHANGED flashVars

Finished == tcf' = TRUE /\ busy' = FALSE /\ phase' = "Idle" /\ UNCHANGED <<ccr, dlr>>
InFlight == busy /\ phase = "Active"

(* A command without data.                                                 *)
Instruct ==
  /\ InFlight /\ ~Commands[ccr].dat /\ Finished
  /\ LET takes == job = "none" IN
     /\ wel' = IF ~takes THEN wel ELSE IF ccr = "wren" THEN TRUE
               ELSE IF ccr \in {"wrdi", "erase"} THEN FALSE ELSE wel
     /\ job' = IF takes /\ wel /\ ccr = "erase" THEN "erase" ELSE job
     /\ IF job' # job THEN err' = FALSE /\ sent' = <<>> ELSE UNCHANGED <<err, sent>>
  /\ UNCHANGED <<fifo, broken, done>>

(* rl_data_read_phase: dlr + 1 bytes.  The flash may end its job while the *)
(* status register is being read, after k bytes; of these k only the one   *)
(* between the word the driver takes and what it leaves is kept, and that  *)
(* only for the driver's reads of dlr = 4 (bound).                         *)
Read ==
  /\ InFlight /\ Commands[ccr].dat /\ Commands[ccr].mode = "rd" /\ Finished
  /\ \E k \in {4, dlr + 1} :
     LET came == [i \in 1..(dlr + 1) |->
                    IF ccr = "rdsr"
                    THEN [Data("rdsr", job # "none" /\ i <= k) EXCEPT !.err = err]
                    ELSE Data(IF ccr \in {"id", "ida"} THEN "id" ELSE "read", odd)]
     IN  /\ k # dlr + 1 => ccr = "rdsr" /\ job # "none"
         /\ IF Len(fifo) + dlr + 1 <= Size THEN fifo' = fifo \o came /\ UNCHANGED broken
            ELSE broken' = TRUE /\ UNCHANGED fifo
         /\ IF k # dlr + 1 THEN job' = "none" /\ sent' = <<>> /\ done' = done \cup {job}
            ELSE UNCHANGED <<job, sent, done>>
  /\ UNCHANGED <<wel, err>>

(* rl_data_write_phase: dlr + 1 bytes.                                     *)
Write ==
  /\ InFlight /\ Commands[ccr].dat /\ Commands[ccr].mode = "wr" /\ Finished
  /\ IF Len(fifo) > dlr THEN fifo' = SubSeq(fifo, dlr + 2, Len(fifo)) /\ UNCHANGED broken
     ELSE broken' = TRUE /\ UNCHANGED fifo
  /\ IF job = "none" /\ wel
     THEN /\ job' = ccr /\ wel' = FALSE /\ err' = FALSE
          /\ sent' = [i \in 1..(IF Len(fifo) > dlr THEN dlr + 1 ELSE Len(fifo)) |-> fifo[i].of]
     ELSE UNCHANGED <<job, wel, sent, err>>
  /\ UNCHANGED done

(* The flash ends a job, well or not.                                      *)
FlashEnds ==
  /\ job # "none" /\ job' = "none" /\ sent' = <<>> /\ done' = done \cup {job}
  /\ err' \in BOOLEAN
  /\ UNCHANGED wel /\ UNCHANGED ctrlVars
=============================================================================
