------------------------------ MODULE Axi2Apb ------------------------------
(***************************************************************************)
(* The AXI4 to APB bridge, fabrics/bridges/axi2apb.bsv, with a rule as an  *)
(* action.  Addresses and sizes count APB words, and Ratio of those make   *)
(* an AXI beat: beats smaller than one word are left out.  A word read is  *)
(* known by its address, a word written by its beat and its lane.  The AXI *)
(* master, which has one read and one write outstanding, and the APB       *)
(* cluster are the environment.                                            *)
(***************************************************************************)
EXTENDS Naturals, Sequences, FiniteSets

CONSTANTS
  Ratio,       \* v_bytes_ratio: the APB words of an AXI beat
  Bursts,      \* bound: the bursts the master asks for
  MaxErrors    \* bound: the accesses of a burst that may fail

VARIABLES
  o_rd_addr, i_rd_data, o_wr_addr, o_wr_data, i_wr_resp,  \* the AXI transactor
  i_request, o_response,            \* the APB transactor, with the access it makes
  rg_state, rg_request,             \* rg_request: rg_rd_request or rg_wr_request
  rg_req_beat, rg_resp_beat,
  rg_child_burst, rg_child_req_count, rg_child_res_count,
  rg_accum_data, rg_accum_mask, rg_accum_err,
  reading, taken,   \* the master's read, and the beats it has received of it
  writing, given,   \* its write, and the beats of data it has sent
  accesses,         \* APB accesses requested for the burst in progress
  failed            \* those of them that PSLVERR answered

axi   == <<o_rd_addr, i_rd_data, o_wr_addr, o_wr_data, i_wr_resp, reading, taken, writing, given>>
count == <<rg_req_beat, rg_resp_beat, rg_child_burst, rg_child_req_count, rg_child_res_count>>
accum == <<rg_accum_data, rg_accum_mask, rg_accum_err>>
bridge == <<i_request, o_response, rg_state, rg_request, count, accum, accesses, failed>>
vars  == <<axi, bridge>>

Lanes == 0 .. Ratio - 1
Sizes == {s \in {1, 2, 4, 8} : s <= Ratio}
BridgeConstants ==
  /\ Ratio \in {1, 2, 4, 8}
  /\ Bursts \subseteq [addr : Nat, len : 0 .. 255, size : Sizes, burst : {"fixed", "incr", "wrap"}]
  /\ \A q \in Bursts : /\ q.addr % q.size = 0
                       /\ q.burst = "wrap" => q.len \in {1, 3, 7, 15} /\ q.size * (q.len + 1) <= 32
None == [addr |-> 0, len |-> 0, size |-> 1, burst |-> "none"]

Init ==
  /\ o_rd_addr = <<>> /\ i_rd_data = <<>> /\ o_wr_addr = <<>> /\ o_wr_data = <<>> /\ i_wr_resp = <<>>
  /\ i_request = <<>> /\ o_response = <<>> /\ rg_state = "Idle" /\ rg_request = None
  /\ rg_req_beat = 0 /\ rg_resp_beat = 0 /\ rg_child_burst = 0
  /\ rg_child_req_count = 0 /\ rg_child_res_count = 0
  /\ rg_accum_data = [l \in Lanes |-> 0] /\ rg_accum_mask = Lanes /\ rg_accum_err = FALSE
  /\ reading = None /\ taken = 0 /\ writing = None /\ given = 0
  /\ accesses = 0 /\ failed = {}

----------------------------------------------------------------------------
(* The address of beat n of burst q, as AXI defines it, and its lanes.     *)
BeatAddr(q, n) ==
  CASE q.burst = "fixed" -> q.addr
    [] q.burst = "incr" -> q.addr + n * q.size
    [] q.burst = "wrap" -> LET total == q.size * (q.len + 1)
                           IN  (q.addr \div total) * total + ((q.addr + n * q.size) % total)
BeatLanes(q, n) == {(BeatAddr(q, n) + c) % Ratio : c \in 0 .. q.size - 1}

(* Mutant: a wrapping burst never wraps.                                   *)
no_wrap(q) == IF q.burst = "fixed" THEN q.addr ELSE q.addr + q.size
(* The code's own step from one beat's address to the next.  Its mask is   *)
(* all ones ('1) shifted by a Bit#(3), arsize + wrap_size: with APB words  *)
(* of 4 bytes that is enough for blocks of up to 32 words.                 *)
fn_axi4burst_addr(q) ==
  LET wrap_size == CASE q.len = 3 -> 4 [] q.len = 7 -> 8 [] q.len = 15 -> 16 [] OTHER -> 2
      block == q.size * wrap_size
  IN  CASE q.burst = "fixed" -> q.addr
        [] q.burst = "incr" -> q.addr + q.size
        [] OTHER -> (q.addr \div block) * block + ((q.addr + q.size) % block)

(* ff_request and the request the transactor drives.                       *)
(* Mutant: the implicit condition of enq is missing.                       *)
AlwaysRoom == TRUE
ApbRoom == Len(i_request) < 2
Request(fields) == i_request' = Append(i_request, [fields EXCEPT !.nth = accesses])
                   /\ accesses' = accesses + 1
Access(paddr) == [addr |-> paddr, write |-> FALSE, beat |-> 0, lane |-> 0, strb |-> FALSE, nth |-> 0]
WrAccess(paddr, d, shift) ==
  [addr |-> paddr, write |-> TRUE, beat |-> d.beat, lane |-> shift, strb |-> shift \in d.strb, nth |-> 0]

(* What rl_read_frm_axi and rl_write_frm_axi set the counters to.  They    *)
(* are Bit#(8), and so is arlen.                                           *)
(* Mutant: the first access is taken off the response counter too.         *)
Started_at_len(q) ==
  /\ rg_req_beat' = (IF q.size > 1 THEN (q.len + 1) % 256 ELSE q.len)
  /\ rg_resp_beat' = q.len
  /\ rg_child_burst' = (IF q.size > 1 THEN q.size ELSE 0)
  /\ rg_child_req_count' = (IF q.size > 1 THEN 1 ELSE 0)
  /\ rg_child_res_count' = (IF q.size > 1 THEN 1 ELSE 0)
  /\ rg_accum_mask' = (IF q.size > 1 THEN {0} ELSE Lanes)
Started(q) ==
  /\ rg_req_beat' = (IF q.size > 1 THEN (q.len + 1) % 256 ELSE q.len)
  /\ rg_resp_beat' = (q.len + 1) % 256
  /\ rg_child_burst' = (IF q.size > 1 THEN q.size ELSE 0)
  /\ rg_child_req_count' = (IF q.size > 1 THEN 1 ELSE 0)
  /\ rg_child_res_count' = (IF q.size > 1 THEN 1 ELSE 0)
  /\ rg_accum_mask' = (IF q.size > 1 THEN {0} ELSE Lanes)

rl_read_frm_axi ==
  /\ rg_state = "Idle" /\ o_rd_addr # <<>> /\ ApbRoom
  /\ LET q == Head(o_rd_addr) IN
     Request(Access(q.addr)) /\ rg_request' = q /\ Started(q)
  /\ o_rd_addr' = Tail(o_rd_addr) /\ rg_state' = "ReadResp" /\ failed' = {}
  /\ UNCHANGED <<i_rd_data, o_wr_addr, o_wr_data, i_wr_resp, reading, taken, writing, given,
                 o_response, rg_accum_data, rg_accum_err>>

(* It is preempted by rl_read_frm_axi.                                     *)
rl_write_frm_axi ==
  /\ rg_state = "Idle" /\ o_rd_addr = <<>> /\ ApbRoom
  /\ o_wr_addr # <<>> /\ o_wr_data # <<>>
  /\ LET q == Head(o_wr_addr)
         shift == IF q.size = 1 THEN q.addr % Ratio ELSE 0
     IN  /\ Request(WrAccess(q.addr, Head(o_wr_data), shift)) /\ rg_request' = q /\ Started(q)
         /\ o_wr_data' = IF q.size > 1 THEN o_wr_data ELSE Tail(o_wr_data)
  /\ o_wr_addr' = Tail(o_wr_addr) /\ rg_state' = "WriteResp" /\ rg_accum_err' = FALSE /\ failed' = {}
  /\ UNCHANGED <<o_rd_addr, i_rd_data, i_wr_resp, reading, taken, writing, given,
                 o_response, rg_accum_data>>

(* The next access of a burst: another child of the same beat, or the      *)
(* first of the next.                                                      *)
Child == rg_child_req_count # rg_child_burst
NextAddr == IF Child THEN rg_request.addr + rg_child_req_count ELSE fn_axi4burst_addr(rg_request)
(* Mutant: the beat is counted one child late.                             *)
BeatSentLate == rg_child_burst = 0 \/ rg_child_req_count = rg_child_burst
BeatSent == rg_child_burst = 0 \/ rg_child_req_count = rg_child_burst - 1
SendNext ==
  /\ IF Child THEN rg_child_req_count' = rg_child_req_count + 1 /\ UNCHANGED rg_request
     ELSE /\ rg_request' = [rg_request EXCEPT !.addr = NextAddr]
          /\ rg_child_req_count' = IF rg_child_burst # 0 THEN 1 ELSE rg_child_req_count
  /\ rg_req_beat' = IF BeatSent THEN rg_req_beat - 1 ELSE rg_req_beat
  /\ UNCHANGED <<rg_state, rg_resp_beat, rg_child_burst, rg_child_res_count, accum, o_response, failed>>

rl_send_rd_burst_req ==
  /\ rg_state = "ReadResp" /\ rg_req_beat # 0 /\ ApbRoom
  /\ Request(Access(NextAddr)) /\ SendNext
  /\ UNCHANGED axi

rl_send_wr_burst_req ==
  /\ rg_state = "WriteResp" /\ rg_req_beat # 0 /\ ApbRoom /\ o_wr_data # <<>>
  /\ Request(WrAccess(NextAddr, Head(o_wr_data), IF Child THEN rg_child_req_count ELSE 0))
  /\ SendNext
  /\ o_wr_data' = IF BeatSent THEN Tail(o_wr_data) ELSE o_wr_data
  /\ UNCHANGED <<o_rd_addr, i_rd_data, o_wr_addr, i_wr_resp, reading, taken, writing, given>>

(* A response of the APB, of a child that is not the beat's last, or which *)
(* ends the beat and perhaps the burst.  What registers hold between two   *)
(* bursts is never read: some are reset then.                              *)
Accumulate == rg_child_res_count # rg_child_burst /\ rg_child_burst # 0
Ends == rg_resp_beat = 1 /\ ~Accumulate
Respond ==
  /\ o_response # <<>> /\ o_response' = Tail(o_response)
  /\ IF Accumulate
     THEN rg_child_res_count' = rg_child_res_count + 1 /\ UNCHANGED rg_resp_beat
     ELSE /\ rg_resp_beat' = rg_resp_beat - 1
          /\ rg_child_res_count' = IF rg_child_burst # 0 THEN 1 ELSE rg_child_res_count
  /\ rg_state' = (IF Ends THEN "Idle" ELSE rg_state)
  /\ rg_request' = (IF Ends THEN None ELSE rg_request)
  /\ accesses' = (IF Ends THEN 0 ELSE accesses) /\ failed' = (IF Ends THEN {} ELSE failed)
  /\ UNCHANGED <<i_request, rg_req_beat, rg_child_burst, rg_child_req_count>>

(* An R beat has the error of its last access only.                        *)
rl_read_response_to_axi ==
  /\ rg_state = "ReadResp" /\ rg_resp_beat # 0 /\ Len(i_rd_data) < 2
  /\ Respond
  /\ LET data == [l \in Lanes |-> IF l \in rg_accum_mask THEN Head(o_response).addr
                                  ELSE rg_accum_data[l]]
     IN  /\ rg_accum_data' = IF Ends THEN [l \in Lanes |-> 0] ELSE data
         /\ i_rd_data' = IF Accumulate THEN i_rd_data
                         ELSE Append(i_rd_data, [data |-> data, err |-> Head(o_response).err,
                                                 last |-> rg_resp_beat = 1])
  /\ rg_accum_mask' = {(l + 1) % Ratio : l \in rg_accum_mask}
  /\ UNCHANGED <<o_rd_addr, o_wr_addr, o_wr_data, i_wr_resp, reading, taken, writing, given,
                 rg_accum_err>>

(* Mutant: the response has the error of the last access only.             *)
WriteError_last == Head(o_response).err
WriteError == rg_accum_err \/ Head(o_response).err
rl_write_response_to_axi ==
  /\ rg_state = "WriteResp" /\ rg_resp_beat # 0 /\ i_wr_resp = <<>>
  /\ Respond
  /\ rg_accum_err' = (~Ends /\ (rg_accum_err \/ Head(o_response).err))
  /\ i_wr_resp' = IF Ends THEN <<WriteError>> ELSE i_wr_resp
  /\ UNCHANGED <<o_rd_addr, i_rd_data, o_wr_addr, o_wr_data, reading, taken, writing, given,
                 rg_accum_data, rg_accum_mask>>

----------------------------------------------------------------------------
(* The APB cluster, through the transactor: one access at a time.          *)
ApbAccess ==
  /\ i_request # <<>> /\ o_response = <<>>
  /\ i_request' = Tail(i_request)
  /\ \E err \in BOOLEAN :
       /\ err => Cardinality(failed) < MaxErrors
       /\ o_response' = <<[addr |-> Head(i_request).addr, err |-> err]>>
       /\ failed' = IF err THEN failed \union {Head(i_request).nth} ELSE failed
  /\ UNCHANGED <<axi, rg_state, rg_request, count, accum, accesses>>

(* The AXI master.                                                         *)
MasterReads ==
  /\ reading = None /\ reading' \in Bursts
  /\ o_rd_addr' = <<reading'>>
  /\ UNCHANGED <<i_rd_data, o_wr_addr, o_wr_data, i_wr_resp, taken, writing, given>>
  /\ UNCHANGED bridge
MasterTakesBeat ==
  /\ i_rd_data # <<>> /\ i_rd_data' = Tail(i_rd_data)
  /\ IF Head(i_rd_data).last THEN reading' = None /\ taken' = 0
     ELSE taken' = taken + 1 /\ UNCHANGED reading
  /\ UNCHANGED <<o_rd_addr, o_wr_addr, o_wr_data, i_wr_resp, writing, given>> /\ UNCHANGED bridge
MasterWrites ==
  /\ writing = None /\ o_wr_data = <<>> /\ writing' \in Bursts
  /\ o_wr_addr' = <<writing'>>
  /\ UNCHANGED <<o_rd_addr, i_rd_data, o_wr_data, i_wr_resp, reading, taken, given>>
  /\ UNCHANGED bridge
MasterGivesBeat ==
  /\ writing # None /\ given <= writing.len /\ Len(o_wr_data) < 2
  /\ o_wr_data' = Append(o_wr_data, [beat |-> given, strb |-> BeatLanes(writing, given)])
  /\ given' = given + 1
  /\ UNCHANGED <<o_rd_addr, i_rd_data, o_wr_addr, i_wr_resp, reading, taken, writing>>
  /\ UNCHANGED bridge
MasterTakesResp ==
  /\ i_wr_resp # <<>> /\ i_wr_resp' = <<>> /\ writing' = None /\ given' = 0
  /\ UNCHANGED <<o_rd_addr, i_rd_data, o_wr_addr, o_wr_data, reading, taken>>
  /\ UNCHANGED bridge

Next ==
  \/ rl_read_frm_axi \/ rl_send_rd_burst_req \/ rl_read_response_to_axi
  \/ rl_write_frm_axi \/ rl_send_wr_burst_req \/ rl_write_response_to_axi
  \/ ApbAccess
  \/ MasterReads \/ MasterTakesBeat \/ MasterWrites \/ MasterGivesBeat \/ MasterTakesResp

(* A rule that can fire fires, the APB answers, and the master gives the   *)
(* data of its write and takes what it is given; it need not begin.        *)
Fairness ==
  /\ WF_vars(rl_read_frm_axi) /\ WF_vars(rl_send_rd_burst_req) /\ WF_vars(rl_read_response_to_axi)
  /\ WF_vars(rl_write_frm_axi) /\ WF_vars(rl_send_wr_burst_req) /\ WF_vars(rl_write_response_to_axi)
  /\ WF_vars(ApbAccess) /\ WF_vars(MasterTakesBeat) /\ WF_vars(MasterGivesBeat)
  /\ WF_vars(MasterTakesResp)

----------------------------------------------------------------------------
(* Counters are bytes and queues within their size, and a burst that is    *)
(* over has had exactly its accesses.                                      *)
TypeOK ==
  /\ Len(i_request) <= 2 /\ Len(o_response) <= 1 /\ Len(i_rd_data) <= 2
  /\ rg_req_beat \in 0 .. 255 /\ rg_resp_beat \in 0 .. 255
  /\ rg_child_burst \in Sizes \union {0} /\ rg_child_req_count \in 0 .. Ratio
  /\ rg_child_res_count \in 0 .. Ratio /\ rg_accum_mask \subseteq Lanes
  /\ rg_state = "Idle" => i_request = <<>> /\ o_response = <<>> /\ rg_req_beat = 0

(* Each R beat a read gets has the words of its own addresses on their     *)
(* lanes, and only the last is marked, although requests run ahead of      *)
(* responses on counters of their own.  A beat of several words, fewer     *)
(* than the bus has, is only right when its lanes are those the mask has   *)
(* rotated to.                                                             *)
BeatsAreRead ==
  [][Len(i_rd_data') > Len(i_rd_data) =>
       LET n == taken + Len(i_rd_data)
           q == reading
           beat == i_rd_data'[Len(i_rd_data')]
       IN  /\ n <= q.len /\ (beat.last <=> n = q.len)
           /\ q.size = 1 \/ BeatAddr(q, n) % Ratio = (n * q.size) % Ratio =>
                \A c \in 0 .. q.size - 1 :
                  beat.data[(BeatAddr(q, n) + c) % Ratio] = BeatAddr(q, n) + c]_vars

(* Every APB write is at the address of its beat, with the word the master *)
(* put on that address's lane.  The code gets this right for the first     *)
(* beat of single words, but not for a later one off lane 0, and for beats *)
(* of several words when they start at lane 0.                             *)
WordsAreWritten ==
  [][rg_state' = "WriteResp" /\ Len(i_request') > Len(i_request) =>
       LET q == writing
           n == accesses \div q.size
           access == i_request'[Len(i_request')]
       IN  /\ n <= q.len /\ access.addr = BeatAddr(q, n) + (accesses % q.size)
           /\ (n = 0 /\ q.size = 1) \/ BeatAddr(q, n) % Ratio = 0 =>
                access.beat = n /\ access.lane = access.addr % Ratio /\ access.strb]_vars

(* "The APB PSLVERR is mapped to the AXI4 SLVERR" (axi2apb.rst): a write   *)
(* fails exactly when one of its accesses did, a read beat exactly when    *)
(* its last access did.  Nothing is lost for a beat of one word; of a beat *)
(* of several words the errors of the other accesses are.                  *)
ErrorsReach ==
  [][/\ i_wr_resp' # i_wr_resp /\ i_wr_resp' # <<>> =>
          accesses = (writing.len + 1) * writing.size /\ i_wr_resp' = <<failed # {}>>
     /\ Len(i_rd_data') > Len(i_rd_data) =>
          LET n == taken + Len(i_rd_data)
              last == (n * reading.size) + reading.size - 1
          IN  i_rd_data'[Len(i_rd_data')].err <=> last \in failed]_vars

(* The response counter wrapped to zero, as one of 256 beats makes it: no  *)
(* response rule fires again, and that is the end of the bridge.           *)
Stuck == /\ rg_state # "Idle" /\ rg_resp_beat = 0
         /\ (IF rg_state = "ReadResp" THEN reading.len ELSE writing.len) = 255

(* Every read is answered, or a burst of 256 beats has stuck the bridge; a *)
(* write too, unless reads, which have priority, keep coming.              *)
BurstsAnswered ==
  /\ reading # None ~> reading = None \/ Stuck
  /\ writing # None ~> writing = None \/ Stuck \/ reading # None
============================================================================
