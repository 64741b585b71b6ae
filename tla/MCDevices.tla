------------------------------ MODULE MCDevices ------------------------------
(***************************************************************************)
(* Two clients of the crossbar for TLC: the driver of the accelerator and  *)
(* the APB bridge.  They share no state: a behaviour is one of the driver  *)
(* or of the bridge.                                                       *)
(***************************************************************************)
EXTENDS NttDriver

CONSTANTS Ratio, Bursts, MaxErrors

VARIABLES
  part,   \* "driver" or "bridge"; never changes
  o_rd_addr, i_rd_data, o_wr_addr, o_wr_data, i_wr_resp, i_request, o_response,
  rg_state, rg_request, rg_req_beat, rg_resp_beat, rg_child_burst, rg_child_req_count,
  rg_child_res_count, rg_accum_data, rg_accum_mask, rg_accum_err,
  reading, received, writing, given, accesses, failed

bvars == <<o_rd_addr, i_rd_data, o_wr_addr, o_wr_data, i_wr_resp, i_request, o_response,
           rg_state, rg_request, rg_req_beat, rg_resp_beat, rg_child_burst, rg_child_req_count,
           rg_child_res_count, rg_accum_data, rg_accum_mask, rg_accum_err, reading, received,
           writing, given, accesses, failed>>
B == INSTANCE Axi2Apb WITH taken <- received

ASSUME BridgeAssumption == B!BridgeConstants

MCBursts ==
  [addr : {1}, len : {0, 2}, size : {1}, burst : {"incr"}]
    \union [addr : {1}, len : {1}, size : {1}, burst : {"fixed"}]
    \union [addr : {3}, len : {1}, size : {1}, burst : {"wrap"}]
    \union [addr : {0}, len : {1}, size : {2}, burst : {"incr"}]
    \union [addr : {2}, len : {1}, size : {2}, burst : {"fixed", "wrap"}]
    \union [addr : {4}, len : {1}, size : {4}, burst : {"incr", "wrap"}]
    \union [addr : {0}, len : {255}, size : {1}, burst : {"incr"}]

DInit == part \in {"driver", "bridge"} /\ Init /\ B!Init
DNext == /\ UNCHANGED part
         /\ \/ part = "driver" /\ Next /\ UNCHANGED bvars
            \/ part = "bridge" /\ B!Next /\ UNCHANGED vars

(* In a behaviour of one part no action of the other's fairness is         *)
(* enabled: the driver is not called, the bridge's queues are empty.       *)
DSpec == /\ DInit /\ [][DNext]_<<vars, bvars, part>>
         /\ WF_vars(Driver /\ pc # "out") /\ WF_vars(handshake /\ Accelerator)
         /\ B!Fairness

(* The properties of Axi2Apb, which states them.                           *)

(* The counters of both stay within their widths and the queues of the     *)
(* bridge within their size.                                               *)
TypesOK == TypeOK /\ B!TypeOK

(* The words of an R beat are those of its addresses.                      *)
BeatsAreRead == B!BeatsAreRead

(* APB writes carry the words the master put on their addresses' lanes.    *)
WordsAreWritten == B!WordsAreWritten

(* PSLVERR reaches the AXI response.                                       *)
ErrorsReach == B!ErrorsReach

(* Unless one of 256 beats sticks it the bridge answers every burst.       *)
BurstsAnswered == B!BurstsAnswered
=============================================================================
