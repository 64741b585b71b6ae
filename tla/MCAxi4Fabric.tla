---------------------------- MODULE MCAxi4Fabric ----------------------------
(***************************************************************************)
(* The two halves of the crossbar for TLC.  They share no state: a         *)
(* behaviour is one of the read half or of the write half.                 *)
(***************************************************************************)
EXTENDS Axi4FabricRd

CONSTANTS WdDepth, WrLens

VARIABLES
  part,   \* "read" or "write"; never changes
  awQ, wQ, bRsp, sAwQ, sWQ, bQ, wdRoute, wrRoute, wsel, wout, todo, beat, wsrv, data, nbeat

wvars == <<awQ, wQ, bRsp, sAwQ, sWQ, bQ, wdRoute, wrRoute, wsel, wout, todo, beat,
           wsrv, data, nbeat>>
W == INSTANCE Axi4FabricWr WITH
       WriteSlaves <- ReadSlaves, FixedWr <- FixedRd, Lens <- WrLens,
       sel <- wsel, out <- wout, srv <- wsrv

fvars == <<vars, wvars, part>>

ASSUME InstanceAssumption == W!WriteConstants

FInit == part \in {"read", "write"} /\ Init /\ W!Init
FNext == /\ UNCHANGED part
         /\ \/ part = "read" /\ Next /\ UNCHANGED wvars
            \/ part = "write" /\ W!Next /\ UNCHANGED vars

(* In a behaviour of one half every action of the other's fairness stays   *)
(* disabled: its queues are empty.                                         *)
FSpec == FInit /\ [][FNext]_fvars /\ Fairness /\ W!Fairness

(* The properties of Axi4FabricWr, which states them.                      *)

(* The FIFOs of the write half keep their size, and neither write data nor *)
(* write responses wait for each other in a circle.                        *)
WrRoutesMeet == W!TypeOK /\ W!RoutesMeet

(* A slave gets the data bursts in the order of their addresses.           *)
DataFollowsAddress == W!DataFollowsAddress

(* What a master sees: one response per write, in order, although the      *)
(* fabric never compares ids; and under the fairness of the hardware's     *)
(* schedule every write is answered.                                       *)
WrPort == INSTANCE InOrderPorts WITH
            Ports <- Masters, Requests <- W!Requests, Beats <- [q \in W!Requests |-> 1],
            asked <- wout, got <- [m \in Masters |-> 0]
InOrderWrites == WrPort!Spec
=============================================================================
