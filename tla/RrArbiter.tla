----------------------------- MODULE RrArbiter -----------------------------
(***************************************************************************)
(* fn_rr_arbiter of fabrics/axi4/axi4_fabric.bsv and the select register   *)
(* the address rules keep for it, for masters 0 .. NM-1.                   *)
(***************************************************************************)
EXTENDS Integers

CONSTANT NM
ASSUME NMAssumption == NM \in Nat \ {0}

Masters == 0 .. NM - 1

(* Places between the select register and master m, in scanning order.     *)
Turns(sel, m) == IF m >= sel THEN m - sel ELSE m + NM - sel

(* The one-hot result of the scan that starts at `lowpriority': the first  *)
(* requester at or after it, cyclically; nobody when nobody requests.      *)
fn_rr_arbiter(requests, lowpriority) ==
  {m \in requests :
     \A k \in requests : Turns(lowpriority, m) <= Turns(lowpriority, k)}

(* Mutant: the served master keeps the first place.                      *)
NextSelect_same(mi) == mi

(* rg_*_master_select[sj] after master mi was served.                      *)
NextSelect(mi) == IF mi = NM - 1 THEN 0 ELSE mi + 1
============================================================================
