------------------------------- MODULE MCQspi -------------------------------
(***************************************************************************)
(* The flash drivers, with enough calls for one call to meet what another  *)
(* left behind: of the Cypress driver, the only one that looks at errors   *)
(* of the flash, and of the DMA example.                                   *)
(***************************************************************************)
EXTENDS QspiDriver

MCMaxCalls == [d \in Drivers |-> CASE d = "cypress" -> 2 [] d = "dma" -> 4 [] OTHER -> 1]
=============================================================================
