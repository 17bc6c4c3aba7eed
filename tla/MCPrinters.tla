----------------------------- MODULE MCPrinters -----------------------------
(* Instances of Printers for TLC. *)
EXTENDS Printers
=============================================================================
