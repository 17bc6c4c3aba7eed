--------------------------- MODULE MCPrintersBoot ---------------------------
(* Instances of PrintersBoot for TLC. *)
EXTENDS PrintersBoot, TLC

\* Users are alike; the run checks no liveness.
Symmetry == Permutations(Users)
=============================================================================
