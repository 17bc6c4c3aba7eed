------------------------------ MODULE MCSanta ------------------------------
(* Instances of Santa for TLC. *)
EXTENDS Santa
=============================================================================
