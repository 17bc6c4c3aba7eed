----------------------------- MODULE MCChatTcp -----------------------------
(* Instances of ChatTcp for TLC. *)
EXTENDS ChatTcp, TLC

\* Every client runs the same program.
Symmetry == Permutations(Clients)
=============================================================================
