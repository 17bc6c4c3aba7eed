----------------------------- MODULE MCChatMq ------------------------------
(* Instances of ChatMq for TLC. *)
EXTENDS ChatMq
=============================================================================
