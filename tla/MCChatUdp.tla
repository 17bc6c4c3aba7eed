----------------------------- MODULE MCChatUdp -----------------------------
(* Instances of ChatUdp for TLC. *)
EXTENDS ChatUdp, TLC

\* Every client runs the same program.
Symmetry == Permutations(Clients)

\* The lines typed: a text for all, for one, for nobody known, the same words
\* bare, a private line that ends after its target, and an empty line.
Line(kind, tail) == [kind |-> kind, tail |-> tail]
Text(to) == {[to |-> to, text |-> TRUE]}
ChatLines ==
    {Line("2ALL", Text(Nobody)), Line("none", {})}
      \cup {Line(kind, {}): kind \in {"LIST", "2ALL", "2ONE", "STOP"}}
      \cup {Line("2ONE", Text(c)): c \in Clients}
      \cup {Line("2ONE", {[to |-> to, text |-> FALSE]}): to \in Clients \cup {Blank}}
=============================================================================
