----------------------------- MODULE Registry -----------------------------
(***************************************************************************)
(* What the table of a chat server promises: a set of members that never   *)
(* exceeds its capacity and changes by one client at a time.               *)
(***************************************************************************)
EXTENDS Naturals, FiniteSets

CONSTANTS Clients, Capacity

VARIABLE members

Init == members = {}

Join(c) ==
    /\ c \notin members
    /\ Cardinality(members) < Capacity
    /\ members' = members \cup {c}

Leave(c) ==
    /\ c \in members
    /\ members' = members \ {c}

Next == \E c \in Clients: Join(c) \/ Leave(c)

Spec == Init /\ [][Next]_members
=============================================================================
