---------------------------- MODULE PrintService ----------------------------
(***************************************************************************)
(* What the printers and users of ex8/zad1 promise together: a user takes  *)
(* a free printer, submits one job to it, the printer prints exactly that  *)
(* job as one unbroken line, and becomes free again.                       *)
(***************************************************************************)
EXTENDS Naturals

CONSTANTS
    Users,     \* the user processes
    Printers,  \* the printers
    JobLen     \* characters per job

VARIABLES
    status,  \* status[p]: how far printer p is with its current job
    owner,   \* owner[p]: the user whose job that is
    output   \* output[p]: the line p printed last

vars == <<status, owner, output>>

Nobody == "nobody"

\* The line of a job: every character comes from the same user.
WholeLine(u) == [k \in 1..JobLen |-> u]

Init ==
    /\ status = [p \in Printers |-> "free"]
    /\ owner = [p \in Printers |-> Nobody]
    /\ output = [p \in Printers |-> <<>>]

Advance(p, from, to) ==
    /\ status[p] = from
    /\ status' = [status EXCEPT ![p] = to]

Take(u, p) ==
    /\ Advance(p, "free", "held")
    /\ owner' = [owner EXCEPT ![p] = u]
    /\ UNCHANGED output

Submit(p) ==
    /\ Advance(p, "held", "queued")
    /\ UNCHANGED <<owner, output>>

PrintLine(p) ==
    /\ Advance(p, "queued", "printed")
    /\ output' = [output EXCEPT ![p] = WholeLine(owner[p])]
    /\ UNCHANGED owner

Release(p) ==
    /\ Advance(p, "printed", "free")
    /\ owner' = [owner EXCEPT ![p] = Nobody]
    /\ UNCHANGED output

Next == \E p \in Printers :
    \/ \E u \in Users : Take(u, p)
    \/ Submit(p)
    \/ PrintLine(p)
    \/ Release(p)

Spec == Init /\ [][Next]_vars

\* A user may die before it submits; the printers keep running.
Fairness == \A p \in Printers : WF_vars(PrintLine(p)) /\ WF_vars(Release(p))

FairSpec == Spec /\ Fairness
=============================================================================
