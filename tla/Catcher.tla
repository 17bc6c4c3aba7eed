------------------------------ MODULE Catcher ------------------------------
(***************************************************************************)
(* The signal catcher and its senders, ex5/zad2.                           *)
(*                                                                         *)
(* A sender queues one SIGUSR1 with a value and waits in sigsuspend for    *)
(* the catcher's SIGUSR1.  SIGUSR1 is a standard signal: while one is      *)
(* pending another one is dropped, with its value.  The catcher's handler  *)
(* runs with SIGUSR1 blocked and main interrupted.                         *)
(***************************************************************************)
EXTENDS Naturals, FiniteSets

CONSTANTS Senders  \* the sender processes, each with one request

Sizes == IsFiniteSet(Senders) /\ "nobody" \notin Senders

VARIABLES
    mainAt,     \* "boot" (no handler yet), "loop", "obey" (before status = 0),
                \* "exit" (in exit()), "ended", "killed"
    handling,   \* the sender whose signal the handler has taken, or nobody
    pending,    \* the sender of the pending SIGUSR1, or nobody
    status,
    status_changes,
    senderAt,   \* senderAt[s]: "start", "sent", "suspended", "done", "killed"
    value,      \* value[s]: the status the sender asks for
    fate,       \* history: what became of the sender's request
    confirmed,  \* history: senders whose request the handler is done with
    early       \* history: senders confirmed before their sigsuspend

catcher == <<mainAt, handling, status, status_changes>>
vars == <<mainAt, handling, pending, status, status_changes, senderAt, value,
          fate, confirmed, early>>

Nobody == "nobody"
Statuses == 0..4
Requests == 1..4   \* 4 stands for 0 and for every value the catcher does not know
Known == {1, 2, 3}
Running == mainAt \in {"boot", "loop", "obey", "exit"}

TypeOK ==
    /\ mainAt \in {"boot", "loop", "obey", "exit", "ended", "killed"}
    /\ handling \in Senders \cup {Nobody} /\ pending \in Senders \cup {Nobody}
    /\ status \in Statuses /\ status_changes \in 0..Cardinality(Senders)
    /\ senderAt \in [Senders -> {"start", "sent", "suspended", "done", "killed"}]
    /\ value \in [Senders -> Requests]
    /\ fate \in [Senders -> {"none", "merged", "unheard", "pending", "waiting",
                             "obeyed", "replaced", "erased"}]
    /\ confirmed \in SUBSET Senders /\ early \in SUBSET Senders

Init ==
    /\ mainAt = "boot" /\ handling = Nobody /\ pending = Nobody
    /\ status = 0 /\ status_changes = 0
    /\ senderAt = [s \in Senders |-> "start"]
    /\ value \in [Senders -> Requests]
    /\ fate = [s \in Senders |-> "none"]
    /\ confirmed = {} /\ early = {}

-----------------------------------------------------------------------------
(* sender.c                                                                *)

\* sigqueue to a catcher that has not installed its handler kills it, to one
\* that has ended it fails unnoticed, to one with a signal pending it is lost.
Queue(s) ==
    /\ senderAt[s] = "start"
    /\ senderAt' = [senderAt EXCEPT ![s] = "sent"]
    /\ \/ /\ mainAt = "boot"
          /\ mainAt' = "killed"
          /\ fate' = [fate EXCEPT ![s] = "unheard"]
          /\ UNCHANGED pending
       \/ /\ ~Running
          /\ fate' = [fate EXCEPT ![s] = "unheard"]
          /\ UNCHANGED <<mainAt, pending>>
       \/ /\ Running /\ mainAt # "boot" /\ pending # Nobody
          /\ fate' = [fate EXCEPT ![s] = "merged"]
          /\ UNCHANGED <<mainAt, pending>>
       \/ /\ Running /\ mainAt # "boot" /\ pending = Nobody
          /\ pending' = s
          /\ fate' = [fate EXCEPT ![s] = "pending"]
          /\ UNCHANGED mainAt
    /\ UNCHANGED <<handling, status, status_changes, value, confirmed, early>>

Suspend(s) ==
    /\ senderAt[s] = "sent"
    /\ senderAt' = [senderAt EXCEPT ![s] = "suspended"]
    /\ UNCHANGED <<catcher, pending, value, fate, confirmed, early>>

\* SIGINT, which the sender waits for as well, ends it; before it has queued
\* its signal that is as if it had not been started.
Interrupt(s) ==
    /\ senderAt[s] \in {"sent", "suspended"}
    /\ senderAt' = [senderAt EXCEPT ![s] = "killed"]
    /\ UNCHANGED <<catcher, pending, value, fate, confirmed, early>>

-----------------------------------------------------------------------------
(* catcher.c                                                               *)

\* The pid has been printed before; from here on SIGUSR1 is caught.
InstallHandler ==
    /\ mainAt = "boot"
    /\ mainAt' = "loop"
    /\ UNCHANGED <<handling, pending, status, status_changes, senderAt, value,
                   fate, confirmed, early>>

\* The request main has not looked at yet has a new fate.
Waiting == {s \in Senders: fate[s] = "waiting"}
Settle(end) == [s \in Senders |-> IF s \in Waiting THEN end ELSE fate[s]]

Unblocked == handling = Nobody
\* handle_status_change, at once for main, which the handler interrupts.
TakeSignal ==
    /\ Running /\ mainAt # "boot" /\ Unblocked /\ pending # Nobody
    /\ handling' = pending /\ pending' = Nobody
    /\ status' = value[pending] /\ status_changes' = status_changes + 1
    /\ fate' = [Settle("replaced") EXCEPT ![pending] = "waiting"]
    /\ UNCHANGED <<mainAt, senderAt, value, confirmed, early>>

\* Fault for the mutants: a status that main does not know is not confirmed.
SignalledIfKnown == {s \in {handling}: status \in Known}
Signalled == {handling}

\* kill(info->si_pid, SIGUSR1): ends a sigsuspend, and is handled without one.
Confirm ==
    /\ handling # Nobody
    /\ handling' = Nobody
    /\ confirmed' = confirmed \cup {handling}
    /\ early' = early \cup {s \in Signalled: senderAt[s] = "sent"}
    /\ senderAt' = [s \in Senders |->
                      IF s \in Signalled /\ senderAt[s] = "suspended" THEN "done" ELSE senderAt[s]]
    /\ UNCHANGED <<mainAt, pending, status, status_changes, value, fate>>

\* The branch of the switch.
Branch(v) == IF v \in {1, 2} THEN "obey" ELSE IF v = 3 THEN "exit" ELSE "loop"

Switch ==
    /\ mainAt = "loop" /\ handling = Nobody
    /\ mainAt' = Branch(status)
    /\ fate' = Settle("obeyed")
    /\ UNCHANGED <<handling, pending, status, status_changes, senderAt, value,
                   confirmed, early>>

\* Fault for the mutants: the status is left as it is.
NotReset == status
Reset == 0

Clear ==
    /\ mainAt = "obey" /\ handling = Nobody
    /\ mainAt' = "loop"
    /\ status' = Reset
    /\ fate' = Settle("erased")
    /\ UNCHANGED <<handling, pending, status_changes, senderAt, value,
                   confirmed, early>>

Exit ==
    /\ mainAt = "exit" /\ handling = Nobody
    /\ mainAt' = "ended"
    /\ pending' = Nobody
    /\ fate' = IF pending = Nobody THEN fate ELSE [fate EXCEPT ![pending] = "unheard"]
    /\ UNCHANGED <<handling, status, status_changes, senderAt, value,
                   confirmed, early>>

Main == InstallHandler \/ Switch \/ Clear \/ Exit
Handler == TakeSignal \/ Confirm

Next ==
    \/ Main \/ Handler
    \/ \E s \in Senders: Queue(s) \/ Suspend(s) \/ Interrupt(s)

Spec == Init /\ [][Next]_vars

-----------------------------------------------------------------------------
(* Properties.                                                             *)

\* Every request is in one place: pending, with the handler, confirmed, merged
\* with an earlier one, or unheard; and status_changes counts those taken.
OnePlaceEach ==
    /\ \A s \in Senders: fate[s] = "pending" <=> pending = s
    /\ LET taken == {s \in Senders: fate[s] \in {"waiting", "obeyed", "replaced", "erased"}} IN
       /\ taken = confirmed \cup ({handling} \ {Nobody})
       /\ handling \notin confirmed
       /\ status_changes = Cardinality(taken)

\* main obeys no request twice and none that nobody made: when it looks at the
\* status it finds that of the latest request, or one that says nothing.
ObeyedOnce ==
    /\ \A s \in Waiting: status = value[s]
    /\ mainAt = "loop" /\ Waiting = {} => status \notin Known

\* status = 0 erases requests that nobody obeyed, those the handler took between
\* the switch and this assignment; it erases at most one for each that was obeyed.
ErasedByObeyed ==
    Cardinality({s \in Senders: fate[s] = "erased"})
      <= Cardinality({s \in Senders: fate[s] = "obeyed" /\ value[s] \in {1, 2}})

\* What main and its handler do to the requests, which share one status: every
\* one is accounted for, obeyed at most once, and erased only by another's.
RequestsAccounted == OnePlaceEach /\ ObeyedOnce /\ ErasedByObeyed

\* A sender does not stay in sigsuspend (or on the way to it) for ever unless its
\* signal was merged with another, nobody heard it, or the confirmation came
\* before the sigsuspend (sender.c: sigqueue, then sigsuspend).  A sender waits
\* once, so that all return if over and over nobody waits.
SenderReturns ==
    []<>(\A s \in Senders:
           senderAt[s] \in {"sent", "suspended"} =>
             fate[s] \in {"merged", "unheard"} \/ s \in early)
=============================================================================
