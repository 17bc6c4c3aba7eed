----------------------------- MODULE SigParent -----------------------------
(***************************************************************************)
(* kol_01/zad_02: a parent installs a handler for SIGUSR1, forks, and      *)
(* sends the child the signal it was asked to send; the child blocks every *)
(* signal but SIGUSR1 and calls pause().                                   *)
(***************************************************************************)
EXTENDS Naturals

VARIABLES
    parentAt,  \* "fork", "queue", "ended"
    childAt,   \* "none", "start", "masked", "paused", "ended", "killed"
    signal,    \* the signal of argv[2]
    blocked,   \* TRUE: the signal is pending behind the child's mask
    printed,   \* TRUE: the handler has printed the value
    tooEarly   \* history: the handler ran before pause()

vars == <<parentAt, childAt, signal, blocked, printed, tooEarly>>

SIGKILL == 9
SIGUSR1 == 10
SIGSEGV == 11

TypeOK ==
    /\ parentAt \in {"fork", "queue", "ended"}
    /\ childAt \in {"none", "start", "masked", "paused", "ended", "killed"}
    /\ signal \in {SIGKILL, SIGUSR1, SIGSEGV}  \* those of the Makefile's test
    /\ blocked \in BOOLEAN /\ printed \in BOOLEAN /\ tooEarly \in BOOLEAN

Init ==
    /\ parentAt = "fork" /\ childAt = "none"
    /\ signal \in {SIGKILL, SIGUSR1, SIGSEGV}
    /\ blocked = FALSE /\ printed = FALSE /\ tooEarly = FALSE

\* The handler is installed before, so the child has it from the start.
Fork ==
    /\ parentAt = "fork"
    /\ parentAt' = "queue" /\ childAt' = "start"
    /\ UNCHANGED <<signal, blocked, printed, tooEarly>>

\* Where the child blocks every signal but SIGUSR1.
Masked == childAt \in {"masked", "paused"}

\* Fault for the mutants: a handler that is installed after fork, as late as
\* the mask.
LateHandler == Masked
Handled == TRUE

Sigqueue ==
    /\ parentAt = "queue"
    /\ parentAt' = "ended"
    /\ \/ /\ signal = SIGUSR1 /\ Handled
          /\ printed' = TRUE
          /\ childAt' = IF childAt = "paused" THEN "ended" ELSE childAt
          /\ tooEarly' = (childAt # "paused")
          /\ UNCHANGED blocked
       \/ /\ signal # SIGUSR1 \/ ~Handled
          /\ signal = SIGKILL \/ ~Masked
          /\ childAt' = "killed"
          /\ UNCHANGED <<blocked, printed, tooEarly>>
       \/ /\ signal = SIGSEGV /\ Masked
          /\ blocked' = TRUE
          /\ UNCHANGED <<childAt, printed, tooEarly>>
    /\ UNCHANGED signal

BlockSignals ==
    /\ childAt = "start"
    /\ childAt' = "masked"
    /\ UNCHANGED <<parentAt, signal, blocked, printed, tooEarly>>

Pause ==
    /\ childAt = "masked"
    /\ childAt' = "paused"
    /\ UNCHANGED <<parentAt, signal, blocked, printed, tooEarly>>

Parent == Fork \/ Sigqueue
Child == BlockSignals \/ Pause

Next == Parent \/ Child

-----------------------------------------------------------------------------
(* Properties.                                                             *)

\* With SIGUSR1 the value is printed, wherever the signal finds the child, and
\* the child returns from pause() unless the signal came before it.
ValuePrinted ==
    signal = SIGUSR1 => <>(printed /\ (childAt = "ended" \/ tooEarly))
=============================================================================
