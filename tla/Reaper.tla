------------------------------ MODULE Reaper ------------------------------
(***************************************************************************)
(* kol_01/zad_03: a parent that forks NUMPROCS children, counts them in    *)
(* nprocs, and waits until its SIGCHLD handler has counted them down.      *)
(*                                                                         *)
(* The Makefile builds without optimisation, so nprocs++ is a load, an     *)
(* addition and a store between which the handler can run.  signal() of    *)
(* the C library blocks SIGCHLD during the handler and keeps it installed. *)
(***************************************************************************)
EXTENDS Integers, FiniteSets

CONSTANTS Children  \* the processes to fork, NUMPROCS = 4 in the code

ASSUME ChildrenAssumption == IsFiniteSet(Children)

VARIABLES
    at,       \* main: "fork", "load", "store" (inside nprocs++), "test",
              \* "sleep", "end", "failed" (fork returned -1)
    inCatch,  \* TRUE while the handler interrupts main
    signalled,\* TRUE while SIGCHLD is pending
    child,    \* child[c]: "none", "runs", "zombie", "reaped"
    counted,  \* how many children nprocs++ has counted
    nprocs,
    loaded,   \* the register between the load and the store of nprocs++
    lost      \* history: decrements that the store has overwritten

vars == <<at, inCatch, signalled, child, counted, nprocs, loaded, lost>>

In(state) == {c \in Children: child[c] = state}

TypeOK ==
    /\ at \in {"fork", "load", "store", "test", "sleep", "end", "failed"}
    /\ inCatch \in BOOLEAN /\ signalled \in BOOLEAN
    /\ child \in [Children -> {"none", "runs", "zombie", "reaped"}]
    /\ counted \in 0..Cardinality(Children) /\ lost \in 0..Cardinality(Children)
    /\ nprocs \in -1..Cardinality(Children) /\ loaded \in -1..Cardinality(Children)

Init ==
    /\ at = IF Children = {} THEN "test" ELSE "fork"
    /\ inCatch = FALSE /\ signalled = FALSE
    /\ child = [c \in Children |-> "none"]
    /\ counted = 0 /\ nprocs = 0 /\ loaded = 0 /\ lost = 0

-----------------------------------------------------------------------------
(* main, which runs while the handler does not.                            *)

MainMove(from, to) ==
    /\ at = from /\ ~inCatch
    /\ at' = to
    /\ UNCHANGED <<inCatch, signalled, lost>>

Fork(c) ==
    /\ MainMove("fork", "load")
    /\ child[c] = "none"
    /\ child' = [child EXCEPT ![c] = "runs"]
    /\ UNCHANGED <<counted, nprocs, loaded>>

ForkFails ==
    /\ MainMove("fork", "failed")
    /\ UNCHANGED <<child, counted, nprocs, loaded>>

\* parent(): nprocs++ in two steps; the handler is installed already.
Load ==
    /\ MainMove("load", "store")
    /\ loaded' = nprocs
    /\ UNCHANGED <<child, counted, nprocs>>

\* Fault for the mutants: fork in a loop over one child too few.
AllButOneForked == Cardinality(In("none")) <= 1
AllForked == In("none") = {}

Store ==
    /\ MainMove("store", IF AllForked THEN "test" ELSE "fork")
    /\ nprocs' = loaded + 1
    /\ counted' = counted + 1
    /\ UNCHANGED <<child, loaded>>

Test ==
    /\ MainMove("test", IF nprocs = 0 THEN "end" ELSE "sleep")
    /\ UNCHANGED <<child, counted, nprocs, loaded>>

\* sleep(20) ends after its time, so a signal before it does no harm.
Sleep ==
    /\ MainMove("sleep", "test")
    /\ UNCHANGED <<child, counted, nprocs, loaded>>

Main == ForkFails \/ (\E c \in Children: Fork(c)) \/ Load \/ Store \/ Test \/ Sleep

-----------------------------------------------------------------------------
(* child and catch.                                                        *)

\* A child ends after its sleep, which takes no time for the first one.
ChildExits(c) ==
    /\ child[c] = "runs"
    /\ child' = [child EXCEPT ![c] = "zombie"]
    /\ signalled' = TRUE
    /\ UNCHANGED <<at, inCatch, counted, nprocs, loaded, lost>>

EnterCatch ==
    /\ signalled /\ ~inCatch /\ at \notin {"end", "failed"}
    /\ signalled' = FALSE
    /\ inCatch' = TRUE
    /\ UNCHANGED <<at, child, counted, nprocs, loaded, lost>>

Reap(c) ==
    /\ inCatch
    /\ child[c] = "zombie"
    /\ child' = [child EXCEPT ![c] = "reaped"]
    /\ nprocs' = nprocs - 1
    /\ lost' = IF at = "store" THEN lost + 1 ELSE lost
    /\ UNCHANGED <<at, inCatch, signalled, counted, loaded>>

NoZombie == In("zombie") = {}

\* Fault for the mutants: do ... while counts the call that finds nothing.
AfterDoWhile == nprocs - 1
AfterLoop == nprocs

LeaveCatch ==
    /\ inCatch
    /\ NoZombie
    /\ inCatch' = FALSE
    /\ nprocs' = AfterLoop
    /\ UNCHANGED <<at, signalled, child, counted, loaded, lost>>

Catch == EnterCatch \/ LeaveCatch \/ \E c \in Children: Reap(c)

Next == Main \/ Catch \/ \E c \in Children: ChildExits(c)

Spec == Init /\ [][Next]_vars

-----------------------------------------------------------------------------
(* Properties.                                                             *)

\* nprocs is the number of children counted and not reaped, and one more for
\* every decrement that fell between the load and the store of nprocs++.
CountMatches ==
    (IF at = "store" THEN loaded ELSE nprocs) = counted - Cardinality(In("reaped")) + lost

\* The parent exits only when it has reaped every child, and never after it
\* has lost a decrement.
ExitsLast == at = "end" => In("reaped") = Children /\ lost = 0

\* What nprocs tells the parent, interrupted as it may be while it counts.
ParentKnows == CountMatches /\ ExitsLast

\* Every child forked is counted, but for the one that nprocs++ is about to
\* count, and nprocs is never less than what it stands for.
CountedAreForked ==
    /\ Cardinality(Children \ In("none")) = counted + (IF at \in {"load", "store"} THEN 1 ELSE 0)
    /\ at \in {"test", "sleep", "end"} => In("none") = {}
    /\ lost <= Cardinality(In("reaped"))
    /\ nprocs >= counted - Cardinality(In("reaped"))

\* The inductive invariant behind the theorems of ExerciseProofs.
IInv == TypeOK /\ CountedAreForked /\ ParentKnows

\* "parent: exiting" (out.txt): the parent exits unless fork fails or a
\* decrement is lost.
ExitsUnlessLost == <>(at \in {"end", "failed"} \/ lost > 0)
=============================================================================
