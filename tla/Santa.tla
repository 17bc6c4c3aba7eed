------------------------------- MODULE Santa -------------------------------
(***************************************************************************)
(* The Santa Claus problem of ex10/zad1/santa_claus_problem.c: one Santa   *)
(* thread sleeps in pthread_cond_wait, the reindeer threads count          *)
(* themselves back from their holidays and the last one signals Santa.     *)
(*                                                                         *)
(* Every reindeer is held at its gate by a mutex of its own.  The reindeer *)
(* locks it and Santa unlocks it: it works as a binary semaphore, and a    *)
(* normal glibc mutex allows that.  santa_mutex has no second user, so     *)
(* locking it and entering pthread_cond_wait is one step.                  *)
(*                                                                         *)
(* santa: "awake" (before pthread_cond_wait), "asleep" (in it), "deliver", *)
(*        "release" (unlocks gate[next]), "cancel" (cancels next), "done"  *)
(* pc[r]: "start" (first lock of its mutex), "holiday", "count" (holds the *)
(*        counter mutex), "store" (has loaded the counter), "check" (has   *)
(*        stored it), "leave" (about to unlock the counter mutex), "gate"  *)
(*        (second lock), "cancelled"                                       *)
(***************************************************************************)
EXTENDS Naturals, FiniteSets

CONSTANTS
    R,           \* REINDEERS_NUMBER, 9 in the program
    Cycles,      \* CYCLES_COUNT, 4 in the program
    Prompt,      \* TRUE: Santa is back in pthread_cond_wait before a holiday ends
    MaxSpurious  \* bound: returns of pthread_cond_wait without a signal

ASSUME NumbersAssumption == R \in Nat \ {0} /\ Cycles \in Nat \ {0}
ASSUME SwitchesAssumption == Prompt \in BOOLEAN /\ MaxSpurious \in Nat

VARIABLES
    santa,  \* control point of the Santa thread
    cycle,  \* Santa's outer loop counter
    next,   \* Santa's inner loop counter
    count,  \* reindeers_count
    read,   \* read[r]: the value of reindeers_count that r is incrementing
    guard,  \* who holds reindeers_count_mutex: {} or {r}
    gate,   \* gate[r]: reindeers_mutex[r] is locked
    pc,     \* pc[r]: control point of reindeer r
    spurious  \* how often Santa has woken up without a signal

vars == <<santa, cycle, next, count, read, guard, gate, pc, spurious>>

Reindeer == 1..R

TypeOK ==
    /\ santa \in {"awake", "asleep", "deliver", "release", "cancel", "done"}
    /\ cycle \in 0..Cycles
    /\ next \in 1..(R + 1)
    /\ count \in 0..R
    /\ read \in [Reindeer -> 0..R]
    /\ guard \in SUBSET Reindeer
    /\ gate \in [Reindeer -> BOOLEAN]
    /\ pc \in [Reindeer -> {"start", "holiday", "count", "store", "check",
                            "leave", "gate", "cancelled"}]
    /\ spurious \in 0..MaxSpurious

-----------------------------------------------------------------------------
Init ==
    /\ santa = "awake"
    /\ cycle = 0
    /\ next = 1
    /\ count = 0
    /\ read = [r \in Reindeer |-> 0]
    /\ guard = {}
    /\ gate = [r \in Reindeer |-> FALSE]
    /\ pc = [r \in Reindeer |-> "start"]
    /\ spurious = 0

reindeers == <<count, read, guard, gate, pc>>
santaVars == <<santa, cycle, next, spurious>>

\* pthread_mutex_lock(&santa_mutex); pthread_cond_wait(...)
FallAsleep ==
    /\ santa = "awake"
    /\ cycle < Cycles
    /\ santa' = "asleep"
    /\ UNCHANGED <<cycle, next, spurious, reindeers>>

\* POSIX lets pthread_cond_wait return without a signal; the code does not
\* test anything when it does.
WakeSpuriously ==
    /\ spurious < MaxSpurious
    /\ santa = "asleep"
    /\ santa' = "deliver"
    /\ spurious' = spurious + 1
    /\ UNCHANGED <<cycle, next, reindeers>>

Deliver ==
    /\ santa = "deliver"
    /\ santa' = "release"
    /\ next' = 1
    /\ UNCHANGED <<cycle, spurious, reindeers>>

\* Fault for the mutants: the loop over the gates is one short.
LastReleasedEarly == R - 1
LastReleased == R

\* pthread_mutex_unlock(&reindeers_mutex[i])
Release ==
    /\ santa = "release"
    /\ next <= LastReleased
    /\ gate' = [gate EXCEPT ![next] = FALSE]
    /\ next' = next + 1
    /\ UNCHANGED <<santa, cycle, spurious, count, read, guard, pc>>

EndCycle ==
    /\ santa = "release"
    /\ next > LastReleased
    /\ cycle' = cycle + 1
    /\ santa' = IF cycle' < Cycles THEN "awake" ELSE "cancel"
    /\ next' = 1
    /\ UNCHANGED <<spurious, reindeers>>

\* pthread_cancel(): with PTHREAD_CANCEL_ASYNCHRONOUS the thread ends where it
\* stands and keeps its mutexes locked.
Cancel ==
    /\ santa = "cancel"
    /\ next <= R
    /\ pc' = [pc EXCEPT ![next] = "cancelled"]
    /\ next' = next + 1
    /\ UNCHANGED <<santa, cycle, spurious, count, read, guard, gate>>

Finish ==
    /\ santa = "cancel"
    /\ next > R
    /\ santa' = "done"
    /\ UNCHANGED <<cycle, next, spurious, reindeers>>

SantaStep ==
    \/ FallAsleep \/ Deliver \/ Release \/ EndCycle \/ Cancel \/ Finish

-----------------------------------------------------------------------------
Move(r, from, to) ==
    /\ pc[r] = from
    /\ pc' = [pc EXCEPT ![r] = to]

LockFirst(r) ==
    /\ Move(r, "start", "holiday")
    /\ ~gate[r]
    /\ gate' = [gate EXCEPT ![r] = TRUE]
    /\ UNCHANGED <<santaVars, count, read, guard>>

\* A holiday takes sleep(rand()%6 + 5), at least five seconds; Santa leaves his
\* loop over the gates and reaches pthread_cond_wait without any sleep.
HolidayOver == Prompt => santa \in {"asleep", "deliver", "done"}

\* Fault for the mutants: the counter is not protected.
GuardIgnored == TRUE
GuardFree == guard = {}

\* sleep(); pthread_mutex_lock(&reindeers_count_mutex)
ComeBack(r) ==
    /\ Move(r, "holiday", "count")
    /\ HolidayOver
    /\ GuardFree
    /\ guard' = {r}
    /\ UNCHANGED <<santaVars, count, read, gate>>

\* reindeers_count++, a load and a store
LoadCount(r) ==
    /\ Move(r, "count", "store")
    /\ read' = [read EXCEPT ![r] = count]
    /\ UNCHANGED <<santaVars, count, guard, gate>>

StoreCount(r) ==
    /\ Move(r, "store", "check")
    /\ count' = read[r] + 1
    /\ read' = [read EXCEPT ![r] = 0]
    /\ UNCHANGED <<santaVars, guard, gate>>

\* Fault for the mutants: one reindeer too few wakes Santa.
AllButOneBack == count >= R - 1
AllBack == count = R

\* pthread_cond_signal() reaches Santa only while he waits; count restarts.
SignalSanta(r) ==
    /\ Move(r, "check", "leave")
    /\ AllBack
    /\ santa' = IF santa = "asleep" THEN "deliver" ELSE santa
    /\ count' = 0
    /\ UNCHANGED <<cycle, next, spurious, read, guard, gate>>

NotLast(r) ==
    /\ Move(r, "check", "leave")
    /\ ~AllBack
    /\ UNCHANGED <<santaVars, count, read, guard, gate>>

\* pthread_mutex_unlock(&reindeers_count_mutex)
UnlockCount(r) ==
    /\ Move(r, "leave", "gate")
    /\ guard' = {}
    /\ UNCHANGED <<santaVars, count, read, gate>>

\* Fault for the mutants: a gate that does not hold the reindeer.
GateOpenAlways(r) == TRUE
GateOpen(r) == ~gate[r]

\* pthread_mutex_lock(&reindeers_mutex[id-1]); the next holiday begins.
PassGate(r) ==
    /\ Move(r, "gate", "holiday")
    /\ GateOpen(r)
    /\ gate' = [gate EXCEPT ![r] = TRUE]
    /\ UNCHANGED <<santaVars, count, read, guard>>

ReindeerStep(r) ==
    \/ LockFirst(r) \/ ComeBack(r) \/ LoadCount(r) \/ StoreCount(r) \/ SignalSanta(r)
    \/ NotLast(r) \/ UnlockCount(r) \/ PassGate(r)

\* main() has joined every thread.
Finished == santa = "done" /\ \A r \in Reindeer : pc[r] = "cancelled"
Exit == Finished /\ UNCHANGED vars

Next ==
    \/ SantaStep
    \/ WakeSpuriously
    \/ \E r \in Reindeer : ReindeerStep(r)
    \/ Exit

Spec == Init /\ [][Next]_vars

\* Every thread keeps being scheduled; nothing forces a spurious wakeup.
Fairness ==
    /\ WF_vars(SantaStep)
    /\ \A r \in Reindeer : WF_vars(ReindeerStep(r))

FairSpec == Spec /\ Fairness

-----------------------------------------------------------------------------
\* Reindeer that have counted themselves and not passed their gate since.
Home(r) == pc[r] \in {"check", "leave", "gate"}

\* "all raindeers have to come back to wake up santa" (line 19): whenever Santa
\* delivers, every reindeer is home (lines 66-74 and 109-117).
AllBackWhenDelivering ==
    santa = "deliver" => \A r \in Reindeer : Home(r)

\* So it is as long as pthread_cond_wait has returned on signals only.
AllBackUnlessSpurious == spurious = 0 => AllBackWhenDelivering

\* Santa only unlocks a mutex that is locked (line 79), and a reindeer that
\* returns to its gate finds it locked until Santa has served it (line 121):
\* no reindeer leaves twice in one delivery, spurious wakeups apart.
GatesHeld == spurious = 0 =>
    /\ santa = "release" => \A r \in next..R : gate[r] /\ Home(r)
    /\ \A r \in Reindeer : pc[r] \in {"holiday", "count", "store", "check"} => gate[r]

\* Reindeer that Santa has still to release for the delivery under way.
Unserved ==
    CASE santa = "deliver" -> Reindeer
      [] santa = "release" -> next..R
      [] OTHER -> {}

Counted == {r \in Reindeer : Home(r) /\ gate[r]} \ Unserved

\* reindeers_count is the number of reindeer that came back for the coming
\* delivery: nobody is counted twice and nobody is forgotten (lines 109-120),
\* until the signal for them is sent and nobody hears it.
CountMatches == spurious = 0 /\ santa \notin {"cancel", "done"} =>
    \/ count = Cardinality(Counted)
    \/ count = 0 /\ Counted = Reindeer

\* Santa has a cycle before him until he cancels the reindeer (line 61).
CyclesLeft == santa \in {"awake", "asleep", "deliver", "release"} => cycle < Cycles

\* The counter mutex is held by the reindeer that works on the counter, which
\* is at R only between its increment and the reset.
CounterGuarded ==
    /\ guard = {} \/ \E r \in Reindeer : guard = {r}
    /\ \A r \in Reindeer : pc[r] \in {"count", "store", "check", "leave"} => guard = {r}
    /\ \A r \in Reindeer : pc[r] = "store" => read[r] = count
    /\ count < R \/ \E r \in guard : pc[r] \in {"check", "cancelled"}

\* Whoever Santa has still to release is done with the counter and waits, or
\* is about to wait, at a locked gate.
UnservedWait == spurious = 0 =>
    \A r \in Unserved : gate[r] /\ pc[r] \in {"leave", "gate"}

\* The inductive invariant behind the theorems of SantaProofs.
IInv ==
    /\ TypeOK /\ CyclesLeft /\ CounterGuarded
    /\ UnservedWait /\ GatesHeld /\ CountMatches

\* Santa delivers Cycles times and every thread ends, also with premature
\* deliveries (lines 61-92, 132-142).  A signal of the last reindeer that found
\* Santa awake ("santa will be woken up", line 113) would leave all waiting.
Termination == <>Finished
=============================================================================
