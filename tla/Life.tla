-------------------------------- MODULE Life --------------------------------
(***************************************************************************)
(* The Game of Life of ex9/zad1: life.c with its main thread and its       *)
(* worker threads, grid.c.                                                 *)
(*                                                                         *)
(* main draws the grid, sends SIGUSR1 to every thread, sleeps, computes    *)
(* the next generation itself and exchanges the two grids through          *)
(* pointers the threads share.  A thread sleeps in pause() until a signal  *)
(* arrives and computes its part of the cells.                             *)
(*                                                                         *)
(* mpc:    "kill" (pthread_kill to thread k), "sleep", "update" (cell k),  *)
(*         "swap" and "restore" (the two stores of the exchange), "draw"   *)
(* tpc[t]: "idle" (not in pause() yet: a signal is lost on it), "pause",   *)
(*         "work" (loop test, then is_alive), "store" (about to store the  *)
(*         cell)                                                           *)
(***************************************************************************)
EXTENDS Integers, FiniteSets

CONSTANTS
    Width,   \* GRID_WIDTH, 30 in the program
    Height,  \* GRID_HEIGHT, 30 in the program
    N,       \* threads_number
    First,   \* the first generations init_grid() may make up, any in the program
    Prompt   \* TRUE: main's half second is enough for the threads it woke

ASSUME SizesAssumption ==
    /\ Width \in Nat \ {0} /\ Height \in Nat \ {0}
    /\ N \in 1..(Width * Height)
    /\ First \subseteq [0..(Width * Height - 1) -> BOOLEAN]
    /\ Prompt \in BOOLEAN

VARIABLES
    grid,        \* grid[g]: the cells of the two allocated grids
    foreground,  \* main's pointers, which the threads dereference
    background,
    tmp,         \* main's tmp
    mpc,         \* control point of main
    k,           \* main's loop index
    screen,      \* what draw_grid has drawn last
    tpc,         \* tpc[t]: control point of thread t
    cell,        \* cell[t]: the thread's loop index i
    value,       \* value[t]: what is_alive returned
    woken        \* history: the threads this generation's signals have woken

pointers == <<foreground, background, tmp>>
main == <<mpc, k>>
threads == <<tpc, cell, value, woken>>
vars == <<grid, pointers, main, screen, threads>>

Size == Width * Height
Cells == 0..(Size - 1)
Threads == 0..(N - 1)
Grids == {"A", "B"}

-----------------------------------------------------------------------------
\* ceil(GRID_WIDTH * GRID_HEIGHT / threads_number): the division is one of
\* integers, so ceil has nothing left to round.
CellsPerThread == Size \div N

MIN(a, b) == IF a < b THEN a ELSE b
FirstCell(t) == t * CellsPerThread
LastCell(t) == MIN((t + 1) * CellsPerThread, Size) - 1

\* is_alive(i / GRID_WIDTH, i % GRID_WIDTH, g)
Around(row, col) ==
    {q \in ((row - 1)..(row + 1)) \X ((col - 1)..(col + 1)) :
        q # <<row, col>> /\ q[1] \in 0..(Height - 1) /\ q[2] \in 0..(Width - 1)}

is_alive(i, g) ==
    LET count == Cardinality({q \in Around(i \div Width, i % Width) : g[Width * q[1] + q[2]]})
    IN  IF g[i] THEN count \in {2, 3} ELSE count = 3

-----------------------------------------------------------------------------
TypeOK ==
    /\ grid \in [Grids -> [Cells -> BOOLEAN]]
    /\ foreground \in Grids /\ background \in Grids /\ tmp \in Grids
    /\ mpc \in {"kill", "sleep", "update", "swap", "restore", "draw"}
    /\ k \in 0..Size
    /\ screen \in [Cells -> BOOLEAN]
    /\ tpc \in [Threads -> {"idle", "pause", "work", "store"}]
    /\ cell \in [Threads -> 0..Size]
    /\ \A t \in Threads : cell[t] \in FirstCell(t)..(LastCell(t) + 1)
    /\ value \in [Threads -> BOOLEAN]
    /\ woken \in SUBSET Threads

\* main has created the threads and drawn the first generation.  malloc does
\* not clear the background; two contents that differ everywhere tell whether
\* anything is read before it is written.
Init ==
    /\ \E first \in First, b \in BOOLEAN :
         /\ grid = [g \in Grids |-> IF g = "A" THEN first ELSE [i \in Cells |-> b]]
         /\ screen = first
    /\ foreground = "A"
    /\ background = "B"
    /\ tmp = "A"
    /\ mpc = "kill"
    /\ k = 0
    /\ tpc = [t \in Threads |-> "idle"]
    /\ cell = [t \in Threads |-> FirstCell(t)]
    /\ value = [t \in Threads |-> FALSE]
    /\ woken = {}

-----------------------------------------------------------------------------
(* main *)

MainMove(from, to) ==
    /\ mpc = from
    /\ mpc' = to

\* Fault for the mutants: the last thread is not signalled.
AllButLast == N - 1
Signalled == N

\* pthread_kill(threads[k], SIGUSR1): pause() returns in a thread that is in
\* it; in any other place the handler runs and does nothing.
Kill ==
    /\ MainMove("kill", "kill")
    /\ k < Signalled
    /\ k' = k + 1
    /\ IF tpc[k] = "pause"
       THEN /\ tpc' = [tpc EXCEPT ![k] = "work"]
            /\ cell' = [cell EXCEPT ![k] = FirstCell(k)]
            /\ woken' = woken \cup {k}
       ELSE UNCHANGED <<tpc, cell, woken>>
    /\ UNCHANGED <<grid, pointers, screen, value>>

GoToSleep ==
    /\ MainMove("kill", "sleep")
    /\ k = Signalled
    /\ UNCHANGED <<grid, pointers, k, screen, threads>>

\* Fault for the mutants: main does not sleep.
NoSleep == TRUE

\* usleep(500 * 1000); the threads are not joined or waited for.
Slept == Prompt => \A t \in Threads : tpc[t] \in {"idle", "pause"}

WakeUp ==
    /\ MainMove("sleep", "update")
    /\ Slept
    /\ k' = 0
    /\ UNCHANGED <<grid, pointers, screen, threads>>

\* update_grid(foreground, background), a cell at a time
Update ==
    /\ MainMove("update", "update")
    /\ k < Size
    /\ grid' = [grid EXCEPT ![background][k] = is_alive(k, grid[foreground])]
    /\ k' = k + 1
    /\ UNCHANGED <<pointers, screen, threads>>

EndUpdate ==
    /\ MainMove("update", "swap")
    /\ k = Size
    /\ tmp' = foreground
    /\ k' = 0
    /\ UNCHANGED <<grid, foreground, background, screen, threads>>

Swap ==
    /\ MainMove("swap", "restore")
    /\ foreground' = background
    /\ UNCHANGED <<grid, background, tmp, k, screen, threads>>

\* Fault for the mutants: without tmp the old foreground is lost.
LostGrid == foreground
OldForeground == tmp

Restore ==
    /\ MainMove("restore", "draw")
    /\ background' = OldForeground
    /\ UNCHANGED <<grid, foreground, tmp, k, screen, threads>>

Draw ==
    /\ MainMove("draw", "kill")
    /\ screen' = grid[foreground]
    /\ woken' = {}
    /\ UNCHANGED <<grid, pointers, k, tpc, cell, value>>

Main ==
    \/ Kill \/ GoToSleep \/ WakeUp \/ Update \/ EndUpdate \/ Swap \/ Restore \/ Draw

-----------------------------------------------------------------------------
(* thread_work *)

Move(t, from, to) ==
    /\ tpc[t] = from
    /\ tpc' = [tpc EXCEPT ![t] = to]
    /\ UNCHANGED <<pointers, main, screen, woken>>

Pause(t) ==
    /\ Move(t, "idle", "pause")
    /\ UNCHANGED <<grid, cell, value>>

\* Fault for the mutants: the loop runs one cell too far.
OneTooFar(t) == cell[t] <= LastCell(t) + 1
InRange(t) == cell[t] <= LastCell(t)

\* is_alive(row, column, *foreground): one step, since nothing it reads changes
\* while main sleeps
Compute(t) ==
    /\ Move(t, "work", "store")
    /\ InRange(t)
    /\ value' = [value EXCEPT ![t] = is_alive(cell[t], grid[foreground])]
    /\ UNCHANGED <<grid, cell>>

\* (*background)[i] = ...; i++
Store(t) ==
    /\ Move(t, "store", "work")
    /\ grid' = [grid EXCEPT ![background][cell[t]] = value[t]]
    /\ cell' = [cell EXCEPT ![t] = @ + 1]
    /\ UNCHANGED value

EndLoop(t) ==
    /\ Move(t, "work", "idle")
    /\ ~InRange(t)
    /\ UNCHANGED <<grid, cell, value>>

Thread(t) == Pause(t) \/ Compute(t) \/ Store(t) \/ EndLoop(t)

Next ==
    \/ Main
    \/ \E t \in Threads : Thread(t)

Spec == Init /\ [][Next]_vars

\* Every thread keeps being scheduled.
Fairness ==
    /\ WF_vars(Main)
    /\ \A t \in Threads : WF_vars(Thread(t))

FairSpec == Spec /\ Fairness

-----------------------------------------------------------------------------
\* The threads need no lock among each other: no two of them are ever at the
\* same cell, however the cells are divided (life.c:64-68).
NoClash == \A t, u \in Threads :
    t # u /\ tpc[t] = "store" /\ tpc[u] = "store" => cell[t] # cell[u]

\* Cell i of the background is what the next generation has there.
Correct(i) == grid[background][i] = is_alive(i, grid[foreground])

\* Where a signal arrived in time, main finds its own result: the thread has
\* computed its part from the same generation into the same grid
\* (life.c:22-28, 117-125).
ThreadsAgree == mpc = "update" => \A t \in woken :
    \A i \in FirstCell(t)..LastCell(t) : Correct(i)

\* A signal that finds its thread outside pause() is lost, but no thread loses
\* all of them for ever (life.c:22, 117).
EveryThreadWorks == \A t \in Threads : []<>(tpc[t] = "store")

\* The positions at which grid g is alive.
Living(g) == {<<i \div Width, i % Width>> : i \in {j \in Cells : g[j]}}

Reference == INSTANCE Generations WITH alive <- Living(screen)

\* The screen shows one generation after the other, although signals are lost,
\* cells belong to no thread and the grids are exchanged in two steps, as long
\* as main sleeps long enough (life.c:113-126, grid.c:45-95).
ImplementsGenerations == Reference!Spec

-----------------------------------------------------------------------------
\* A thread about to store is at one of its own cells.
InLoop == \A t \in Threads : tpc[t] = "store" => InRange(t)

\* The pointers name the two grids, but between the two stores of the exchange.
Pointers ==
    /\ mpc # "restore" => foreground # background
    /\ mpc = "swap" => tmp = foreground
    /\ mpc = "restore" => foreground = background /\ tmp # foreground

\* Threads work while main signals or sleeps only.
Quiet == mpc \notin {"kill", "sleep"} => \A t \in Threads : tpc[t] \in {"idle", "pause"}

\* How far the generation after the screen's has been computed.
Progress ==
    /\ mpc \in {"kill", "sleep", "update", "swap"} => screen = grid[foreground]
    /\ mpc = "update" => \A i \in 0..(k - 1) : Correct(i)
    /\ mpc = "swap" => \A i \in Cells : Correct(i)
    /\ mpc \in {"restore", "draw"} =>
         \A i \in Cells : grid[foreground][i] = is_alive(i, screen)

\* What thread t has computed of it since its signal.
Done(t) ==
    IF tpc[t] \in {"work", "store"} THEN FirstCell(t)..(cell[t] - 1)
    ELSE FirstCell(t)..LastCell(t)

Computed ==
    /\ \A t \in Threads : tpc[t] = "store" => value[t] = is_alive(cell[t], grid[foreground])
    /\ mpc \in {"kill", "sleep", "update"} => \A t \in woken : \A i \in Done(t) : Correct(i)

\* The inductive invariant behind the theorems of LifeProofs.
IInv ==
    /\ TypeOK
    /\ InLoop
    /\ Pointers
    /\ Prompt => Quiet /\ Progress /\ Computed
=============================================================================
