---------------------------- MODULE Generations ----------------------------
(***************************************************************************)
(* What the program of ex9/zad1 is there to show: Conway's Game of Life on *)
(* a bounded grid, one generation after the other.                         *)
(***************************************************************************)
EXTENDS Integers, FiniteSets

CONSTANTS
    Width,  \* columns of the grid
    Height  \* rows of the grid

VARIABLE
    alive  \* the positions on the screen that are alive

Positions == (0..(Height - 1)) \X (0..(Width - 1))

Near(a, b) == a - b \in -1..1
Neighbours(p) == {q \in Positions \ {p} : Near(p[1], q[1]) /\ Near(p[2], q[2])}

\* A cell with three living neighbours lives, one with two stays as it is.
Lives(p, now) ==
    LET n == Cardinality(Neighbours(p) \cap now)
    IN  n = 3 \/ (n = 2 /\ p \in now)

Init == alive \in SUBSET Positions

Evolve == alive' = {p \in Positions : Lives(p, alive)}

Spec == Init /\ [][Evolve]_alive
=============================================================================
