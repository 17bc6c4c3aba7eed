----------------------------- MODULE Integrate -----------------------------
(***************************************************************************)
(* ex6/zad1: the integral over a range, split among child processes that   *)
(* send their partial results through one pipe each.                       *)
(*                                                                         *)
(* The range is Range cells long, a cell being the unit the interval width *)
(* is given in; rounding of doubles is left out.  A rectangle is the set   *)
(* of cells below it, a partial result the cells its rectangles cover.     *)
(* A width of 0 makes every part empty, and one below 0 makes a child that *)
(* has a part step away from its end for ever.                             *)
(***************************************************************************)
EXTENDS Integers

CONSTANTS
    Range,        \* right_border - left_border
    MaxWidth,     \* bound of argv[1], the interval width, below and above 0
    MaxProcesses  \* bound of argv[2], the number of processes

Sizes ==
    /\ Range \in Nat /\ MaxWidth \in Nat \ {0} /\ MaxProcesses \in Nat \ {0}

VARIABLES
    width, processes,  \* interval_width, processes_number
    pc,       \* the parent: "fork", "close" (its write end), "read", "done"
    i,        \* the parent's loop index
    start,    \* where the part of the next child begins
    part,     \* part[j]: start and end of child j
    child,    \* child[j]: "none", "runs", "wrote", "died"
    holds,    \* the children whose write end the parent still has open
    result,   \* result[x]: how often cell x is in the sum
    partial,  \* partial_result: the cells it counts
    garbage   \* TRUE: an uninitialised partial_result was added

vars == <<width, processes, pc, i, start, part, child, holds, result, partial, garbage>>

\* The range, and the cells that a rectangle could have beyond it.
Cells == 0..(Range + MaxWidth - 1)
Workers == 0..(MaxProcesses - 1)
NoPart == <<0, 0>>

min(x, y) == IF x > y THEN y ELSE x
CeilDiv(x, y) == (x + y - 1) \div y

\* ceil, then division that is cut towards 0.  A width of 0 divides by 0, and
\* whatever number that is, it is multiplied by the width.
intervals_per_process ==
    IF width > 0 THEN CeilDiv(Range, width) \div processes
    ELSE IF width < 0 THEN -((Range \div (-width)) \div processes) ELSE 0

\* Fault for the mutants: the last rectangle is not cut at the end of the part.
WholeRectangle(s, end) == s..(s + width - 1)
Rectangle(s, end) == s..(s + min(end - s, width) - 1)
\* Where the rectangles of part p begin, and the cells they cover.
Starts(p) == {p[1] + n * width: n \in 0..Range} \cap p[1]..(p[2] - 1)
integrate(p) == UNION {Rectangle(s, p[2]): s \in Starts(p)}

TypeOK ==
    /\ width \in -MaxWidth..MaxWidth /\ processes \in 1..MaxProcesses
    /\ pc \in {"fork", "close", "read", "done"}
    /\ i \in 0..processes
    /\ start \in 0..Range
    /\ part \in [Workers -> (0..Range) \X (0..Range)]
    /\ child \in [Workers -> {"none", "runs", "wrote", "died"}]
    /\ holds \in SUBSET Workers
    /\ result \in [Cells -> Nat]
    /\ partial \in SUBSET Cells
    /\ garbage \in BOOLEAN

Init ==
    /\ width \in -MaxWidth..MaxWidth /\ processes \in 1..MaxProcesses
    /\ pc = "fork" /\ i = 0 /\ start = 0
    /\ part = [j \in Workers |-> NoPart]
    /\ child = [j \in Workers |-> "none"]
    /\ holds = {}
    /\ result = [x \in Cells |-> 0]
    /\ partial = {} /\ garbage = FALSE

\* Fault for the mutants: end is not cut at the right border.
UncutEnd == start + intervals_per_process * width
PartEnd == min(start + intervals_per_process * width, Range)

\* pipe and fork.  When fork fails the child is one that died at once.
Fork ==
    /\ pc = "fork" /\ i < processes
    /\ part' = [part EXCEPT ![i] = <<start, PartEnd>>]
    /\ child' = [child EXCEPT ![i] = "runs"]
    /\ holds' = holds \cup {i}
    /\ pc' = "close"
    /\ UNCHANGED <<width, processes, i, start, result, partial, garbage>>

ClosedWriteEnd == holds \ {i}

NextStart == part[i][2]

CloseWriteEnd ==
    /\ pc = "close"
    /\ holds' = ClosedWriteEnd
    /\ start' = NextStart
    /\ i' = IF i + 1 < processes THEN i + 1 ELSE 0
    /\ pc' = IF i + 1 < processes THEN "fork" ELSE "read"
    /\ UNCHANGED <<width, processes, part, child, result, partial, garbage>>

\* integrate moves away from the end of its part.
Endless(j) == child[j] = "runs" /\ width < 0 /\ part[j][1] < part[j][2]

\* Child j, which has nothing of the parent's but its own write end.
Write(j) ==
    /\ child[j] = "runs" /\ ~Endless(j)
    /\ child' = [child EXCEPT ![j] = "wrote"]
    /\ UNCHANGED <<width, processes, pc, i, start, part, holds, result, partial, garbage>>

Die(j) ==
    /\ child[j] = "runs"
    /\ child' = [child EXCEPT ![j] = "died"]
    /\ UNCHANGED <<width, processes, pc, i, start, part, holds, result, partial, garbage>>

\* What read finds in the pipe of child i; 0 bytes leave partial_result as it
\* was, in the same place of the stack in every iteration.
AtEof == child[i] = "died" /\ i \notin holds
Received == IF child[i] = "wrote" THEN integrate(part[i]) ELSE partial

Read ==
    /\ pc = "read"
    /\ child[i] = "wrote" \/ AtEof
    /\ partial' = Received
    /\ result' = [x \in Cells |-> IF x \in partial' THEN result[x] + 1 ELSE result[x]]
    /\ garbage' = (garbage \/ AtEof)
    /\ i' = i + 1
    /\ pc' = IF i + 1 < processes THEN "read" ELSE "done"
    /\ UNCHANGED <<width, processes, start, part, child, holds>>

Parent == Fork \/ CloseWriteEnd \/ Read

Next == Parent \/ \E j \in Workers: Write(j) \/ Die(j)

Spec == Init /\ [][Next]_vars

-----------------------------------------------------------------------------
(* Properties.                                                             *)

Forked == {j \in Workers: child[j] # "none"}

\* The parts do not overlap, and each begins where the one before it ended.
PartsConsecutive ==
    \A j \in Forked:
      /\ part[j][1] <= part[j][2]
      /\ part[j][1] = IF j = 0 THEN 0 ELSE part[j - 1][2]

\* When no child has died, each cell that belongs to a part is counted once and
\* no other; fewer cells are left out than all processes cover in one interval,
\* if the width is positive.
ResultExact ==
    pc = "done" /\ (\A j \in Workers: child[j] # "died") =>
      /\ \A x \in Cells: result[x] = IF x < start THEN 1 ELSE 0
      /\ width > 0 => Range - start < processes * width

\* A child that dies spoils the result but no other child's share: what the
\* others have counted is in it.
SharesCounted ==
    pc = "done" =>
      \A j \in Forked: child[j] = "wrote" =>
        \A x \in integrate(part[j]): result[x] >= 1

\* What the parent prints in the end, and the parts it is made of.
SumRight == PartsConsecutive /\ ResultExact /\ SharesCounted

\* The parent ends, also when children die instead of writing, unless it waits
\* for a child that does not end.
Termination == []<>(pc = "done" \/ (pc = "read" /\ Endless(i)))
=============================================================================
