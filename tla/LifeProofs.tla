----------------------------- MODULE LifeProofs -----------------------------
(***************************************************************************)
(* Theorems about Life for every size of the grid and number of threads.   *)
(***************************************************************************)
EXTENDS Life, TLAPS

-----------------------------------------------------------------------------
(* The division of the cells *)

\* Multiplication by a natural number is monotonic.
LEMMA Monotonic ==
    ASSUME NEW a \in Nat, NEW b \in Nat, NEW c \in Nat, a <= b
    PROVE  a * c <= b * c
OBVIOUS

\* Division leaves a remainder smaller than the divisor.
LEMMA Division ==
    ASSUME NEW a \in Nat, NEW b \in Nat, b > 0
    PROVE  /\ a \div b \in Nat
           /\ a % b \in 0..(b - 1)
           /\ a = b * (a \div b) + (a % b)
OBVIOUS

\* Quotient and remainder are determined by that.
LEMMA DivisionUnique ==
    ASSUME NEW b \in Nat, NEW q \in Nat, NEW r \in 0..(b - 1), b > 0
    PROVE  (b * q + r) \div b = q /\ (b * q + r) % b = r
OBVIOUS

LEMMA SizeType == Size \in Nat /\ Size > 0 /\ N \in Nat /\ N > 0 /\ N <= Size
<1>1. Width \in Nat /\ Height \in Nat /\ Width > 0 /\ Height > 0
    BY SizesAssumption
<1>2. Width * Height \in Nat /\ Width * Height > 0
    BY <1>1
<1>. QED BY <1>2, SizesAssumption DEF Size

\* The cells divide into N parts of equal size and a rest.
LEMMA PartSize == CellsPerThread \in Nat /\ CellsPerThread > 0 /\ N * CellsPerThread <= Size
<1>1. /\ CellsPerThread \in Nat
      /\ Size % N \in 0..(N - 1)
      /\ Size = N * CellsPerThread + (Size % N)
    BY SizeType, Division DEF CellsPerThread
<1>2. CellsPerThread # 0
    BY <1>1, SizeType
<1>. QED BY <1>1, <1>2, SizeType

\* Threads have some cells, all of them on the grid.
LEMMA CellsInGrid ==
    ASSUME NEW t \in Threads
    PROVE  /\ FirstCell(t) \in Nat /\ LastCell(t) \in Nat
           /\ FirstCell(t) <= LastCell(t)
           /\ LastCell(t) < Size
           /\ LastCell(t) = FirstCell(t) + CellsPerThread - 1
<1>. DEFINE q == CellsPerThread
<1>1. t \in Nat /\ t + 1 \in Nat /\ t + 1 <= N
    BY SizeType DEF Threads
<1>2. q \in Nat /\ q > 0 /\ N * q <= Size
    BY PartSize
<1>3. (t + 1) * q <= N * q
    BY <1>1, <1>2, SizeType, Monotonic
<1>4. t * q \in Nat /\ (t + 1) * q = t * q + q /\ N * q \in Nat
    BY <1>1, <1>2, SizeType
<1>5. MIN((t + 1) * q, Size) = (t + 1) * q
    BY <1>2, <1>3, <1>4, SizeType DEF MIN
<1>. QED BY <1>2, <1>3, <1>4, <1>5, SizeType DEF FirstCell, LastCell

\* No cell belongs to two threads.
LEMMA PartsDisjoint ==
    ASSUME NEW t \in Threads, NEW u \in Threads, t < u
    PROVE  LastCell(t) < FirstCell(u)
<1>. DEFINE q == CellsPerThread
<1>1. t \in Nat /\ u \in Nat /\ t + 1 <= u /\ q \in Nat
    BY SizeType, PartSize DEF Threads
<1>2. (t + 1) * q <= u * q
    BY <1>1, Monotonic
<1>3. t * q \in Nat /\ u * q \in Nat /\ (t + 1) * q = t * q + q
    BY <1>1
<1>. QED BY <1>1, <1>2, <1>3, CellsInGrid DEF FirstCell

-----------------------------------------------------------------------------
(* The rule of the game *)

LEMMA is_alive_Type ==
    ASSUME NEW i \in Cells, NEW g \in [Cells -> BOOLEAN]
    PROVE  is_alive(i, g) \in BOOLEAN
<1>. DEFINE count == Cardinality({q \in Around(i \div Width, i % Width) : g[Width * q[1] + q[2]]})
<1>1. CASE g[i]
    BY <1>1 DEF is_alive
<1>2. CASE ~g[i]
    BY <1>2 DEF is_alive
<1>. QED BY <1>1, <1>2

\* A cell's index determines its position and the other way round.
LEMMA Position ==
    ASSUME NEW i \in Cells
    PROVE  /\ i \div Width \in 0..(Height - 1)
           /\ i % Width \in 0..(Width - 1)
           /\ i = Width * (i \div Width) + (i % Width)
<1>1. Width \in Nat /\ Width > 0 /\ Height \in Nat /\ i \in Nat /\ i < Width * Height
    BY SizesAssumption, SizeType DEF Cells, Size
<1>2. /\ i \div Width \in Nat
      /\ i % Width \in 0..(Width - 1)
      /\ i = Width * (i \div Width) + (i % Width)
    BY <1>1, Division
<1>3. ASSUME NEW q \in Nat, Height <= q, i >= Width * q PROVE FALSE
  <2>1. Height * Width <= q * Width
      BY <1>1, <1>3, Monotonic
  <2>. QED BY <1>1, <1>3, <2>1
<1>4. i \div Width < Height
    BY <1>1, <1>2, <1>3
<1>. QED BY <1>1, <1>2, <1>4

LEMMA Index ==
    ASSUME NEW r \in 0..(Height - 1), NEW c \in 0..(Width - 1)
    PROVE  /\ Width * r + c \in Cells
           /\ (Width * r + c) \div Width = r
           /\ (Width * r + c) % Width = c
<1>1. Width \in Nat /\ Width > 0 /\ Height \in Nat /\ r \in Nat /\ r + 1 <= Height /\ c \in Nat
    BY SizesAssumption
<1>2. (r + 1) * Width <= Height * Width
    BY <1>1, Monotonic
<1>3. Width * r + c \in 0..(Width * Height - 1)
    BY <1>1, <1>2
<1>. QED BY <1>1, <1>3, DivisionUnique DEF Cells, Size

LEMMA LivingAt ==
    ASSUME NEW g \in [Cells -> BOOLEAN], NEW p \in Reference!Positions
    PROVE  p \in Living(g) <=> g[Width * p[1] + p[2]]
<1>1. /\ p = <<p[1], p[2]>>
      /\ p[1] \in 0..(Height - 1)
      /\ p[2] \in 0..(Width - 1)
    BY DEF Reference!Positions
<1>2. ASSUME p \in Living(g) PROVE g[Width * p[1] + p[2]]
  <2>1. PICK i \in Cells : g[i] /\ p = <<i \div Width, i % Width>>
      BY <1>2 DEF Living
  <2>. QED BY <2>1, Position
<1>3. ASSUME g[Width * p[1] + p[2]] PROVE p \in Living(g)
  <2>1. /\ Width * p[1] + p[2] \in Cells
        /\ p = <<(Width * p[1] + p[2]) \div Width, (Width * p[1] + p[2]) % Width>>
      BY <1>1, Index
  <2>. QED BY <2>1, <1>3 DEF Living
<1>. QED BY <1>2, <1>3

\* The code's loop over the eight cells around one counts its neighbours.
LEMMA SameCount ==
    ASSUME NEW g \in [Cells -> BOOLEAN], NEW r \in 0..(Height - 1), NEW c \in 0..(Width - 1)
    PROVE  {q \in Around(r, c) : g[Width * q[1] + q[2]]}
               = Reference!Neighbours(<<r, c>>) \cap Living(g)
<1>1. Around(r, c) = Reference!Neighbours(<<r, c>>)
    BY SizesAssumption DEF Around, Reference!Neighbours, Reference!Positions, Reference!Near
<1>2. Reference!Neighbours(<<r, c>>) \subseteq Reference!Positions
    BY DEF Reference!Neighbours
<1>. QED BY <1>1, <1>2, LivingAt

\* The abstract module counts with the same operator.
LEMMA SameCardinality == ASSUME NEW S PROVE Reference!Cardinality(S) = Cardinality(S)
BY DEF Reference!Cardinality, Cardinality

\* is_alive is the rule of the Game of Life, for every grid and cell.
THEOREM RuleFollowed ==
    ASSUME NEW g \in [Cells -> BOOLEAN], NEW i \in Cells
    PROVE  is_alive(i, g) <=> Reference!Lives(<<i \div Width, i % Width>>, Living(g))
<1>. DEFINE r == i \div Width
            c == i % Width
            count == Cardinality({q \in Around(r, c) : g[Width * q[1] + q[2]]})
<1>1. r \in 0..(Height - 1) /\ c \in 0..(Width - 1) /\ i = Width * r + c
    BY Position
<1>2. count = Cardinality(Reference!Neighbours(<<r, c>>) \cap Living(g))
    BY <1>1, SameCount
<1>3. <<r, c>> \in Living(g) <=> g[i]
    BY <1>1, LivingAt DEF Reference!Positions
<1>4. is_alive(i, g) = IF g[i] THEN count \in {2, 3} ELSE count = 3
    BY DEF is_alive
<1>5. Reference!Lives(<<r, c>>, Living(g)) <=> count = 3 \/ (count = 2 /\ <<r, c>> \in Living(g))
    BY <1>2, SameCardinality DEF Reference!Lives
<1>. HIDE DEF count
<1>. QED BY <1>3, <1>4, <1>5

-----------------------------------------------------------------------------
(* The invariant *)

LEMMA InitialInvariant == Init => IInv
<1>. SUFFICES ASSUME Init PROVE IInv
    OBVIOUS
<1>1. TypeOK
  <2>1. PICK first \in First, b \in BOOLEAN :
          /\ grid = [g \in Grids |-> IF g = "A" THEN first ELSE [i \in Cells |-> b]]
          /\ screen = first
      BY DEF Init
  <2>2. first \in [Cells -> BOOLEAN]
      BY SizesAssumption DEF Cells, Size
  <2>3. grid \in [Grids -> [Cells -> BOOLEAN]] /\ screen \in [Cells -> BOOLEAN]
      BY <2>1, <2>2
  <2>4. \A t \in Threads :
            FirstCell(t) \in 0..Size /\ FirstCell(t) \in FirstCell(t)..(LastCell(t) + 1)
      BY CellsInGrid, SizeType
  <2>5. cell \in [Threads -> 0..Size]
            /\ \A t \in Threads : cell[t] \in FirstCell(t)..(LastCell(t) + 1)
      BY <2>4 DEF Init
  <2>. QED BY <2>3, <2>5, SizeType DEF Init, TypeOK, Grids
<1>2. InLoop
    BY DEF Init, InLoop
<1>3. Pointers
    BY DEF Init, Pointers
<1>4. Quiet /\ Progress /\ Computed
  <2>1. screen = grid[foreground]
      BY DEF Init, Grids
  <2>. QED BY <2>1 DEF Init, Quiet, Progress, Computed
<1>. QED BY <1>1, <1>2, <1>3, <1>4 DEF IInv

\* Types, loop bounds and pointers, whatever the timing.
LEMMA BasicStep ==
    ASSUME TypeOK, InLoop, Pointers, Next
    PROVE  TypeOK' /\ InLoop' /\ Pointers'
<1>. USE DEF TypeOK, InLoop, Pointers, InRange, MainMove, Move, main, pointers, threads
<1>1. CASE Kill
  <2>1. k \in Threads /\ k' \in 0..Size
      BY <1>1, SizeType DEF Kill, Signalled, Threads
  <2>2. FirstCell(k) \in 0..Size /\ FirstCell(k) \in FirstCell(k)..(LastCell(k) + 1)
      BY <2>1, CellsInGrid, SizeType
  <2>. QED BY <1>1, <2>1, <2>2 DEF Kill
<1>2. CASE GoToSleep
    BY <1>2 DEF GoToSleep
<1>3. CASE WakeUp
    BY <1>3, SizeType DEF WakeUp
<1>4. CASE Update
  <2>1. k \in Cells /\ k' \in 0..Size
      BY <1>4, SizeType DEF Update, Cells
  <2>2. is_alive(k, grid[foreground]) \in BOOLEAN
      BY <2>1, is_alive_Type
  <2>. QED BY <1>4, <2>1, <2>2 DEF Update
<1>5. CASE EndUpdate
    BY <1>5, SizeType DEF EndUpdate
<1>6. CASE Swap
    BY <1>6 DEF Swap
<1>7. CASE Restore
    BY <1>7 DEF Restore, OldForeground
<1>8. CASE Draw
    BY <1>8 DEF Draw
<1>9. ASSUME NEW t \in Threads, Pause(t) PROVE TypeOK' /\ InLoop' /\ Pointers'
    BY <1>9 DEF Pause
<1>10. ASSUME NEW t \in Threads, Compute(t) PROVE TypeOK' /\ InLoop' /\ Pointers'
  <2>1. cell[t] \in Cells
      BY <1>10, CellsInGrid, SizeType DEF Compute, Cells
  <2>2. is_alive(cell[t], grid[foreground]) \in BOOLEAN
      BY <2>1, is_alive_Type
  <2>. QED BY <1>10, <2>2 DEF Compute
<1>11. ASSUME NEW t \in Threads, Store(t) PROVE TypeOK' /\ InLoop' /\ Pointers'
  <2>1. /\ cell[t] \in Cells
        /\ cell[t] + 1 \in 0..Size
        /\ cell[t] + 1 \in FirstCell(t)..(LastCell(t) + 1)
      BY <1>11, CellsInGrid, SizeType DEF Store, Cells
  <2>. QED BY <1>11, <2>1 DEF Store
<1>12. ASSUME NEW t \in Threads, EndLoop(t) PROVE TypeOK' /\ InLoop' /\ Pointers'
    BY <1>12 DEF EndLoop
<1>. QED
    BY <1>1, <1>2, <1>3, <1>4, <1>5, <1>6, <1>7, <1>8, <1>9, <1>10, <1>11, <1>12
    DEF Next, Main, Thread

-----------------------------------------------------------------------------

\* A correct value written into the background leaves what was correct in it.
LEMMA GoodWrite ==
    ASSUME TypeOK, foreground # background, foreground' = foreground, background' = background,
           NEW j \in Cells,
           grid' = [grid EXCEPT ![background][j] = is_alive(j, grid[foreground])]
    PROVE  /\ grid'[foreground] = grid[foreground]
           /\ \A i \in Cells : Correct(i) \/ i = j => Correct(i)'
<1>1. grid'[foreground] = grid[foreground]
    BY DEF TypeOK
<1>2. /\ grid'[background][j] = is_alive(j, grid[foreground])
      /\ \A i \in Cells \ {j} : grid'[background][i] = grid[background][i]
    BY DEF TypeOK
<1>. QED BY <1>1, <1>2 DEF Correct

\* With the timing of the program, what the threads and main have computed is
\* part of the next generation.
LEMMA PromptStep ==
    ASSUME Prompt, TypeOK, InLoop, Pointers, Quiet, Progress, Computed, Next
    PROVE  Quiet' /\ Progress' /\ Computed'
<1>. USE DEF MainMove, Move, main, pointers, threads
<1>1. CASE Kill
  <2>1. k \in Threads
      BY <1>1, SizeType DEF Kill, Signalled, Threads, TypeOK
  <2>2. Quiet' /\ Progress'
      BY <1>1 DEF Kill, Quiet, Progress
  <2>3. \A t \in Threads : t # k =>
          tpc'[t] = tpc[t] /\ cell'[t] = cell[t] /\ (t \in woken' <=> t \in woken)
      BY <1>1, <2>1 DEF Kill, TypeOK
  <2>4. \/ tpc'[k] = "work" /\ cell'[k] = FirstCell(k)
        \/ tpc'[k] = tpc[k] /\ cell'[k] = cell[k] /\ woken' = woken
      BY <1>1, <2>1 DEF Kill, TypeOK
  <2>5. /\ woken' \subseteq Threads /\ mpc = "kill"
        /\ UNCHANGED <<value, grid, foreground, background>>
      BY <1>1, <2>1 DEF Kill, TypeOK
  <2>6. \A i : Correct(i)' <=> Correct(i)
      BY <2>5 DEF Correct
  <2>7. \A t \in Threads : FirstCell(t) \in Nat /\ LastCell(t) \in Nat /\ cell[t] \in Nat
      BY CellsInGrid, SizeType DEF TypeOK
  <2>8. \A t \in Threads : tpc'[t] = "store" => value'[t] = is_alive(cell'[t], grid'[foreground'])
      BY <2>3, <2>4, <2>5 DEF Computed
  <2>9. ASSUME NEW t \in woken' PROVE \A i \in Done(t)' : Correct(i)'
    <3>1. CASE t \in woken /\ tpc'[t] = tpc[t] /\ cell'[t] = cell[t]
        BY <3>1, <2>5, <2>6 DEF Computed, Done
    <3>2. CASE tpc'[t] = "work" /\ cell'[t] = FirstCell(t)
        BY <3>2, <2>5, <2>7 DEF Done
    <3>. QED BY <3>1, <3>2, <2>3, <2>4, <2>5, <2>9
  <2>. QED BY <2>2, <2>8, <2>9 DEF Computed
<1>2. CASE GoToSleep
    BY <1>2 DEF GoToSleep, Quiet, Progress, Computed, Correct, Done
<1>3. CASE WakeUp
    BY <1>3 DEF WakeUp, Slept, Quiet, Progress, Computed, Correct, Done
<1>4. CASE Update
  <2>1. k \in Cells /\ \A t \in Threads : FirstCell(t)..LastCell(t) \subseteq Cells
      BY <1>4, SizeType, CellsInGrid DEF Update, Cells, TypeOK
  <2>2. /\ grid'[foreground] = grid[foreground]
        /\ \A i \in Cells : Correct(i) \/ i = k => Correct(i)'
      BY <1>4, <2>1, GoodWrite DEF Update, Pointers
  <2>3. /\ mpc = "update" /\ mpc' = "update" /\ k' = k + 1
        /\ UNCHANGED <<screen, foreground, tpc, cell, value, woken>>
        /\ \A t \in Threads : tpc[t] \in {"idle", "pause"}
      BY <1>4 DEF Update, Quiet
  <2>4. Quiet'
      BY <2>3 DEF Quiet
  <2>5. Progress'
      BY <2>1, <2>2, <2>3, SizeType DEF Progress, Cells
  <2>6. Computed'
      BY <2>1, <2>2, <2>3 DEF Computed, Done, TypeOK
  <2>. QED BY <2>4, <2>5, <2>6
<1>5. CASE EndUpdate
  <2>1. 0..(k - 1) = Cells
      BY <1>5, SizeType DEF EndUpdate, Cells
  <2>2. \A i \in Cells : Correct(i)
      BY <1>5, <2>1 DEF EndUpdate, Progress
  <2>. QED BY <1>5, <2>2 DEF EndUpdate, Quiet, Progress, Computed, Correct
<1>6. CASE Swap
    BY <1>6 DEF Swap, Quiet, Progress, Computed, Correct
<1>7. CASE Restore
    BY <1>7 DEF Restore, Quiet, Progress, Computed
<1>8. CASE Draw
    BY <1>8 DEF Draw, Quiet, Progress, Computed
<1>9. ASSUME NEW t \in Threads, Pause(t) PROVE Quiet' /\ Progress' /\ Computed'
    BY <1>9 DEF Pause, Quiet, Progress, Computed, Correct, Done, TypeOK
<1>10. ASSUME NEW t \in Threads, Compute(t) PROVE Quiet' /\ Progress' /\ Computed'
    BY <1>10 DEF Compute, Quiet, Progress, Computed, Correct, Done, TypeOK
<1>11. ASSUME NEW t \in Threads, Store(t) PROVE Quiet' /\ Progress' /\ Computed'
  <2>1. cell[t] \in Cells /\ value[t] = is_alive(cell[t], grid[foreground])
      BY <1>11, CellsInGrid, SizeType DEF Store, Cells, TypeOK, InLoop, InRange, Computed
  <2>2. mpc \in {"kill", "sleep"}
      BY <1>11 DEF Store, Quiet
  <2>3. /\ grid'[foreground] = grid[foreground]
        /\ \A i \in Cells : Correct(i) \/ i = cell[t] => Correct(i)'
      BY <1>11, <2>1, <2>2, GoodWrite DEF Store, Pointers
  <2>4. /\ UNCHANGED <<mpc, k, screen, foreground, value, woken>>
        /\ \A u \in Threads : u # t => tpc'[u] = tpc[u] /\ cell'[u] = cell[u]
        /\ tpc[t] = "store" /\ tpc'[t] = "work" /\ cell'[t] = cell[t] + 1
      BY <1>11 DEF Store, TypeOK
  <2>5. Quiet' /\ Progress'
      BY <2>2, <2>3, <2>4 DEF Quiet, Progress
  <2>6. \A u \in Threads : tpc'[u] = "store" => value'[u] = is_alive(cell'[u], grid'[foreground'])
      BY <2>3, <2>4 DEF Computed
  <2>7. ASSUME NEW u \in woken PROVE \A i \in Done(u)' : Correct(i)'
    <3>1. u \in Threads /\ \A i \in Done(u) : Correct(i)
        BY <2>2 DEF Computed, TypeOK
    <3>2. Done(u) \subseteq Cells
        BY <3>1, CellsInGrid, SizeType DEF Done, Cells, TypeOK
    <3>3. Done(u)' \subseteq Done(u) \cup {cell[t]}
        BY <2>1, <2>4, <3>1, CellsInGrid DEF Done, TypeOK, Cells
    <3>. QED BY <2>1, <2>3, <3>1, <3>2, <3>3
  <2>. QED BY <2>4, <2>5, <2>6, <2>7 DEF Computed
<1>12. ASSUME NEW t \in Threads, EndLoop(t) PROVE Quiet' /\ Progress' /\ Computed'
  <2>1. FirstCell(t)..LastCell(t) \subseteq FirstCell(t)..(cell[t] - 1)
      BY <1>12, CellsInGrid DEF EndLoop, InRange, TypeOK
  <2>. QED BY <1>12, <2>1 DEF EndLoop, Quiet, Progress, Computed, Correct, Done, TypeOK
<1>. QED
    BY <1>1, <1>2, <1>3, <1>4, <1>5, <1>6, <1>7, <1>8, <1>9, <1>10, <1>11, <1>12
    DEF Next, Main, Thread

-----------------------------------------------------------------------------

LEMMA StutterStep == IInv /\ UNCHANGED vars => IInv'
<1>. SUFFICES ASSUME IInv, UNCHANGED vars PROVE IInv'
    OBVIOUS
<1>. USE DEF vars, main, pointers, threads
<1>1. TypeOK' /\ InLoop' /\ Pointers'
    BY DEF IInv, TypeOK, InLoop, InRange, Pointers
<1>2. Quiet /\ Progress /\ Computed => Quiet' /\ Progress' /\ Computed'
    BY DEF Quiet, Progress, Computed, Done, Correct
<1>. QED BY <1>1, <1>2 DEF IInv

\* The inductive invariant holds in every reachable state.
THEOREM Invariance == Spec => []IInv
<1>1. IInv /\ Next => IInv'
    BY BasicStep, PromptStep DEF IInv
<1>. QED BY <1>1, InitialInvariant, StutterStep, PTL DEF Spec

\* Loop indices stay in the threads' parts and pointers name the grids.
THEOREM TypeCorrect == Spec => []TypeOK
<1>1. IInv => TypeOK
    BY DEF IInv
<1>. QED BY <1>1, Invariance, PTL

\* Threads never store into the same cell, for every size of the grid, every
\* number of threads and any timing (life.c:64-68).
THEOREM NeverClash == Spec => []NoClash
<1>1. IInv => NoClash
  <2>. SUFFICES ASSUME IInv, NEW t \in Threads, NEW u \in Threads, t # u,
                       tpc[t] = "store", tpc[u] = "store"
                PROVE  cell[t] # cell[u]
      BY DEF NoClash
  <2>1. /\ cell[t] \in FirstCell(t)..LastCell(t)
        /\ cell[u] \in FirstCell(u)..LastCell(u)
      BY CellsInGrid DEF IInv, TypeOK, InLoop, InRange
  <2>2. t < u \/ u < t
      BY SizeType DEF Threads
  <2>. QED BY <2>1, <2>2, PartsDisjoint, CellsInGrid
<1>. QED BY <1>1, Invariance, PTL

\* What a woken thread has computed is what main then computes itself.
THEOREM ThreadsAlwaysAgree == ASSUME Prompt PROVE Spec => []ThreadsAgree
<1>1. IInv => ThreadsAgree
    BY DEF IInv, ThreadsAgree, Computed, Quiet, Done, TypeOK
<1>. QED BY <1>1, Invariance, PTL

-----------------------------------------------------------------------------
(* Refinement *)

\* A grid that holds is_alive of another one shows the next generation.
LEMMA NextGeneration ==
    ASSUME NEW old \in [Cells -> BOOLEAN], NEW new \in [Cells -> BOOLEAN],
           \A i \in Cells : new[i] = is_alive(i, old)
    PROVE  Living(new) = {p \in Reference!Positions : Reference!Lives(p, Living(old))}
<1>1. Living(new) \subseteq Reference!Positions
    BY Position DEF Living, Reference!Positions
<1>2. ASSUME NEW p \in Reference!Positions
      PROVE  p \in Living(new) <=> Reference!Lives(p, Living(old))
  <2>. DEFINE i == Width * p[1] + p[2]
  <2>1. i \in Cells /\ p = <<i \div Width, i % Width>>
      BY Index DEF Reference!Positions
  <2>. HIDE DEF i
  <2>2. p \in Living(new) <=> new[i]
      BY LivingAt DEF i
  <2>3. new[i] <=> Reference!Lives(p, Living(old))
      BY <2>1, RuleFollowed
  <2>. QED BY <2>2, <2>3
<1>. QED BY <1>1, <1>2

LEMMA RefinedInit == Init => Reference!Init
BY InitialInvariant, Position DEF IInv, TypeOK, Reference!Init, Living, Reference!Positions

\* Drawing shows the next generation, every other step leaves the screen alone.
LEMMA RefinedStep ==
    ASSUME Prompt, IInv, [Next]_vars
    PROVE  [Reference!Evolve]_(Living(screen))
<1>1. CASE Draw
  <2>1. /\ screen' = grid[foreground]
        /\ screen \in [Cells -> BOOLEAN] /\ grid[foreground] \in [Cells -> BOOLEAN]
        /\ \A i \in Cells : grid[foreground][i] = is_alive(i, screen)
      BY <1>1 DEF Draw, MainMove, IInv, TypeOK, Progress
  <2>. QED BY <2>1, NextGeneration DEF Reference!Evolve
<1>2. CASE [Next]_vars /\ ~Draw
  <2>1. screen' = screen
      BY <1>2 DEF Next, vars, Main, Kill, GoToSleep, WakeUp, Update, EndUpdate, Swap, Restore,
         Thread, Move, Pause, Compute, Store, EndLoop
  <2>. QED BY <2>1
<1>. QED BY <1>1, <1>2

\* The screen shows the generations of the Game of Life, for every size of the
\* grid and every number of threads, with the timing of the program.
THEOREM Refinement == ASSUME Prompt PROVE Spec => ImplementsGenerations
BY Invariance, RefinedInit, RefinedStep, PTL DEF Spec, ImplementsGenerations, Reference!Spec
=============================================================================
