------------------------------- MODULE MCLife -------------------------------
(* Instances of Life for TLC. *)
EXTENDS Life

\* Every grid with three living cells, the oscillators and growing corners among
\* them, the full grid and the one with an empty centre.
Patterns == {[i \in 0..8 |-> i \in alive] : alive \in
    {c \in SUBSET (0..8) : Cardinality(c) = 3} \cup {0..8, (0..8) \ {4}}}

\* The instance leaves cells that belong to no thread.
ASSUME UncoveredAssumption == N * CellsPerThread < Size

\* On a grid with different sides, is_alive with its index arithmetic follows
\* the rule of the Game of Life (grid.c:45-84).
Wide == INSTANCE Life WITH Width <- 4, Height <- 3
Rule == INSTANCE Generations WITH Width <- 4, Height <- 3, alive <- Living(screen)

ASSUME RuleAssumption == \A g \in [0..11 -> BOOLEAN] :
    \A i \in 0..11 : Wide!is_alive(i, g) = Rule!Lives(<<i \div 4, i % 4>>, Wide!Living(g))
=============================================================================
