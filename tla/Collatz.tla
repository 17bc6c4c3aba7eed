------------------------------ MODULE Collatz ------------------------------
(***************************************************************************)
(* ex2/collatz: test_collatz_convergence iterates the Collatz function in  *)
(* ints of w bits, which wrap around in the builds of the Makefile         *)
(* (-O0).  The loop goes on while input # 1 or i <= max_iter, so it passes *)
(* 1 again and again before it ends.                                       *)
(***************************************************************************)
EXTENDS Integers

CONSTANTS
    Half,        \* 2^(w - 1), half of the number of ints: 2^31 in the code
    MaxArgument, \* bound: the first arguments are those up to it, of either sign
    MaxIters,    \* bound: the second arguments
    MaxSteps     \* bound: a call is not followed beyond that many iterations

\* Every argument is an int, and so are the 4, 2 and 1 that a call comes back to.
Sizes ==
    /\ Half \in Nat /\ Half > 4
    /\ MaxArgument \in 0..(Half - 1) /\ MaxIters \subseteq Int /\ MaxSteps \in Nat

VARIABLES
    argument,   \* input as the caller passed it
    max_iter,
    input,
    i,
    returned    \* the value the function has returned, or noValue

vars == <<argument, max_iter, input, i, returned>>

noValue == -2
Arguments == (-MaxArgument)..MaxArgument
Ints == (-Half)..(Half - 1)

TypeOK ==
    /\ argument \in Arguments /\ max_iter \in MaxIters
    /\ input \in Ints /\ i \in 0..MaxSteps
    /\ returned \in {noValue} \cup 0..MaxSteps

Init ==
    /\ argument \in Arguments /\ max_iter \in MaxIters
    /\ input = argument /\ i = 0 /\ returned = noValue

Wrapped(n) == ((n + Half) % (2 * Half)) - Half

\* input % 2 == 0 for the even numbers of either sign, whose half is exact.
collatz_conjecture(n) == IF n % 2 = 0 THEN n \div 2 ELSE Wrapped(3 * n + 1)

\* Fault for the mutants: the loop ends at 1, or when the limit is reached.
EndsAtOne(n, k) == n # 1 /\ k <= max_iter
Continues(n, k) == n # 1 \/ k <= max_iter

Iterate ==
    /\ returned = noValue /\ i < MaxSteps
    /\ Continues(input, i)
    /\ input' = collatz_conjecture(input)
    /\ i' = i + 1
    /\ UNCHANGED <<argument, max_iter, returned>>

Return ==
    /\ returned = noValue
    /\ ~Continues(input, i)
    /\ returned' = IF input = 1 THEN i ELSE -1
    /\ UNCHANGED <<argument, max_iter, input, i>>

Next == Iterate \/ Return

Spec == Init /\ [][Next]_vars

-----------------------------------------------------------------------------
(* The Collatz sequence of the argument in the integers of mathematics.     *)

Successor(n) == IF n % 2 = 0 THEN n \div 2 ELSE 3 * n + 1

Sequence == LET s[k \in 0..MaxSteps] == IF k = 0 THEN argument ELSE Successor(s[k - 1])
            IN  s

Converges == \E k \in 0..MaxSteps : Sequence[k] = 1
StoppingTime == LET s == Sequence IN CHOOSE k \in 0..MaxSteps : s[k] = 1 /\ \A l \in 0..(k - 1) : s[l] # 1
Fits == LET s == Sequence IN \A k \in 0..StoppingTime : s[k] \in Ints

(* Properties.                                                             *)

\* The function never returns -1.  Where the sequence reaches 1 within the range
\* of int, what it returns is the stopping time plus as many rounds 1, 4, 2, 1
\* as it takes to get beyond max_iter: a count of iterations that is never
\* within the limit.
LateCount == returned # noValue =>
    /\ returned > max_iter
    /\ Converges /\ Fits =>
         \E rounds \in 0..MaxSteps :
           /\ returned = StoppingTime + 3 * rounds
           /\ rounds > 0 => returned - 3 <= max_iter

\* Such a call returns, also when the stopping time is beyond the limit.
CallReturns ==
    (Converges /\ Fits /\ StoppingTime + max_iter + 3 < MaxSteps) => <>(returned # noValue)
=============================================================================
