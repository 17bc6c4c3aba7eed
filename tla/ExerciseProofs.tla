--------------------------- MODULE ExerciseProofs ---------------------------
(***************************************************************************)
(* Theorems about the small programs: for every finite set of children,    *)
(* senders or managers, every range, width and number of processes, every  *)
(* file and buffer.  Each program is proved on its own; the last theorem   *)
(* is about MCExercises, which runs them side by side.                     *)
(***************************************************************************)
EXTENDS MCExercises, FiniteSetTheorems, SequenceTheorems, WellFoundedInduction, TLAPS

-----------------------------------------------------------------------------
(* Sets and sequences                                                      *)

\* A finite set is larger than what lacks one of its elements.
LEMMA OneMore ==
    ASSUME NEW S, IsFiniteSet(S), NEW T \in SUBSET S, NEW x \in S, x \notin T
    PROVE  /\ Cardinality(T \cup {x}) = Cardinality(T) + 1
           /\ Cardinality(T) + 1 <= Cardinality(S)
<1>1. IsFiniteSet(T) /\ T \cup {x} \in SUBSET S
    BY FS_Subset
<1>2. Cardinality(T \cup {x}) = Cardinality(T) + 1
    BY <1>1, FS_AddElement
<1>3. Cardinality(T \cup {x}) <= Cardinality(S)
    BY <1>1, FS_Subset
<1>. QED BY <1>2, <1>3

\* A function on 1..n is a sequence of length n.
LEMMA FunctionIsSeq ==
    ASSUME NEW n \in Nat, NEW S, NEW f \in [1..n -> S]
    PROVE  f \in Seq(S) /\ Len(f) = n
<1>1. f \in Seq(S)
  BY SeqDef
<1>2. DOMAIN f = 1..n /\ DOMAIN f = 1..Len(f) /\ Len(f) \in Nat
  BY <1>1, LenProperties
<1> QED  BY <1>1, <1>2

\* An injective sequence is no longer than the set it is taken from.
LEMMA Pigeons ==
    ASSUME NEW S, IsFiniteSet(S), NEW s \in Seq(S),
           \A a, b \in 1..Len(s) : s[a] = s[b] => a = b
    PROVE  Len(s) <= Cardinality(S)
<1>1. Len(s) \in Nat /\ s \in [1..Len(s) -> S]
  BY LenProperties
<1>2. IsFiniteSet(1..Len(s)) /\ Cardinality(1..Len(s)) = Len(s)
  BY <1>1, FS_Interval
<1>3. Cardinality(S) \in Nat
  BY FS_CardinalityType
<1>4. ~(Cardinality(S) < Len(s))
  <2> SUFFICES ASSUME Cardinality(S) < Cardinality(1..Len(s)) PROVE FALSE
    BY <1>2
  <2>1. \E a, b \in 1..Len(s) : a # b /\ s[a] = s[b]
    <3> DEFINE D == 1..Len(s)
    <3>1. IsFiniteSet(D) /\ Cardinality(S) < Cardinality(D) /\ s \in [D -> S]
      BY <1>1, <1>2
    <3> HIDE DEF D
    <3>2. \E a, b \in D : a # b /\ s[a] = s[b]
      BY <3>1, FS_PigeonHole
    <3> QED  BY <3>2 DEF D
  <2> QED  BY <2>1
<1> QED  BY <1>1, <1>3, <1>4

-----------------------------------------------------------------------------
(* Reaper: nprocs, which main and its handler share                        *)

N == Cardinality(Children)
Reaped == Cardinality(In("reaped"))
Forked == Cardinality(Children \ In("none"))

-----------------------------------------------------------------------------
(* How many children there are in a state *)

\* A child that is reaped was forked; the counts are bounded by NUMPROCS.
LEMMA Counts ==
    /\ N \in Nat /\ Reaped \in Nat /\ Forked \in Nat
    /\ Reaped <= Forked /\ Forked <= N
    /\ (Reaped = N => In("reaped") = Children)
    /\ (In("none") = {} => Forked = N)
<1>1. IsFiniteSet(Children) /\ N \in Nat
    BY ChildrenAssumption, FS_CardinalityType DEF N
<1>2. (Children \ In("none")) \in SUBSET Children
    OBVIOUS
<1>3. IsFiniteSet(Children \ In("none")) /\ Forked <= N
    BY <1>1, <1>2, FS_Subset DEF Forked, N
<1>4. In("reaped") \in SUBSET (Children \ In("none"))
    BY DEF In
<1>5. IsFiniteSet(In("reaped")) /\ Reaped <= Forked
    BY <1>3, <1>4, FS_Subset DEF Reaped, Forked
<1>6. Reaped \in Nat /\ Forked \in Nat
    BY <1>3, <1>5, FS_CardinalityType DEF Reaped, Forked
<1>7. Reaped = N => In("reaped") = Children
  <2>1. In("reaped") \in SUBSET Children
      BY DEF In
  <2>. QED BY <1>1, <2>1, FS_Subset DEF Reaped, N
<1>8. In("none") = {} => Forked = N
    BY DEF Forked, N
<1>. QED BY <1>1, <1>3, <1>5, <1>6, <1>7, <1>8

\* Steps that neither fork nor reap.
LEMMA SameCounts ==
    ASSUME \A c \in Children :
             /\ child'[c] = "none" <=> child[c] = "none"
             /\ child'[c] = "reaped" <=> child[c] = "reaped"
    PROVE  /\ Reaped' = Reaped /\ Forked' = Forked
           /\ In("none")' = In("none") /\ In("reaped")' = In("reaped")
<1>1. In("none")' = In("none")
    BY DEF In
<1>2. In("reaped")' = In("reaped")
    BY DEF In
<1>. QED BY <1>1, <1>2 DEF Reaped, Forked

LEMMA OneForked ==
    ASSUME TypeOK, NEW c \in Children, child[c] = "none",
           child' = [child EXCEPT ![c] = "runs"]
    PROVE  /\ Forked' = Forked + 1 /\ Reaped' = Reaped /\ Forked + 1 <= N
           /\ In("reaped")' = In("reaped")
<1>1. IsFiniteSet(Children)
    BY ChildrenAssumption
<1>2. \A a \in Children : child'[a] = IF a = c THEN "runs" ELSE child[a]
    BY DEF TypeOK
<1>3. In("reaped")' = In("reaped") /\ In("none")' = In("none") \ {c} /\ c \in In("none")
    BY <1>2 DEF In
<1>4. (Children \ In("none")) \in SUBSET Children /\ c \notin Children \ In("none")
    BY <1>3
<1>5. Children \ In("none")' = (Children \ In("none")) \cup {c}
    BY <1>3
<1>6. Forked' = Forked + 1 /\ Forked + 1 <= N
    BY <1>1, <1>4, <1>5, OneMore DEF Forked, N
<1>. QED BY <1>3, <1>6 DEF Reaped

LEMMA OneMoreReaped ==
    ASSUME TypeOK, NEW c \in Children, child[c] = "zombie",
           child' = [child EXCEPT ![c] = "reaped"]
    PROVE  /\ Reaped' = Reaped + 1 /\ Forked' = Forked /\ In("none")' = In("none")
           /\ In("reaped") # Children /\ Reaped + 1 <= Forked
<1>1. IsFiniteSet(Children)
    BY ChildrenAssumption
<1>2. \A a \in Children : child'[a] = IF a = c THEN "reaped" ELSE child[a]
    BY DEF TypeOK
<1>3. In("none")' = In("none") /\ In("reaped")' = In("reaped") \cup {c} /\ c \notin In("reaped")
    BY <1>2 DEF In
<1>4. /\ In("reaped") \in SUBSET (Children \ In("none")) /\ c \in Children \ In("none")
      /\ (Children \ In("none")) \in SUBSET Children
    BY DEF In
<1>5. IsFiniteSet(Children \ In("none"))
    BY <1>1, <1>4, FS_Subset
<1>6. Reaped' = Reaped + 1 /\ Reaped + 1 <= Forked
    BY <1>3, <1>4, <1>5, OneMore DEF Reaped, Forked
<1>. QED BY <1>3, <1>6 DEF Forked

-----------------------------------------------------------------------------
(* The steps *)

\* IInv in terms of the counts.
CountFacts ==
    /\ counted \in Nat /\ lost \in Nat /\ nprocs \in Int /\ loaded \in Int
    /\ Forked = counted + (IF at \in {"load", "store"} THEN 1 ELSE 0)
    /\ at \in {"test", "sleep", "end"} => In("none") = {}
    /\ lost <= Reaped /\ nprocs >= counted - Reaped
    /\ (IF at = "store" THEN loaded ELSE nprocs) = counted - Reaped + lost
    /\ ExitsLast

LEMMA CountFactsHold == IInv => TypeOK /\ CountFacts
<1>. SUFFICES ASSUME IInv PROVE TypeOK /\ CountFacts
    OBVIOUS
<1>1. TypeOK /\ CountedAreForked /\ CountMatches /\ ExitsLast
    BY DEF IInv, ParentKnows
<1>2. counted \in Nat /\ lost \in Nat /\ nprocs \in Int /\ loaded \in Int
    BY <1>1, Counts DEF TypeOK, N
<1>. QED BY <1>1, <1>2 DEF CountFacts, CountedAreForked, CountMatches, Forked, Reaped

\* What has to be shown of the next state.
LEMMA CountFactsSuffice ==
    ASSUME TypeOK', CountFacts'
    PROVE  IInv'
<1>1. CountedAreForked'
    BY DEF CountFacts, CountedAreForked, Forked, Reaped
<1>2. CountMatches' /\ ExitsLast'
    BY DEF CountFacts, CountMatches, Reaped
<1>. QED BY <1>1, <1>2 DEF IInv, ParentKnows

LEMMA MainStep ==
    ASSUME IInv, Main
    PROVE  IInv'
<1>1. TypeOK /\ CountFacts /\ ExitsLast /\ N \in Nat /\ Reaped \in Nat /\ Forked \in Nat
      /\ Reaped <= Forked /\ Forked <= N
    BY CountFactsHold, Counts DEF CountFacts
<1>2. /\ counted \in 0..N /\ lost \in 0..N /\ nprocs \in -1..N /\ loaded \in -1..N
      /\ child \in [Children -> {"none", "runs", "zombie", "reaped"}]
      /\ inCatch \in BOOLEAN /\ signalled \in BOOLEAN
    BY <1>1 DEF TypeOK, N
<1>3. CASE \E c \in Children : Fork(c)
  <2>1. PICK c \in Children : Fork(c)
      BY <1>3
  <2>2. /\ at = "fork" /\ at' = "load" /\ child[c] = "none"
        /\ child' = [child EXCEPT ![c] = "runs"]
        /\ UNCHANGED <<inCatch, signalled, lost, counted, nprocs, loaded>>
      BY <2>1 DEF Fork, MainMove
  <2>3. Forked' = Forked + 1 /\ Reaped' = Reaped
      BY <1>1, <2>2, OneForked
  <2>4. TypeOK'
      BY <1>1, <2>2 DEF TypeOK
  <2>5. CountFacts'
      BY <1>1, <2>2, <2>3 DEF CountFacts, ExitsLast
  <2>. QED BY <2>4, <2>5, CountFactsSuffice
<1>4. CASE ForkFails \/ Load \/ Store \/ Test \/ Sleep
  <2>1. child' = child /\ UNCHANGED <<inCatch, signalled, lost>>
      BY <1>4 DEF ForkFails, Load, Store, Test, Sleep, MainMove
  <2>2. /\ Reaped' = Reaped /\ Forked' = Forked
        /\ In("none")' = In("none") /\ In("reaped")' = In("reaped")
      BY <2>1, SameCounts
  <2>3. CASE ForkFails
    <3>1. at = "fork" /\ at' = "failed" /\ UNCHANGED <<counted, nprocs, loaded>>
        BY <2>3 DEF ForkFails, MainMove
    <3>2. TypeOK'
        BY <1>1, <2>1, <3>1 DEF TypeOK
    <3>3. CountFacts'
        BY <1>1, <2>1, <2>2, <3>1 DEF CountFacts, ExitsLast
    <3>. QED BY <3>2, <3>3, CountFactsSuffice
  <2>4. CASE Load
    <3>1. at = "load" /\ at' = "store" /\ loaded' = nprocs /\ UNCHANGED <<counted, nprocs>>
        BY <2>4 DEF Load, MainMove
    <3>2. TypeOK'
        BY <1>1, <1>2, <2>1, <3>1 DEF TypeOK, N
    <3>3. CountFacts'
        BY <1>1, <2>1, <2>2, <3>1 DEF CountFacts, ExitsLast
    <3>. QED BY <3>2, <3>3, CountFactsSuffice
  \* What the store writes is the number of children counted and not reaped,
  \* and one more for every decrement that it overwrites.
  <2>5. CASE Store
    <3>1. /\ at = "store" /\ at' = IF In("none") = {} THEN "test" ELSE "fork"
          /\ nprocs' = loaded + 1 /\ counted' = counted + 1 /\ loaded' = loaded
        BY <2>5 DEF Store, MainMove, AllForked
    <3>2. /\ nprocs' \in -1..N /\ counted' \in 0..N
          /\ nprocs' \in Int /\ counted' \in Nat
          /\ Forked = counted' /\ nprocs' = counted' - Reaped + lost
          /\ nprocs' >= counted' - Reaped
        BY <1>1, <1>2, <3>1 DEF CountFacts
    <3>3. TypeOK'
        BY <1>1, <2>1, <3>1, <3>2 DEF TypeOK, N
    <3>4. CountFacts'
        BY <1>1, <2>1, <2>2, <3>1, <3>2 DEF CountFacts, ExitsLast
    <3>. QED BY <3>3, <3>4, CountFactsSuffice
  \* All children are counted, so 0 means that all are reaped.
  <2>6. CASE Test
    <3>1. /\ at = "test" /\ at' = IF nprocs = 0 THEN "end" ELSE "sleep"
          /\ UNCHANGED <<counted, nprocs, loaded>>
        BY <2>6 DEF Test, MainMove
    <3>2. TypeOK'
        BY <1>1, <2>1, <3>1 DEF TypeOK
    <3>3. nprocs = 0 => Reaped = N /\ lost = 0
      <4>1. Forked = N
          BY <1>1, <3>1, Counts DEF CountFacts
      <4>. QED BY <1>1, <3>1, <4>1 DEF CountFacts
    <3>4. ExitsLast'
        BY <2>1, <2>2, <3>1, <3>3, Counts DEF ExitsLast
    <3>5. CountFacts'
        BY <1>1, <2>1, <2>2, <3>1, <3>4 DEF CountFacts
    <3>. QED BY <3>2, <3>5, CountFactsSuffice
  <2>7. CASE Sleep
    <3>1. at = "sleep" /\ at' = "test" /\ UNCHANGED <<counted, nprocs, loaded>>
        BY <2>7 DEF Sleep, MainMove
    <3>2. TypeOK'
        BY <1>1, <2>1, <3>1 DEF TypeOK
    <3>3. CountFacts'
        BY <1>1, <2>1, <2>2, <3>1 DEF CountFacts, ExitsLast
    <3>. QED BY <3>2, <3>3, CountFactsSuffice
  <2>. QED BY <1>4, <2>3, <2>4, <2>5, <2>6, <2>7
<1>. QED BY <1>3, <1>4 DEF Main

\* Steps that change neither main's variables nor the counts.
LEMMA QuietStep ==
    ASSUME IInv, TypeOK', UNCHANGED <<at, counted, nprocs, loaded, lost>>,
           \A c \in Children :
             /\ child'[c] = "none" <=> child[c] = "none"
             /\ child'[c] = "reaped" <=> child[c] = "reaped"
    PROVE  IInv'
<1>1. CountFacts
    BY CountFactsHold
<1>2. /\ Reaped' = Reaped /\ Forked' = Forked
      /\ In("none")' = In("none") /\ In("reaped")' = In("reaped")
    BY SameCounts
<1>3. CountFacts'
    BY <1>1, <1>2 DEF CountFacts, ExitsLast
<1>. QED BY <1>3, CountFactsSuffice

LEMMA CatchStep ==
    ASSUME IInv, Catch
    PROVE  IInv'
<1>1. TypeOK /\ CountFacts /\ ExitsLast /\ N \in Nat /\ Reaped \in Nat /\ Forked \in Nat
      /\ Reaped <= Forked /\ Forked <= N
    BY CountFactsHold, Counts DEF CountFacts
<1>2. CASE EnterCatch \/ LeaveCatch
  <2>1. /\ UNCHANGED <<at, child, counted, nprocs, loaded, lost>>
        /\ inCatch' \in BOOLEAN /\ signalled' \in BOOLEAN
      BY <1>1, <1>2 DEF EnterCatch, LeaveCatch, AfterLoop, TypeOK
  <2>2. TypeOK'
      BY <1>1, <2>1 DEF TypeOK
  <2>. QED BY <2>1, <2>2, QuietStep
<1>3. ASSUME NEW c \in Children, Reap(c)
      PROVE  IInv'
  <2>1. /\ child[c] = "zombie" /\ child' = [child EXCEPT ![c] = "reaped"]
        /\ nprocs' = nprocs - 1 /\ lost' = IF at = "store" THEN lost + 1 ELSE lost
        /\ UNCHANGED <<at, inCatch, signalled, counted, loaded>>
      BY <1>3 DEF Reap
  <2>2. /\ Reaped' = Reaped + 1 /\ Forked' = Forked /\ In("none")' = In("none")
        /\ In("reaped") # Children /\ Reaped + 1 <= Forked
      BY <1>1, <2>1, OneMoreReaped
  <2>3. at # "end"
      BY <1>1, <2>2 DEF ExitsLast
  <2>4. CountFacts'
      BY <1>1, <2>1, <2>2, <2>3 DEF CountFacts, ExitsLast
  <2>5. /\ counted \in 0..N /\ lost \in 0..N /\ nprocs \in -1..N
        /\ child \in [Children -> {"none", "runs", "zombie", "reaped"}]
      BY <1>1 DEF TypeOK, N
  <2>6. lost' \in 0..N /\ nprocs' \in -1..N
      BY <1>1, <2>1, <2>2, <2>5 DEF CountFacts
  <2>7. TypeOK'
      BY <1>1, <2>1, <2>6 DEF TypeOK, N
  <2>. QED BY <2>4, <2>7, CountFactsSuffice
<1>. QED BY <1>2, <1>3 DEF Catch

LEMMA ChildStep ==
    ASSUME IInv, NEW c \in Children, ChildExits(c)
    PROVE  IInv'
<1>1. TypeOK
    BY DEF IInv
<1>2. /\ child[c] = "runs" /\ child' = [child EXCEPT ![c] = "zombie"]
      /\ signalled' = TRUE /\ UNCHANGED <<at, inCatch, counted, nprocs, loaded, lost>>
    BY DEF ChildExits
<1>3. TypeOK'
    BY <1>1, <1>2 DEF TypeOK
<1>4. \A a \in Children : child'[a] = IF a = c THEN "zombie" ELSE child[a]
    BY <1>1, <1>2 DEF TypeOK
<1>. QED BY <1>2, <1>3, <1>4, QuietStep

LEMMA InitialInvariant == Init => IInv
<1>. SUFFICES ASSUME Init PROVE IInv
    OBVIOUS
<1>1. /\ In("none") = Children /\ In("reaped") = {} /\ Children \ In("none") = {}
    BY DEF Init, In
<1>2. Cardinality({}) = 0 /\ N \in Nat
    BY FS_EmptySet, Counts
<1>3. TypeOK
  <2>1. 0 \in 0..N /\ 0 \in -1..N
      BY <1>2
  <2>. QED BY <2>1 DEF Init, TypeOK, N
<1>4. CountedAreForked
    BY <1>1, <1>2 DEF Init, CountedAreForked
<1>5. CountMatches /\ ExitsLast
    BY <1>1, <1>2 DEF Init, CountMatches, ExitsLast
<1>. QED BY <1>3, <1>4, <1>5 DEF IInv, ParentKnows

LEMMA ReaperStutter ==
    ASSUME IInv, UNCHANGED vars
    PROVE  IInv'
<1>1. TypeOK'
    BY DEF IInv, vars, TypeOK
<1>. QED BY <1>1, QuietStep DEF vars

LEMMA ReaperStep ==
    ASSUME IInv, Next
    PROVE  IInv'
  BY MainStep, CatchStep, ChildStep DEF Next

\* The inductive invariant holds in every state.
THEOREM ReaperInvariance == Spec => []IInv
<1>1. IInv /\ [Next]_vars => IInv'
    BY ReaperStutter, ReaperStep
<1>. QED BY InitialInvariant, <1>1, PTL DEF Spec

\* nprocs counts the children not reaped and the decrements lost, so the parent
\* exits only after it has reaped them all; it stays between -1 and NUMPROCS,
\* whenever the handler interrupts.
THEOREM ParentKnowsChildren == Spec => [](TypeOK /\ ParentKnows)
<1>1. IInv => TypeOK /\ ParentKnows
    BY DEF IInv
<1>. QED BY ReaperInvariance, <1>1, PTL

-----------------------------------------------------------------------------
(* Catcher: one status for all requests                                    *)

\* The requests the handler has taken, those erased by status = 0 and those
\* main obeyed by going where it ends with status = 0.
Taken == {s \in Senders: fate[s] \in {"waiting", "obeyed", "replaced", "erased"}}
Erased == {s \in Senders: fate[s] = "erased"}
Obeyed == {s \in Senders: fate[s] = "obeyed" /\ value[s] \in {1, 2}}

Placed ==
    /\ \A s \in Senders: fate[s] = "pending" <=> pending = s
    /\ Taken = confirmed \cup ({handling} \ {"nobody"})
    /\ handling \notin confirmed
    /\ status_changes = Cardinality(Taken)

\* One request at most waits for main, the status is its value, and a status
\* without one says nothing unless main has looked at it.
StatusTold ==
    /\ \A s, t \in C!Waiting: s = t
    /\ \A s \in C!Waiting: status = value[s]
    /\ mainAt \in {"boot", "loop"} /\ C!Waiting = {} => status \notin {1, 2, 3}

\* Between the switch and status = 0 main has obeyed one request more than it
\* has erased, which is the one that the assignment may erase.
Repaid == Cardinality(Erased) + (IF mainAt = "obey" THEN 1 ELSE 0) <= Cardinality(Obeyed)

CInv ==
    /\ C!TypeOK
    /\ \A s \in Senders: senderAt[s] = "start" => fate[s] = "none"
    /\ Placed /\ StatusTold /\ Repaid

\* An instance has counting operators of its own, which count the same.
LEMMA SameCounting ==
    \A S: /\ C!IsFiniteSet(S) <=> IsFiniteSet(S)
          /\ C!Cardinality(S) = Cardinality(S)
<1>1. \A S: C!IsFiniteSet(S) <=> IsFiniteSet(S)
  BY DEF C!IsFiniteSet, IsFiniteSet
<1>2. \A S: C!Cardinality(S) = Cardinality(S)
  BY Zenon DEF C!Cardinality, Cardinality
<1> QED  BY <1>1, <1>2

\* The sets of senders are finite, so they can be counted.
LEMMA SendersFinite ==
    ASSUME C!Sizes
    PROVE  /\ IsFiniteSet(Senders) /\ "nobody" \notin Senders
           /\ \A S \in SUBSET Senders:
                /\ IsFiniteSet(S) /\ Cardinality(S) \in Nat
                /\ Cardinality(S) <= Cardinality(Senders)
           /\ Cardinality(Senders) \in Nat
<1>1. IsFiniteSet(Senders) /\ "nobody" \notin Senders
  BY SameCounting DEF C!Sizes
<1>2. \A S \in SUBSET Senders: IsFiniteSet(S) /\ Cardinality(S) <= Cardinality(Senders)
  BY <1>1, FS_Subset
<1> QED  BY <1>1, <1>2, FS_CardinalityType

\* A step that changes no request's fate, nor the handler's part.
LEMMA FatesKept ==
    ASSUME CInv, UNCHANGED <<handling, pending, status, status_changes, value, fate, confirmed>>,
           C!TypeOK', \A s \in Senders: senderAt'[s] = "start" => senderAt[s] = "start",
           \/ mainAt' = mainAt
           \/ mainAt = "boot" /\ mainAt' \in {"loop", "killed"}
    PROVE  CInv'
<1>1. Taken' = Taken /\ Erased' = Erased /\ Obeyed' = Obeyed /\ C!Waiting' = C!Waiting
  BY DEF Taken, Erased, Obeyed, C!Waiting
<1>2. Placed'
  BY <1>1 DEF CInv, Placed
<1>3. StatusTold'
  BY <1>1 DEF CInv, StatusTold
<1>4. Repaid'
  BY <1>1 DEF CInv, Repaid
<1> QED  BY <1>2, <1>3, <1>4 DEF CInv

\* sigqueue: a request that was not made has not been taken either.
LEMMA QueueStep ==
    ASSUME C!Sizes, CInv, NEW s \in Senders, C!Queue(s)
    PROVE  CInv'
<1>1. /\ C!TypeOK /\ fate[s] = "none" /\ senderAt[s] = "start"
      /\ senderAt' = [senderAt EXCEPT ![s] = "sent"]
      /\ UNCHANGED <<handling, status, status_changes, value, confirmed, early>>
  BY DEF CInv, C!Queue
<1>2. \/ /\ fate' = [fate EXCEPT ![s] = "unheard"] /\ pending' = pending
         /\ \/ mainAt = "boot" /\ mainAt' = "killed"
            \/ mainAt' = mainAt
      \/ fate' = [fate EXCEPT ![s] = "merged"] /\ UNCHANGED <<mainAt, pending>>
      \/ /\ fate' = [fate EXCEPT ![s] = "pending"] /\ pending = "nobody" /\ pending' = s
         /\ mainAt' = mainAt
  BY DEF C!Queue, C!Nobody
<1>3. PICK k \in {"unheard", "merged", "pending"}:
        /\ fate' = [fate EXCEPT ![s] = k]
        /\ IF k = "pending" THEN pending = "nobody" /\ pending' = s ELSE pending' = pending
  BY <1>2
<1>4. \A t \in Senders: fate'[t] = IF t = s THEN k ELSE fate[t]
  BY <1>1, <1>3 DEF C!TypeOK
<1>5. \A t \in Senders: senderAt'[t] = IF t = s THEN "sent" ELSE senderAt[t]
  BY <1>1 DEF C!TypeOK
<1>6. Taken' = Taken /\ Erased' = Erased /\ Obeyed' = Obeyed /\ C!Waiting' = C!Waiting
  BY <1>1, <1>3, <1>4 DEF Taken, Erased, Obeyed, C!Waiting
<1>7. C!TypeOK'
  BY <1>1, <1>2 DEF C!TypeOK
<1>8. Placed'
  <2>1. \A t \in Senders: fate'[t] = "pending" <=> pending' = t
    BY <1>1, <1>3, <1>4, SendersFinite DEF CInv, Placed
  <2> QED  BY <1>1, <1>6, <2>1 DEF CInv, Placed
<1>9. StatusTold'
  BY <1>1, <1>2, <1>6 DEF CInv, StatusTold
<1>10. Repaid'
  BY <1>2, <1>6 DEF CInv, Repaid
<1> QED  BY <1>1, <1>4, <1>5, <1>7, <1>8, <1>9, <1>10 DEF CInv

\* The handler takes the pending request, and the status is its value; one that
\* main has not looked at is replaced.
LEMMA TakeSignalStep ==
    ASSUME C!Sizes, CInv, C!TakeSignal
    PROVE  CInv'
<1>1. /\ C!TypeOK /\ handling = "nobody" /\ pending # "nobody" /\ mainAt # "boot"
      /\ handling' = pending /\ pending' = "nobody"
      /\ status' = value[pending] /\ status_changes' = status_changes + 1
      /\ UNCHANGED <<mainAt, senderAt, value, confirmed, early>>
  BY DEF CInv, C!TakeSignal, C!Unblocked, C!Nobody
<1>2. pending \in Senders /\ fate[pending] = "pending"
  BY <1>1 DEF CInv, C!TypeOK, C!Nobody, Placed
<1>3. \A s \in Senders: fate'[s] = IF s = pending THEN "waiting"
                                   ELSE IF fate[s] = "waiting" THEN "replaced" ELSE fate[s]
  BY <1>2 DEF C!TakeSignal, C!Settle, C!Waiting
<1>4. fate' \in [Senders -> {"none", "merged", "unheard", "pending", "waiting",
                             "obeyed", "replaced", "erased"}]
  <2>1. fate' = [s \in Senders |-> IF s = pending THEN "waiting"
                                   ELSE IF fate[s] = "waiting" THEN "replaced" ELSE fate[s]]
    BY <1>2 DEF C!TakeSignal, C!Settle, C!Waiting
  <2> QED  BY <1>1, <2>1 DEF C!TypeOK
<1>5. Taken' = Taken \cup {pending} /\ pending \notin Taken
  BY <1>2, <1>3 DEF Taken
<1>6. Erased' = Erased /\ Obeyed' = Obeyed /\ C!Waiting' = {pending}
  BY <1>1, <1>2, <1>3 DEF Erased, Obeyed, C!Waiting
<1>7. /\ Cardinality(Taken') = Cardinality(Taken) + 1
      /\ Cardinality(Taken') <= Cardinality(Senders) /\ Cardinality(Senders) \in Nat
      /\ Cardinality(Taken) \in Nat
  <2>1. Taken \in SUBSET Senders
    BY DEF Taken
  <2> QED  BY <1>2, <1>5, <2>1, SendersFinite, OneMore
<1>8. C!TypeOK'
  <2>1. status' \in C!Statuses
    BY <1>1, <1>2 DEF C!TypeOK, C!Statuses, C!Requests
  <2>2. status_changes' \in 0..Cardinality(Senders)
    BY <1>1, <1>7 DEF CInv, Placed
  <2> QED  BY <1>1, <1>2, <1>4, <2>1, <2>2, SameCounting DEF C!TypeOK, C!Nobody
<1>9. Placed'
  <2>1. \A s \in Senders: fate'[s] = "pending" <=> pending' = s
    BY <1>1, <1>2, <1>3, SendersFinite DEF CInv, Placed
  <2>2. Taken' = confirmed' \cup ({handling'} \ {"nobody"}) /\ handling' \notin confirmed'
    BY <1>1, <1>2, <1>5 DEF CInv, Placed
  <2> QED  BY <1>1, <1>7, <2>1, <2>2 DEF CInv, Placed
<1>10. StatusTold'
  BY <1>1, <1>6 DEF StatusTold
<1>11. Repaid'
  BY <1>1, <1>6 DEF CInv, Repaid
<1> QED  BY <1>1, <1>2, <1>3, <1>8, <1>9, <1>10, <1>11 DEF CInv

\* The handler confirms the request it has taken.
LEMMA ConfirmStep ==
    ASSUME C!Sizes, CInv, C!Confirm
    PROVE  CInv'
<1>1. /\ C!TypeOK /\ handling \in Senders /\ handling' = "nobody"
      /\ confirmed' = confirmed \cup {handling}
      /\ UNCHANGED <<mainAt, pending, status, status_changes, value, fate>>
  BY DEF CInv, C!Confirm, C!TypeOK, C!Nobody
<1>2. /\ senderAt' \in [Senders -> {"start", "sent", "suspended", "done", "killed"}]
      /\ \A s \in Senders: senderAt'[s] = "start" => senderAt[s] = "start"
  BY <1>1 DEF C!Confirm, C!TypeOK
<1>3. early' \in SUBSET Senders
  BY <1>1 DEF C!Confirm, C!Signalled, C!TypeOK
<1>4. C!TypeOK'
  BY <1>1, <1>2, <1>3 DEF C!TypeOK, C!Nobody
<1>5. Taken' = Taken /\ Erased' = Erased /\ Obeyed' = Obeyed /\ C!Waiting' = C!Waiting
  BY <1>1 DEF Taken, Erased, Obeyed, C!Waiting
<1>6. Placed'
  <2>1. "nobody" \notin confirmed'
    BY <1>1, <1>4, SendersFinite DEF C!TypeOK
  <2>2. Taken' = confirmed' \cup ({handling'} \ {"nobody"})
    BY <1>1, <1>5, SendersFinite DEF CInv, Placed
  <2> QED  BY <1>1, <1>5, <2>1, <2>2 DEF CInv, Placed
<1>7. StatusTold'
  BY <1>1, <1>5 DEF CInv, StatusTold
<1>8. Repaid'
  BY <1>1, <1>5 DEF CInv, Repaid
<1> QED  BY <1>1, <1>2, <1>4, <1>6, <1>7, <1>8 DEF CInv

\* main settles the request that waits, if there is one.
LEMMA Settled ==
    ASSUME C!Sizes, CInv, NEW end \in {"obeyed", "erased"}, fate' = C!Settle(end),
           UNCHANGED <<handling, pending, status_changes, senderAt, value, confirmed, early>>
    PROVE  /\ fate' \in [Senders -> {"none", "merged", "unheard", "pending", "waiting",
                                     "obeyed", "replaced", "erased"}]
           /\ C!Waiting' = {} /\ Placed'
           /\ \A s \in Senders: senderAt'[s] = "start" => fate'[s] = "none"
           /\ \A s \in Senders: fate'[s] = IF s \in C!Waiting THEN end ELSE fate[s]
<1>1. \A s \in Senders: fate'[s] = IF s \in C!Waiting THEN end ELSE fate[s]
  BY DEF C!Settle
<1>2. \A s \in Senders: s \in C!Waiting <=> fate[s] = "waiting"
  BY DEF C!Waiting
<1>3. fate' \in [Senders -> {"none", "merged", "unheard", "pending", "waiting",
                             "obeyed", "replaced", "erased"}]
  BY DEF C!Settle, CInv, C!TypeOK
<1>4. C!Waiting' = {} /\ Taken' = Taken
  BY <1>1, <1>2 DEF C!Waiting, Taken
<1>5. Placed'
  BY <1>1, <1>2, <1>4 DEF CInv, Placed
<1> QED  BY <1>1, <1>2, <1>3, <1>4, <1>5 DEF CInv

\* What the switch obeys by leaving the loop is a request that waits.
LEMMA SwitchStep ==
    ASSUME C!Sizes, CInv, C!Switch
    PROVE  CInv'
<1>1. /\ C!TypeOK /\ mainAt = "loop" /\ mainAt' = C!Branch(status)
      /\ fate' = C!Settle("obeyed")
      /\ UNCHANGED <<handling, pending, status, status_changes, senderAt, value,
                     confirmed, early>>
  BY DEF CInv, C!Switch
<1>2. /\ fate' \in [Senders -> {"none", "merged", "unheard", "pending", "waiting",
                                "obeyed", "replaced", "erased"}]
      /\ C!Waiting' = {} /\ Placed'
      /\ \A s \in Senders: senderAt'[s] = "start" => fate'[s] = "none"
      /\ \A s \in Senders: fate'[s] = IF s \in C!Waiting THEN "obeyed" ELSE fate[s]
  BY <1>1, Settled
<1>3. mainAt' \in {"obey", "exit", "loop"} /\ (mainAt' = "loop" => status \notin {1, 2, 3})
      /\ (mainAt' = "obey" => status \in {1, 2})
  BY <1>1 DEF C!Branch
<1>4. C!TypeOK'
  BY <1>1, <1>2, <1>3 DEF C!TypeOK
<1>5. StatusTold'
  BY <1>1, <1>2, <1>3 DEF StatusTold
<1>6. Erased' = Erased /\ Obeyed \in SUBSET (Obeyed')
  BY <1>1, <1>2 DEF Erased, Obeyed, C!Waiting
<1>7. Obeyed \in SUBSET Senders /\ Obeyed' \in SUBSET Senders /\ Erased \in SUBSET Senders
  BY DEF Obeyed, Erased
<1>8. /\ IsFiniteSet(Obeyed') /\ Cardinality(Obeyed) \in Nat /\ Cardinality(Obeyed') \in Nat
      /\ Cardinality(Erased) \in Nat
  BY <1>7, SendersFinite
<1>9. Cardinality(Obeyed) <= Cardinality(Obeyed') /\ Cardinality(Erased) <= Cardinality(Obeyed)
  BY <1>1, <1>6, <1>8, FS_Subset DEF CInv, Repaid
<1>10. ASSUME mainAt' = "obey"
       PROVE  Cardinality(Obeyed) + 1 <= Cardinality(Obeyed')
  <2>1. status \in {1, 2} /\ C!Waiting # {}
    BY <1>1, <1>3, <1>10 DEF CInv, StatusTold
  <2>2. PICK s \in Senders: s \in C!Waiting
    BY <2>1 DEF C!Waiting
  <2>3. value[s] \in {1, 2} /\ fate[s] = "waiting" /\ fate'[s] = "obeyed"
    BY <1>2, <2>1, <2>2 DEF CInv, StatusTold, C!Waiting
  <2>4. s \in Obeyed' /\ s \notin Obeyed
    BY <1>1, <2>3 DEF Obeyed
  <2> QED  BY <1>6, <1>8, <2>4, OneMore
<1>11. Repaid'
  BY <1>3, <1>6, <1>8, <1>9, <1>10 DEF Repaid
<1> QED  BY <1>2, <1>4, <1>5, <1>11 DEF CInv

\* status = 0 erases one request at most.
LEMMA ClearStep ==
    ASSUME C!Sizes, CInv, C!Clear
    PROVE  CInv'
<1>1. /\ C!TypeOK /\ mainAt = "obey" /\ mainAt' = "loop" /\ status' = 0
      /\ fate' = C!Settle("erased")
      /\ UNCHANGED <<handling, pending, status_changes, senderAt, value, confirmed, early>>
  BY DEF CInv, C!Clear, C!Reset
<1>2. /\ fate' \in [Senders -> {"none", "merged", "unheard", "pending", "waiting",
                                "obeyed", "replaced", "erased"}]
      /\ C!Waiting' = {} /\ Placed'
      /\ \A s \in Senders: senderAt'[s] = "start" => fate'[s] = "none"
      /\ \A s \in Senders: fate'[s] = IF s \in C!Waiting THEN "erased" ELSE fate[s]
  BY <1>1, Settled
<1>3. C!TypeOK'
  BY <1>1, <1>2 DEF C!TypeOK, C!Statuses
<1>4. StatusTold'
  BY <1>1, <1>2 DEF StatusTold
<1>5. Obeyed' = Obeyed /\ Erased' = Erased \cup C!Waiting
  BY <1>1, <1>2 DEF Erased, Obeyed, C!Waiting
<1>6. Obeyed \in SUBSET Senders /\ Erased \in SUBSET Senders
  BY DEF Obeyed, Erased
<1>7. /\ IsFiniteSet(Erased) /\ Cardinality(Erased) \in Nat /\ Cardinality(Obeyed) \in Nat
  BY <1>6, SendersFinite
<1>8. Cardinality(Erased') \in Nat /\ Cardinality(Erased') <= Cardinality(Erased) + 1
  <2>1. CASE C!Waiting = {}
    BY <1>5, <1>7, <2>1
  <2>2. CASE C!Waiting # {}
    <3>1. PICK s: s \in C!Waiting
      BY <2>2
    <3>2. C!Waiting = {s} /\ s \notin Erased
      BY <3>1 DEF CInv, StatusTold, C!Waiting, Erased
    <3> QED  BY <1>5, <1>7, <3>2, FS_AddElement
  <2> QED  BY <2>1, <2>2
<1>9. Repaid'
  BY <1>1, <1>5, <1>7, <1>8 DEF CInv, Repaid
<1> QED  BY <1>2, <1>3, <1>4, <1>9 DEF CInv

\* exit(): what is pending is never heard.
LEMMA ExitStep ==
    ASSUME C!Sizes, CInv, C!Exit
    PROVE  CInv'
<1>1. /\ C!TypeOK /\ mainAt = "exit" /\ mainAt' = "ended" /\ pending' = "nobody"
      /\ UNCHANGED <<handling, status, status_changes, senderAt, value, confirmed, early>>
  BY DEF CInv, C!Exit, C!Nobody
<1>2. \A s \in Senders: fate'[s] = IF s = pending THEN "unheard" ELSE fate[s]
  BY <1>1, SendersFinite DEF C!Exit, C!TypeOK, C!Nobody
<1>3. fate' \in [Senders -> {"none", "merged", "unheard", "pending", "waiting",
                             "obeyed", "replaced", "erased"}]
  BY <1>1 DEF C!Exit, C!TypeOK
<1>4. \A s \in Senders: s = pending <=> fate[s] = "pending"
  BY DEF CInv, Placed
<1>5. Taken' = Taken /\ Erased' = Erased /\ Obeyed' = Obeyed /\ C!Waiting' = C!Waiting
  BY <1>1, <1>2, <1>4 DEF Taken, Erased, Obeyed, C!Waiting
<1>6. C!TypeOK'
  BY <1>1, <1>3 DEF C!TypeOK, C!Nobody
<1>7. Placed'
  <2>1. \A s \in Senders: fate'[s] = "pending" <=> pending' = s
    BY <1>1, <1>2, <1>4, SendersFinite
  <2> QED  BY <1>1, <1>5, <2>1 DEF CInv, Placed
<1>8. StatusTold'
  BY <1>1, <1>5 DEF CInv, StatusTold
<1>9. Repaid'
  BY <1>1, <1>5 DEF CInv, Repaid
<1> QED  BY <1>1, <1>2, <1>4, <1>6, <1>7, <1>8, <1>9 DEF CInv

LEMMA CatcherInitially ==
    ASSUME C!Sizes, C!Init
    PROVE  CInv
<1>1. Taken = {} /\ Erased = {} /\ Obeyed = {} /\ C!Waiting = {}
  BY DEF C!Init, Taken, Erased, Obeyed, C!Waiting
<1>2. Cardinality({}) = 0 /\ Cardinality(Senders) \in Nat
  BY FS_EmptySet, SendersFinite
<1>3. C!TypeOK
  BY <1>2, SameCounting DEF C!Init, C!TypeOK, C!Statuses, C!Nobody
<1>4. Placed
  BY <1>1, <1>2, SendersFinite DEF C!Init, C!Nobody, Placed
<1>5. StatusTold /\ Repaid
  BY <1>1, <1>2 DEF C!Init, StatusTold, Repaid
<1> QED  BY <1>3, <1>4, <1>5 DEF CInv, C!Init

LEMMA CatcherStutter ==
    ASSUME CInv, UNCHANGED C!vars
    PROVE  CInv'
<1>1. C!TypeOK'
  BY DEF CInv, C!vars, C!TypeOK
<1> QED  BY <1>1, FatesKept DEF C!vars

LEMMA CatcherStep ==
    ASSUME C!Sizes, CInv, C!Next
    PROVE  CInv'
<1>1. ASSUME C!InstallHandler PROVE CInv'
  <2>1. C!TypeOK' /\ mainAt = "boot" /\ mainAt' = "loop"
    BY <1>1 DEF CInv, C!InstallHandler, C!TypeOK
  <2> QED  BY <1>1, <2>1, FatesKept DEF C!InstallHandler
<1>2. ASSUME NEW s \in Senders, C!Suspend(s) \/ C!Interrupt(s) PROVE CInv'
  <2>1. C!TypeOK' /\ \A t \in Senders: senderAt'[t] = "start" => senderAt[t] = "start"
    BY <1>2 DEF CInv, C!Suspend, C!Interrupt, C!catcher, C!TypeOK
  <2> QED  BY <1>2, <2>1, FatesKept DEF C!Suspend, C!Interrupt, C!catcher
<1> QED  BY <1>1, <1>2, QueueStep, TakeSignalStep, ConfirmStep, SwitchStep, ClearStep, ExitStep
            DEF C!Next, C!Main, C!Handler

LEMMA CatcherKnows ==
    ASSUME C!Sizes, CInv
    PROVE  C!TypeOK /\ RequestsAccounted
<1>1. C!OnePlaceEach
  BY SameCounting DEF CInv, Placed, Taken, C!OnePlaceEach, C!Nobody
<1>2. C!ObeyedOnce
  BY DEF CInv, StatusTold, C!ObeyedOnce, C!Known
<1>3. C!ErasedByObeyed
  <2>1. Cardinality(Erased) \in Nat
    BY SendersFinite DEF Erased
  <2>2. Cardinality(Obeyed) \in Nat
    BY SendersFinite DEF Obeyed
  <2> QED  BY <2>1, <2>2, SameCounting DEF CInv, Repaid, Erased, Obeyed, C!ErasedByObeyed
<1> QED  BY <1>1, <1>2, <1>3 DEF CInv, RequestsAccounted, C!RequestsAccounted

\* Every request queued to the catcher is in one place, none is obeyed twice,
\* none obeyed that was not made, and main erases no more requests unobeyed than
\* it obeys, for every number of senders and whatever they ask for.
THEOREM RequestsKept ==
    ASSUME C!Sizes
    PROVE  C!Spec => [](C!TypeOK /\ RequestsAccounted)
<1>1. CInv /\ [C!Next]_C!vars => CInv'
  BY CatcherStutter, CatcherStep
<1> QED  BY CatcherInitially, <1>1, CatcherKnows, PTL DEF C!Spec

-----------------------------------------------------------------------------
(* Integrate: the parts cover the range and are summed once                *)

\* The width of a part that the right border does not cut, and where part j
\* begins; the children forked and the results read so far.
Share == I!intervals_per_process * width
Border(j) == I!min(j * Share, Span)
Started == IF pc = "fork" THEN i ELSE IF pc = "close" THEN i + 1 ELSE processes
Summed == IF pc \in {"read", "done"} THEN i ELSE 0

\* The parts are those between the borders, and what has been read of children
\* that wrote is in the sum, once if no child died.
IntInv ==
    /\ I!TypeOK
    /\ pc \in {"fork", "close", "read"} => i < processes
    /\ pc = "done" => i = processes
    /\ start = IF pc \in {"fork", "close"} THEN Border(i) ELSE Border(processes)
    /\ \A j \in I!Workers: worker[j] # "none" <=> j < Started
    /\ \A j \in I!Workers: j < Started => part[j] = <<Border(j), Border(j + 1)>>
    /\ \A j \in I!Workers: j < Summed => worker[j] \in {"wrote", "died"}
    /\ (\A j \in I!Workers: worker[j] # "died") =>
         \A x \in I!Cells: result[x] = IF x < Border(Summed) THEN 1 ELSE 0
    /\ \A j \in I!Workers: j < Summed /\ worker[j] = "wrote" =>
         \A x \in I!Cells: Border(j) <= x /\ x < Border(j + 1) => result[x] >= 1
    /\ \A j \in I!Workers: worker[j] = "wrote" => width > 0 \/ part[j][2] <= part[j][1]

\* Division rounds down.
LEMMA Quotient ==
    ASSUME NEW a \in Nat, NEW b \in Nat \ {0}
    PROVE  /\ a \div b \in Nat
           /\ (a \div b) * b <= a /\ a < ((a \div b) + 1) * b
  OBVIOUS

LEMMA Product ==
    ASSUME NEW a \in Nat, NEW w \in Nat
    PROVE  /\ a * w \in Nat /\ (a + 1) * w \in Nat
           /\ (a + 1) * w = a * w + w /\ 0 * w = 0
  OBVIOUS

LEMMA ProductOrder ==
    ASSUME NEW a \in Nat, NEW b \in Nat, NEW w \in Nat, a <= b
    PROVE  a * w \in Nat /\ b * w \in Nat /\ a * w <= b * w
  OBVIOUS

\* The borders begin at 0, never leave the range, and are one share apart where
\* the range does not end before.
LEMMA Borders ==
    ASSUME I!Sizes, I!TypeOK
    PROVE  /\ Share \in Nat /\ Border(0) = 0
           /\ \A j \in Nat:
                /\ Border(j) \in 0..Span /\ Border(j + 1) \in 0..Span
                /\ Border(j) <= Border(j + 1)
                /\ Border(j + 1) = I!min(Border(j) + Share, Span)
<1>1. /\ width \in Int /\ processes \in Nat \ {0} /\ Span \in Nat
  BY DEF I!Sizes, I!TypeOK
<1>2. ASSUME width > 0 PROVE Share \in Nat
  <2>1. width \in Nat \ {0}
    BY <1>1, <1>2
  <2>2. I!CeilDiv(Span, width) \in Nat
    BY <1>1, <2>1, Quotient DEF I!CeilDiv
  <2>3. I!intervals_per_process \in Nat
    BY <1>1, <1>2, <2>2, Quotient DEF I!intervals_per_process
  <2> QED  BY <2>1, <2>3, ProductOrder DEF Share
<1>3. ASSUME width < 0 PROVE Share \in Nat
  <2>1. -width \in Nat \ {0}
    BY <1>1, <1>3
  <2> DEFINE k == (Span \div (-width)) \div processes
  <2>2. k \in Nat
    BY <1>1, <2>1, Quotient
  <2>3. Share = (-k) * width
    BY <1>1, <1>3 DEF Share, I!intervals_per_process
  <2> HIDE DEF k
  <2>4. (-k) * width = k * (-width) /\ k * (-width) \in Nat
    BY <1>1, <2>1, <2>2
  <2> QED  BY <2>3, <2>4
<1>4. Share \in Nat
  <2>1. width = 0 => Share = 0
    BY DEF Share, I!intervals_per_process
  <2> QED  BY <1>1, <1>2, <1>3, <2>1
<1>5. Border(0) = 0
  BY <1>1, <1>4, Product DEF Border, I!min
<1>6. ASSUME NEW j \in Nat
      PROVE  /\ Border(j) \in 0..Span /\ Border(j + 1) \in 0..Span
             /\ Border(j) <= Border(j + 1)
             /\ Border(j + 1) = I!min(Border(j) + Share, Span)
  <2>1. j * Share \in Nat /\ (j + 1) * Share = j * Share + Share
    BY <1>4, Product
  <2> QED  BY <1>1, <1>4, <2>1 DEF Border, I!min
<1> QED  BY <1>4, <1>5, <1>6

\* A width of 0 leaves every part empty.
LEMMA NoShare ==
    ASSUME I!Sizes, I!TypeOK, width = 0, NEW j \in Nat
    PROVE  Border(j) = 0
<1>1. Share = 0 /\ j * 0 = 0 /\ Span \in Nat
  BY DEF Share, I!intervals_per_process, I!Sizes
<1> QED  BY <1>1 DEF Border, I!min

\* The rectangles of a part cover it and nothing else.
LEMMA Covered ==
    ASSUME I!Sizes, I!TypeOK, NEW a \in 0..Span, NEW b \in 0..Span, width > 0 \/ b <= a
    PROVE  I!integrate(<<a, b>>) = a..(b - 1)
<1>1. width \in Int /\ Span \in Nat /\ a \in Nat /\ b \in Nat
  BY DEF I!Sizes, I!TypeOK
<1> DEFINE starts == {a + n * width: n \in 0..Span} \cap a..(b - 1)
<1>2. I!integrate(<<a, b>>) = UNION {I!Rectangle(s, b): s \in starts}
  BY DEF I!integrate, I!Starts
<1>3. CASE b <= a
  <2>1. a..(b - 1) = {}
    BY <1>1, <1>3
  <2> QED  BY <1>2, <2>1
<1>4. CASE width > 0
  <2>1. ASSUME NEW s \in starts, NEW x \in I!Rectangle(s, b)
        PROVE  x \in a..(b - 1)
    <3>1. s \in a..(b - 1) /\ x \in s..(s + I!min(b - s, width) - 1)
      BY <2>1 DEF I!Rectangle
    <3> HIDE DEF starts
    <3> QED  BY <1>1, <3>1 DEF I!min
  <2>2. ASSUME NEW x \in a..(b - 1)
        PROVE  \E s \in starts: x \in I!Rectangle(s, b)
    <3> DEFINE n == (x - a) \div width
               m == n * width
    <3>1. width \in Nat \ {0} /\ x - a \in Nat /\ x - a <= Span
      BY <1>1, <1>4
    <3>2. n \in Nat /\ n * width <= x - a /\ x - a < (n + 1) * width
      BY <3>1, Quotient
    <3>3. m \in Nat /\ m <= x - a /\ x - a < m + width
      <4> HIDE DEF n
      <4>1. n * width \in Nat /\ (n + 1) * width = n * width + width
        BY <3>1, <3>2, Product
      <4> QED  BY <3>2, <4>1
    <3>4. n <= m
      <4> HIDE DEF n
      <4>1. n * 1 <= n * width
        BY <3>1, <3>2
      <4> QED  BY <3>2, <4>1
    <3>5. n \in 0..Span
      <4> HIDE DEF n, m
      <4> QED  BY <1>1, <3>1, <3>2, <3>3, <3>4
    <3>6. a + m \in a..(b - 1) /\ x \in (a + m)..((a + m) + I!min(b - (a + m), width) - 1)
      <4> HIDE DEF n, m
      <4> QED  BY <1>1, <3>1, <3>3 DEF I!min
    <3>7. a + m \in starts
      BY <3>5, <3>6
    <3> QED  BY <3>6, <3>7 DEF I!Rectangle
  <2> QED  BY <1>2, <2>1, <2>2
<1> QED  BY <1>3, <1>4

\* The cells behind the last border are fewer than one interval of every process.
LEMMA LeftOut ==
    ASSUME I!Sizes, I!TypeOK, width > 0
    PROVE  Span - Border(processes) < processes * width
<1> DEFINE c == I!CeilDiv(Span, width)
           k == I!intervals_per_process
<1>1. /\ width \in Nat \ {0} /\ processes \in Nat \ {0} /\ Span \in Nat
  BY DEF I!Sizes, I!TypeOK
<1>2. c \in Nat /\ Span <= c * width
  <2>1. c = (Span + width - 1) \div width /\ Span + width - 1 \in Nat
    BY <1>1 DEF I!CeilDiv
  <2>2. c \in Nat /\ Span + width - 1 < (c + 1) * width
    BY <1>1, <2>1, Quotient
  <2>3. (c + 1) * width = c * width + width /\ c * width \in Nat
    BY <1>1, <2>2, Product
  <2> QED  BY <1>1, <2>2, <2>3
<1>3. k \in Nat /\ c + 1 <= (k + 1) * processes
  <2>1. k = c \div processes
    BY DEF I!intervals_per_process
  <2> HIDE DEF k, c
  <2>2. k \in Nat /\ c < (k + 1) * processes
    BY <1>1, <1>2, <2>1, Quotient
  <2>3. (k + 1) * processes \in Nat
    BY <1>1, <2>2, Product
  <2> QED  BY <1>2, <2>2, <2>3
<1> HIDE DEF c, k
<1>4. (c + 1) * width <= ((k + 1) * processes) * width
  <2>1. (k + 1) * processes \in Nat
    BY <1>1, <1>3, Product
  <2> DEFINE m == (k + 1) * processes
  <2>2. m \in Nat /\ c + 1 \in Nat /\ c + 1 <= m /\ width \in Nat
    BY <1>1, <1>2, <1>3, <2>1
  <2> HIDE DEF m
  <2>3. (c + 1) * width <= m * width
    BY <2>2, ProductOrder
  <2> QED  BY <2>3 DEF m
<1>5. ((k + 1) * processes) * width = processes * (k * width) + processes * width
  BY <1>1, <1>3
<1>6. (c + 1) * width = c * width + width /\ c * width \in Nat
  BY <1>1, <1>2, Product
<1>7. /\ processes * (k * width) \in Nat /\ processes * width \in Nat
      /\ 0 < processes * width
  BY <1>1, <1>3
<1>8. Border(processes) = I!min(processes * (k * width), Span)
  BY DEF Border, Share, k
<1> QED  BY <1>1, <1>2, <1>4, <1>5, <1>6, <1>7, <1>8 DEF I!min

\* An index below processes is a child's.
LEMMA Indices ==
    ASSUME I!Sizes, I!TypeOK, NEW j \in 0..(processes - 1)
    PROVE  j \in I!Workers
  BY DEF I!Sizes, I!TypeOK, I!Workers

LEMMA ChildIndices == \A j \in I!Workers: j \in Nat
  BY DEF I!Workers

\* The arguments do not change, so the borders do not.
LEMMA BordersStay ==
    ASSUME UNCHANGED <<width, processes>>
    PROVE  /\ \A j: Border(j)' = Border(j)
           /\ I!Workers' = I!Workers /\ I!Cells' = I!Cells
  BY DEF Share, Border, I!intervals_per_process, I!Workers, I!Cells, I!min, I!CeilDiv

LEMMA IntForkStep ==
    ASSUME I!Sizes, IntInv, I!Fork
    PROVE  IntInv'
<1>1. /\ pc = "fork" /\ pc' = "close" /\ i < processes
      /\ part' = [part EXCEPT ![i] = <<start, I!PartEnd>>]
      /\ worker' = [worker EXCEPT ![i] = "runs"] /\ holds' = holds \cup {i}
      /\ UNCHANGED <<width, processes, i, start, result, partial, garbage>>
      /\ I!TypeOK
  BY DEF IntInv, I!Fork
<1>2. i \in Nat /\ i \in 0..(processes - 1) /\ Span \in Nat /\ start = Border(i)
  BY <1>1 DEF I!TypeOK, IntInv, I!Sizes
<1>3. i \in I!Workers
  BY <1>1, <1>2, Indices
<1>4. I!PartEnd = Border(i + 1) /\ Border(i) \in 0..Span /\ Border(i + 1) \in 0..Span
  BY <1>1, <1>2, Borders DEF I!PartEnd, Share
<1>5. /\ part' \in [I!Workers -> (0..Span) \X (0..Span)]
      /\ \A j \in I!Workers: part'[j] = IF j = i THEN <<Border(i), Border(i + 1)>> ELSE part[j]
  BY <1>1, <1>2, <1>4 DEF I!TypeOK
<1>6. /\ worker' \in [I!Workers -> {"none", "runs", "wrote", "died"}]
      /\ \A j \in I!Workers: worker'[j] = IF j = i THEN "runs" ELSE worker[j]
  BY <1>1 DEF I!TypeOK
<1>7. I!TypeOK'
  BY <1>1, <1>3, <1>5, <1>6 DEF I!TypeOK, I!Workers, I!Cells
<1>8. /\ \A j: Border(j)' = Border(j)
      /\ I!Workers' = I!Workers /\ I!Cells' = I!Cells
      /\ Started = i /\ Started' = i + 1 /\ Summed = 0 /\ Summed' = 0
  BY <1>1, BordersStay DEF Started, Summed
<1>9. \A j \in I!Workers: j \in Nat
  BY ChildIndices
<1>10. \A j \in I!Workers: worker'[j] # "none" <=> j < Started'
  BY <1>2, <1>6, <1>8, <1>9 DEF IntInv
<1>11. \A j \in I!Workers: j < Started' => part'[j] = <<Border(j)', Border(j + 1)'>>
  BY <1>2, <1>5, <1>8, <1>9 DEF IntInv
<1>12. (\A j \in I!Workers: worker'[j] # "died") =>
         \A x \in I!Cells: result'[x] = IF x < Border(Summed') THEN 1 ELSE 0
  <2>1. worker[i] = "none"
    BY <1>1, <1>2, <1>3, <1>8 DEF IntInv, I!TypeOK
  <2> QED  BY <1>1, <1>6, <1>8, <2>1 DEF IntInv
<1>13. \A j \in I!Workers: worker'[j] = "wrote" => width > 0 \/ part'[j][2] <= part'[j][1]
  BY <1>5, <1>6 DEF IntInv
<1> QED  BY <1>1, <1>2, <1>7, <1>8, <1>9, <1>10, <1>11, <1>12, <1>13 DEF IntInv

\* The next part begins where this one ends.
LEMMA IntCloseStep ==
    ASSUME I!Sizes, IntInv, I!CloseWriteEnd
    PROVE  IntInv'
<1>1. /\ pc = "close" /\ holds' = holds \ {i} /\ start' = part[i][2]
      /\ i' = IF i + 1 < processes THEN i + 1 ELSE 0
      /\ pc' = IF i + 1 < processes THEN "fork" ELSE "read"
      /\ UNCHANGED <<width, processes, part, worker, result, partial, garbage>>
      /\ I!TypeOK
  BY DEF IntInv, I!CloseWriteEnd, I!ClosedWriteEnd, I!NextStart
<1>2. i \in 0..(processes - 1) /\ i + 1 \in Nat /\ processes \in Nat \ {0}
  BY <1>1 DEF I!TypeOK, IntInv
<1>3. /\ \A j: Border(j)' = Border(j)
      /\ I!Workers' = I!Workers /\ I!Cells' = I!Cells
      /\ Started' = Started /\ Summed = 0 /\ Summed' = 0 /\ Started = i + 1
  BY <1>1, <1>2, BordersStay DEF Started, Summed
<1>4. start' = Border(i + 1) /\ start' \in 0..Span
  BY <1>1, <1>2, <1>3, Indices, Borders DEF IntInv
<1>5. I!TypeOK'
  BY <1>1, <1>2, <1>4 DEF I!TypeOK, I!Workers, I!Cells
<1>6. /\ pc' \in {"fork", "close", "read"} => i' < processes'
      /\ start' = IF pc' \in {"fork", "close"} THEN Border(i') ELSE Border(processes')
  BY <1>1, <1>2, <1>4
<1> QED  BY <1>1, <1>3, <1>5, <1>6 DEF IntInv

\* A child that writes or dies has not been read.
LEMMA IntChildStep ==
    ASSUME I!Sizes, IntInv, NEW c \in I!Workers, I!Write(c) \/ I!Die(c)
    PROVE  IntInv'
<1>1. PICK k \in {"wrote", "died"}:
        /\ worker[c] = "runs" /\ worker' = [worker EXCEPT ![c] = k]
        /\ UNCHANGED <<width, processes, pc, i, start, part, holds, result, partial, garbage>>
  BY DEF I!Write, I!Die
<1>2. I!TypeOK
  BY DEF IntInv
<1>3. /\ worker' \in [I!Workers -> {"none", "runs", "wrote", "died"}]
      /\ \A j \in I!Workers: worker'[j] = IF j = c THEN k ELSE worker[j]
  BY <1>1, <1>2 DEF I!TypeOK
<1>4. I!TypeOK'
  BY <1>1, <1>2, <1>3 DEF I!TypeOK, I!Workers, I!Cells
<1>5. /\ \A j: Border(j)' = Border(j)
      /\ I!Workers' = I!Workers /\ I!Cells' = I!Cells
      /\ Started' = Started /\ Summed' = Summed
  BY <1>1, BordersStay DEF Started, Summed
<1>6. ~(c < Summed) /\ c < Started
  BY <1>1 DEF IntInv
<1>7. \A j \in I!Workers: worker'[j] # "none" <=> j < Started'
  BY <1>1, <1>3, <1>5, <1>6 DEF IntInv
<1>8. \A j \in I!Workers: j < Summed' => worker'[j] \in {"wrote", "died"}
  BY <1>3, <1>5, <1>6 DEF IntInv
<1>9. (\A j \in I!Workers: worker'[j] # "died") =>
         \A x \in I!Cells: result'[x] = IF x < Border(Summed') THEN 1 ELSE 0
  BY <1>1, <1>3, <1>5 DEF IntInv
<1>10. \A j \in I!Workers: j < Summed' /\ worker'[j] = "wrote" =>
         \A x \in I!Cells: Border(j) <= x /\ x < Border(j + 1) => result'[x] >= 1
  BY <1>1, <1>3, <1>5, <1>6 DEF IntInv
<1>11. k = "wrote" => width > 0 \/ part[c][2] <= part[c][1]
  <2> SUFFICES ASSUME k = "wrote", ~(width > 0) PROVE part[c][2] <= part[c][1]
    OBVIOUS
  <2>1. /\ width \in Int /\ c \in Nat /\ c + 1 \in Nat /\ part[c] = <<Border(c), Border(c + 1)>>
        /\ Border(c) \in 0..Span /\ Border(c + 1) \in 0..Span /\ Span \in Nat
    BY <1>2, <1>6, ChildIndices, Borders DEF IntInv, I!TypeOK, I!Sizes
  <2>2. CASE width = 0
    BY <1>2, <2>1, <2>2, NoShare
  <2>3. CASE width # 0
    <3>1. width < 0 /\ worker'[c] = "wrote"
      BY <1>3, <2>1, <2>3
    <3>2. ~I!Endless(c)
      BY <1>1, <1>2, <3>1 DEF I!Write, I!Die, I!TypeOK
    <3> QED  BY <1>1, <2>1, <3>1, <3>2 DEF I!Endless
  <2> QED  BY <2>2, <2>3
<1>12. \A j \in I!Workers: worker'[j] = "wrote" => width > 0 \/ part[j][2] <= part[j][1]
  BY <1>3, <1>11 DEF IntInv
<1> QED  BY <1>1, <1>4, <1>5, <1>7, <1>8, <1>9, <1>10, <1>12 DEF IntInv

\* The parent adds what child i has written, or what partial_result was.
LEMMA IntReadStep ==
    ASSUME I!Sizes, IntInv, I!Read
    PROVE  IntInv'
<1>1. /\ pc = "read" /\ i' = i + 1
      /\ worker[i] = "wrote" \/ (worker[i] = "died" /\ i \notin holds)
      /\ partial' = IF worker[i] = "wrote" THEN I!integrate(part[i]) ELSE partial
      /\ result' = [x \in I!Cells |-> IF x \in partial' THEN result[x] + 1 ELSE result[x]]
      /\ garbage' \in BOOLEAN
      /\ pc' = IF i + 1 < processes THEN "read" ELSE "done"
      /\ UNCHANGED <<width, processes, start, part, worker, holds>>
      /\ I!TypeOK
  BY DEF IntInv, I!Read, I!AtEof, I!Received, I!TypeOK
<1>2. /\ i \in 0..(processes - 1) /\ i \in Nat /\ processes \in Nat \ {0}
      /\ i \in I!Workers
  BY <1>1, Indices DEF I!TypeOK, IntInv
<1>3. /\ \A j: Border(j)' = Border(j)
      /\ I!Workers' = I!Workers /\ I!Cells' = I!Cells
      /\ Started' = Started /\ Started = processes /\ Summed = i /\ Summed' = i + 1
  BY <1>1, BordersStay DEF Started, Summed
<1>4. part[i] = <<Border(i), Border(i + 1)>>
  BY <1>2, <1>3 DEF IntInv
<1>5. \A j \in Nat: Border(j) \in 0..Span /\ Border(j) <= Border(j + 1)
  BY <1>1, Borders
<1>covers. worker[i] = "wrote" => I!integrate(part[i]) = Border(i)..(Border(i + 1) - 1)
  <2> SUFFICES ASSUME worker[i] = "wrote"
               PROVE  I!integrate(<<Border(i), Border(i + 1)>>) = Border(i)..(Border(i + 1) - 1)
    BY <1>4
  <2>1. Border(i) \in 0..Span /\ Border(i + 1) \in 0..Span
    BY <1>1, <1>2, Borders
  <2>2. width > 0 \/ Border(i + 1) <= Border(i)
    BY <1>2, <1>4 DEF IntInv
  <2> QED  BY <1>1, <2>1, <2>2, Covered
<1>6. partial' \in SUBSET I!Cells
  <2>1. Span \in Nat /\ MaxWidth \in Nat /\ Border(i) \in 0..Span /\ Border(i + 1) \in 0..Span
    BY <1>1, <1>2, Borders DEF I!Sizes
  <2>2. Border(i)..(Border(i + 1) - 1) \subseteq I!Cells
    BY <2>1 DEF I!Cells
  <2> QED  BY <1>1, <1>covers, <2>2 DEF I!TypeOK
<1>7. result' \in [I!Cells -> Nat]
  BY <1>1 DEF I!TypeOK
<1>8. I!TypeOK'
  BY <1>1, <1>2, <1>6, <1>7 DEF I!TypeOK, I!Workers, I!Cells
<1>9. \A j \in I!Workers: j < Summed' => worker'[j] \in {"wrote", "died"}
  <2> SUFFICES ASSUME NEW j \in I!Workers, j < i + 1
               PROVE  worker[j] \in {"wrote", "died"}
    BY <1>1, <1>3
  <2>1. j < i \/ j = i
    BY <1>2, ChildIndices
  <2> QED  BY <1>1, <1>3, <2>1 DEF IntInv
<1>10. \A x \in I!Cells: worker[i] = "wrote" =>
         result'[x] = IF Border(i) <= x /\ x < Border(i + 1) THEN result[x] + 1 ELSE result[x]
  <2>1. Border(i) \in Int /\ Border(i + 1) \in Int /\ \A x \in I!Cells: x \in Int
    BY <1>1, <1>2, Borders DEF I!Cells, I!Sizes
  <2> QED  BY <1>1, <1>covers, <2>1
<1>11. (\A j \in I!Workers: worker'[j] # "died") =>
         \A x \in I!Cells: result'[x] = IF x < Border(Summed') THEN 1 ELSE 0
  <2> SUFFICES ASSUME \A j \in I!Workers: worker[j] # "died", NEW x \in I!Cells
               PROVE  result'[x] = IF x < Border(i + 1) THEN 1 ELSE 0
    BY <1>1, <1>3
  <2>1. worker[i] = "wrote"
    BY <1>1, <1>2
  <2>2. result[x] = IF x < Border(i) THEN 1 ELSE 0
    BY <1>3 DEF IntInv
  <2>3. x \in Int /\ Border(i) \in Int /\ Border(i + 1) \in Int /\ Border(i) <= Border(i + 1)
    BY <1>2, <1>5 DEF I!Cells
  <2> QED  BY <1>10, <2>1, <2>2, <2>3
<1>12. \A j \in I!Workers: j < Summed' /\ worker'[j] = "wrote" =>
         \A x \in I!Cells: Border(j) <= x /\ x < Border(j + 1) => result'[x] >= 1
  <2> SUFFICES ASSUME NEW j \in I!Workers, j < i + 1, worker[j] = "wrote",
                      NEW x \in I!Cells, Border(j) <= x, x < Border(j + 1)
               PROVE  result'[x] >= 1
    BY <1>1, <1>3
  <2>1. result[x] \in Nat /\ (result'[x] = result[x] \/ result'[x] = result[x] + 1)
    BY <1>1 DEF I!TypeOK
  <2>2. CASE j = i
    BY <1>10, <2>1, <2>2
  <2>3. CASE j # i
    <3>1. j < i
      BY <1>2, <2>3, ChildIndices
    <3>2. result[x] >= 1
      BY <1>3, <3>1 DEF IntInv
    <3> QED  BY <2>1, <3>2
  <2> QED  BY <2>2, <2>3
<1>13. /\ pc' \in {"fork", "close", "read"} => i' < processes'
       /\ pc' = "done" => i' = processes'
       /\ start' = IF pc' \in {"fork", "close"} THEN Border(i') ELSE Border(processes')
  BY <1>1, <1>2 DEF IntInv
<1> QED  BY <1>1, <1>3, <1>8, <1>9, <1>11, <1>12, <1>13 DEF IntInv

LEMMA IntInitially ==
    ASSUME I!Sizes, I!Init
    PROVE  IntInv
<1>1. I!TypeOK
  <2>1. 0 \in 0..Span /\ 0 \in 0..processes
    BY DEF I!Sizes, I!Init
  <2>2. part \in [I!Workers -> (0..Span) \X (0..Span)]
    BY <2>1 DEF I!Init, I!NoPart
  <2>3. result \in [I!Cells -> Nat]
    BY DEF I!Init
  <2> QED  BY <2>1, <2>2, <2>3 DEF I!Init, I!TypeOK
<1>2. Border(0) = 0 /\ Started = 0 /\ Summed = 0 /\ processes \in Nat \ {0}
  BY <1>1, Borders DEF I!Init, I!TypeOK, Started, Summed
<1>3. \A x \in I!Cells: ~(x < 0)
  BY DEF I!Cells
<1>4. \A j \in I!Workers: ~(j < 0)
  BY DEF I!Workers
<1> QED  BY <1>1, <1>2, <1>3, <1>4 DEF I!Init, IntInv

\* The parts follow one another from the left border on; without a death each
\* cell up to the end of the last part is counted once and fewer are left out
\* than all processes cover in one interval; with deaths the shares of the
\* children that wrote are still in the sum.  For every range and number of
\* processes, and every width, positive or not.
THEOREM SumIsRight ==
    ASSUME I!Sizes
    PROVE  I!Spec => [](I!TypeOK /\ SumRight)
<1>1. IntInv /\ UNCHANGED I!vars => IntInv'
  <2> SUFFICES ASSUME IntInv, UNCHANGED I!vars PROVE IntInv'
    OBVIOUS
  <2>1. UNCHANGED <<width, processes, pc, i, start, part, worker, holds, result, partial, garbage>>
    BY DEF I!vars
  <2>2. /\ \A j: Border(j)' = Border(j)
        /\ I!Workers' = I!Workers /\ I!Cells' = I!Cells
        /\ Started' = Started /\ Summed' = Summed
    BY <2>1, BordersStay DEF Started, Summed
  <2>3. I!TypeOK'
    BY <2>1 DEF IntInv, I!TypeOK, I!Workers, I!Cells
  <2> QED  BY <2>1, <2>2, <2>3 DEF IntInv
<1>2. IntInv /\ [I!Next]_I!vars => IntInv'
  BY <1>1, IntForkStep, IntCloseStep, IntChildStep, IntReadStep DEF I!Next, I!Parent
<1>3. IntInv => I!TypeOK /\ SumRight
  <2> SUFFICES ASSUME IntInv PROVE I!TypeOK /\ I!SumRight
    BY DEF SumRight
  <2>1. I!TypeOK /\ processes \in Nat
    BY DEF IntInv, I!TypeOK
  <2>2. \A j \in I!Forked: j \in I!Workers /\ part[j] = <<Border(j), Border(j + 1)>>
    BY DEF I!Forked, IntInv
  <2>3. I!PartsConsecutive
    <3> SUFFICES ASSUME NEW j \in I!Forked
                 PROVE  /\ part[j][1] <= part[j][2]
                        /\ part[j][1] = IF j = 0 THEN 0 ELSE part[j - 1][2]
      BY DEF I!PartsConsecutive
    <3>1. j \in Nat /\ part[j] = <<Border(j), Border(j + 1)>> /\ j < Started
      BY <2>2, ChildIndices DEF I!Forked, IntInv
    <3>2. Border(j) <= Border(j + 1) /\ Border(0) = 0
      BY <2>1, <3>1, Borders
    <3>3. ASSUME j # 0
          PROVE  part[j - 1] = <<Border(j - 1), Border(j)>>
      <4>1. j - 1 \in I!Workers /\ (j - 1) + 1 = j
        BY <2>2, <3>1, <3>3 DEF I!Workers, I!Forked, I!Sizes
      <4>2. Started \in Nat
        BY <2>1 DEF Started, I!TypeOK
      <4> QED  BY <3>1, <4>1, <4>2 DEF IntInv
    <3> QED  BY <3>1, <3>2, <3>3
  <2>4. I!ResultExact
    <3> SUFFICES ASSUME pc = "done", \A j \in I!Workers: worker[j] # "died"
                 PROVE  /\ \A x \in I!Cells: result[x] = IF x < start THEN 1 ELSE 0
                        /\ width > 0 => Span - start < processes * width
      BY DEF I!ResultExact
    <3>1. start = Border(processes) /\ Summed = processes
      BY DEF IntInv, Summed
    <3>2. width > 0 => Span - start < processes * width
      BY <2>1, <3>1, LeftOut
    <3> QED  BY <3>1, <3>2 DEF IntInv
  <2>5. I!SharesCounted
    <3> SUFFICES ASSUME pc = "done", NEW j \in I!Forked, worker[j] = "wrote",
                        NEW x \in I!integrate(part[j])
                 PROVE  result[x] >= 1
      BY DEF I!SharesCounted
    <3>1. /\ j \in I!Workers /\ x \in I!Cells
          /\ Border(j) <= x /\ x < Border(j + 1)
      <4>1. /\ j \in I!Workers /\ j \in Nat /\ part[j] = <<Border(j), Border(j + 1)>>
            /\ Span \in Nat /\ MaxWidth \in Nat
        BY <2>2, ChildIndices DEF I!Sizes
      <4>2. Border(j) \in 0..Span /\ Border(j + 1) \in 0..Span
        BY <2>1, <4>1, Borders
      <4>3. width > 0 \/ Border(j + 1) <= Border(j)
        BY <4>1 DEF IntInv
      <4>4. x \in Border(j)..(Border(j + 1) - 1)
        BY <2>1, <4>1, <4>2, <4>3, Covered
      <4> QED  BY <4>1, <4>2, <4>4 DEF I!Cells
    <3>2. j < Summed
      BY DEF IntInv, Summed, Started, I!Forked
    <3> QED  BY <3>1, <3>2 DEF IntInv
  <2> QED  BY <2>1, <2>3, <2>4, <2>5 DEF I!SumRight
<1> QED  BY IntInitially, <1>2, <1>3, PTL DEF I!Spec

-----------------------------------------------------------------------------
(* NamedPipes: who reads whose result                                      *)

\* What a pipe holds, and that it holds nothing twice.
Elems(s) == {s[n]: n \in DOMAIN s}
Distinct(s) == \A a, b \in DOMAIN s: s[a] = s[b] => a = b

LEMMA EmptyPipe == Elems(<<>>) = {} /\ Distinct(<<>>)
  BY DEF Elems, Distinct

LEMMA PipeRead ==
    ASSUME NEW S, NEW s \in Seq(S), s # <<>>, Distinct(s)
    PROVE  /\ Head(s) \in S /\ Tail(s) \in Seq(S) /\ Distinct(Tail(s))
           /\ Elems(s) = {Head(s)} \cup Elems(Tail(s)) /\ Head(s) \notin Elems(Tail(s))
<1>1. /\ Len(s) \in Nat \ {0} /\ DOMAIN s = 1..Len(s) /\ Head(s) = s[1]
      /\ s[1] \in S /\ Tail(s) \in Seq(S) /\ DOMAIN Tail(s) = 1..(Len(s) - 1)
      /\ \A n \in 1..(Len(s) - 1): Tail(s)[n] = s[n + 1]
  <2>1. Len(s) \in Nat \ {0} /\ DOMAIN s = 1..Len(s)
    BY EmptySeq, LenProperties
  <2>2. /\ Head(s) = s[1] /\ Tail(s) \in Seq(S) /\ Len(Tail(s)) = Len(s) - 1
        /\ \A n \in 1..Len(Tail(s)): Tail(s)[n] = s[n + 1]
    BY HeadTailProperties
  <2>3. DOMAIN Tail(s) = 1..Len(Tail(s))
    BY <2>2, LenProperties
  <2>4. s[1] \in S
    BY <2>1, ElementOfSeq
  <2> QED  BY <2>1, <2>2, <2>3, <2>4
<1>2. Distinct(Tail(s)) /\ Head(s) \notin Elems(Tail(s))
  <2>1. ASSUME NEW a \in 1..(Len(s) - 1), NEW b \in 1..(Len(s) - 1), Tail(s)[a] = Tail(s)[b]
        PROVE  a = b
    <3>1. a + 1 \in DOMAIN s /\ b + 1 \in DOMAIN s /\ s[a + 1] = s[b + 1]
      BY <1>1, <2>1
    <3>2. a + 1 = b + 1
      BY <3>1 DEF Distinct
    <3> QED  BY <3>2
  <2>2. ASSUME NEW a \in 1..(Len(s) - 1), Head(s) = Tail(s)[a]
        PROVE  FALSE
    <3>1. a + 1 \in DOMAIN s /\ 1 \in DOMAIN s /\ s[a + 1] = s[1]
      BY <1>1, <2>2
    <3>2. a + 1 = 1
      BY <3>1 DEF Distinct
    <3> QED  BY <3>2
  <2> QED  BY <1>1, <2>1, <2>2 DEF Distinct, Elems
<1>3. Elems(s) = {Head(s)} \cup Elems(Tail(s))
  <2>1. ASSUME NEW n \in 1..Len(s)
        PROVE  s[n] \in {Head(s)} \cup Elems(Tail(s))
    <3>1. CASE n = 1
      BY <1>1, <3>1
    <3>2. CASE n # 1
      <4>1. n - 1 \in DOMAIN Tail(s) /\ Tail(s)[n - 1] = s[n]
        BY <1>1, <3>2
      <4> QED  BY <4>1 DEF Elems
    <3> QED  BY <3>1, <3>2
  <2>2. ASSUME NEW n \in 1..(Len(s) - 1)
        PROVE  Tail(s)[n] \in Elems(s)
    <3>1. n + 1 \in DOMAIN s /\ Tail(s)[n] = s[n + 1]
      BY <1>1
    <3> QED  BY <3>1 DEF Elems
  <2>3. Head(s) \in Elems(s)
    BY <1>1 DEF Elems
  <2> QED  BY <1>1, <2>1, <2>2, <2>3 DEF Elems
<1> QED  BY <1>1, <1>2, <1>3

LEMMA PipeWritten ==
    ASSUME NEW S, NEW s \in Seq(S), NEW e \in S, Distinct(s), e \notin Elems(s)
    PROVE  /\ Append(s, e) \in Seq(S) /\ s \o <<e>> = Append(s, e)
           /\ Distinct(Append(s, e)) /\ Elems(Append(s, e)) = Elems(s) \cup {e}
<1>1. /\ Len(s) \in Nat /\ DOMAIN s = 1..Len(s)
      /\ Append(s, e) \in Seq(S) /\ s \o <<e>> = Append(s, e)
      /\ Len(Append(s, e)) = Len(s) + 1
      /\ \A n \in 1..Len(s): Append(s, e)[n] = s[n]
      /\ Append(s, e)[Len(s) + 1] = e
  BY LenProperties, AppendProperties, AppendIsConcat
<1>2. DOMAIN Append(s, e) = 1..(Len(s) + 1)
  BY <1>1, LenProperties
<1>3. \A n \in 1..(Len(s) + 1): n \in 1..Len(s) \/ n = Len(s) + 1
  BY <1>1
<1>4. Elems(Append(s, e)) = Elems(s) \cup {e}
  <2>1. Elems(Append(s, e)) \subseteq Elems(s) \cup {e}
    BY <1>1, <1>2, <1>3 DEF Elems
  <2>2. e \in Elems(Append(s, e))
    <3>1. Len(s) + 1 \in DOMAIN Append(s, e)
      BY <1>1, <1>2
    <3> QED  BY <1>1, <3>1 DEF Elems
  <2>3. \A n \in 1..Len(s): s[n] \in Elems(Append(s, e))
    <3> SUFFICES ASSUME NEW n \in 1..Len(s) PROVE s[n] \in Elems(Append(s, e))
      OBVIOUS
    <3>1. n \in DOMAIN Append(s, e) /\ Append(s, e)[n] = s[n]
      BY <1>1, <1>2
    <3> QED  BY <3>1 DEF Elems
  <2> QED  BY <1>1, <2>1, <2>2, <2>3 DEF Elems
<1>5. Distinct(Append(s, e))
  <2> SUFFICES ASSUME NEW a \in 1..(Len(s) + 1), NEW b \in 1..(Len(s) + 1),
                      Append(s, e)[a] = Append(s, e)[b]
               PROVE  a = b
    BY <1>2 DEF Distinct
  <2>1. \A n \in 1..Len(s): s[n] # e
    BY <1>1 DEF Elems
  <2> QED  BY <1>1, <1>3, <2>1 DEF Distinct
<1> QED  BY <1>1, <1>4, <1>5

\* Whose request the service has and whose results have been read.
Held == IF service = "write" THEN {range} ELSE {}
Asked == {m \in Managers: manager[m] \in {"read", "done", "killed"}}
Asking == {m \in Managers: manager[m] = "read"}
Flying == Asking \cup Held \cup Elems(input) \cup Elems(output)

PTypes ==
    /\ exists \in BOOLEAN
    /\ service \in {"start", "openIn", "waitIn", "openOut", "waitOut", "read",
                    "write", "eof", "leave", "ended", "failed", "sigpipe"}
    /\ manager \in [Managers -> {"start", "waitIn", "openOut", "waitOut", "write",
                                 "read", "done", "failed", "sigpipe", "killed"}]
    /\ input \in Seq(Managers) /\ output \in Seq(Managers)
    /\ range \in Managers \cup {"nobody"} /\ (service = "write" => range \in Managers)
    /\ got \in [Managers -> Managers \cup {"nobody", "nothing"}]
    /\ mixed \in SUBSET Managers

\* A request is in one place: a pipe, the service, or read as a result.
OnePlace ==
    /\ Distinct(input) /\ Distinct(output)
    /\ Held \cap Elems(input) = {} /\ Held \cap Elems(output) = {}
    /\ Elems(input) \cap Elems(output) = {}
    /\ \A m \in Managers: got[m] \notin Held \cup Elems(input) \cup Elems(output)
    /\ \A m, n \in Managers: got[m] \in Managers /\ got[m] = got[n] => m = n

\* Only what was asked is there, and nothing is read before it is asked for.
OnlyAsked ==
    /\ Held \cup Elems(input) \cup Elems(output) \subseteq Asked
    /\ \A m \in Managers: got[m] \in Managers => got[m] \in Asked
    /\ \A m \in Managers: got[m] # "nothing" => manager[m] = "done"

\* The exchange of a manager that is not mixed is the only one.
Alone == \A m \in Managers \ mixed: m \in Flying => Flying = {m}

\* Who has opened both pipes has met the service.
Met ==
    \A m \in Managers: manager[m] \in {"write", "read"} =>
      service \in {"read", "write", "eof", "leave", "ended", "sigpipe"}

PInv ==
    /\ PTypes /\ OnePlace /\ OnlyAsked /\ Alone /\ Met
    /\ \A m \in Managers:
         /\ got[m] \in Managers /\ m \notin mixed => got[m] = m
         /\ got[m] = "nobody" => P!Gone

\* Whose integral does not end is decided once; the results dealt do not depend
\* on it.
Unending == endless \in SUBSET Managers

\* A step of the service or of a manager that reads and writes nothing, though
\* it may end and what is in the pipes be gone.
LEMMA FewerTokens ==
    ASSUME PInv, PTypes', Met', UNCHANGED <<range, got, mixed>>,
           input' \in {input, <<>>}, output' \in {output, <<>>},
           service' = "write" => service = "write",
           \A m \in Managers: /\ manager'[m] = "read" => manager[m] = "read"
                              /\ manager[m] = "done" => manager'[m] = "done"
                              /\ manager[m] \in {"read", "killed"} =>
                                   manager'[m] \in {"read", "done", "killed"},
           P!Gone => P!Gone'
    PROVE  PInv'
<1>1. /\ Distinct(input)' /\ Elems(input)' \subseteq Elems(input)
      /\ Distinct(output)' /\ Elems(output)' \subseteq Elems(output)
  BY EmptyPipe DEF PInv, OnePlace, Distinct, Elems
<1>2. Held' \subseteq Held /\ Asking' \subseteq Asking /\ Asked \subseteq Asked'
  BY DEF Held, Asking, Asked
<1>3. OnePlace'
  BY <1>1, <1>2 DEF PInv, OnePlace
<1>4. OnlyAsked'
  BY <1>1, <1>2 DEF PInv, OnlyAsked
<1>5. Flying' \subseteq Flying
  BY <1>1, <1>2 DEF Flying
<1>6. Alone'
  BY <1>5 DEF PInv, Alone
<1> QED  BY <1>3, <1>4, <1>6 DEF PInv

\* A manager opens a pipe or ends.
LEMMA OneManager ==
    ASSUME PTypes, NEW m \in Managers,
           NEW k \in {"waitIn", "openOut", "waitOut", "write", "read", "done",
                      "failed", "sigpipe", "killed"},
           manager' = [manager EXCEPT ![m] = k]
    PROVE  /\ manager' \in [Managers -> {"start", "waitIn", "openOut", "waitOut", "write",
                                         "read", "done", "failed", "sigpipe", "killed"}]
           /\ \A n \in Managers: manager'[n] = IF n = m THEN k ELSE manager[n]
  BY DEF PTypes

\* The service opens and closes the pipes.
LEMMA ServiceAlone ==
    ASSUME PInv, P!MakePipes \/ P!OpenInput \/ P!OpenOutput \/ P!SeeEof
                   \/ P!CloseInput \/ P!CloseOutput
    PROVE  PInv'
<1>1. PTypes /\ Met
  BY DEF PInv
<1>2. CASE P!MakePipes \/ P!SeeEof \/ P!CloseInput \/ P!CloseOutput
  <2>1. /\ UNCHANGED <<manager, range, got, mixed>> /\ exists' \in BOOLEAN
        /\ input' \in {input, <<>>} /\ output' \in {output, <<>>}
        /\ \/ service = "start" /\ service' \in {"openIn", "failed"}
           \/ service = "read" /\ service' = "eof"
           \/ service = "eof" /\ service' = "leave"
           \/ service = "leave" /\ service' = "ended"
    BY <1>1, <1>2 DEF P!MakePipes, P!SeeEof, P!CloseInput, P!CloseOutput, PTypes
  <2>2. PTypes'
    BY <1>1, <2>1, EmptySeq DEF PTypes
  <2>3. Met' /\ (P!Gone => P!Gone') /\ (service' = "write" => service = "write")
    BY <1>1, <2>1 DEF Met, P!Gone
  <2> QED  BY <2>1, <2>2, <2>3, FewerTokens
<1>3. CASE P!OpenInput
  <2>1. /\ service = "openIn" /\ service' \in {"waitIn", "openOut"}
        /\ manager' = P!Released("waitIn", "openOut")
        /\ UNCHANGED <<exists, input, output, range, got, mixed>>
    BY <1>3 DEF P!OpenInput
  <2>2. \A m \in Managers: manager'[m] = IF manager[m] = "waitIn" THEN "openOut" ELSE manager[m]
    BY <2>1 DEF P!Released
  <2>3. PTypes'
    BY <1>1, <2>1 DEF PTypes, P!Released
  <2>4. Met' /\ (P!Gone => P!Gone') /\ (service' = "write" => service = "write")
    BY <1>1, <2>1, <2>2 DEF Met, P!Gone
  <2> QED  BY <2>1, <2>2, <2>3, <2>4, FewerTokens
<1>4. CASE P!OpenOutput
  <2>1. /\ service = "openOut" /\ service' = IF P!OutReaders = {} THEN "waitOut" ELSE "read"
        /\ manager' = P!Released("waitOut", "write")
        /\ UNCHANGED <<exists, input, output, range, got, mixed>>
    BY <1>4 DEF P!OpenOutput
  <2>2. \A m \in Managers: manager'[m] = IF manager[m] = "waitOut" THEN "write" ELSE manager[m]
    BY <2>1 DEF P!Released
  <2>3. PTypes'
    BY <1>1, <2>1 DEF PTypes, P!Released
  <2>4. Met' /\ (P!Gone => P!Gone') /\ (service' = "write" => service = "write")
    BY <1>1, <2>1, <2>2 DEF Met, P!Gone, P!OutReaders
  <2> QED  BY <2>1, <2>2, <2>3, <2>4, FewerTokens
<1> QED  BY <1>2, <1>3, <1>4

\* The service takes the request at the head of the pipe.
LEMMA ReadRequestStep ==
    ASSUME PInv, P!ReadRequest
    PROVE  PInv'
<1>1. /\ service = "read" /\ service' = "write" /\ input # <<>>
      /\ range' = Head(input) /\ input' = Tail(input)
      /\ UNCHANGED <<exists, manager, output, got, mixed>> /\ PTypes
  BY DEF PInv, P!ReadRequest, P!Request
<1>2. /\ Head(input) \in Managers /\ Tail(input) \in Seq(Managers) /\ Distinct(Tail(input))
      /\ Elems(input) = {Head(input)} \cup Elems(Tail(input))
      /\ Head(input) \notin Elems(Tail(input))
  BY <1>1, PipeRead DEF PTypes, PInv, OnePlace
<1>3. /\ Held = {} /\ Held' = {Head(input)} /\ Elems(input)' = Elems(Tail(input))
      /\ Distinct(input)' /\ Asking' = Asking /\ Asked' = Asked
      /\ Elems(output)' = Elems(output) /\ (Distinct(output) => Distinct(output)')
  BY <1>1, <1>2 DEF Held, Elems, Distinct, Asking, Asked
<1>4. PTypes'
  BY <1>1, <1>2 DEF PTypes
<1>5. OnePlace'
  BY <1>1, <1>2, <1>3 DEF PInv, OnePlace
<1>6. OnlyAsked'
  BY <1>1, <1>2, <1>3 DEF PInv, OnlyAsked
<1>7. Flying' = Flying
  BY <1>2, <1>3 DEF Flying
<1>8. Alone' /\ Met'
  BY <1>1, <1>7 DEF PInv, Alone, Met
<1>9. ~P!Gone
  BY <1>1 DEF P!Gone
<1> QED  BY <1>1, <1>4, <1>5, <1>6, <1>8, <1>9 DEF PInv

\* The service answers into the other pipe, or dies of SIGPIPE.
LEMMA WriteResultStep ==
    ASSUME PInv, P!WriteResult
    PROVE  PInv'
<1>1. /\ service = "write" /\ PTypes /\ range \in Managers /\ Held = {range}
      /\ UNCHANGED <<exists, manager, range, got, mixed>>
  BY DEF PInv, PTypes, P!WriteResult, Held
<1>2. CASE P!OutReaders = {}
  <2>1. /\ service' = "sigpipe" /\ input' \in {input, <<>>} /\ output' \in {output, <<>>}
    BY <1>2 DEF P!WriteResult
  <2>2. PTypes' /\ Met' /\ (P!Gone => P!Gone')
    BY <1>1, <2>1, EmptySeq DEF PTypes, Met, P!Gone
  <2> QED  BY <1>1, <2>1, <2>2, FewerTokens
<1>3. CASE P!OutReaders # {}
  <2>1. service' = "read" /\ output' = output \o <<range>> /\ input' = input
    BY <1>3 DEF P!WriteResult, P!Answer
  <2>2. range \notin Elems(output) /\ Distinct(output)
    BY <1>1 DEF PInv, OnePlace
  <2>3. /\ output' \in Seq(Managers) /\ Distinct(output') /\ Elems(output') = Elems(output) \cup {range}
    <3>1. output \in Seq(Managers)
      BY <1>1 DEF PTypes
    <3>2. /\ Append(output, range) \in Seq(Managers) /\ output \o <<range>> = Append(output, range)
          /\ Distinct(Append(output, range))
          /\ Elems(Append(output, range)) = Elems(output) \cup {range}
      BY <1>1, <2>2, <3>1, PipeWritten
    <3> QED  BY <2>1, <3>2
  <2>4. /\ Held' = {} /\ Asking' = Asking /\ Asked' = Asked /\ Elems(input)' = Elems(input)
        /\ Elems(output)' = Elems(output) \cup {range} /\ Distinct(output)'
        /\ (Distinct(input) => Distinct(input)')
    BY <1>1, <2>1, <2>3 DEF Held, Elems, Distinct, Asking, Asked
  <2>5. PTypes'
    BY <1>1, <2>1, <2>3 DEF PTypes
  <2>6. OnePlace'
    BY <1>1, <2>4 DEF PInv, OnePlace
  <2>7. OnlyAsked'
    BY <1>1, <2>4 DEF PInv, OnlyAsked
  <2>8. Flying' = Flying
    BY <1>1, <2>4 DEF Flying
  <2>9. Alone' /\ Met'
    BY <1>1, <2>1, <2>8 DEF PInv, Alone, Met
  <2>10. ~P!Gone
    BY <1>1 DEF P!Gone
  <2> QED  BY <1>1, <2>5, <2>6, <2>7, <2>9, <2>10 DEF PInv
<1> QED  BY <1>2, <1>3

\* The managers that open the pipes.
LEMMA OpenStep ==
    ASSUME PInv, NEW m \in Managers, P!OpenRequests(m) \/ P!OpenResults(m)
    PROVE  PInv'
<1>1. PTypes /\ Met /\ UNCHANGED <<exists, input, output, range, got, mixed>>
  BY DEF PInv, P!OpenRequests, P!OpenResults
<1>2. CASE P!OpenRequests(m)
  <2>1. PICK k \in {"failed", "openOut", "waitIn"}: manager' = [manager EXCEPT ![m] = k]
    BY <1>2 DEF P!OpenRequests
  <2>2. /\ manager[m] = "start"
        /\ service' = service \/ (service = "waitIn" /\ service' = "openOut")
    BY <1>2 DEF P!OpenRequests
  <2>3. PTypes'
    BY <1>1, <2>1, <2>2 DEF PTypes
  <2>4. \A n \in Managers: manager'[n] = IF n = m THEN k ELSE manager[n]
    BY <1>1, <2>1, OneManager
  <2>5. Met' /\ (P!Gone => P!Gone') /\ (service' = "write" => service = "write")
    BY <1>1, <2>1, <2>2, <2>4 DEF Met, P!Gone
  <2> QED  BY <1>1, <2>1, <2>2, <2>3, <2>4, <2>5, FewerTokens
<1>3. CASE P!OpenResults(m)
  <2>1. /\ manager[m] = "openOut"
        /\ manager' = [manager EXCEPT ![m] = IF P!OutWriter THEN "write" ELSE "waitOut"]
        /\ service' = IF service = "waitOut" THEN "read" ELSE service
    BY <1>3 DEF P!OpenResults
  <2>2. \A n \in Managers: manager'[n] = IF n = m THEN IF P!OutWriter THEN "write" ELSE "waitOut"
                                         ELSE manager[n]
    BY <1>1, <2>1 DEF PTypes
  <2>3. PTypes'
    BY <1>1, <2>1 DEF PTypes
  <2>4. Met' /\ (P!Gone => P!Gone') /\ (service' = "write" => service = "write")
    BY <1>1, <2>1, <2>2 DEF Met, P!Gone, P!OutWriter
  <2> QED  BY <1>1, <2>1, <2>2, <2>3, <2>4, FewerTokens
<1> QED  BY <1>2, <1>3

\* A manager is killed, or dies of SIGPIPE when it asks.
LEMMA LeaveStep ==
    ASSUME PInv, NEW m \in Managers, NEW k \in {"sigpipe", "killed"},
           P!Leave(m, input, output, k), UNCHANGED <<exists, service, range, got, mixed>>,
           \/ manager[m] = "write"
           \/ k = "killed" /\ manager[m] \in {"waitIn", "openOut", "waitOut", "read"}
    PROVE  PInv'
<1>1. /\ PTypes /\ Met /\ manager' = [manager EXCEPT ![m] = k]
      /\ input' \in {input, <<>>} /\ output' \in {output, <<>>}
  BY DEF PInv, P!Leave
<1>2. \A n \in Managers: manager'[n] = IF n = m THEN k ELSE manager[n]
  BY <1>1, OneManager
<1>3. PTypes'
  BY <1>1, EmptySeq DEF PTypes
<1>4. Met' /\ (P!Gone => P!Gone')
  BY <1>1, <1>2 DEF Met, P!Gone
<1> QED  BY <1>1, <1>2, <1>3, <1>4, FewerTokens

\* A request is written: either nothing else is on the way or all that is, is
\* mixed with it.
LEMMA WriteRequestStep ==
    ASSUME PInv, NEW m \in Managers, P!WriteRequest(m)
    PROVE  PInv'
<1>1. PTypes /\ manager[m] = "write" /\ UNCHANGED <<exists, service, range, got>>
  BY DEF PInv, P!WriteRequest
<1>2. CASE ~P!InReader
  BY <1>1, <1>2, LeaveStep DEF P!WriteRequest
<1>3. CASE P!InReader
  <2>1. /\ manager' = [manager EXCEPT ![m] = "read"] /\ input' = Append(input, m)
        /\ mixed' = IF P!InFlight = {} THEN mixed ELSE mixed \cup P!InFlight \cup {m}
        /\ output' = output
    BY <1>3 DEF P!WriteRequest
  <2>2. P!InFlight = Flying
    BY DEF P!InFlight, Flying, Asking, Held, Elems
  <2>3. /\ m \notin Held \cup Elems(input) \cup Elems(output) /\ got[m] = "nothing"
        /\ \A n \in Managers: got[n] # m
    BY <1>1 DEF PInv, OnlyAsked, Asked
  <2>4. /\ Append(input, m) \in Seq(Managers) /\ Distinct(Append(input, m))
        /\ Elems(Append(input, m)) = Elems(input) \cup {m}
    BY <1>1, <2>3, PipeWritten DEF PTypes, PInv, OnePlace
  <2>5. \A n \in Managers: manager'[n] = IF n = m THEN "read" ELSE manager[n]
    BY <1>1, <2>1, OneManager
  <2>6. /\ Held' = Held /\ Elems(input)' = Elems(input) \cup {m} /\ Distinct(input)'
        /\ Elems(output)' = Elems(output) /\ (Distinct(output) => Distinct(output)')
        /\ Asking' = Asking \cup {m} /\ Asked' = Asked \cup {m}
    BY <1>1, <2>1, <2>4, <2>5 DEF Held, Elems, Distinct, Asking, Asked
  <2>7. Flying' = Flying \cup {m} /\ Flying \subseteq Managers
    BY <1>1, <2>6 DEF Flying, PInv, OnlyAsked, Asked, Asking
  <2>8. PTypes'
    BY <1>1, <2>1, <2>2, <2>4, <2>7 DEF PTypes
  <2>9. OnePlace'
    BY <1>1, <2>3, <2>6 DEF PInv, OnePlace
  <2>10. OnlyAsked'
    BY <1>1, <2>3, <2>5, <2>6 DEF PInv, OnlyAsked
  <2>11. Alone'
    BY <2>1, <2>2, <2>7 DEF PInv, Alone
  <2>12. Met'
    BY <1>1, <2>5 DEF PInv, Met
  <2>13. mixed \subseteq mixed' /\ P!Gone' = P!Gone
    BY <1>1, <2>1 DEF P!Gone
  <2> QED  BY <1>1, <2>8, <2>9, <2>10, <2>11, <2>12, <2>13 DEF PInv
<1> QED  BY <1>2, <1>3

\* A manager reads the result at the head of the pipe, or finds it closed.
LEMMA ReadResultStep ==
    ASSUME P!Sizes, PInv, NEW m \in Managers, P!ReadResult(m)
    PROVE  PInv'
<1>1. /\ PTypes /\ manager[m] = "read" /\ UNCHANGED <<exists, service, range, mixed>>
      /\ manager' = [manager EXCEPT ![m] = "done"] /\ input' \in {input, <<>>}
      /\ "nobody" \notin Managers /\ "nothing" \notin Managers
  BY DEF PInv, P!ReadResult, P!Leave, P!Sizes
<1>2. \A n \in Managers: manager'[n] = IF n = m THEN "done" ELSE manager[n]
  BY <1>1, OneManager
<1>3. Held' = Held /\ Asking' \subseteq Asking /\ Asked' = Asked
  BY <1>1, <1>2 DEF Held, Asking, Asked
<1>4. input' \in Seq(Managers) /\ Distinct(input)' /\ Elems(input)' \subseteq Elems(input)
  <2>1. input' \in Seq(Managers)
    BY <1>1, EmptySeq DEF PTypes
  <2>2. Distinct(input)' /\ Elems(input)' \subseteq Elems(input)
    BY <1>1, EmptyPipe DEF PInv, OnePlace, Distinct, Elems
  <2> QED  BY <2>1, <2>2
<1>5. Met' /\ P!Gone' = P!Gone
  BY <1>1, <1>2 DEF PInv, Met, P!Gone
<1>6. CASE output # <<>> /\ got' = [got EXCEPT ![m] = Head(output)] /\ output' \in {Tail(output), <<>>}
  <2>1. /\ Head(output) \in Managers /\ Tail(output) \in Seq(Managers) /\ Distinct(Tail(output))
        /\ Elems(output) = {Head(output)} \cup Elems(Tail(output))
        /\ Head(output) \notin Elems(Tail(output))
    BY <1>1, <1>6, PipeRead DEF PTypes, PInv, OnePlace
  <2>2. /\ output' \in Seq(Managers) /\ Distinct(output')
        /\ Elems(output') \subseteq Elems(Tail(output))
    BY <1>6, <2>1, EmptySeq, EmptyPipe
  <2>3. Distinct(output)' /\ Elems(output)' \subseteq Elems(output) \ {Head(output)}
    BY <2>1, <2>2 DEF Distinct, Elems
  <2>4. \A n \in Managers: got'[n] = IF n = m THEN Head(output) ELSE got[n]
    BY <1>1, <1>6 DEF PTypes
  <2>5. PTypes'
    BY <1>1, <1>4, <1>6, <2>1, <2>2 DEF PTypes
  <2>6. OnePlace'
    BY <1>3, <1>4, <2>1, <2>3, <2>4 DEF PInv, OnePlace
  <2>7. OnlyAsked'
    BY <1>2, <1>3, <1>4, <2>1, <2>3, <2>4 DEF PInv, OnlyAsked
  <2>8. Flying' \subseteq Flying
    BY <1>3, <1>4, <2>3 DEF Flying
  <2>9. Alone'
    BY <1>1, <2>8 DEF PInv, Alone
  <2>10. m \notin mixed => Head(output) = m
    <3>1. m \in Flying /\ Head(output) \in Flying
      BY <1>1, <2>1 DEF Flying, Asking
    <3> QED  BY <3>1 DEF PInv, Alone
  <2> QED  BY <1>1, <1>5, <2>1, <2>4, <2>5, <2>6, <2>7, <2>9, <2>10 DEF PInv
<1>7. CASE ~P!OutWriter /\ got' = [got EXCEPT ![m] = "nobody"] /\ output' \in {output, <<>>}
  <2>1. \A n \in Managers: got'[n] = IF n = m THEN "nobody" ELSE got[n]
    BY <1>1, <1>7 DEF PTypes
  <2>2. output' \in Seq(Managers) /\ Distinct(output)' /\ Elems(output)' \subseteq Elems(output)
    <3>1. output' \in Seq(Managers)
      BY <1>1, <1>7, EmptySeq DEF PTypes
    <3>2. Distinct(output)' /\ Elems(output)' \subseteq Elems(output)
      BY <1>7, EmptyPipe DEF PInv, OnePlace, Distinct, Elems
    <3> QED  BY <3>1, <3>2
  <2>3. PTypes'
    BY <1>1, <1>4, <1>7, <2>2 DEF PTypes
  <2>4. Held \cup Elems(input) \cup Elems(output) \subseteq Managers
    BY DEF PInv, OnlyAsked, Asked
  <2>5. OnePlace'
    BY <1>1, <1>3, <1>4, <2>1, <2>2, <2>4 DEF PInv, OnePlace
  <2>6. OnlyAsked'
    BY <1>1, <1>2, <1>3, <1>4, <2>1, <2>2 DEF PInv, OnlyAsked
  <2>7. Flying' \subseteq Flying
    BY <1>3, <1>4, <2>2 DEF Flying
  <2>8. Alone'
    BY <1>1, <2>7 DEF PInv, Alone
  <2>9. P!Gone
    BY <1>1, <1>7 DEF PInv, Met, P!OutWriter, P!Gone
  <2> QED  BY <1>1, <1>5, <2>1, <2>3, <2>5, <2>6, <2>8, <2>9 DEF PInv
<1>8. \/ output # <<>> /\ got' = [got EXCEPT ![m] = Head(output)] /\ output' \in {Tail(output), <<>>}
      \/ ~P!OutWriter /\ got' = [got EXCEPT ![m] = "nobody"] /\ output' \in {output, <<>>}
  BY DEF P!ReadResult, P!Leave, P!Nobody
<1> QED  BY <1>6, <1>7, <1>8

LEMMA SameCountingOfManagers ==
    \A T: /\ P!IsFiniteSet(T) <=> IsFiniteSet(T)
          /\ P!Cardinality(T) = Cardinality(T)
<1>1. \A T: P!IsFiniteSet(T) <=> IsFiniteSet(T)
  BY DEF P!IsFiniteSet, IsFiniteSet
<1>2. \A T: P!Cardinality(T) = Cardinality(T)
  BY Zenon DEF P!Cardinality, Cardinality
<1> QED  BY <1>1, <1>2

\* There are no more requests and results than managers.
LEMMA PipesFit ==
    ASSUME P!Sizes, PInv
    PROVE  Len(input) + Len(output) <= P!Cardinality(Managers)
<1> DEFINE both == input \o output
<1>1. /\ input \in Seq(Managers) /\ output \in Seq(Managers)
      /\ Len(input) \in Nat /\ Len(output) \in Nat
      /\ DOMAIN input = 1..Len(input) /\ DOMAIN output = 1..Len(output)
  BY LenProperties DEF PInv, PTypes
<1>2. /\ both \in Seq(Managers) /\ Len(both) = Len(input) + Len(output)
      /\ \A n \in 1..(Len(input) + Len(output)):
           both[n] = IF n <= Len(input) THEN input[n] ELSE output[n - Len(input)]
  BY <1>1, ConcatProperties
<1>3. ASSUME NEW a \in 1..Len(both), NEW b \in 1..Len(both), both[a] = both[b]
      PROVE  a = b
  <2>1. /\ Distinct(input) /\ Distinct(output) /\ Elems(input) \cap Elems(output) = {}
    BY DEF PInv, OnePlace
  <2>2. \A n \in 1..Len(both):
          \/ n \in DOMAIN input /\ both[n] = input[n] /\ both[n] \in Elems(input)
          \/ /\ n - Len(input) \in DOMAIN output /\ both[n] = output[n - Len(input)]
             /\ both[n] \in Elems(output)
    <3> SUFFICES ASSUME NEW n \in 1..Len(both)
                 PROVE  \/ n \in DOMAIN input /\ both[n] = input[n] /\ both[n] \in Elems(input)
                        \/ /\ n - Len(input) \in DOMAIN output /\ both[n] = output[n - Len(input)]
                           /\ both[n] \in Elems(output)
      OBVIOUS
    <3> HIDE DEF both
    <3>1. CASE n <= Len(input)
      <4>1. n \in DOMAIN input /\ both[n] = input[n]
        BY <1>1, <1>2, <3>1
      <4> QED  BY <4>1 DEF Elems
    <3>2. CASE ~(n <= Len(input))
      <4>1. n - Len(input) \in DOMAIN output /\ both[n] = output[n - Len(input)]
        BY <1>1, <1>2, <3>2
      <4> QED  BY <4>1 DEF Elems
    <3> QED  BY <3>1, <3>2
  <2> HIDE DEF both
  <2>3. CASE a \in DOMAIN input /\ both[a] = input[a] /\ both[a] \in Elems(input)
    BY <1>3, <2>1, <2>2, <2>3 DEF Distinct
  <2>4. CASE /\ a - Len(input) \in DOMAIN output /\ both[a] = output[a - Len(input)]
             /\ both[a] \in Elems(output)
    <3>1. b - Len(input) \in DOMAIN output /\ both[b] = output[b - Len(input)]
      BY <1>3, <2>1, <2>2, <2>4
    <3>2. a - Len(input) = b - Len(input)
      BY <1>3, <2>1, <2>4, <3>1 DEF Distinct
    <3> QED  BY <1>1, <1>2, <3>2
  <2> QED  BY <2>2, <2>3, <2>4
<1> HIDE DEF both
<1>4. IsFiniteSet(Managers)
  BY SameCountingOfManagers DEF P!Sizes
<1>5. Len(both) <= Cardinality(Managers)
  BY <1>2, <1>3, <1>4, Pigeons
<1> QED  BY <1>2, <1>5, SameCountingOfManagers

LEMMA PipesInitially ==
    ASSUME P!Sizes, P!Init
    PROVE  PInv
<1>1. /\ input = <<>> /\ output = <<>> /\ service = "start" /\ range = "nobody" /\ mixed = {}
      /\ \A m \in Managers: manager[m] = "start" /\ got[m] = "nothing"
      /\ "nobody" \notin Managers /\ "nothing" \notin Managers
  BY DEF P!Init, P!Nobody, P!Nothing, P!Sizes
<1>2. PTypes
  BY <1>1, EmptySeq DEF P!Init, PTypes, P!Nobody, P!Nothing
<1>3. Held = {} /\ Elems(input) = {} /\ Elems(output) = {} /\ Asking = {} /\ Flying = {}
      /\ Distinct(input) /\ Distinct(output)
  BY <1>1, EmptyPipe DEF Held, Asking, Flying
<1>4. OnePlace /\ OnlyAsked /\ Alone /\ Met
  BY <1>1, <1>3 DEF OnePlace, OnlyAsked, Alone, Met
<1> QED  BY <1>1, <1>2, <1>4 DEF PInv

\* A manager whose exchange was not mixed with another's reads its own result,
\* no result is read twice, and who reads none finds the service gone, for every
\* number of managers, of which any may be killed at any time.
THEOREM OwnResults ==
    ASSUME P!Sizes
    PROVE  P!Spec => [](P!TypeOK /\ ResultsDealt)
<1>1. PInv /\ UNCHANGED P!vars => PInv'
  <2> SUFFICES ASSUME PInv, UNCHANGED P!vars PROVE PInv'
    OBVIOUS
  <2>1. PTypes' /\ Met' /\ P!Gone' = P!Gone
    BY DEF PInv, P!vars, PTypes, Met, P!Gone
  <2> QED  BY <2>1, FewerTokens DEF P!vars
<1>2. ASSUME PInv, NEW m \in Managers, P!Kill(m) PROVE PInv'
  BY <1>2, LeaveStep DEF P!Kill
<1>3. PInv /\ [P!Next]_P!vars => PInv'
  BY <1>1, <1>2, ServiceAlone, ReadRequestStep, WriteResultStep, OpenStep, WriteRequestStep,
     ReadResultStep DEF P!Next, P!Service, P!Manager
<1>4. P!Init => Unending
  BY DEF P!Init, Unending
<1>5. [P!Next]_P!vars => endless' = endless
  BY DEF P!Next, P!vars, P!Service, P!MakePipes, P!OpenInput, P!OpenOutput, P!ReadRequest,
     P!SeeEof, P!WriteResult, P!CloseInput, P!CloseOutput, P!Manager, P!OpenRequests,
     P!OpenResults, P!WriteRequest, P!ReadResult, P!Kill
<1>6. Unending /\ [P!Next]_P!vars => Unending'
  BY <1>5 DEF Unending
<1>7. PInv /\ Unending => P!TypeOK /\ ResultsDealt
  <2> SUFFICES ASSUME PInv, Unending PROVE P!TypeOK /\ P!ResultsDealt
    BY DEF ResultsDealt
  <2>1. P!TypeOK
    BY PipesFit DEF PInv, PTypes, Unending, P!TypeOK, P!Nobody, P!Nothing
  <2>2. P!ResultsDealt
    BY DEF PInv, OnePlace, P!ResultsDealt, P!Nobody
  <2> QED  BY <2>1, <2>2
<1> QED  BY PipesInitially, <1>3, <1>4, <1>6, <1>7, PTL DEF P!Spec

-----------------------------------------------------------------------------
(* Reverse: the copy is the end of the file backwards                      *)

\* The bytes written are the last ones of the file, the very last one first.
Backwards ==
    /\ Len(copy) = Len(text) - size
    /\ \A k \in 1..Len(copy): copy[k] = text[Len(text) + 1 - k]

\* The file has one byte at least or is copied by buffers.
Regular == text # <<>> \/ variant = "buffer"

\* Between two steps of the loops the place in the file is the last byte not
\* copied (bytes) or its end (buffers); the first byte leaves no step back.
RInv ==
    /\ F!TypeOK
    /\ step = "begin" => size = 0 /\ pos = 0 /\ copy = <<>>
    /\ step = "loop" /\ Regular => size <= Len(text) /\ Backwards
    /\ step = "loop" /\ variant = "byte" /\ text # <<>> /\ size > 0 => pos = size - 1
    /\ step = "loop" /\ variant = "buffer" => pos = size
    /\ step = "loop" /\ ~Regular => pos = 0 /\ <<size, copy>> \in {<<1, <<>>>>, <<0, <<0>>>>}

\* Backwards is what CopyBackwards says with a sequence operator.
LEMMA BackwardsIsReverse ==
    ASSUME F!TypeOK, size <= Len(text), Backwards
    PROVE  copy = F!Reverse(SubSeq(text, size + 1, Len(text)))
<1> DEFINE rest == SubSeq(text, size + 1, Len(text))
<1>1. /\ text \in Seq(1..MaxLength) /\ copy \in Seq(0..MaxLength)
      /\ Len(text) \in Nat /\ size \in 0..Len(text)
  BY DEF F!TypeOK
<1>2. /\ Len(rest) = Len(text) - size
      /\ \A k \in 1..(Len(text) - size): rest[k] = text[size + k]
  BY <1>1
<1>3. /\ F!Reverse(rest) = [k \in 1..(Len(text) - size) |-> rest[(Len(text) - size) - k + 1]]
  BY <1>2 DEF F!Reverse
<1>4. \A k \in 1..(Len(text) - size): rest[(Len(text) - size) - k + 1] = text[Len(text) + 1 - k]
  <2> SUFFICES ASSUME NEW k \in 1..(Len(text) - size)
               PROVE  rest[(Len(text) - size) - k + 1] = text[Len(text) + 1 - k]
    OBVIOUS
  <2>1. (Len(text) - size) - k + 1 \in 1..(Len(text) - size)
        /\ size + ((Len(text) - size) - k + 1) = Len(text) + 1 - k
    BY <1>1
  <2> QED  BY <1>2, <2>1
<1>5. copy = [k \in 1..(Len(text) - size) |-> text[Len(text) + 1 - k]]
  <2>1. copy = [k \in 1..Len(copy) |-> copy[k]]
    BY <1>1
  <2> QED  BY <2>1 DEF Backwards
<1> QED  BY <1>3, <1>4, <1>5

\* One more byte, from the place before those copied already.
LEMMA OneByte ==
    ASSUME F!TypeOK, size \in 1..Len(text), Backwards, text' = text,
           size' = size - 1, copy' = Append(copy, text[size])
    PROVE  Backwards'
<1>1. copy \in Seq(0..MaxLength) /\ Len(copy) \in Nat /\ Len(text) \in Nat /\ size \in Nat
  BY DEF F!TypeOK
<1>2. /\ Len(copy') = Len(copy) + 1
      /\ \A k \in 1..Len(copy): copy'[k] = copy[k]
      /\ copy'[Len(copy) + 1] = text[size]
  BY <1>1, AppendProperties
<1>3. Len(copy) + 1 = Len(text) - size' /\ size = Len(text) + 1 - (Len(copy) + 1)
  BY <1>1 DEF Backwards
<1> QED  BY <1>1, <1>2, <1>3 DEF Backwards

\* One more buffer, which ends before the place of those copied already.
LEMMA OneBuffer ==
    ASSUME F!TypeOK, Backwards, text' = text, NEW n \in Nat, n <= size, size <= Len(text),
           size' = size - n,
           copy' = copy \o F!reverse_buffer(SubSeq(text, size - n + 1, size))
    PROVE  Backwards' /\ copy' \in Seq(0..MaxLength)
<1> DEFINE b == SubSeq(text, size - n + 1, size)
           r == F!reverse_buffer(b)
<1>1. /\ text \in Seq(1..MaxLength) /\ copy \in Seq(0..MaxLength)
      /\ Len(copy) \in Nat /\ Len(text) \in Nat /\ size \in Nat
  BY DEF F!TypeOK
<1>2. Len(b) = n /\ \A k \in 1..n: b[k] = text[size - n + k] /\ b[k] \in 0..MaxLength
  <2>1. Len(b) = n /\ \A k \in 1..n: b[k] = text[size - n + k]
    BY <1>1
  <2>2. \A k \in 1..Len(text): text[k] \in 0..MaxLength
    <3> SUFFICES ASSUME NEW k \in 1..Len(text) PROVE text[k] \in 0..MaxLength
      OBVIOUS
    <3>1. text[k] \in 1..MaxLength
      BY <1>1, ElementOfSeq
    <3> QED  BY <3>1
  <2>3. \A k \in 1..n: size - n + k \in 1..Len(text)
    BY <1>1
  <2> QED  BY <2>1, <2>2, <2>3
<1>3. r = [k \in 1..n |-> b[n + 1 - k]]
  BY <1>2 DEF F!reverse_buffer
<1>4. r \in Seq(0..MaxLength) /\ Len(r) = n /\ \A k \in 1..n: r[k] = text[size + 1 - k]
  <2>1. \A k \in 1..n: n + 1 - k \in 1..n /\ size - n + (n + 1 - k) = size + 1 - k
    BY <1>1
  <2>2. \A k \in 1..n: b[n + 1 - k] = text[size + 1 - k] /\ b[n + 1 - k] \in 0..MaxLength
    BY <1>2, <2>1
  <2>3. r \in [1..n -> 0..MaxLength]
    BY <1>3, <2>2
  <2>4. r \in Seq(0..MaxLength) /\ Len(r) = n
    BY <2>3, FunctionIsSeq
  <2> QED  BY <1>3, <2>2, <2>4
<1> HIDE DEF b, r
<1>5. copy' = copy \o r
  BY DEF b, r
<1>6. /\ copy' \in Seq(0..MaxLength) /\ Len(copy') = Len(copy) + n
      /\ \A k \in 1..Len(copy): copy'[k] = copy[k]
      /\ \A k \in (Len(copy) + 1)..(Len(copy) + n): copy'[k] = r[k - Len(copy)]
  <2>1. /\ copy \o r \in Seq(0..MaxLength) /\ Len(copy \o r) = Len(copy) + Len(r)
        /\ \A k \in 1..(Len(copy) + Len(r)):
             (copy \o r)[k] = IF k <= Len(copy) THEN copy[k] ELSE r[k - Len(copy)]
    BY <1>1, <1>4, ConcatProperties
  <2>2. \A k \in 1..Len(copy): copy'[k] = copy[k]
    BY <1>1, <1>4, <1>5, <2>1
  <2>3. \A k \in (Len(copy) + 1)..(Len(copy) + n): copy'[k] = r[k - Len(copy)]
    <3> SUFFICES ASSUME NEW k \in (Len(copy) + 1)..(Len(copy) + n)
                 PROVE  copy'[k] = r[k - Len(copy)]
      OBVIOUS
    <3>1. k \in 1..(Len(copy) + Len(r)) /\ ~(k <= Len(copy))
      BY <1>1, <1>4
    <3> QED  BY <1>5, <2>1, <3>1
  <2> QED  BY <1>4, <1>5, <2>1, <2>2, <2>3
<1>7. \A k \in (Len(copy) + 1)..(Len(copy) + n): copy'[k] = text[Len(text) + 1 - k]
  <2> SUFFICES ASSUME NEW k \in (Len(copy) + 1)..(Len(copy) + n)
               PROVE  copy'[k] = text[Len(text) + 1 - k]
    OBVIOUS
  <2>1. k - Len(copy) \in 1..n /\ size + 1 - (k - Len(copy)) = Len(text) + 1 - k
    BY <1>1 DEF Backwards
  <2> QED  BY <1>4, <1>6, <2>1
<1>8. Len(copy') = Len(text') - size'
  BY <1>1, <1>6 DEF Backwards
<1>9. \A k \in 1..Len(copy'): copy'[k] = text'[Len(text') + 1 - k]
  <2> SUFFICES ASSUME NEW k \in 1..Len(copy') PROVE copy'[k] = text'[Len(text') + 1 - k]
    OBVIOUS
  <2>1. k \in 1..Len(copy) \/ k \in (Len(copy) + 1)..(Len(copy) + n)
    BY <1>1, <1>6
  <2> QED  BY <1>6, <1>7, <2>1 DEF Backwards
<1> QED  BY <1>6, <1>8, <1>9 DEF Backwards

\* What the steps do, in a file of one byte at least.
LEMMA CopyByteStep ==
    ASSUME F!Sizes, RInv, F!CopyByte
    PROVE  RInv'
<1>1. /\ variant = "byte" /\ step = "loop" /\ size > 0
      /\ UNCHANGED <<variant, text, step>> /\ size' = size - 1
      /\ F!TypeOK /\ F!EOF = 0
  BY DEF RInv, F!CopyByte, F!EOF
<1>2. /\ text \in Seq(1..MaxLength) /\ Len(text) \in Nat /\ copy \in Seq(0..MaxLength)
      /\ size \in Nat /\ size <= Len(text) + 1 /\ MaxLength \in Nat
      /\ (text = <<>> <=> Len(text) = 0)
  BY <1>1, EmptySeq DEF F!TypeOK, F!Sizes
<1>3. CASE text # <<>>
  <2>1. Regular /\ size <= Len(text) /\ Backwards /\ pos = size - 1 /\ pos < Len(text)
    BY <1>1, <1>2, <1>3 DEF RInv, Regular
  <2>2. copy' = Append(copy, text[size]) /\ pos' = IF size = 1 THEN 1 ELSE size - 2
    BY <1>1, <1>2, <2>1 DEF F!CopyByte, F!BackTwo
  <2>3. text[size] \in 0..MaxLength
    BY <1>1, <1>2, <2>1
  <2>4. copy' \in Seq(0..MaxLength)
    BY <1>2, <2>2, <2>3, AppendProperties
  <2>5. F!TypeOK'
    BY <1>1, <1>2, <1>3, <2>1, <2>2, <2>4 DEF F!TypeOK
  <2>6. Backwards'
    BY <1>1, <1>2, <2>1, <2>2, OneByte
  <2> QED  BY <1>1, <1>2, <1>3, <2>1, <2>2, <2>5, <2>6 DEF RInv, Regular
<1>4. CASE text = <<>>
  <2>1. ~Regular /\ pos = 0 /\ size = 1 /\ copy = <<>> /\ Len(text) = 0
    BY <1>1, <1>2, <1>4 DEF RInv, Regular
  <2>2. copy' = <<0>> /\ pos' = 0 /\ size' = 0
    BY <1>1, <2>1 DEF F!CopyByte, F!BackTwo
  <2>3. F!TypeOK'
    BY <1>1, <1>2, <2>1, <2>2 DEF F!TypeOK
  <2> QED  BY <1>1, <1>4, <2>1, <2>2, <2>3 DEF RInv, Regular
<1> QED  BY <1>3, <1>4

LEMMA CopyBufferStep ==
    ASSUME F!Sizes, RInv, F!CopyBuffer
    PROVE  RInv'
<1> DEFINE n == IF size >= BUFFER_SIZE THEN BUFFER_SIZE ELSE size
<1>1. /\ variant = "buffer" /\ step = "loop" /\ size > 0
      /\ UNCHANGED <<variant, text, step>> /\ F!TypeOK
      /\ Regular /\ size <= Len(text) /\ Backwards /\ pos = size
  BY DEF RInv, F!CopyBuffer, Regular
<1>2. /\ text \in Seq(1..MaxLength) /\ Len(text) \in Nat /\ copy \in Seq(0..MaxLength)
      /\ size \in Nat /\ BUFFER_SIZE \in Nat \ {0}
  BY <1>1 DEF F!TypeOK, F!Sizes
<1>3. n \in Nat /\ n <= size /\ size - n \in Nat
  BY <1>2
<1>4. F!Sought(pos, -n) = size - n /\ (size - n) + n = size
  BY <1>1, <1>2, <1>3 DEF F!Sought
<1>5. /\ copy' = copy \o F!reverse_buffer(SubSeq(text, size - n + 1, size))
      /\ pos' = size - n /\ size' = size - n
  BY <1>1, <1>4 DEF F!CopyBuffer
<1> HIDE DEF n
<1>6. Backwards' /\ copy' \in Seq(0..MaxLength)
  BY <1>1, <1>3, <1>5, OneBuffer
<1>7. F!TypeOK'
  BY <1>1, <1>2, <1>3, <1>5, <1>6 DEF F!TypeOK
<1> QED  BY <1>1, <1>2, <1>3, <1>5, <1>6, <1>7 DEF RInv, Regular

LEMMA BeginStep ==
    ASSUME F!Sizes, RInv, F!BeginBytes \/ F!BeginBuffers
    PROVE  RInv'
<1>1. /\ step = "begin" /\ step' = "loop" /\ UNCHANGED <<variant, text, copy>>
      /\ F!TypeOK /\ size = 0 /\ pos = 0 /\ copy = <<>>
  BY DEF RInv, F!BeginBytes, F!BeginBuffers
<1>2. /\ text \in Seq(1..MaxLength) /\ Len(text) \in Nat /\ Len(copy) = 0
      /\ (text = <<>> <=> Len(text) = 0)
  BY <1>1, EmptySeq DEF F!TypeOK
<1>3. CASE F!BeginBytes
  <2>1. /\ variant = "byte" /\ size' = pos' + 1
        /\ pos' = IF Len(text) = 0 THEN 0 ELSE Len(text) - 1
    BY <1>1, <1>2, <1>3 DEF F!BeginBytes, F!Sought
  <2>2. F!TypeOK'
    BY <1>1, <1>2, <2>1 DEF F!TypeOK
  <2> QED  BY <1>1, <1>2, <2>1, <2>2 DEF RInv, Regular, Backwards
<1>4. CASE F!BeginBuffers
  <2>1. variant = "buffer" /\ pos' = Len(text) /\ size' = Len(text)
    BY <1>4 DEF F!BeginBuffers
  <2>2. F!TypeOK'
    BY <1>1, <1>2, <2>1 DEF F!TypeOK
  <2> QED  BY <1>1, <1>2, <2>1, <2>2 DEF RInv, Regular, Backwards
<1> QED  BY <1>3, <1>4

LEMMA ReverseInitially ==
    ASSUME F!Sizes, F!Init
    PROVE  RInv
<1>1. PICK n \in 0..MaxLength: text = [p \in 1..n |-> p]
  BY DEF F!Init
<1>2. text \in Seq(1..MaxLength) /\ Len(text) = n
  <2>1. text \in [1..n -> 1..MaxLength] /\ n \in Nat
    BY <1>1 DEF F!Sizes
  <2> QED  BY <2>1, FunctionIsSeq
<1>3. F!TypeOK
  BY <1>1, <1>2 DEF F!Init, F!TypeOK, F!Sizes
<1> QED  BY <1>3 DEF F!Init, RInv

\* At every step the output file is the end of the input file backwards, for
\* every length of the file and every size of the buffer and both variants.
THEOREM ReversedCopy ==
    ASSUME F!Sizes
    PROVE  F!Spec => [](F!TypeOK /\ CopyBackwards)
<1>1. RInv /\ UNCHANGED F!vars => RInv'
  BY DEF RInv, F!vars, F!TypeOK, Regular, Backwards
<1>2. RInv /\ [F!Next]_F!vars => RInv'
  BY <1>1, CopyByteStep, CopyBufferStep, BeginStep DEF F!Next
<1>3. RInv => F!TypeOK /\ CopyBackwards
  <2> SUFFICES ASSUME RInv, step = "loop" PROVE F!CopyBackwards
    BY DEF RInv, F!CopyBackwards, CopyBackwards
  <2>1. CASE Regular
    BY <2>1, BackwardsIsReverse DEF RInv, F!CopyBackwards, Regular, F!TypeOK
  <2>2. CASE ~Regular
    BY <2>2 DEF RInv, F!CopyBackwards, Regular, F!TypeOK, F!EOF
  <2> QED  BY <2>1, <2>2
<1> QED  BY ReverseInitially, <1>2, <1>3, PTL DEF F!Spec

-----------------------------------------------------------------------------
(* Collatz: the loop passes 1 until it is beyond the limit                 *)

\* A set of natural numbers that is not empty has a least element.
LEMMA LeastNumber ==
    ASSUME NEW A, A \subseteq Nat, A # {}
    PROVE  \E n \in A: \A m \in A: n <= m
<1> DEFINE Below == {0..n: n \in A}
<1>1. Below \subseteq FiniteSubsetsOf(Nat) /\ Below # {}
  <2>1. ASSUME NEW n \in A PROVE 0..n \in FiniteSubsetsOf(Nat)
    <3>1. n \in Nat /\ 0..n \subseteq Nat
      OBVIOUS
    <3>2. IsFiniteSet(0..n)
      BY <3>1, FS_Interval
    <3> QED  BY <3>1, <3>2 DEF FiniteSubsetsOf
  <2> QED  BY <2>1
<1>2. PICK b \in Below: \A a \in Below: <<a, b>> \notin StrictSubsetOrdering(Nat)
  BY <1>1, FS_StrictSubsetOrderingWellFounded, WFMin
<1>3. PICK n \in A: b = 0..n
  BY <1>2
<1>4. \A m \in A: n <= m
  <2> SUFFICES ASSUME NEW m \in A, m < n PROVE FALSE
    OBVIOUS
  <2>1. 0..m \subseteq 0..n /\ n \in 0..n /\ n \notin 0..m
    OBVIOUS
  <2>2. <<0..m, 0..n>> \in StrictSubsetOrdering(Nat)
    BY <2>1 DEF StrictSubsetOrdering
  <2> QED  BY <1>2, <1>3, <2>2
<1> QED  BY <1>4

LEMMA SuccessorType == \A n \in Int: Z!Successor(n) \in Int
  BY DEF Z!Successor

\* f is the Collatz sequence of the argument up to place n.
Follows(f, n) ==
    /\ f \in [0..n -> Int] /\ f[0] = argument
    /\ \A k \in 1..n: f[k] = Z!Successor(f[k - 1])

\* There is a sequence of every length: none is the shortest that there is not.
LEMMA SequenceBuilt ==
    ASSUME argument \in Int
    PROVE  \A n \in Nat: \E f: Follows(f, n)
<1> DEFINE Missing == {n \in Nat: ~\E f: Follows(f, n)}
<1>1. SUFFICES ASSUME Missing # {} PROVE FALSE
  OBVIOUS
<1>2. PICK n \in Missing: \A m \in Missing: n <= m
  BY <1>1, LeastNumber
<1>3. n # 0
  <2> DEFINE f == [k \in 0..0 |-> argument]
  <2>1. Follows(f, 0)
    BY DEF Follows
  <2> QED  BY <2>1
<1>4. PICK f: Follows(f, n - 1)
  <2>1. n - 1 \in Nat /\ ~(n <= n - 1)
    BY <1>3
  <2> QED  BY <1>2, <2>1
<1> DEFINE g == [k \in 0..n |-> IF k = n THEN Z!Successor(f[n - 1]) ELSE f[k]]
<1>5. n \in Nat \ {0} /\ f \in [0..(n - 1) -> Int] /\ f[0] = argument
      /\ \A k \in 1..(n - 1): f[k] = Z!Successor(f[k - 1])
  BY <1>3, <1>4 DEF Follows
<1>6. f[n - 1] \in Int /\ Z!Successor(f[n - 1]) \in Int
  BY <1>5, SuccessorType
<1>7. g \in [0..n -> Int]
  <2>1. \A k \in 0..n: k # n => f[k] \in Int
    BY <1>5
  <2> QED  BY <1>6, <2>1
<1>8. g[0] = argument /\ \A k \in 1..n: g[k] = Z!Successor(g[k - 1])
  <2>1. g[0] = argument
    BY <1>5
  <2>2. ASSUME NEW k \in 1..n PROVE g[k] = Z!Successor(g[k - 1])
    <3>1. k - 1 \in 0..n /\ k - 1 # n /\ g[k - 1] = f[k - 1]
      BY <1>5
    <3>2. CASE k = n
      BY <1>5, <3>1, <3>2
    <3>3. CASE k # n
      BY <1>5, <3>1, <3>3
    <3> QED  BY <3>2, <3>3
  <2> QED  BY <2>1, <2>2
<1>9. Follows(g, n)
  BY <1>7, <1>8 DEF Follows
<1> QED  BY <1>9

\* So the definition of the sequence has the meaning it seems to have.
LEMMA SequenceMeaning ==
    ASSUME argument \in Int, MaxSteps \in Nat
    PROVE  Follows(Z!Sequence, MaxSteps)
<1> DEFINE Meant(f) == f = [k \in 0..MaxSteps |-> IF k = 0 THEN argument
                                                 ELSE Z!Successor(f[k - 1])]
<1>1. PICK f: Follows(f, MaxSteps)
  BY SequenceBuilt
<1>2. Meant(f)
  <2>1. \A k \in 0..MaxSteps: f[k] = IF k = 0 THEN argument ELSE Z!Successor(f[k - 1])
    BY <1>1 DEF Follows
  <2>2. f = [k \in 0..MaxSteps |-> f[k]]
    BY <1>1 DEF Follows
  <2> QED  BY <2>1, <2>2
<1>3. Z!Sequence = CHOOSE s: Meant(s)
  BY DEF Z!Sequence
<1>4. Meant(Z!Sequence)
  BY <1>2, <1>3
<1> DEFINE s == Z!Sequence
<1>5. /\ s[0] = argument
      /\ \A k \in 1..MaxSteps: s[k] = Z!Successor(s[k - 1])
  BY <1>4
<1>6. \A k \in 0..MaxSteps: s[k] \in Int
  <2> DEFINE Odd == {k \in 0..MaxSteps: s[k] \notin Int}
  <2>1. SUFFICES ASSUME Odd # {} PROVE FALSE
    OBVIOUS
  <2>2. PICK k \in Odd: \A m \in Odd: k <= m
    <3>1. Odd \subseteq Nat
      OBVIOUS
    <3> QED  BY <2>1, <3>1, LeastNumber
  <2>3. k # 0
    BY <1>5
  <2>4. k - 1 \in 0..MaxSteps /\ k \in 1..MaxSteps /\ ~(k <= k - 1)
    BY <2>3
  <2>5. s[k - 1] \in Int
    BY <2>2, <2>4
  <2> QED  BY <1>5, <2>4, <2>5, SuccessorType
<1>7. s \in [0..MaxSteps -> Int]
  BY <1>4, <1>6
<1> QED  BY <1>5, <1>7 DEF Follows

LEMMA SequenceSteps ==
    ASSUME argument \in Int, MaxSteps \in Nat
    PROVE  /\ Z!Sequence[0] = argument
           /\ \A k \in 0..MaxSteps: Z!Sequence[k] \in Int
           /\ \A k \in 0..(MaxSteps - 1): Z!Sequence[k + 1] = Z!Successor(Z!Sequence[k])
<1> DEFINE s == Z!Sequence
<1>1. /\ s \in [0..MaxSteps -> Int] /\ s[0] = argument
      /\ \A k \in 1..MaxSteps: s[k] = Z!Successor(s[k - 1])
  BY SequenceMeaning DEF Follows
<1> HIDE DEF s
<1>2. ASSUME NEW k \in 0..(MaxSteps - 1) PROVE s[k + 1] = Z!Successor(s[k])
  <2>1. k + 1 \in 1..MaxSteps /\ (k + 1) - 1 = k
    OBVIOUS
  <2> QED  BY <1>1, <2>1
<1>3. \A k \in 0..MaxSteps: s[k] \in Int
  BY <1>1
<1> QED  BY <1>1, <1>2, <1>3 DEF s

\* The stopping time is where the sequence is 1 for the first time.
LEMMA FirstOne ==
    ASSUME MaxSteps \in Nat, Z!Converges
    PROVE  /\ Z!StoppingTime \in 0..MaxSteps /\ Z!Sequence[Z!StoppingTime] = 1
           /\ \A l \in 0..(Z!StoppingTime - 1): Z!Sequence[l] # 1
<1> DEFINE s == Z!Sequence
           First(k) == s[k] = 1 /\ \A l \in 0..(k - 1): s[l] # 1
           Ones == {k \in 0..MaxSteps: s[k] = 1}
<1>1. Ones # {} /\ Ones \subseteq Nat
  BY DEF Z!Converges
<1>2. PICK k \in Ones: \A m \in Ones: k <= m
  BY <1>1, LeastNumber
<1>3. First(k)
  <2> SUFFICES ASSUME NEW l \in 0..(k - 1), s[l] = 1 PROVE FALSE
    BY <1>2
  <2>1. l \in 0..MaxSteps /\ ~(k <= l)
    BY <1>2
  <2> QED  BY <1>2, <2>1
<1>4. \E n \in 0..MaxSteps: First(n)
  BY <1>2, <1>3
<1>5. Z!StoppingTime = CHOOSE n \in 0..MaxSteps: First(n)
  BY DEF Z!StoppingTime
<1>6. Z!StoppingTime \in 0..MaxSteps /\ First(Z!StoppingTime)
  BY <1>4, <1>5
<1> QED  BY <1>6

\* How far the loop is when it has passed the first 1 and then rounds more: at
\* 4, at 2 or at 1, and it came past the 1 before because of the limit.
Passed(t, rounds) ==
    /\ \/ iterations = t + 3 * rounds + 1 /\ number = 4
       \/ iterations = t + 3 * rounds + 2 /\ number = 2
       \/ iterations = t + 3 * rounds + 3 /\ number = 1
    /\ t + 3 * rounds <= max_iter

\* Up to the first 1 the loop is in the sequence, and then in the cycle.
OnTheSequence ==
    Z!Converges /\ Z!Fits =>
      IF iterations <= Z!StoppingTime
        THEN number = Z!Sequence[iterations]
        ELSE \E rounds \in Nat: Passed(Z!StoppingTime, rounds)

ZInv == Z!TypeOK /\ Z!LateCount /\ (returned = -2 => OnTheSequence)

\* What is wrapped is an int, and an int is wrapped to itself.
LEMMA Remainder ==
    ASSUME NEW a \in Int, NEW b \in Nat \ {0}
    PROVE  a % b \in 0..(b - 1) /\ (a \in 0..(b - 1) => a % b = a)
  OBVIOUS

LEMMA Wrapping ==
    ASSUME Z!Sizes, NEW n \in Int
    PROVE  Z!Wrapped(n) \in Z!Ints /\ (n \in Z!Ints => Z!Wrapped(n) = n)
<1>1. Half \in Nat /\ 2 * Half \in Nat \ {0} /\ n + Half \in Int
  BY DEF Z!Sizes
<1>2. (n + Half) % (2 * Half) \in 0..(2 * Half - 1)
      /\ (n + Half \in 0..(2 * Half - 1) => (n + Half) % (2 * Half) = n + Half)
  BY <1>1, Remainder
<1> DEFINE w == (n + Half) % (2 * Half)
<1>3. Z!Wrapped(n) = w - Half
  BY DEF Z!Wrapped
<1>4. w \in 0..(2 * Half - 1) /\ (n + Half \in 0..(2 * Half - 1) => w = n + Half)
  BY <1>2
<1> HIDE DEF w
<1> QED  BY <1>1, <1>3, <1>4 DEF Z!Ints

LEMMA CollatzTypes ==
    ASSUME Z!Sizes
    PROVE  /\ \A n \in Z!Ints: Z!collatz_conjecture(n) \in Z!Ints
           /\ \A n \in Z!Ints: Z!Successor(n) \in Z!Ints =>
                Z!collatz_conjecture(n) = Z!Successor(n)
           /\ Z!collatz_conjecture(1) = 4 /\ Z!collatz_conjecture(4) = 2
           /\ Z!collatz_conjecture(2) = 1
<1>1. Half \in Nat /\ Half > 4 /\ \A n \in Z!Ints: n \in Int
  BY DEF Z!Sizes, Z!Ints
<1>2. ASSUME NEW n \in Z!Ints
      PROVE  /\ Z!collatz_conjecture(n) \in Z!Ints
             /\ Z!Successor(n) \in Z!Ints => Z!collatz_conjecture(n) = Z!Successor(n)
  <2>1. CASE n % 2 = 0
    <3>1. n \div 2 \in Z!Ints
      BY <1>1, <2>1 DEF Z!Ints
    <3> QED  BY <2>1, <3>1 DEF Z!collatz_conjecture, Z!Successor
  <2>2. CASE n % 2 # 0
    <3>1. 3 * n + 1 \in Int
      BY <1>1
    <3>2. /\ Z!Wrapped(3 * n + 1) \in Z!Ints
          /\ 3 * n + 1 \in Z!Ints => Z!Wrapped(3 * n + 1) = 3 * n + 1
      BY <3>1, Wrapping
    <3> QED  BY <2>2, <3>2 DEF Z!collatz_conjecture, Z!Successor
  <2> QED  BY <2>1, <2>2
<1>3. Z!collatz_conjecture(1) = 4
  <2>1. 4 \in Z!Ints
    BY <1>1 DEF Z!Ints
  <2>2. Z!Wrapped(4) = 4
    BY <2>1, Wrapping
  <2>3. 1 % 2 # 0 /\ 3 * 1 + 1 = 4
    OBVIOUS
  <2> QED  BY <2>2, <2>3 DEF Z!collatz_conjecture
<1>4. 4 % 2 = 0 /\ 4 \div 2 = 2 /\ 2 % 2 = 0 /\ 2 \div 2 = 1
  OBVIOUS
<1> QED  BY <1>2, <1>3, <1>4 DEF Z!collatz_conjecture

\* What is said of the sequence is said of the argument.
LEMMA SequenceStays ==
    ASSUME argument' = argument
    PROVE  /\ Z!Sequence' = Z!Sequence /\ Z!Converges' = Z!Converges
           /\ Z!StoppingTime' = Z!StoppingTime /\ Z!Fits' = Z!Fits
<1>1. Z!Sequence' = Z!Sequence
  BY DEF Z!Sequence, Z!Successor
<1>2. Z!StoppingTime' = Z!StoppingTime
  BY <1>1 DEF Z!StoppingTime
<1> QED  BY <1>1, <1>2 DEF Z!Converges, Z!Fits, Z!Ints

LEMMA IterateStep ==
    ASSUME Z!Sizes, ZInv, Z!Iterate
    PROVE  ZInv'
<1> DEFINE t == Z!StoppingTime
<1>1. /\ returned = -2 /\ returned' = -2 /\ iterations < MaxSteps
      /\ number # 1 \/ iterations <= max_iter
      /\ number' = Z!collatz_conjecture(number) /\ iterations' = iterations + 1
      /\ UNCHANGED <<argument, max_iter, returned>>
      /\ Z!TypeOK /\ OnTheSequence
  BY DEF ZInv, Z!Iterate, Z!Continues, Z!noValue
<1>2. /\ iterations \in Nat /\ MaxSteps \in Nat /\ max_iter \in Int /\ argument \in Int
      /\ number \in Z!Ints
  BY <1>1 DEF Z!TypeOK, Z!Sizes, Z!Arguments
<1>3. Z!TypeOK'
  BY <1>1, <1>2, CollatzTypes DEF Z!TypeOK, Z!Ints, Z!Arguments, Z!noValue
<1>4. Z!LateCount'
  BY <1>1 DEF Z!LateCount, Z!noValue
<1>5. /\ Z!Sequence' = Z!Sequence /\ Z!Converges' = Z!Converges
      /\ Z!StoppingTime' = t /\ Z!Fits' = Z!Fits
  BY <1>1, SequenceStays
<1>6. ASSUME Z!Converges, Z!Fits
      PROVE  IF iterations' <= t THEN number' = Z!Sequence[iterations']
             ELSE \E rounds \in Nat: Passed(t, rounds)'
  <2>1. t \in 0..MaxSteps /\ Z!Sequence[t] = 1
    BY <1>2, <1>6, FirstOne
  <2>2. CASE iterations < t
    <3>1. number = Z!Sequence[iterations] /\ iterations + 1 <= t
      BY <1>1, <1>2, <1>6, <2>1, <2>2 DEF OnTheSequence
    <3>2. Z!Sequence[iterations + 1] = Z!Successor(number)
      <4>1. iterations \in 0..(MaxSteps - 1)
        BY <1>1, <1>2
      <4> QED  BY <1>2, <3>1, <4>1, SequenceSteps
    <3>3. Z!Sequence[iterations + 1] \in Z!Ints
      <4>1. iterations + 1 \in 0..t
        BY <1>2, <2>1, <3>1
      <4> QED  BY <1>6, <4>1 DEF Z!Fits
    <3>4. number' = Z!Sequence[iterations + 1]
      BY <1>1, <1>2, <3>2, <3>3, CollatzTypes
    <3> QED  BY <1>1, <3>1, <3>4
  <2>3. CASE iterations = t
    <3>1. number = 1
      BY <1>1, <1>2, <1>6, <2>1, <2>3 DEF OnTheSequence
    <3>2. number' = 4 /\ t + 3 * 0 <= max_iter /\ iterations' = t + 3 * 0 + 1
      BY <1>1, <1>2, <2>1, <2>3, <3>1, CollatzTypes
    <3>3. Passed(t, 0)'
      BY <1>1, <1>5, <3>2 DEF Passed
    <3>4. ~(iterations' <= t)
      BY <1>1, <1>2, <2>1, <2>3
    <3> QED  BY <3>3, <3>4
  <2>4. CASE iterations > t
    <3>1. PICK rounds \in Nat: Passed(t, rounds)
      BY <1>1, <1>2, <1>6, <2>1, <2>4 DEF OnTheSequence
    <3>2. ~(iterations' <= t)
      BY <1>1, <1>2, <2>1, <2>4
    <3>3. CASE number = 1
      <4>1. iterations = t + 3 * (rounds + 1) /\ number' = 4 /\ t + 3 * (rounds + 1) <= max_iter
        BY <1>1, <1>2, <2>1, <3>1, <3>3, CollatzTypes DEF Passed
      <4>2. Passed(t, rounds + 1)'
        BY <1>1, <1>5, <4>1 DEF Passed
      <4> QED  BY <3>2, <4>2
    <3>4. CASE number # 1
      <4>1. Passed(t, rounds)'
        BY <1>1, <1>2, <1>5, <2>1, <3>1, <3>4, CollatzTypes DEF Passed
      <4> QED  BY <3>2, <4>1
    <3> QED  BY <3>3, <3>4
  <2> QED  BY <1>2, <2>1, <2>2, <2>3, <2>4
<1>7. OnTheSequence'
  BY <1>5, <1>6 DEF OnTheSequence
<1> QED  BY <1>3, <1>4, <1>7 DEF ZInv

\* The loop ends at a 1, the first one or one that follows a whole round.
LEMMA ReturnStep ==
    ASSUME Z!Sizes, ZInv, Z!Return
    PROVE  ZInv'
<1> DEFINE t == Z!StoppingTime
<1>1. /\ returned = -2 /\ number = 1 /\ ~(iterations <= max_iter) /\ returned' = iterations
      /\ UNCHANGED <<argument, max_iter, number, iterations>>
      /\ Z!TypeOK /\ OnTheSequence
  BY DEF ZInv, Z!Return, Z!Continues, Z!noValue
<1>2. /\ iterations \in 0..MaxSteps /\ MaxSteps \in Nat /\ max_iter \in Int /\ argument \in Int
  BY <1>1 DEF Z!TypeOK, Z!Sizes, Z!Arguments
<1>3. Z!TypeOK' /\ returned' # -2 /\ returned' > max_iter
  BY <1>1, <1>2 DEF Z!TypeOK, Z!Arguments, Z!Ints, Z!noValue
<1>4. /\ Z!Sequence' = Z!Sequence /\ Z!Converges' = Z!Converges
      /\ Z!StoppingTime' = t /\ Z!Fits' = Z!Fits
  BY <1>1, SequenceStays
<1>5. ASSUME Z!Converges, Z!Fits
      PROVE  \E rounds \in 0..MaxSteps: /\ returned' = t + 3 * rounds
                                        /\ rounds > 0 => returned' - 3 <= max_iter
  <2>1. t \in 0..MaxSteps /\ \A l \in 0..(t - 1): Z!Sequence[l] # 1
    BY <1>2, <1>5, FirstOne
  <2>2. CASE iterations <= t
    <3>1. Z!Sequence[iterations] = 1
      BY <1>1, <1>5, <2>2 DEF OnTheSequence
    <3>2. iterations = t
      BY <1>2, <2>1, <2>2, <3>1
    <3>3. returned' = t + 3 * 0 /\ 0 \in 0..MaxSteps
      BY <1>1, <1>2, <3>2
    <3> QED  BY <3>3
  <2>3. CASE ~(iterations <= t)
    <3>1. PICK rounds \in Nat: Passed(t, rounds)
      BY <1>1, <1>5, <2>3 DEF OnTheSequence
    <3>2. iterations = t + 3 * (rounds + 1) /\ iterations - 3 <= max_iter
      BY <1>1, <1>2, <2>1, <3>1 DEF Passed
    <3>3. rounds + 1 \in 0..MaxSteps
      BY <1>2, <2>1, <3>2
    <3> QED  BY <1>1, <3>2, <3>3
  <2> QED  BY <2>2, <2>3
<1>6. Z!LateCount'
  BY <1>1, <1>3, <1>4, <1>5 DEF Z!LateCount
<1> QED  BY <1>3, <1>6 DEF ZInv

LEMMA CollatzInitially ==
    ASSUME Z!Sizes, Z!Init
    PROVE  ZInv
<1>1. Z!TypeOK
  BY DEF Z!Init, Z!TypeOK, Z!Sizes, Z!Arguments, Z!Ints
<1>2. Z!LateCount
  BY DEF Z!Init, Z!LateCount
<1>3. argument \in Int /\ MaxSteps \in Nat
  BY <1>1 DEF Z!TypeOK, Z!Sizes, Z!Arguments
<1>4. OnTheSequence
  <2> SUFFICES ASSUME Z!Converges, Z!Fits
               PROVE  0 <= Z!StoppingTime /\ number = Z!Sequence[0]
    BY DEF Z!Init, OnTheSequence
  <2>1. Z!StoppingTime \in 0..MaxSteps
    BY <1>3, FirstOne
  <2> QED  BY <1>3, <2>1, SequenceSteps DEF Z!Init
<1> QED  BY <1>1, <1>2, <1>4 DEF ZInv

\* test_collatz_convergence returns a count beyond max_iter or does not return:
\* the stopping time and as many rounds of the cycle as it takes to get there,
\* where the sequence stays in the range of int.  For every width of an int,
\* every argument and every limit.
THEOREM CountsTooLate ==
    ASSUME Z!Sizes
    PROVE  Z!Spec => [](Z!TypeOK /\ LateCount)
<1>1. ASSUME ZInv, UNCHANGED Z!vars PROVE ZInv'
  <2>1. UNCHANGED <<argument, max_iter, number, iterations, returned>>
    BY <1>1 DEF Z!vars
  <2>2. Z!TypeOK'
    BY <1>1, <2>1 DEF ZInv, Z!TypeOK, Z!Arguments, Z!Ints, Z!noValue
  <2>3. /\ Z!Sequence' = Z!Sequence /\ Z!Converges' = Z!Converges
        /\ Z!StoppingTime' = Z!StoppingTime /\ Z!Fits' = Z!Fits
    BY <2>1, SequenceStays
  <2>4. Z!LateCount'
    BY <1>1, <2>1, <2>3 DEF ZInv, Z!LateCount, Z!noValue
  <2>5. OnTheSequence => OnTheSequence'
    BY <2>1, <2>3 DEF OnTheSequence, Passed
  <2> QED  BY <1>1, <2>1, <2>2, <2>4, <2>5 DEF ZInv
<1>2. ZInv /\ [Z!Next]_Z!vars => ZInv'
  BY <1>1, IterateStep, ReturnStep DEF Z!Next
<1>3. ZInv => Z!TypeOK /\ LateCount
  BY DEF ZInv, LateCount
<1> QED  BY CollatzInitially, <1>2, <1>3, PTL DEF Z!Spec

-----------------------------------------------------------------------------
(* MCExercises: the programs side by side                                  *)

\* The exam's variables keep their types.
LEMMA ExamTypes ==
    ASSUME E!TypeOK, E!Next \/ UNCHANGED examVars
    PROVE  E!TypeOK'
<1>1. CASE UNCHANGED examVars
  BY <1>1 DEF examVars, E!TypeOK
<1>2. CASE E!Next
  BY <1>2 DEF E!TypeOK, E!Next, E!Parent, E!Child, E!Fork, E!Sigqueue, E!BlockSignals, E!Pause
<1> QED  BY <1>1, <1>2

\* A behaviour of MCExercises is one of every program: one of them takes steps,
\* the others stand still.
LEMMA SideBySide ==
    MCSpec => Spec /\ C!Spec /\ I!Spec /\ P!Spec /\ F!Spec /\ Z!Spec
<1>1. MCInit => Init /\ C!Init /\ I!Init /\ P!Init /\ F!Init /\ Z!Init
  BY DEF MCInit
<1>2. [MCNext]_mcvars =>
        /\ [Next]_vars /\ [C!Next]_C!vars /\ [I!Next]_I!vars
        /\ [P!Next]_P!vars /\ [F!Next]_F!vars /\ [Z!Next]_Z!vars
  <2> SUFFICES ASSUME [MCNext]_mcvars
               PROVE  /\ [Next]_vars /\ [C!Next]_C!vars /\ [I!Next]_I!vars
                      /\ [P!Next]_P!vars /\ [F!Next]_F!vars /\ [Z!Next]_Z!vars
    OBVIOUS
  <2>1. /\ Next \/ UNCHANGED vars
        /\ C!Next \/ UNCHANGED catcherVars
        /\ I!Next \/ UNCHANGED sumVars
        /\ P!Next \/ UNCHANGED pipeVars
        /\ F!Next \/ UNCHANGED fileVars
        /\ Z!Next \/ UNCHANGED collatzVars
    BY DEF MCNext, mcvars, signalVars, dataVars, ReaperOnly, CatcherOnly, ExamOnly, SumOnly,
       PipesOnly, ReverseOnly, CollatzOnly
  <2>2. /\ UNCHANGED catcherVars => UNCHANGED C!vars
        /\ UNCHANGED sumVars => UNCHANGED I!vars
        /\ UNCHANGED pipeVars => UNCHANGED P!vars
        /\ UNCHANGED fileVars => UNCHANGED F!vars
        /\ UNCHANGED collatzVars => UNCHANGED Z!vars
    BY DEF catcherVars, C!vars, sumVars, I!vars, pipeVars, P!vars, fileVars, F!vars,
       collatzVars, Z!vars
  <2> QED  BY <2>1, <2>2
<1> QED  BY <1>1, <1>2, PTL DEF MCSpec, Spec, C!Spec, I!Spec, P!Spec, F!Spec, Z!Spec

\* In a behaviour of any of the programs the types of all are right, and all the
\* safety properties above hold.
THEOREM ExercisesSafe ==
    MCSpec => []( /\ TypesOK /\ RequestsAccounted /\ ParentKnows /\ SumRight
                  /\ ResultsDealt /\ CopyBackwards /\ LateCount )
<1>1. MCInit => E!TypeOK
  BY DEF MCInit, E!Init, E!TypeOK
<1>2. E!TypeOK /\ [MCNext]_mcvars => E!TypeOK'
  <2> SUFFICES ASSUME E!TypeOK, [MCNext]_mcvars PROVE E!TypeOK'
    OBVIOUS
  <2>1. E!Next \/ UNCHANGED examVars
    BY DEF MCNext, mcvars, signalVars, ReaperOnly, CatcherOnly, ExamOnly, SumOnly,
       PipesOnly, ReverseOnly, CollatzOnly
  <2> QED  BY <2>1, ExamTypes
<1>3. MCSpec => []E!TypeOK
  BY <1>1, <1>2, PTL DEF MCSpec
<1>4. /\ C!Spec => [](C!TypeOK /\ RequestsAccounted)
      /\ I!Spec => [](I!TypeOK /\ SumRight)
      /\ P!Spec => [](P!TypeOK /\ ResultsDealt)
      /\ F!Spec => [](F!TypeOK /\ CopyBackwards)
      /\ Z!Spec => [](Z!TypeOK /\ LateCount)
  BY ExerciseSizes, RequestsKept, SumIsRight, OwnResults, ReversedCopy, CountsTooLate
<1>5. TypeOK /\ C!TypeOK /\ E!TypeOK /\ I!TypeOK /\ P!TypeOK /\ F!TypeOK /\ Z!TypeOK => TypesOK
  BY DEF TypesOK
<1> QED  BY SideBySide, ParentKnowsChildren, <1>3, <1>4, <1>5, PTL
=============================================================================
