------------------------ MODULE BoundedBufferProofs ------------------------
(***************************************************************************)
(* Proofs about BoundedBuffer for any finite sets of producers and         *)
(* consumers, any ring size and any number of items: the inductive         *)
(* invariant, and that the program implements BoundedFifo.                 *)
(***************************************************************************)
EXTENDS BoundedBuffer, FiniteSetTheorems, SequenceTheorems, TLAPS

-----------------------------------------------------------------------------
(* Arithmetic of the ring *)

\* Counting forward from a slot by at most one round wraps at most once.
LEMMA Wrap ==
    ASSUME NEW s \in Slots, NEW n \in 0..BufferSize
    PROVE  (s + n) % BufferSize =
               IF s + n < BufferSize THEN s + n ELSE s + n - BufferSize
<1> USE SizesAssumption DEF Slots
<1>1. CASE s + n < BufferSize
  <2>1. s + n \in 0..(BufferSize - 1)  BY <1>1
  <2>2. QED  BY <1>1, <2>1
<1>2. CASE s + n >= BufferSize
  <2>1. s + n \in BufferSize..(2 * BufferSize - 1)  BY <1>2
  <2>2. QED  BY <1>2, <2>1
<1>3. QED  BY <1>1, <1>2

\* The slot after s, without the modulus.
LEMMA FollowingSlot ==
    ASSUME NEW s \in Slots
    PROVE  /\ Following(s) \in Slots
           /\ Following(s) = IF s + 1 < BufferSize THEN s + 1 ELSE 0
<1>1. 1 \in 0..BufferSize  BY SizesAssumption
<1>2. (s + 1) % BufferSize =
          IF s + 1 < BufferSize THEN s + 1 ELSE s + 1 - BufferSize
  BY <1>1, Wrap
<1>3. QED  BY <1>2, SizesAssumption DEF Following, Slots

-----------------------------------------------------------------------------
(* Counting the threads at a set of control points *)

\* When thread t moves, the number of threads of a kind inside a region of the
\* loop changes by one exactly when t enters or leaves the region.
LEMMA CountAfterMove ==
    ASSUME NEW S, IsFiniteSet(S), S \subseteq Threads,
           NEW f \in [Threads -> Locations],
           NEW t \in Threads, NEW to \in Locations, NEW L
    PROVE  LET g == [f EXCEPT ![t] = to]
               before == {x \in S : f[x] \in L}
               after == {x \in S : g[x] \in L}
           IN  /\ Cardinality(before) \in Nat
               /\ Cardinality(after) \in Nat
               /\ t \notin S => after = before
               /\ (f[t] \in L <=> to \in L) => after = before
               /\ t \in S /\ f[t] \notin L /\ to \in L
                    => Cardinality(after) = Cardinality(before) + 1
               /\ t \in S /\ f[t] \in L /\ to \notin L
                    => Cardinality(after) = Cardinality(before) - 1
<1> DEFINE g == [f EXCEPT ![t] = to]
           before == {x \in S : f[x] \in L}
           after == {x \in S : g[x] \in L}
<1>1. IsFiniteSet(before) /\ IsFiniteSet(after)
  BY FS_Subset
<1>2. Cardinality(before) \in Nat /\ Cardinality(after) \in Nat
  BY <1>1, FS_CardinalityType
<1>3. \A x \in S : x # t => g[x] = f[x]
  OBVIOUS
<1>4. g[t] = to
  OBVIOUS
<1>5. t \notin S => after = before
  BY <1>3
<1>6. (f[t] \in L <=> to \in L) => after = before
  BY <1>3, <1>4
<1>7. ASSUME t \in S, f[t] \notin L, to \in L
      PROVE  Cardinality(after) = Cardinality(before) + 1
  <2>1. after = before \cup {t} /\ t \notin before
    BY <1>3, <1>4, <1>7
  <2> HIDE DEF before, after
  <2>2. QED  BY <1>1, <2>1, FS_AddElement
<1>8. ASSUME t \in S, f[t] \in L, to \notin L
      PROVE  Cardinality(after) = Cardinality(before) - 1
  <2>1. after = before \ {t} /\ t \in before
    BY <1>3, <1>4, <1>8
  <2> HIDE DEF before, after
  <2>2. QED  BY <1>1, <2>1, FS_RemoveElement
<1>9. QED  BY <1>2, <1>5, <1>6, <1>7, <1>8

\* A count of n threads after one thread of the counted kind (member) went
\* from a point inside or outside the region (was) to another (is).
Shifted(n, member, was, is) ==
    IF member /\ was /\ ~is THEN n - 1
    ELSE IF member /\ ~was /\ is THEN n + 1
    ELSE n

\* How a step of thread t moves the four token counts.
LEMMA TokensAfterMove ==
    ASSUME TypeOK, NEW t \in Threads, NEW from, NEW to \in Locations,
           Move(t, from, to)
    PROVE  /\ Cardinality(Filling) \in Nat /\ Cardinality(Filled) \in Nat
           /\ Cardinality(Draining) \in Nat /\ Cardinality(Drained) \in Nat
           /\ Cardinality(Filling)' = Shifted(Cardinality(Filling),
                  t \in Producers, from \in {"lock", "access"}, to \in {"lock", "access"})
           /\ Cardinality(Filled)' = Shifted(Cardinality(Filled),
                  t \in Producers, from \in {"advance", "unlock", "post"},
                                   to \in {"advance", "unlock", "post"})
           /\ Cardinality(Draining)' = Shifted(Cardinality(Draining),
                  t \in Consumers, from \in {"lock", "access"}, to \in {"lock", "access"})
           /\ Cardinality(Drained)' = Shifted(Cardinality(Drained),
                  t \in Consumers, from \in {"advance", "unlock", "post"},
                                   to \in {"advance", "unlock", "post"})
<1> DEFINE g == [pc EXCEPT ![t] = to]
           early == {"lock", "access"}
           late == {"advance", "unlock", "post"}
<1>1. pc \in [Threads -> Locations] /\ pc[t] = from /\ pc' = g
  BY DEF TypeOK, Move
<1>2. ASSUME NEW S \in {Producers, Consumers}, NEW L
      PROVE  /\ Cardinality({x \in S : pc[x] \in L}) \in Nat
             /\ Cardinality({x \in S : pc'[x] \in L}) =
                    Shifted(Cardinality({x \in S : pc[x] \in L}),
                            t \in S, from \in L, to \in L)
  <2>1. IsFiniteSet(S) /\ S \subseteq Threads
    BY <1>2, ThreadsAssumption DEF Threads
  <2> DEFINE before == {x \in S : pc[x] \in L}
             after == {x \in S : g[x] \in L}
  <2>2. /\ Cardinality(before) \in Nat
        /\ Cardinality(after) \in Nat
        /\ t \notin S => after = before
        /\ (pc[t] \in L <=> to \in L) => after = before
        /\ t \in S /\ pc[t] \notin L /\ to \in L
             => Cardinality(after) = Cardinality(before) + 1
        /\ t \in S /\ pc[t] \in L /\ to \notin L
             => Cardinality(after) = Cardinality(before) - 1
    BY <1>1, <2>1, CountAfterMove
  <2> HIDE DEF before, after
  <2>3. Cardinality(after) = Shifted(Cardinality(before), t \in S, from \in L, to \in L)
    BY <1>1, <2>2 DEF Shifted
  <2>4. QED  BY <1>1, <2>2, <2>3 DEF before, after
<1>3. QED
  BY <1>2 DEF Filling, Filled, Draining, Drained

-----------------------------------------------------------------------------
(* The inductive invariant *)

THEOREM InitialInvariant == Init => IInv
<1> SUFFICES ASSUME Init PROVE IInv
  OBVIOUS
<1> USE SizesAssumption DEF Init
<1>1. TypeOK
  BY DEF TypeOK, Slots, Locations, InitialEmpty
<1>2. LoopBound /\ ItemLoaded
  BY DEF LoopBound, ItemLoaded, Threads
<1>3. OwnerOnly
  BY DEF OwnerOnly, InCritical
<1>4. Filling = {} /\ Filled = {} /\ Draining = {} /\ Drained = {}
  BY DEF Filling, Filled, Draining, Drained, Threads
<1>5. Count = 0 /\ SlotsAccounted
  BY <1>4, FS_EmptySet DEF Count, SlotsAccounted, InitialEmpty
<1>6. First = 0 /\ Free = 0
  BY DEF First, Free, Threads
<1>7. CursorsAgree
  BY <1>5, <1>6 DEF CursorsAgree
<1>8. QED
  BY <1>1, <1>2, <1>3, <1>5, <1>7 DEF IInv

\* At most one thread is in its critical section.
LEMMA Alone ==
    ASSUME OwnerOnly, NEW t \in Threads, NEW u \in Threads,
           InCritical(t), InCritical(u)
    PROVE  t = u
BY DEF OwnerOnly

\* The token counts are numbers, in every state.
TokenCounts ==
    /\ Cardinality(Filling) \in Nat /\ Cardinality(Filled) \in Nat
    /\ Cardinality(Draining) \in Nat /\ Cardinality(Drained) \in Nat

LEMMA TokenCountsNat == TokenCounts /\ TokenCounts'
<1>1. ASSUME NEW S, IsFiniteSet(S), NEW T \in SUBSET S
      PROVE  Cardinality(T) \in Nat
  BY <1>1, FS_Subset, FS_CardinalityType
<1>2. QED
  BY <1>1, ThreadsAssumption DEF TokenCounts, Filling, Filled, Draining, Drained

\* Count stays within the ring.
LEMMA CountBounds ==
    ASSUME TypeOK, SlotsAccounted
    PROVE  /\ Count \in 0..BufferSize
           /\ Cardinality(Filling) > 0 => Count < BufferSize
           /\ Cardinality(Draining) > 0 => Count > 0
BY TokenCountsNat, SizesAssumption DEF TypeOK, SlotsAccounted, Count, TokenCounts

\* A thread counted in a region makes the region's count positive.
LEMMA Counted ==
    /\ \A p \in Filling : Cardinality(Filling) > 0
    /\ \A p \in Filled : Cardinality(Filled) > 0
    /\ \A c \in Draining : Cardinality(Draining) > 0
    /\ \A c \in Drained : Cardinality(Drained) > 0
<1>1. /\ IsFiniteSet(Filling) /\ IsFiniteSet(Filled)
      /\ IsFiniteSet(Draining) /\ IsFiniteSet(Drained)
  BY ThreadsAssumption, FS_Subset DEF Filling, Filled, Draining, Drained
<1>2. ASSUME NEW S, IsFiniteSet(S), NEW t \in S
      PROVE  Cardinality(S) > 0
  <2>1. Cardinality(S) \in Nat /\ Cardinality(S) # 0
    BY <1>2, FS_CardinalityType, FS_EmptySet
  <2>2. QED  BY <2>1
<1>3. QED
  BY <1>1, <1>2

\* Adding or removing one item moves the matching cursor by one slot.
LEMMA CursorShift ==
    ASSUME NEW s \in Slots, NEW n \in 0..BufferSize
    PROVE  /\ n < BufferSize => (s + (n + 1)) % BufferSize = Following((s + n) % BufferSize)
           /\ n > 0 => (Following(s) + (n - 1)) % BufferSize = (s + n) % BufferSize
<1> USE SizesAssumption DEF Slots
<1> DEFINE e == (s + n) % BufferSize
<1>1. e = IF s + n < BufferSize THEN s + n ELSE s + n - BufferSize
  BY Wrap
<1>2. e \in Slots
  BY <1>1
<1>3. Following(e) = IF e + 1 < BufferSize THEN e + 1 ELSE 0
  BY <1>2, FollowingSlot
<1>4. ASSUME n < BufferSize
      PROVE  (s + (n + 1)) % BufferSize = Following(e)
  <2>1. n + 1 \in 0..BufferSize
    BY <1>4
  <2>2. (s + (n + 1)) % BufferSize =
           IF s + (n + 1) < BufferSize THEN s + (n + 1) ELSE s + (n + 1) - BufferSize
    BY <2>1, Wrap
  <2> HIDE DEF e
  <2>3. QED  BY <1>1, <1>3, <2>2
<1>5. ASSUME n > 0
      PROVE  (Following(s) + (n - 1)) % BufferSize = e
  <2>1. Following(s) \in Slots /\ n - 1 \in 0..BufferSize
    BY <1>5, FollowingSlot
  <2>2. (Following(s) + (n - 1)) % BufferSize =
           IF Following(s) + (n - 1) < BufferSize THEN Following(s) + (n - 1)
           ELSE Following(s) + (n - 1) - BufferSize
    BY <2>1, Wrap
  <2>3. Following(s) = IF s + 1 < BufferSize THEN s + 1 ELSE 0
    BY FollowingSlot
  <2> HIDE DEF e
  <2>4. QED  BY <1>1, <1>5, <2>2, <2>3
<1>6. QED  BY <1>4, <1>5

\* The steps of thread t that do not access a slot.
Quiet(t) ==
    \/ Lock(t)
    \/ Unlock(t)
    \/ t \in Producers /\ (WaitEmpty(t) \/ AdvanceIn(t) \/ PostFull(t))
    \/ t \in Consumers /\ (WaitFull(t) \/ AdvanceOut(t) \/ PostEmpty(t))

\* A step that does not access a slot leaves the ring's content where it is.
LEMMA QuietStep ==
    ASSUME IInv, NEW u \in Threads, Quiet(u)
    PROVE  Count' = Count /\ First' = First /\ Free' = Free /\ SlotsAccounted'
<1>0. TypeOK /\ OwnerOnly /\ SlotsAccounted /\ Count \in 0..BufferSize
  BY CountBounds DEF IInv
<1>1. ASSUME NEW t \in Threads, Lock(t)
      PROVE  Count' = Count /\ First' = First /\ Free' = Free /\ SlotsAccounted'
  <2> USE <1>1
  <2>0. t \in Threads /\ pc[t] = "lock" /\ Move(t, "lock", "access")
    BY ThreadsAssumption DEF Threads, Lock, Move
  <2>1. /\ Cardinality(Filling)' = Cardinality(Filling)
        /\ Cardinality(Filled)' = Cardinality(Filled)
        /\ Cardinality(Draining)' = Cardinality(Draining)
        /\ Cardinality(Drained)' = Cardinality(Drained)
        /\ Cardinality(Filling) \in Nat /\ Cardinality(Filled) \in Nat
        /\ Cardinality(Draining) \in Nat /\ Cardinality(Drained) \in Nat
    BY <1>0, <2>0, TokensAfterMove DEF Shifted, Locations
  <2>2. Count' = Count /\ SlotsAccounted'
    BY <1>0, <2>1 DEF Lock, SlotsAccounted, Count, TypeOK
  <2>3. First' = First /\ Free' = Free
    BY <1>0, <2>0 DEF Lock, Move, First, Free, Following, Threads, TypeOK
  <2>4. QED  BY <2>2, <2>3
<1>2. ASSUME NEW t \in Threads, Unlock(t)
      PROVE  Count' = Count /\ First' = First /\ Free' = Free /\ SlotsAccounted'
  <2> USE <1>2
  <2>0. t \in Threads /\ pc[t] = "unlock" /\ Move(t, "unlock", "post")
    BY ThreadsAssumption DEF Threads, Unlock, Move
  <2>1. /\ Cardinality(Filling)' = Cardinality(Filling)
        /\ Cardinality(Filled)' = Cardinality(Filled)
        /\ Cardinality(Draining)' = Cardinality(Draining)
        /\ Cardinality(Drained)' = Cardinality(Drained)
        /\ Cardinality(Filling) \in Nat /\ Cardinality(Filled) \in Nat
        /\ Cardinality(Draining) \in Nat /\ Cardinality(Drained) \in Nat
    BY <1>0, <2>0, TokensAfterMove DEF Shifted, Locations
  <2>2. Count' = Count /\ SlotsAccounted'
    BY <1>0, <2>1 DEF Unlock, SlotsAccounted, Count, TypeOK
  <2>3. First' = First /\ Free' = Free
    BY <1>0, <2>0 DEF Unlock, Move, First, Free, Following, Threads, TypeOK
  <2>4. QED  BY <2>2, <2>3
<1>3. ASSUME NEW p \in Producers, WaitEmpty(p)
      PROVE  Count' = Count /\ First' = First /\ Free' = Free /\ SlotsAccounted'
  <2> USE <1>3
  <2>0. p \in Threads /\ p \notin Consumers /\ pc[p] = "next" /\ Move(p, "next", "lock")
    BY ThreadsAssumption DEF Threads, WaitEmpty, Move
  <2>1. /\ Cardinality(Filling)' = Cardinality(Filling) + 1
        /\ Cardinality(Filled)' = Cardinality(Filled)
        /\ Cardinality(Draining)' = Cardinality(Draining)
        /\ Cardinality(Drained)' = Cardinality(Drained)
        /\ Cardinality(Filling) \in Nat /\ Cardinality(Filled) \in Nat
        /\ Cardinality(Draining) \in Nat /\ Cardinality(Drained) \in Nat
    BY <1>0, <2>0, TokensAfterMove DEF Shifted, Locations
  <2>2. Count' = Count /\ SlotsAccounted'
    BY <1>0, <2>1 DEF WaitEmpty, SlotsAccounted, Count, TypeOK
  <2>3. First' = First /\ Free' = Free
    BY <1>0, <2>0 DEF WaitEmpty, Move, First, Free, Following, Threads, TypeOK
  <2>4. QED  BY <2>2, <2>3
<1>4. ASSUME NEW p \in Producers, AdvanceIn(p)
      PROVE  Count' = Count /\ First' = First /\ Free' = Free /\ SlotsAccounted'
  <2> USE <1>4
  <2>0. p \in Threads /\ p \notin Consumers /\ pc[p] = "advance" /\ Move(p, "advance", "unlock")
    BY ThreadsAssumption DEF Threads, AdvanceIn, Move
  <2>1. /\ Cardinality(Filling)' = Cardinality(Filling)
        /\ Cardinality(Filled)' = Cardinality(Filled)
        /\ Cardinality(Draining)' = Cardinality(Draining)
        /\ Cardinality(Drained)' = Cardinality(Drained)
        /\ Cardinality(Filling) \in Nat /\ Cardinality(Filled) \in Nat
        /\ Cardinality(Draining) \in Nat /\ Cardinality(Drained) \in Nat
    BY <1>0, <2>0, TokensAfterMove DEF Shifted, Locations
  <2>2. Count' = Count /\ SlotsAccounted'
    BY <1>0, <2>1 DEF AdvanceIn, SlotsAccounted, Count, TypeOK
  <2>3. First' = First /\ Free' = Free
    <3>1. \A v \in Threads : v # p => pc[v] # "advance"
      BY <1>0, <2>0, Alone DEF InCritical
    <3>2. pc'[p] = "unlock" /\ \A v \in Threads : v # p => pc'[v] = pc[v]
      BY <1>0, <2>0 DEF Move, TypeOK
    <3>3. QED  BY <2>0, <3>1, <3>2 DEF AdvanceIn, First, Free, Following, Threads
  <2>4. QED  BY <2>2, <2>3
<1>5. ASSUME NEW p \in Producers, PostFull(p)
      PROVE  Count' = Count /\ First' = First /\ Free' = Free /\ SlotsAccounted'
  <2> USE <1>5
  <2>0. p \in Threads /\ p \notin Consumers /\ pc[p] = "post" /\ Move(p, "post", "next")
    BY ThreadsAssumption DEF Threads, PostFull, SignalFull, NextIteration, Move
  <2>1. /\ Cardinality(Filling)' = Cardinality(Filling)
        /\ Cardinality(Filled)' = Cardinality(Filled) - 1
        /\ Cardinality(Draining)' = Cardinality(Draining)
        /\ Cardinality(Drained)' = Cardinality(Drained)
        /\ Cardinality(Filling) \in Nat /\ Cardinality(Filled) \in Nat
        /\ Cardinality(Draining) \in Nat /\ Cardinality(Drained) \in Nat
    BY <1>0, <2>0, TokensAfterMove DEF Shifted, Locations
  <2>2. Count' = Count /\ SlotsAccounted'
    BY <1>0, <2>1 DEF PostFull, SignalFull, NextIteration, SlotsAccounted, Count, TypeOK
  <2>3. First' = First /\ Free' = Free
    BY <1>0, <2>0
       DEF PostFull, SignalFull, NextIteration, Move, First, Free, Following, Threads, TypeOK
  <2>4. QED  BY <2>2, <2>3
<1>6. ASSUME NEW c \in Consumers, WaitFull(c)
      PROVE  Count' = Count /\ First' = First /\ Free' = Free /\ SlotsAccounted'
  <2> USE <1>6
  <2>0. c \in Threads /\ c \notin Producers /\ pc[c] = "next" /\ Move(c, "next", "lock")
    BY ThreadsAssumption DEF Threads, WaitFull, Move
  <2>1. /\ Cardinality(Filling)' = Cardinality(Filling)
        /\ Cardinality(Filled)' = Cardinality(Filled)
        /\ Cardinality(Draining)' = Cardinality(Draining) + 1
        /\ Cardinality(Drained)' = Cardinality(Drained)
        /\ Cardinality(Filling) \in Nat /\ Cardinality(Filled) \in Nat
        /\ Cardinality(Draining) \in Nat /\ Cardinality(Drained) \in Nat
    BY <1>0, <2>0, TokensAfterMove DEF Shifted, Locations
  <2>2. Count' = Count /\ SlotsAccounted'
    BY <1>0, <2>1 DEF WaitFull, SlotsAccounted, Count, TypeOK
  <2>3. First' = First /\ Free' = Free
    BY <1>0, <2>0 DEF WaitFull, Move, First, Free, Following, Threads, TypeOK
  <2>4. QED  BY <2>2, <2>3
<1>7. ASSUME NEW c \in Consumers, AdvanceOut(c)
      PROVE  Count' = Count /\ First' = First /\ Free' = Free /\ SlotsAccounted'
  <2> USE <1>7
  <2>0. c \in Threads /\ c \notin Producers /\ pc[c] = "advance" /\ Move(c, "advance", "unlock")
    BY ThreadsAssumption DEF Threads, AdvanceOut, Move
  <2>1. /\ Cardinality(Filling)' = Cardinality(Filling)
        /\ Cardinality(Filled)' = Cardinality(Filled)
        /\ Cardinality(Draining)' = Cardinality(Draining)
        /\ Cardinality(Drained)' = Cardinality(Drained)
        /\ Cardinality(Filling) \in Nat /\ Cardinality(Filled) \in Nat
        /\ Cardinality(Draining) \in Nat /\ Cardinality(Drained) \in Nat
    BY <1>0, <2>0, TokensAfterMove DEF Shifted, Locations
  <2>2. Count' = Count /\ SlotsAccounted'
    BY <1>0, <2>1 DEF AdvanceOut, SlotsAccounted, Count, TypeOK
  <2>3. First' = First /\ Free' = Free
    <3>1. \A v \in Threads : v # c => pc[v] # "advance"
      BY <1>0, <2>0, Alone DEF InCritical
    <3>2. pc'[c] = "unlock" /\ \A v \in Threads : v # c => pc'[v] = pc[v]
      BY <1>0, <2>0 DEF Move, TypeOK
    <3>3. QED  BY <2>0, <3>1, <3>2 DEF AdvanceOut, First, Free, Following, Threads
  <2>4. QED  BY <2>2, <2>3
<1>8. ASSUME NEW c \in Consumers, PostEmpty(c)
      PROVE  Count' = Count /\ First' = First /\ Free' = Free /\ SlotsAccounted'
  <2> USE <1>8
  <2>0. c \in Threads /\ c \notin Producers /\ pc[c] = "post" /\ Move(c, "post", "next")
    BY ThreadsAssumption DEF Threads, PostEmpty, SignalEmpty, NextIteration, Move
  <2>1. /\ Cardinality(Filling)' = Cardinality(Filling)
        /\ Cardinality(Filled)' = Cardinality(Filled)
        /\ Cardinality(Draining)' = Cardinality(Draining)
        /\ Cardinality(Drained)' = Cardinality(Drained) - 1
        /\ Cardinality(Filling) \in Nat /\ Cardinality(Filled) \in Nat
        /\ Cardinality(Draining) \in Nat /\ Cardinality(Drained) \in Nat
    BY <1>0, <2>0, TokensAfterMove DEF Shifted, Locations
  <2>2. Count' = Count /\ SlotsAccounted'
    BY <1>0, <2>1 DEF PostEmpty, SignalEmpty, NextIteration, SlotsAccounted, Count, TypeOK
  <2>3. First' = First /\ Free' = Free
    BY <1>0, <2>0
       DEF PostEmpty, SignalEmpty, NextIteration, Move, First, Free, Following, Threads, TypeOK
  <2>4. QED  BY <2>2, <2>3
<1>9. QED
  BY <1>1, <1>2, <1>3, <1>4, <1>5, <1>6, <1>7, <1>8 DEF Quiet

\* A producer's slot write makes the ring one item longer at its free end.
LEMMA WriteStep ==
    ASSUME IInv, NEW p \in Producers, WriteSlot(p)
    PROVE  /\ Count < BufferSize /\ Count' = Count + 1 /\ SlotsAccounted'
           /\ First' = First /\ Free = in /\ Free' = Following(in)
<1>0. TypeOK /\ OwnerOnly /\ SlotsAccounted
  BY DEF IInv
<1>1. p \in Threads /\ p \notin Consumers /\ pc[p] = "access" /\ Move(p, "access", "advance")
  BY ThreadsAssumption DEF Threads, WriteSlot, Move
<1>2. /\ Cardinality(Filling)' = Cardinality(Filling) - 1
      /\ Cardinality(Filled)' = Cardinality(Filled) + 1
      /\ Cardinality(Draining)' = Cardinality(Draining)
      /\ Cardinality(Drained)' = Cardinality(Drained)
      /\ Cardinality(Filling) \in Nat /\ Cardinality(Filled) \in Nat
      /\ Cardinality(Draining) \in Nat /\ Cardinality(Drained) \in Nat
  BY <1>0, <1>1, TokensAfterMove DEF Shifted, Locations
<1>3. Count' = Count + 1 /\ SlotsAccounted'
  BY <1>0, <1>2 DEF WriteSlot, SlotsAccounted, Count, TypeOK
<1>4. Count < BufferSize
  <2>1. p \in Filling  BY <1>1 DEF Filling
  <2>2. QED  BY <1>0, <2>1, CountBounds, Counted
<1>5. First' = First /\ Free = in /\ Free' = Following(in)
  <2>1. \A v \in Threads : pc[v] # "advance"
    BY <1>0, <1>1, Alone DEF InCritical
  <2>2. pc'[p] = "advance" /\ in' = in /\ out' = out
    BY <1>0, <1>1 DEF WriteSlot, Move, TypeOK
  <2>3. \A v \in Consumers : pc'[v] = pc[v]
    BY <1>0, <1>1 DEF Move, TypeOK
  <2>4. QED  BY <2>1, <2>2, <2>3 DEF First, Free, Following, Threads
<1>6. QED  BY <1>3, <1>4, <1>5

\* A consumer's slot read makes the ring one item shorter at its old end.
LEMMA ReadStep ==
    ASSUME IInv, NEW c \in Consumers, ReadSlot(c)
    PROVE  /\ Count > 0 /\ Count' = Count - 1 /\ SlotsAccounted'
           /\ First = out /\ First' = Following(out) /\ Free' = Free
<1>0. TypeOK /\ OwnerOnly /\ SlotsAccounted
  BY DEF IInv
<1>1. c \in Threads /\ c \notin Producers /\ pc[c] = "access" /\ Move(c, "access", "advance")
  BY ThreadsAssumption DEF Threads, ReadSlot, Move
<1>2. /\ Cardinality(Filling)' = Cardinality(Filling)
      /\ Cardinality(Filled)' = Cardinality(Filled)
      /\ Cardinality(Draining)' = Cardinality(Draining) - 1
      /\ Cardinality(Drained)' = Cardinality(Drained) + 1
      /\ Cardinality(Filling) \in Nat /\ Cardinality(Filled) \in Nat
      /\ Cardinality(Draining) \in Nat /\ Cardinality(Drained) \in Nat
  BY <1>0, <1>1, TokensAfterMove DEF Shifted, Locations
<1>3. Count' = Count - 1 /\ SlotsAccounted'
  BY <1>0, <1>2 DEF ReadSlot, SlotsAccounted, Count, TypeOK
<1>4. Count > 0
  <2>1. c \in Draining  BY <1>1 DEF Draining
  <2>2. QED  BY <1>0, <2>1, CountBounds, Counted
<1>5. First = out /\ First' = Following(out) /\ Free' = Free
  <2>1. \A v \in Threads : pc[v] # "advance"
    BY <1>0, <1>1, Alone DEF InCritical
  <2>2. pc'[c] = "advance" /\ in' = in /\ out' = out
    BY <1>0, <1>1 DEF ReadSlot, Move, TypeOK
  <2>3. \A v \in Producers : pc'[v] = pc[v]
    BY <1>0, <1>1 DEF Move, TypeOK
  <2>4. QED  BY <2>1, <2>2, <2>3 DEF First, Free, Following, Threads
<1>6. QED  BY <1>3, <1>4, <1>5

\* Every step preserves the invariant.  A slot access changes Count by one and
\* moves First or Free with it; every other step leaves all three as they are.
LEMMA InvariantStep == IInv /\ [Next]_vars => IInv'
<1> SUFFICES ASSUME IInv, [Next]_vars PROVE IInv'
  OBVIOUS
<1> USE ThreadsAssumption, SizesAssumption
<1>0. /\ TypeOK /\ LoopBound /\ ItemLoaded /\ OwnerOnly /\ SlotsAccounted /\ CursorsAgree
      /\ Count \in 0..BufferSize /\ First \in Slots /\ Free \in Slots
  BY CountBounds, FollowingSlot DEF IInv, TypeOK, First, Free
<1>1. ASSUME NEW t \in Threads, Lock(t)
      PROVE  IInv'
  <2> USE <1>1
  <2>0. t \in Threads /\ pc[t] = "lock" /\ Move(t, "lock", "access")
    BY ThreadsAssumption DEF Threads, Lock, Move
  <2>1. SlotsAccounted' /\ CursorsAgree'
    BY <1>0, <2>0, QuietStep DEF Quiet, CursorsAgree
  <2>3. TypeOK'
    BY <1>0, <2>0 DEF TypeOK, Lock, Move, Locations
  <2>4. LoopBound' /\ ItemLoaded'
    BY <1>0, <2>0 DEF TypeOK, LoopBound, ItemLoaded, Lock, Move, Threads
  <2>5. OwnerOnly'
    BY <1>0, <2>0 DEF TypeOK, OwnerOnly, InCritical, Lock, Move, MutexFree
  <2>6. QED  BY <2>1, <2>3, <2>4, <2>5 DEF IInv
<1>2. ASSUME NEW t \in Threads, Unlock(t)
      PROVE  IInv'
  <2> USE <1>2
  <2>0. t \in Threads /\ pc[t] = "unlock" /\ Move(t, "unlock", "post")
    BY ThreadsAssumption DEF Threads, Unlock, Move
  <2>1. SlotsAccounted' /\ CursorsAgree'
    BY <1>0, <2>0, QuietStep DEF Quiet, CursorsAgree
  <2>3. TypeOK'
    BY <1>0, <2>0 DEF TypeOK, Unlock, Move, Locations
  <2>4. LoopBound' /\ ItemLoaded'
    BY <1>0, <2>0 DEF TypeOK, LoopBound, ItemLoaded, Unlock, Move, Threads
  <2>5. OwnerOnly'
    BY <1>0, <2>0 DEF TypeOK, OwnerOnly, InCritical, Unlock, Move
  <2>6. QED  BY <2>1, <2>3, <2>4, <2>5 DEF IInv
<1>3. ASSUME NEW p \in Producers, WaitEmpty(p)
      PROVE  IInv'
  <2> USE <1>3
  <2>0. p \in Threads /\ p \notin Consumers /\ pc[p] = "next" /\ Move(p, "next", "lock")
    BY ThreadsAssumption DEF Threads, WaitEmpty, Move
  <2>1. SlotsAccounted' /\ CursorsAgree'
    BY <1>0, <2>0, QuietStep DEF Quiet, CursorsAgree
  <2>3. TypeOK'
    BY <1>0, <2>0 DEF TypeOK, WaitEmpty, Move, Locations, LoopAgain, Item
  <2>4. LoopBound' /\ ItemLoaded'
    BY <1>0, <2>0 DEF TypeOK, LoopBound, ItemLoaded, WaitEmpty, Move, Threads, LoopAgain
  <2>5. OwnerOnly'
    BY <1>0, <2>0 DEF TypeOK, OwnerOnly, InCritical, WaitEmpty, Move
  <2>6. QED  BY <2>1, <2>3, <2>4, <2>5 DEF IInv
<1>4. ASSUME NEW p \in Producers, AdvanceIn(p)
      PROVE  IInv'
  <2> USE <1>4
  <2>0. p \in Threads /\ p \notin Consumers /\ pc[p] = "advance" /\ Move(p, "advance", "unlock")
    BY ThreadsAssumption DEF Threads, AdvanceIn, Move
  <2>1. SlotsAccounted' /\ CursorsAgree'
    BY <1>0, <2>0, QuietStep DEF Quiet, CursorsAgree
  <2>3. TypeOK'
    <3>1. in' \in Slots
      BY <1>0, FollowingSlot DEF TypeOK, AdvanceIn
    <3>2. QED  BY <1>0, <2>0, <3>1 DEF TypeOK, AdvanceIn, Move, Locations
  <2>4. LoopBound' /\ ItemLoaded'
    BY <1>0, <2>0 DEF TypeOK, LoopBound, ItemLoaded, AdvanceIn, Move, Threads
  <2>5. OwnerOnly'
    BY <1>0, <2>0 DEF TypeOK, OwnerOnly, InCritical, AdvanceIn, Move
  <2>6. QED  BY <2>1, <2>3, <2>4, <2>5 DEF IInv
<1>5. ASSUME NEW p \in Producers, PostFull(p)
      PROVE  IInv'
  <2> USE <1>5
  <2>0. p \in Threads /\ p \notin Consumers /\ pc[p] = "post" /\ Move(p, "post", "next")
    BY ThreadsAssumption DEF Threads, PostFull, SignalFull, NextIteration, Move
  <2>1. SlotsAccounted' /\ CursorsAgree'
    BY <1>0, <2>0, QuietStep DEF Quiet, CursorsAgree
  <2>2. i[p] + 1 \in 0..MaxItems
    BY <1>0, <2>0 DEF LoopBound, TypeOK
  <2>3. TypeOK'
    <3>1. empty' \in 0..BufferSize /\ full' \in 0..BufferSize
      <4>1. SlotsAccounted' /\ TokenCounts'
        BY <2>1, TokenCountsNat
      <4>2. QED  BY <1>0, <4>1
                    DEF SlotsAccounted, TokenCounts, Count, TypeOK, PostFull, SignalFull, NextIteration
    <3>2. QED  BY <1>0, <2>0, <2>2, <3>1
                  DEF TypeOK, PostFull, SignalFull, NextIteration, Move, Locations
  <2>4. LoopBound' /\ ItemLoaded'
    BY <1>0, <2>0, <2>2
       DEF TypeOK, LoopBound, ItemLoaded, PostFull, SignalFull, NextIteration, Move, Threads
  <2>5. OwnerOnly'
    BY <1>0, <2>0 DEF TypeOK, OwnerOnly, InCritical, PostFull, SignalFull, NextIteration, Move
  <2>6. QED  BY <2>1, <2>3, <2>4, <2>5 DEF IInv
<1>6. ASSUME NEW c \in Consumers, WaitFull(c)
      PROVE  IInv'
  <2> USE <1>6
  <2>0. c \in Threads /\ c \notin Producers /\ pc[c] = "next" /\ Move(c, "next", "lock")
    BY ThreadsAssumption DEF Threads, WaitFull, Move
  <2>1. SlotsAccounted' /\ CursorsAgree'
    BY <1>0, <2>0, QuietStep DEF Quiet, CursorsAgree
  <2>3. TypeOK'
    BY <1>0, <2>0 DEF TypeOK, WaitFull, Move, Locations, LoopAgain, Item
  <2>4. LoopBound' /\ ItemLoaded'
    BY <1>0, <2>0 DEF TypeOK, LoopBound, ItemLoaded, WaitFull, Move, Threads, LoopAgain
  <2>5. OwnerOnly'
    BY <1>0, <2>0 DEF TypeOK, OwnerOnly, InCritical, WaitFull, Move
  <2>6. QED  BY <2>1, <2>3, <2>4, <2>5 DEF IInv
<1>7. ASSUME NEW c \in Consumers, AdvanceOut(c)
      PROVE  IInv'
  <2> USE <1>7
  <2>0. c \in Threads /\ c \notin Producers /\ pc[c] = "advance" /\ Move(c, "advance", "unlock")
    BY ThreadsAssumption DEF Threads, AdvanceOut, Move
  <2>1. SlotsAccounted' /\ CursorsAgree'
    BY <1>0, <2>0, QuietStep DEF Quiet, CursorsAgree
  <2>3. TypeOK'
    <3>1. out' \in Slots
      BY <1>0, FollowingSlot DEF TypeOK, AdvanceOut
    <3>2. QED  BY <1>0, <2>0, <3>1 DEF TypeOK, AdvanceOut, Move, Locations
  <2>4. LoopBound' /\ ItemLoaded'
    BY <1>0, <2>0 DEF TypeOK, LoopBound, ItemLoaded, AdvanceOut, Move, Threads
  <2>5. OwnerOnly'
    BY <1>0, <2>0 DEF TypeOK, OwnerOnly, InCritical, AdvanceOut, Move
  <2>6. QED  BY <2>1, <2>3, <2>4, <2>5 DEF IInv
<1>8. ASSUME NEW c \in Consumers, PostEmpty(c)
      PROVE  IInv'
  <2> USE <1>8
  <2>0. c \in Threads /\ c \notin Producers /\ pc[c] = "post" /\ Move(c, "post", "next")
    BY ThreadsAssumption DEF Threads, PostEmpty, SignalEmpty, NextIteration, Move
  <2>1. SlotsAccounted' /\ CursorsAgree'
    BY <1>0, <2>0, QuietStep DEF Quiet, CursorsAgree
  <2>2. i[c] + 1 \in 0..MaxItems
    BY <1>0, <2>0 DEF LoopBound, TypeOK
  <2>3. TypeOK'
    <3>1. empty' \in 0..BufferSize /\ full' \in 0..BufferSize
      <4>1. SlotsAccounted' /\ TokenCounts'
        BY <2>1, TokenCountsNat
      <4>2. QED  BY <1>0, <4>1
                    DEF SlotsAccounted, TokenCounts, Count, TypeOK, PostEmpty, SignalEmpty, NextIteration
    <3>2. QED  BY <1>0, <2>0, <2>2, <3>1
                  DEF TypeOK, PostEmpty, SignalEmpty, NextIteration, Move, Locations
  <2>4. LoopBound' /\ ItemLoaded'
    BY <1>0, <2>0, <2>2
       DEF TypeOK, LoopBound, ItemLoaded, PostEmpty, SignalEmpty, NextIteration, Move, Threads
  <2>5. OwnerOnly'
    BY <1>0, <2>0 DEF TypeOK, OwnerOnly, InCritical, PostEmpty, SignalEmpty, NextIteration, Move
  <2>6. QED  BY <2>1, <2>3, <2>4, <2>5 DEF IInv
<1>9. ASSUME NEW p \in Producers, WriteSlot(p)
      PROVE  IInv'
  <2> USE <1>9
  <2>0. p \in Threads /\ p \notin Consumers /\ pc[p] = "access" /\ Move(p, "access", "advance")
    BY ThreadsAssumption DEF Threads, WriteSlot, Move
  <2>1. SlotsAccounted' /\ CursorsAgree'
    BY <1>0, WriteStep, CursorShift DEF CursorsAgree
  <2>3. TypeOK'
    BY <1>0, <2>0 DEF TypeOK, WriteSlot, Move, Locations
  <2>4. LoopBound' /\ ItemLoaded'
    BY <1>0, <2>0 DEF TypeOK, LoopBound, ItemLoaded, WriteSlot, Move, Threads
  <2>5. OwnerOnly'
    BY <1>0, <2>0 DEF TypeOK, OwnerOnly, InCritical, WriteSlot, Move
  <2>6. QED  BY <2>1, <2>3, <2>4, <2>5 DEF IInv
<1>10. ASSUME NEW c \in Consumers, ReadSlot(c)
      PROVE  IInv'
  <2> USE <1>10
  <2>0. c \in Threads /\ c \notin Producers /\ pc[c] = "access" /\ Move(c, "access", "advance")
    BY ThreadsAssumption DEF Threads, ReadSlot, Move
  <2>1. SlotsAccounted' /\ CursorsAgree'
    <3>1. /\ SlotsAccounted' /\ Count > 0 /\ Count' = Count - 1
          /\ First' = Following(First) /\ Free' = Free
      BY <1>0, ReadStep
    <3>2. (Following(First) + (Count - 1)) % BufferSize = (First + Count) % BufferSize
      BY <1>0, <3>1, CursorShift
    <3>3. QED  BY <1>0, <3>1, <3>2 DEF CursorsAgree
  <2>3. TypeOK'
    BY <1>0, <2>0 DEF TypeOK, ReadSlot, Move, Locations
  <2>4. LoopBound' /\ ItemLoaded'
    BY <1>0, <2>0 DEF TypeOK, LoopBound, ItemLoaded, ReadSlot, Move, Threads
  <2>5. OwnerOnly'
    BY <1>0, <2>0 DEF TypeOK, OwnerOnly, InCritical, ReadSlot, Move
  <2>6. QED  BY <2>1, <2>3, <2>4, <2>5 DEF IInv
<1>11. CASE UNCHANGED vars
  BY <1>0, <1>11 DEF vars, IInv, TypeOK, LoopBound, ItemLoaded, OwnerOnly, InCritical,
     SlotsAccounted, CursorsAgree, Count, First, Free, Filling, Filled, Draining, Drained
<1>12. QED
  BY <1>1, <1>2, <1>3, <1>4, <1>5, <1>6, <1>7, <1>8, <1>9, <1>10, <1>11
     DEF Next, Producer, Consumer, Exit, Threads

\* The inductive invariant holds for every number of threads, every ring size
\* and every number of items (main.c:18-53).
THEOREM Invariance == Spec => []IInv
<1>1. QED  BY InitialInvariant, InvariantStep, PTL DEF Spec

\* Every variable keeps its type; in particular the semaphores never exceed
\* BufferSize and the cursors stay inside the ring (main.c:29, 46, 60-61).
THEOREM TypeCorrect == Spec => []TypeOK
<1>1. IInv => TypeOK  BY DEF IInv
<1>2. QED  BY <1>1, Invariance, PTL

\* The semaphores account for every slot of the ring (main.c:24-49).
THEOREM SlotsAlwaysAccounted == Spec => []SlotsAccounted
<1>1. IInv => SlotsAccounted  BY DEF IInv
<1>2. QED  BY <1>1, Invariance, PTL

\* The cursors agree with the semaphores (main.c:29, 46).
THEOREM CursorsAlwaysAgree == Spec => []CursorsAgree
<1>1. IInv => CursorsAgree  BY DEF IInv
<1>2. QED  BY <1>1, Invariance, PTL
-----------------------------------------------------------------------------
(* The program implements the bounded FIFO queue *)

\* Different distances from a slot lead to different slots.
LEMMA DistinctSlots ==
    ASSUME NEW s \in Slots, NEW m \in 0..(BufferSize - 1), NEW n \in 0..(BufferSize - 1),
           (s + m) % BufferSize = (s + n) % BufferSize
    PROVE  m = n
<1>1. m \in 0..BufferSize /\ n \in 0..BufferSize
  BY SizesAssumption
<1>2. (s + m) % BufferSize = IF s + m < BufferSize THEN s + m ELSE s + m - BufferSize
  BY <1>1, Wrap
<1>3. (s + n) % BufferSize = IF s + n < BufferSize THEN s + n ELSE s + n - BufferSize
  BY <1>1, Wrap
<1> DEFINE x == (s + m) % BufferSize
           y == (s + n) % BufferSize
<1>4. x = y
  OBVIOUS
<1> HIDE DEF x, y
<1>5. x = (IF s + m < BufferSize THEN s + m ELSE s + m - BufferSize)
  BY <1>2 DEF x
<1>6. y = (IF s + n < BufferSize THEN s + n ELSE s + n - BufferSize)
  BY <1>3 DEF y
<1>7. BufferSize \in Nat /\ s \in 0..(BufferSize - 1)
  BY SizesAssumption DEF Slots
<1>8. QED  BY <1>4, <1>5, <1>6, <1>7

\* Contents is a sequence of items of length Count.
LEMMA ContentsSeq ==
    ASSUME IInv
    PROVE  /\ Count \in Nat
           /\ Contents = [k \in 1..Count |-> buffer[(First + (k - 1)) % BufferSize]]
           /\ Contents \in Seq(Item \cup {NoItem})
           /\ Len(Contents) = Count
<1>1. TypeOK /\ Count \in 0..BufferSize /\ First \in Slots
  BY CountBounds, FollowingSlot DEF IInv, TypeOK, First
<1>2. ASSUME NEW k \in 1..Count
      PROVE  buffer[(First + (k - 1)) % BufferSize] \in Item \cup {NoItem}
  <2>1. (First + (k - 1)) % BufferSize \in Slots
    BY <1>1, SizesAssumption DEF Slots
  <2>2. QED  BY <1>1, <2>1 DEF TypeOK
<1>3. QED  BY <1>1, <1>2 DEF Contents

\* Initially the ring is empty and nothing was sent or taken.
LEMMA FifoInit == Init => Fifo!Init
<1> SUFFICES ASSUME Init PROVE Fifo!Init
  OBVIOUS
<1>1. Filled = {} /\ Drained = {} /\ Draining = {}
  BY DEF Init, Filled, Drained, Draining, Threads
<1>2. Count = 0
  BY <1>1, FS_EmptySet DEF Count, Init
<1>3. Contents = <<>>
  BY <1>2, InitialInvariant, ContentsSeq
<1>4. Sent = [p \in Producers |-> 0] /\ Taken = [c \in Consumers |-> 0]
  BY <1>1 DEF Sent, Taken, Init, Threads
<1>5. Held = [c \in Consumers |-> Fifo!NoItem]
  BY DEF Held, Init, Threads, NoItem, Fifo!NoItem
<1>6. QED  BY <1>3, <1>4, <1>5 DEF Fifo!Init

\* A step that does not access a slot is a stutter of the queue.
LEMMA FifoStutter ==
    ASSUME IInv, NEW t \in Threads, Quiet(t)
    PROVE  UNCHANGED Fifo!vars
<1>0. TypeOK /\ OwnerOnly  BY DEF IInv
<1>1. Count' = Count /\ First' = First
  BY QuietStep
<1>2. buffer' = buffer
  BY DEF Quiet, Lock, Unlock, WaitEmpty, AdvanceIn, PostFull, WaitFull, AdvanceOut, PostEmpty
<1>3. Contents' = Contents
  BY <1>1, <1>2 DEF Contents
<1>4. ASSUME NEW p \in Producers
      PROVE  Sent'[p] = Sent[p]
  <2>1. p \in Threads /\ p \notin Consumers
    BY ThreadsAssumption DEF Threads
  <2>2. QED
    BY <1>0, <2>1 DEF TypeOK, Sent, Filled, Move, Quiet, Lock, Unlock, WaitEmpty, AdvanceIn,
       PostFull, SignalFull, NextIteration, WaitFull, AdvanceOut, PostEmpty, SignalEmpty
<1>5. ASSUME NEW c \in Consumers
      PROVE  Taken'[c] = Taken[c] /\ Held'[c] = Held[c]
  <2>1. c \in Threads /\ c \notin Producers
    BY ThreadsAssumption DEF Threads
  <2>2. QED
    BY <1>0, <2>1 DEF TypeOK, Taken, Drained, Held, Move, Quiet, Lock, Unlock, WaitEmpty,
       AdvanceIn, PostFull, SignalFull, NextIteration, WaitFull, AdvanceOut,
       PostEmpty, SignalEmpty
<1>6. Sent' = Sent /\ Taken' = Taken /\ Held' = Held
  BY <1>4, <1>5 DEF Sent, Taken, Held
<1>7. QED  BY <1>3, <1>6 DEF Fifo!vars

\* A slot write puts the producer's next item at the end of the queue.
LEMMA FifoPut ==
    ASSUME IInv, NEW p \in Producers, WriteSlot(p)
    PROVE  Fifo!Put(p)
<1>0. TypeOK /\ LoopBound /\ ItemLoaded /\ OwnerOnly /\ CursorsAgree
  BY DEF IInv
<1>1. p \in Threads /\ p \notin Consumers /\ pc[p] = "access" /\ Move(p, "access", "advance")
  BY ThreadsAssumption DEF Threads, WriteSlot, Move
<1>2. /\ Count < BufferSize /\ Count' = Count + 1 /\ First' = First /\ Free = in
      /\ Count \in Nat /\ First \in Slots /\ in \in Slots
  BY <1>0, WriteStep, ContentsSeq, FollowingSlot DEF TypeOK, First
<1>3. item[p] = <<p, i[p] + 1>> /\ i[p] < MaxItems /\ i[p] \in Nat
  BY <1>0, <1>1 DEF ItemLoaded, LoopBound, TypeOK
<1>4. ASSUME NEW k \in 1..Count
      PROVE  buffer'[(First + (k - 1)) % BufferSize] = buffer[(First + (k - 1)) % BufferSize]
  <2>1. k - 1 \in 0..(BufferSize - 1) /\ Count \in 0..(BufferSize - 1) /\ k - 1 # Count
    BY <1>2, SizesAssumption
  <2>2. in = (First + Count) % BufferSize
    BY <1>0, <1>2 DEF CursorsAgree
  <2>3. in # (First + (k - 1)) % BufferSize
    BY <1>2, <2>1, <2>2, DistinctSlots
  <2>4. QED  BY <1>0, <2>3 DEF WriteSlot, TypeOK
<1>5. buffer'[(First + Count) % BufferSize] = item[p]
  BY <1>0, <1>2 DEF WriteSlot, TypeOK, CursorsAgree
<1>6. Contents' = Append(Contents, <<p, Sent[p] + 1>>)
  <2>1. p \notin Filled
    BY <1>1 DEF Filled
  <2>2. Sent[p] = i[p]
    BY <2>1 DEF Sent
  <2> DEFINE new == [k \in 1..(Count + 1) |-> buffer'[(First + (k - 1)) % BufferSize]]
  <2>3. Contents' = new
    BY <1>2 DEF Contents
  <2>4. \A k \in 1..Count : new[k] = Contents[k]
    BY <1>2, <1>4 DEF Contents
  <2>5. new[Count + 1] = item[p]
    BY <1>2, <1>5
  <2>6. Contents \in Seq(Item \cup {NoItem}) /\ Len(Contents) = Count
    BY ContentsSeq
  <2> DEFINE longer == Append(Contents, item[p])
  <2>7. /\ longer = [k \in 1..(Count + 1) |-> longer[k]]
        /\ \A k \in 1..Count : longer[k] = Contents[k]
        /\ longer[Count + 1] = item[p]
    BY <1>2, <2>6
  <2>8. \A k \in 1..(Count + 1) : new[k] = longer[k]
    <3> HIDE DEF new, longer
    <3>1. QED  BY <1>2, <2>4, <2>5, <2>7
  <2>9. new = longer
    BY <2>7, <2>8
  <2>10. QED  BY <1>3, <2>2, <2>3, <2>9
<1>7. Sent[p] < MaxItems /\ Sent' = [Sent EXCEPT ![p] = @ + 1]
  <2>1. p \notin Filled /\ Filled' = Filled \cup {p}
    BY <1>0, <1>1 DEF Filled, TypeOK, Move
  <2>2. i' = i
    BY DEF WriteSlot
  <2>3. QED  BY <1>3, <2>1, <2>2 DEF Sent
<1>8. Len(Contents) < BufferSize
  BY <1>2, ContentsSeq
<1>9. UNCHANGED <<Taken, Held>>
  <2>1. Drained' = Drained
    BY <1>0, <1>1 DEF Drained, TypeOK, Move
  <2>2. QED  BY <2>1 DEF Taken, Held, WriteSlot
<1>10. QED  BY <1>6, <1>7, <1>8, <1>9 DEF Fifo!Put

\* A slot read takes the oldest item of the queue.
LEMMA FifoGet ==
    ASSUME IInv, NEW c \in Consumers, ReadSlot(c)
    PROVE  Fifo!Get(c)
<1>0. TypeOK /\ LoopBound
  BY DEF IInv
<1>1. c \in Threads /\ c \notin Producers /\ pc[c] = "access" /\ Move(c, "access", "advance")
  BY ThreadsAssumption DEF Threads, ReadSlot, Move
<1>2. /\ Count > 0 /\ Count' = Count - 1 /\ First = out /\ First' = Following(out)
      /\ Count \in 0..BufferSize /\ First \in Slots
  BY <1>0, ReadStep, CountBounds DEF TypeOK, IInv
<1>3. i[c] < MaxItems /\ i[c] \in Nat
  BY <1>0, <1>1 DEF LoopBound, TypeOK
<1>4. Contents \in Seq(Item \cup {NoItem}) /\ Len(Contents) = Count /\ Contents # <<>>
  BY <1>2, ContentsSeq
<1>5. Head(Contents) = buffer[out]
  <2>1. Contents[1] = buffer[(First + 0) % BufferSize]
    BY <1>2 DEF Contents
  <2>2. (First + 0) % BufferSize = First
    BY <1>2, SizesAssumption DEF Slots
  <2>3. QED  BY <1>2, <1>4, <2>1, <2>2
<1>6. Contents' = Tail(Contents)
  <2>1. ASSUME NEW k \in 1..(Count - 1)
        PROVE  (Following(First) + (k - 1)) % BufferSize = (First + ((k + 1) - 1)) % BufferSize
    <3>1. k \in 0..BufferSize /\ k > 0 /\ (k + 1) - 1 = k
      BY <1>2, SizesAssumption
    <3>2. QED  BY <1>2, <3>1, CursorShift
  <2>2. Contents' = [k \in 1..(Count - 1) |-> buffer[(Following(First) + (k - 1)) % BufferSize]]
    BY <1>2 DEF Contents, ReadSlot
  <2>3. Tail(Contents) = [k \in 1..(Count - 1) |-> Contents[k + 1]]
    <3>1. /\ Tail(Contents) \in Seq(Item \cup {NoItem})
          /\ Len(Tail(Contents)) = Count - 1
          /\ \A k \in 1..(Count - 1) : Tail(Contents)[k] = Contents[k + 1]
      BY <1>4, HeadTailProperties
    <3>2. ASSUME NEW S, NEW q \in Seq(S)
          PROVE  q = [k \in 1..Len(q) |-> q[k]]
      OBVIOUS
    <3>3. Tail(Contents) = [k \in 1..(Count - 1) |-> Tail(Contents)[k]]
      BY <3>1, <3>2
    <3>4. QED  BY <3>1, <3>3
  <2>4. \A k \in 1..(Count - 1) :
          Contents[k + 1] = buffer[(Following(First) + (k - 1)) % BufferSize]
    BY <1>2, <2>1 DEF Contents
  <2>5. QED  BY <2>2, <2>3, <2>4
<1>7. Taken[c] < MaxItems /\ Taken' = [Taken EXCEPT ![c] = @ + 1]
  <2>1. c \notin Drained /\ Drained' = Drained \cup {c}
    BY <1>0, <1>1 DEF Drained, TypeOK, Move
  <2>2. i' = i
    BY DEF ReadSlot
  <2>3. QED  BY <1>3, <2>1, <2>2 DEF Taken
<1>8. Held' = [Held EXCEPT ![c] = buffer[out]]
  <2>1. \A d \in Consumers : item'[d] = IF d = c THEN buffer[out] ELSE item[d]
    BY <1>0 DEF ReadSlot, TypeOK, Threads
  <2>2. Held' = [d \in Consumers |-> IF d = c THEN buffer[out] ELSE item[d]]
    BY <2>1 DEF Held
  <2>3. QED  BY <2>2 DEF Held
<1>9. Sent' = Sent
  <2>1. Filled' = Filled
    BY <1>0, <1>1 DEF Filled, TypeOK, Move
  <2>2. QED  BY <2>1 DEF Sent, ReadSlot
<1>10. QED  BY <1>4, <1>5, <1>6, <1>7, <1>8, <1>9 DEF Fifo!Get

\* Whatever the interleaving, the program with any number of threads behaves as
\* the bounded FIFO queue (main.c:18-53): nothing is lost, duplicated,
\* overwritten or taken out of order.
THEOREM Refinement == Spec => ImplementsFifo
<1>1. IInv /\ [Next]_vars => [Fifo!Next]_(Fifo!vars)
  <2> SUFFICES ASSUME IInv, [Next]_vars
               PROVE  Fifo!Next \/ UNCHANGED Fifo!vars
    OBVIOUS
  <2>1. CASE \E p \in Producers : WriteSlot(p)
    BY <2>1, FifoPut DEF Fifo!Next
  <2>2. CASE \E c \in Consumers : ReadSlot(c)
    BY <2>2, FifoGet DEF Fifo!Next
  <2>3. CASE \E t \in Threads : Quiet(t)
    BY <2>3, FifoStutter
  <2>4. CASE UNCHANGED vars
    BY <2>4 DEF vars, Fifo!vars, Contents, Count, First, Filled, Draining, Drained,
       Sent, Taken, Held
  <2>5. QED
    BY <2>1, <2>2, <2>3, <2>4 DEF Next, Producer, Consumer, Exit, Threads, Quiet
<1>2. QED
  BY <1>1, FifoInit, Invariance, PTL DEF Spec, ImplementsFifo, Fifo!Spec
=============================================================================
