---------------------------- MODULE SantaProofs ----------------------------
(***************************************************************************)
(* Theorems about Santa for every number of reindeer and of cycles, any    *)
(* number of spurious wakeups, and also when holidays are arbitrarily      *)
(* short (Prompt FALSE).                                                   *)
(***************************************************************************)
EXTENDS Santa, FiniteSetTheorems, TLAPS

LEMMA Numbers == R \in Nat \ {0} /\ Cycles \in Nat \ {0} /\ MaxSpurious \in Nat
BY NumbersAssumption, SwitchesAssumption

-----------------------------------------------------------------------------
(* Types, cycles and the counter mutex, whatever wakes Santa *)

Basic == TypeOK /\ CyclesLeft /\ CounterGuarded

LEMMA BasicSanta ==
    ASSUME Basic, SantaStep \/ WakeSpuriously
    PROVE  Basic'
<1>1. TypeOK /\ CyclesLeft /\ CounterGuarded
    BY DEF Basic
<1>2. CASE FallAsleep
  <2>1. TypeOK'
      BY <1>1, <1>2 DEF TypeOK, FallAsleep, reindeers
  <2>2. CyclesLeft' /\ CounterGuarded'
      BY <1>1, <1>2 DEF CyclesLeft, CounterGuarded, FallAsleep, reindeers
  <2>. QED BY <2>1, <2>2 DEF Basic
<1>3. CASE WakeSpuriously
  <2>1. spurious' \in 0..MaxSpurious
      BY <1>1, <1>3, Numbers DEF TypeOK, WakeSpuriously
  <2>2. TypeOK'
      BY <1>1, <1>3, <2>1 DEF TypeOK, WakeSpuriously, reindeers
  <2>3. CyclesLeft' /\ CounterGuarded'
      BY <1>1, <1>3 DEF CyclesLeft, CounterGuarded, WakeSpuriously, reindeers
  <2>. QED BY <2>2, <2>3 DEF Basic
<1>4. CASE Deliver
  <2>1. TypeOK'
      BY <1>1, <1>4, Numbers DEF TypeOK, Deliver, reindeers
  <2>2. CyclesLeft' /\ CounterGuarded'
      BY <1>1, <1>4 DEF CyclesLeft, CounterGuarded, Deliver, reindeers
  <2>. QED BY <2>1, <2>2 DEF Basic
<1>5. CASE Release
  <2>1. next' \in 1..(R + 1)
      BY <1>1, <1>5, Numbers DEF TypeOK, Release, LastReleased
  <2>2. gate' \in [Reindeer -> BOOLEAN]
      BY <1>1, <1>5 DEF TypeOK, Release
  <2>3. TypeOK'
      BY <1>1, <1>5, <2>1, <2>2 DEF TypeOK, Release
  <2>4. CyclesLeft' /\ CounterGuarded'
      BY <1>1, <1>5 DEF CyclesLeft, CounterGuarded, Release
  <2>. QED BY <2>3, <2>4 DEF Basic
<1>6. CASE EndCycle
  <2>1. cycle' \in 0..Cycles /\ next' \in 1..(R + 1)
      BY <1>1, <1>6, Numbers DEF TypeOK, CyclesLeft, EndCycle
  <2>2. TypeOK'
      BY <1>1, <1>6, <2>1 DEF TypeOK, EndCycle, reindeers
  <2>3. CyclesLeft' /\ CounterGuarded'
      BY <1>1, <1>6 DEF CyclesLeft, CounterGuarded, EndCycle, reindeers
  <2>. QED BY <2>2, <2>3 DEF Basic
\* A reindeer that is cancelled with the counter mutex keeps it.
<1>7. CASE Cancel
  <2>1. next \in Reindeer /\ next' \in 1..(R + 1)
      BY <1>1, <1>7, Numbers DEF TypeOK, Cancel, Reindeer
  <2>2. /\ pc \in [Reindeer -> {"start", "holiday", "count", "store", "check",
                                "leave", "gate", "cancelled"}]
        /\ pc' = [pc EXCEPT ![next] = "cancelled"]
        /\ guard \in SUBSET Reindeer
        /\ UNCHANGED <<santa, cycle, spurious, count, read, guard, gate>>
      BY <1>1, <1>7 DEF TypeOK, Cancel
  <2>3. TypeOK'
      BY <1>1, <2>1, <2>2 DEF TypeOK
  <2>4. CyclesLeft'
      BY <1>1, <2>2 DEF CyclesLeft
  <2>5. CounterGuarded'
    <3>1. \A r \in Reindeer : pc'[r] = "cancelled" \/ pc'[r] = pc[r]
        BY <2>1, <2>2
    <3>. QED BY <1>1, <2>2, <3>1 DEF CounterGuarded
  <2>. QED BY <2>3, <2>4, <2>5 DEF Basic
<1>8. CASE Finish
  <2>1. TypeOK'
      BY <1>1, <1>8 DEF TypeOK, Finish, reindeers
  <2>2. CyclesLeft' /\ CounterGuarded'
      BY <1>1, <1>8 DEF CyclesLeft, CounterGuarded, Finish, reindeers
  <2>. QED BY <2>1, <2>2 DEF Basic
<1>. QED BY <1>2, <1>3, <1>4, <1>5, <1>6, <1>7, <1>8 DEF SantaStep

\* What a reindeer's step does to the control points and to Santa.
LEMMA Moved ==
    ASSUME TypeOK, NEW r \in Reindeer, NEW from, NEW to, Move(r, from, to)
    PROVE  /\ pc[r] = from /\ pc'[r] = to
           /\ \A q \in Reindeer \ {r} : pc'[q] = pc[q]
BY DEF TypeOK, Move

LEMMA MovedType ==
    ASSUME TypeOK, NEW r \in Reindeer, ReindeerStep(r)
    PROVE  pc' \in [Reindeer -> {"start", "holiday", "count", "store", "check",
                                 "leave", "gate", "cancelled"}]
BY DEF TypeOK, ReindeerStep, LockFirst, ComeBack, LoadCount, StoreCount, SignalSanta,
       NotLast, UnlockCount, PassGate, Move

\* Santa is left alone, but for the signal.
LEMMA SantaKept ==
    ASSUME NEW r \in Reindeer, ReindeerStep(r)
    PROVE  /\ UNCHANGED <<cycle, next, spurious>>
           /\ santa' = santa \/ (SignalSanta(r) /\ santa = "asleep" /\ santa' = "deliver")
BY DEF ReindeerStep, LockFirst, ComeBack, LoadCount, StoreCount, SignalSanta,
       NotLast, UnlockCount, PassGate, santaVars

LEMMA CounterReindeer ==
    ASSUME Basic, NEW r \in Reindeer, ReindeerStep(r)
    PROVE  /\ count' \in 0..R /\ read' \in [Reindeer -> 0..R]
           /\ guard' \in SUBSET Reindeer /\ CounterGuarded'
<1>1. TypeOK /\ CounterGuarded /\ R \in Nat \ {0}
    BY Numbers DEF Basic
<1>2. count \in 0..R /\ read \in [Reindeer -> 0..R] /\ guard \in SUBSET Reindeer
    BY <1>1 DEF TypeOK
<1>3. CASE LockFirst(r) \/ PassGate(r)
  <2>1. /\ pc[r] \in {"start", "gate"} /\ pc'[r] = "holiday"
        /\ \A q \in Reindeer \ {r} : pc'[q] = pc[q]
      BY <1>1, <1>3, Moved DEF LockFirst, PassGate
  <2>2. UNCHANGED <<count, read, guard>>
      BY <1>3 DEF LockFirst, PassGate
  <2>. QED BY <1>1, <1>2, <2>1, <2>2 DEF CounterGuarded
<1>4. CASE ComeBack(r)
  <2>1. /\ pc[r] = "holiday" /\ pc'[r] = "count"
        /\ \A q \in Reindeer \ {r} : pc'[q] = pc[q]
      BY <1>1, <1>4, Moved DEF ComeBack
  <2>2. guard = {} /\ guard' = {r} /\ UNCHANGED <<count, read>>
      BY <1>4 DEF ComeBack, GuardFree
  <2>. QED BY <1>1, <1>2, <2>1, <2>2 DEF CounterGuarded
<1>5. CASE LoadCount(r)
  <2>1. /\ pc[r] = "count" /\ pc'[r] = "store"
        /\ \A q \in Reindeer \ {r} : pc'[q] = pc[q]
      BY <1>1, <1>5, Moved DEF LoadCount
  <2>2. read' = [read EXCEPT ![r] = count] /\ UNCHANGED <<count, guard>>
      BY <1>5 DEF LoadCount
  <2>3. read'[r] = count /\ read' \in [Reindeer -> 0..R] /\ guard = {r}
      BY <1>1, <1>2, <2>1, <2>2 DEF CounterGuarded
  <2>4. \A q \in Reindeer \ {r} : pc[q] # "store"
      BY <1>1, <2>3 DEF CounterGuarded
  <2>. QED BY <1>1, <1>2, <2>1, <2>2, <2>3, <2>4 DEF CounterGuarded
<1>6. CASE StoreCount(r)
  <2>1. /\ pc[r] = "store" /\ pc'[r] = "check"
        /\ \A q \in Reindeer \ {r} : pc'[q] = pc[q]
      BY <1>1, <1>6, Moved DEF StoreCount
  <2>2. count' = read[r] + 1 /\ read' = [read EXCEPT ![r] = 0] /\ guard' = guard
      BY <1>6 DEF StoreCount
  <2>3. guard = {r} /\ read[r] = count /\ count < R
      BY <1>1, <2>1 DEF CounterGuarded
  <2>4. \A q \in Reindeer \ {r} : pc[q] # "store"
      BY <1>1, <2>3 DEF CounterGuarded
  <2>5. count' \in 0..R /\ read' \in [Reindeer -> 0..R]
      BY <1>1, <1>2, <2>2, <2>3
  <2>. QED BY <1>1, <1>2, <2>1, <2>2, <2>3, <2>4, <2>5 DEF CounterGuarded
<1>7. CASE SignalSanta(r) \/ NotLast(r)
  <2>1. /\ pc[r] = "check" /\ pc'[r] = "leave"
        /\ \A q \in Reindeer \ {r} : pc'[q] = pc[q]
      BY <1>1, <1>7, Moved DEF SignalSanta, NotLast
  <2>2. UNCHANGED <<read, guard>> /\ count' \in 0..R /\ count' < R
      BY <1>1, <1>2, <1>7 DEF SignalSanta, NotLast, AllBack
  <2>3. guard = {r}
      BY <1>1, <2>1 DEF CounterGuarded
  <2>4. \A q \in Reindeer \ {r} : pc[q] # "store"
      BY <1>1, <2>3 DEF CounterGuarded
  <2>. QED BY <1>1, <1>2, <2>1, <2>2, <2>3, <2>4 DEF CounterGuarded
<1>8. CASE UnlockCount(r)
  <2>1. /\ pc[r] = "leave" /\ pc'[r] = "gate"
        /\ \A q \in Reindeer \ {r} : pc'[q] = pc[q]
      BY <1>1, <1>8, Moved DEF UnlockCount
  <2>2. UNCHANGED <<count, read>> /\ guard' = {}
      BY <1>8 DEF UnlockCount
  <2>3. guard = {r} /\ count < R
      BY <1>1, <2>1 DEF CounterGuarded
  <2>. QED BY <1>1, <1>2, <2>1, <2>2, <2>3 DEF CounterGuarded
<1>. QED BY <1>3, <1>4, <1>5, <1>6, <1>7, <1>8 DEF ReindeerStep

LEMMA BasicReindeer ==
    ASSUME Basic, NEW r \in Reindeer, ReindeerStep(r)
    PROVE  Basic'
<1>1. TypeOK /\ CyclesLeft
    BY DEF Basic
<1>2. gate' \in [Reindeer -> BOOLEAN]
    BY <1>1 DEF TypeOK, ReindeerStep, LockFirst, ComeBack, LoadCount, StoreCount,
           SignalSanta, NotLast, UnlockCount, PassGate
<1>3. TypeOK'
    BY <1>1, <1>2, SantaKept, MovedType, CounterReindeer DEF TypeOK
<1>4. CyclesLeft'
    BY <1>1, SantaKept DEF CyclesLeft
<1>. QED BY <1>3, <1>4, CounterReindeer DEF Basic

LEMMA BasicInit == Init => Basic
<1>. SUFFICES ASSUME Init PROVE Basic
    OBVIOUS
<1>1. TypeOK
    BY Numbers DEF Init, TypeOK
<1>2. CyclesLeft /\ CounterGuarded
    BY Numbers DEF Init, CyclesLeft, CounterGuarded
<1>. QED BY <1>1, <1>2 DEF Basic

LEMMA BasicNext ==
    ASSUME Basic, [Next]_vars
    PROVE  Basic'
<1>1. CASE UNCHANGED vars
  <2>1. TypeOK /\ CyclesLeft /\ CounterGuarded
      BY DEF Basic
  <2>2. TypeOK'
      BY <1>1, <2>1 DEF vars, TypeOK
  <2>3. CyclesLeft' /\ CounterGuarded'
      BY <1>1, <2>1 DEF vars, CyclesLeft, CounterGuarded
  <2>. QED BY <2>2, <2>3 DEF Basic
<1>. QED BY <1>1, BasicSanta, BasicReindeer DEF Next, Exit

-----------------------------------------------------------------------------
(* Deliveries, as long as pthread_cond_wait returns on signals only *)

Delivery == UnservedWait /\ GatesHeld /\ CountMatches

\* When the count is full, everybody is home behind a gate and due.
LEMMA FullCount ==
    ASSUME Basic, Delivery, count = R, spurious = 0, santa \notin {"cancel", "done"}
    PROVE  Counted = Reindeer
<1>1. R \in Nat /\ R # 0
    BY Numbers
<1>2. IsFiniteSet(Reindeer) /\ Cardinality(Reindeer) = R
    BY <1>1, FS_Interval DEF Reindeer
<1>3. Counted \in SUBSET Reindeer
    BY DEF Counted
<1>4. count = Cardinality(Counted) \/ count = 0
    BY DEF Delivery, CountMatches
<1>5. Cardinality(Counted) = Cardinality(Reindeer)
    BY <1>1, <1>2, <1>4
<1>. QED BY <1>2, <1>3, <1>5, FS_Subset

\* Reindeer that are neither served nor counted anew.
LEMMA SameCount ==
    ASSUME CountMatches, count' = count, Counted' = Counted, spurious' = spurious,
           santa' \notin {"cancel", "done"} => santa \notin {"cancel", "done"}
    PROVE  CountMatches'
BY DEF CountMatches

LEMMA DeliverySanta ==
    ASSUME Basic, Delivery, SantaStep
    PROVE  Delivery'
<1>1. TypeOK /\ UnservedWait /\ GatesHeld /\ CountMatches /\ R \in Nat \ {0}
    BY Numbers DEF Basic, Delivery
<1>2. CASE FallAsleep \/ Finish
  <2>1. /\ UNCHANGED reindeers /\ next' = next /\ spurious' = spurious
        /\ santa' \in {"asleep", "done"} /\ santa \in {"awake", "cancel"}
        /\ santa' \notin {"cancel", "done"} => santa \notin {"cancel", "done"}
      BY <1>2 DEF FallAsleep, Finish
  <2>2. Unserved = {} /\ Unserved' = {}
      BY <2>1 DEF Unserved
  <2>3. \A r \in Reindeer : Home(r)' = Home(r)
      BY <2>1 DEF Home, reindeers
  <2>4. Counted' = Counted
      BY <2>1, <2>2, <2>3 DEF Counted, reindeers
  <2>5. CountMatches'
      BY <1>1, <2>1, <2>4, SameCount DEF reindeers
  <2>6. UnservedWait' /\ GatesHeld'
      BY <1>1, <2>1, <2>2 DEF UnservedWait, GatesHeld, reindeers
  <2>. QED BY <2>5, <2>6 DEF Delivery
<1>3. CASE Deliver
  <2>1. /\ UNCHANGED reindeers /\ next' = 1 /\ spurious' = spurious
        /\ santa = "deliver" /\ santa' = "release"
      BY <1>3 DEF Deliver
  <2>2. Unserved = Reindeer /\ Unserved' = Reindeer
      BY <2>1 DEF Unserved, Reindeer
  <2>3. \A r \in Reindeer : Home(r)' = Home(r)
      BY <2>1 DEF Home, reindeers
  <2>4. Counted' = Counted
      BY <2>1, <2>2, <2>3 DEF Counted, reindeers
  <2>5. CountMatches'
      BY <1>1, <2>1, <2>4, SameCount DEF reindeers
  <2>6. UnservedWait'
      BY <1>1, <2>1, <2>2, <2>3 DEF UnservedWait, reindeers
  <2>7. GatesHeld'
      BY <1>1, <2>1, <2>2 DEF UnservedWait, GatesHeld, Home, reindeers, Reindeer
  <2>. QED BY <2>5, <2>6, <2>7 DEF Delivery
\* The gate that is unlocked is that of a reindeer at home.
<1>4. CASE Release
  <2>1. /\ santa = "release" /\ santa' = santa /\ next \in Reindeer
        /\ gate \in [Reindeer -> BOOLEAN]
        /\ gate' = [gate EXCEPT ![next] = FALSE]
        /\ next' = next + 1 /\ next \in Nat
        /\ UNCHANGED <<spurious, count, pc>>
      BY <1>1, <1>4 DEF Release, LastReleased, TypeOK, Reindeer
  <2>2. /\ Unserved = next..R /\ Unserved' = (next + 1)..R
        /\ next \in Unserved /\ Unserved' = Unserved \ {next}
        /\ Unserved \subseteq Reindeer
      BY <1>1, <2>1 DEF Unserved, Reindeer
  <2>3. \A r \in Reindeer : Home(r)' = Home(r)
      BY <2>1 DEF Home
  <2>4. \A r \in Reindeer : gate'[r] = IF r = next THEN FALSE ELSE gate[r]
      BY <2>1
  <2>5. Counted' = Counted
      BY <2>1, <2>2, <2>3, <2>4 DEF Counted
  <2>6. CountMatches'
      BY <1>1, <2>1, <2>5, SameCount
  <2>7. UnservedWait'
      BY <1>1, <2>1, <2>2, <2>3, <2>4 DEF UnservedWait
  <2>8. GatesHeld'
      BY <1>1, <2>1, <2>2, <2>3, <2>4 DEF UnservedWait, GatesHeld
  <2>. QED BY <2>6, <2>7, <2>8 DEF Delivery
<1>5. CASE EndCycle
  <2>1. /\ santa = "release" /\ santa' \in {"awake", "cancel"}
        /\ next > R /\ next \in Nat /\ next' = 1
        /\ UNCHANGED reindeers /\ spurious' = spurious
      BY <1>1, <1>5 DEF EndCycle, LastReleased, TypeOK
  <2>2. Unserved = {} /\ Unserved' = {}
      BY <1>1, <2>1 DEF Unserved
  <2>3. \A r \in Reindeer : Home(r)' = Home(r)
      BY <2>1 DEF Home, reindeers
  <2>4. Counted' = Counted
      BY <2>1, <2>2, <2>3 DEF Counted, reindeers
  <2>5. CountMatches'
      BY <1>1, <2>1, <2>4, SameCount DEF reindeers
  <2>6. UnservedWait' /\ GatesHeld'
      BY <1>1, <2>1, <2>2 DEF UnservedWait, GatesHeld, reindeers
  <2>. QED BY <2>5, <2>6 DEF Delivery
<1>6. CASE Cancel
  <2>1. /\ santa = "cancel" /\ santa' = santa
        /\ pc' = [pc EXCEPT ![next] = "cancelled"]
        /\ UNCHANGED <<gate, spurious>>
      BY <1>6 DEF Cancel
  <2>2. \A r \in Reindeer : pc'[r] = pc[r] \/ pc'[r] = "cancelled"
      BY <1>1, <2>1 DEF TypeOK
  <2>3. Unserved' = {}
      BY <2>1 DEF Unserved
  <2>4. UnservedWait' /\ CountMatches'
      BY <2>1, <2>3 DEF UnservedWait, CountMatches
  <2>5. GatesHeld'
      BY <1>1, <2>1, <2>2 DEF GatesHeld
  <2>. QED BY <2>4, <2>5 DEF Delivery
<1>. QED BY <1>2, <1>3, <1>4, <1>5, <1>6 DEF SantaStep

\* A step of a reindeer that neither counts itself nor leaves home.
LEMMA QuietReindeer ==
    ASSUME Basic, Delivery, UNCHANGED <<santa, next, spurious, count>>,
           \A q \in Reindeer : Home(q)' = Home(q) /\ (Home(q) => gate'[q] = gate[q]),
           spurious = 0 =>
             /\ \A q \in Unserved : pc'[q] \in {"leave", "gate"}
             /\ \A q \in Reindeer : pc'[q] \in {"holiday", "count", "store", "check"} => gate'[q]
    PROVE  Delivery'
<1>1. TypeOK /\ UnservedWait /\ GatesHeld /\ CountMatches /\ R \in Nat \ {0}
    BY Numbers DEF Basic, Delivery
<1>2. Unserved' = Unserved
    BY DEF Unserved
<1>3. Unserved \subseteq Reindeer
    BY <1>1 DEF Unserved, TypeOK, Reindeer
<1>4. Counted' = Counted
    BY <1>2 DEF Counted
<1>5. CountMatches'
    BY <1>1, <1>4, SameCount
<1>6. UnservedWait'
    BY <1>1, <1>2, <1>3 DEF UnservedWait, Home
<1>7. \A r \in Unserved : spurious = 0 => gate'[r] /\ Home(r)'
    BY <1>2, <1>6 DEF UnservedWait, Home
<1>8. GatesHeld'
    BY <1>2, <1>7 DEF GatesHeld, Unserved
<1>. QED BY <1>5, <1>6, <1>8 DEF Delivery

LEMMA DeliveryReindeer ==
    ASSUME Basic, Delivery, NEW r \in Reindeer, ReindeerStep(r)
    PROVE  Delivery'
<1>1. TypeOK /\ CounterGuarded /\ UnservedWait /\ GatesHeld /\ CountMatches
      /\ R \in Nat \ {0}
    BY Numbers DEF Basic, Delivery
<1>2. Unserved \subseteq Reindeer /\ gate \in [Reindeer -> BOOLEAN]
    BY <1>1 DEF Unserved, TypeOK, Reindeer
<1>3. CASE LockFirst(r) \/ PassGate(r)
  <2>1. /\ pc[r] \in {"start", "gate"} /\ pc'[r] = "holiday"
        /\ \A q \in Reindeer \ {r} : pc'[q] = pc[q]
      BY <1>1, <1>3, Moved DEF LockFirst, PassGate
  <2>2. /\ ~gate[r] /\ gate' = [gate EXCEPT ![r] = TRUE]
        /\ UNCHANGED <<santa, next, spurious, count>>
      BY <1>3 DEF LockFirst, PassGate, GateOpen, santaVars
  <2>3. r \notin Unserved \/ spurious # 0
      BY <1>1, <2>2 DEF UnservedWait
  <2>4. Unserved' = Unserved
      BY <2>2 DEF Unserved
  <2>5. \A q \in Reindeer : gate'[q] = IF q = r THEN TRUE ELSE gate[q]
      BY <1>2, <2>2
  <2>6. Counted' = Counted
      BY <2>1, <2>2, <2>4, <2>5 DEF Counted, Home
  <2>7. CountMatches'
      BY <1>1, <2>2, <2>6, SameCount
  <2>8. UnservedWait'
      BY <1>1, <1>2, <2>1, <2>2, <2>3, <2>4, <2>5 DEF UnservedWait
  <2>9. spurious = 0 => \A q \in Unserved : gate'[q] /\ Home(q)'
      BY <2>2, <2>4, <2>8 DEF UnservedWait, Home
  <2>10. GatesHeld'
      BY <1>1, <2>1, <2>2, <2>5, <2>9 DEF GatesHeld, Unserved
  <2>. QED BY <2>7, <2>8, <2>10 DEF Delivery
<1>4. CASE ComeBack(r) \/ LoadCount(r)
  <2>1. /\ pc[r] \in {"holiday", "count"} /\ pc'[r] \in {"count", "store"}
        /\ \A q \in Reindeer \ {r} : pc'[q] = pc[q]
      BY <1>1, <1>4, Moved DEF ComeBack, LoadCount
  <2>2. UNCHANGED <<santa, next, spurious, count, gate>>
      BY <1>4 DEF ComeBack, LoadCount, santaVars
  <2>3. spurious = 0 => gate[r] /\ r \notin Unserved
      BY <1>1, <2>1 DEF GatesHeld, UnservedWait
  <2>4. \A q \in Reindeer : Home(q)' = Home(q)
      BY <2>1 DEF Home
  <2>5. spurious = 0 =>
          /\ \A q \in Unserved : pc'[q] \in {"leave", "gate"}
          /\ \A q \in Reindeer : pc'[q] \in {"holiday", "count", "store", "check"} => gate'[q]
      BY <1>1, <1>2, <2>1, <2>2, <2>3 DEF GatesHeld, UnservedWait
  <2>. QED BY <2>2, <2>4, <2>5, QuietReindeer
\* One more is home and counted.
<1>5. CASE StoreCount(r)
  <2>1. /\ pc[r] = "store" /\ pc'[r] = "check"
        /\ \A q \in Reindeer \ {r} : pc'[q] = pc[q]
      BY <1>1, <1>5, Moved DEF StoreCount
  <2>2. count' = read[r] + 1 /\ UNCHANGED <<santa, next, spurious, gate>>
      BY <1>5 DEF StoreCount, santaVars
  <2>3. read[r] = count
      BY <1>1, <2>1 DEF CounterGuarded
  <2>4. spurious = 0 => gate[r] /\ r \notin Unserved
      BY <1>1, <2>1 DEF GatesHeld, UnservedWait
  <2>5. Unserved' = Unserved
      BY <2>2 DEF Unserved
  <2>6. spurious = 0 => Counted' = Counted \cup {r} /\ r \notin Counted
      BY <2>1, <2>2, <2>4, <2>5 DEF Counted, Home
  <2>7. CountMatches'
    <3>. SUFFICES ASSUME spurious = 0, santa \notin {"cancel", "done"}
                  PROVE  count' = Cardinality(Counted')
        BY <2>2 DEF CountMatches
    <3>1. IsFiniteSet(Counted)
      <4>1. IsFiniteSet(Reindeer) /\ Counted \in SUBSET Reindeer
          BY <1>1, FS_Interval DEF Reindeer, Counted
      <4>. QED BY <4>1, FS_Subset
    <3>2. count = Cardinality(Counted)
        BY <1>1, <2>6 DEF CountMatches
    <3>. QED BY <2>2, <2>3, <2>6, <3>1, <3>2, FS_AddElement
  <2>8. UnservedWait'
      BY <1>1, <1>2, <2>1, <2>2, <2>4, <2>5 DEF UnservedWait
  <2>9. spurious = 0 => \A q \in Unserved : gate'[q] /\ Home(q)'
      BY <2>2, <2>5, <2>8 DEF UnservedWait, Home
  <2>10. GatesHeld'
      BY <1>1, <2>1, <2>2, <2>4, <2>9 DEF GatesHeld, Unserved
  <2>. QED BY <2>7, <2>8, <2>10 DEF Delivery
\* Everybody is home when Santa is signalled; if he does not hear it, everybody
\* stays counted.
<1>6. CASE SignalSanta(r)
  <2>1. /\ pc[r] = "check" /\ pc'[r] = "leave"
        /\ \A q \in Reindeer \ {r} : pc'[q] = pc[q]
      BY <1>1, <1>6, Moved DEF SignalSanta
  <2>2. /\ count = R /\ count' = 0
        /\ santa' = IF santa = "asleep" THEN "deliver" ELSE santa
        /\ UNCHANGED <<next, spurious, gate>>
      BY <1>6 DEF SignalSanta, AllBack
  <2>3. \A q \in Reindeer \ {r} : pc[q] # "check"
      BY <1>1, <2>1 DEF CounterGuarded
  <2>4. CASE spurious # 0
      BY <2>2, <2>4 DEF Delivery, UnservedWait, GatesHeld, CountMatches
  <2>5. CASE spurious = 0 /\ santa \in {"cancel", "done"}
    <3>1. santa' = santa /\ Unserved' = {}
        BY <2>2, <2>5 DEF Unserved
    <3>2. GatesHeld'
        BY <1>1, <2>1, <2>2, <2>5, <3>1 DEF GatesHeld
    <3>. QED BY <2>5, <3>1, <3>2 DEF Delivery, UnservedWait, CountMatches
  <2>6. CASE spurious = 0 /\ santa \notin {"cancel", "done"}
    <3>1. Counted = Reindeer
        BY <2>2, <2>6, FullCount
    <3>2. Unserved = {} /\ \A q \in Reindeer : gate[q] /\ Home(q)
        BY <1>2, <3>1 DEF Counted
    <3>3. \A q \in Reindeer : gate'[q] /\ pc'[q] \in {"leave", "gate"} /\ Home(q)'
        BY <2>1, <2>2, <2>3, <3>2 DEF Home
    <3>4. CASE santa = "asleep"
      <4>1. Unserved' = Reindeer
          BY <2>2, <3>4 DEF Unserved
      <4>2. Counted' = {}
          BY <4>1 DEF Counted
      <4>3. CountMatches'
          BY <2>2, <4>2, FS_EmptySet DEF CountMatches
      <4>4. UnservedWait' /\ GatesHeld'
          BY <2>2, <3>3, <3>4, <4>1 DEF UnservedWait, GatesHeld
      <4>. QED BY <4>3, <4>4 DEF Delivery
    <3>5. CASE santa # "asleep"
      <4>1. Unserved' = {}
          BY <2>2, <3>2, <3>5 DEF Unserved
      <4>2. Counted' = Reindeer
          BY <3>3, <4>1 DEF Counted
      <4>3. CountMatches'
          BY <2>2, <4>2 DEF CountMatches
      <4>4. UnservedWait'
          BY <4>1 DEF UnservedWait
      <4>5. GatesHeld'
        <5>1. santa' = "release" => next'..R = {}
            BY <4>1 DEF Unserved
        <5>. QED BY <3>3, <5>1 DEF GatesHeld
      <4>. QED BY <4>3, <4>4, <4>5 DEF Delivery
    <3>. QED BY <3>4, <3>5
  <2>. QED BY <2>4, <2>5, <2>6
<1>7. CASE NotLast(r) \/ UnlockCount(r)
  <2>1. /\ pc[r] \in {"check", "leave"} /\ pc'[r] \in {"leave", "gate"}
        /\ \A q \in Reindeer \ {r} : pc'[q] = pc[q]
      BY <1>1, <1>7, Moved DEF NotLast, UnlockCount
  <2>2. UNCHANGED <<santa, next, spurious, count, gate>>
      BY <1>7 DEF NotLast, UnlockCount, santaVars
  <2>3. \A q \in Reindeer : Home(q)' = Home(q)
      BY <2>1 DEF Home
  <2>4. spurious = 0 =>
          /\ \A q \in Unserved : pc'[q] \in {"leave", "gate"}
          /\ \A q \in Reindeer : pc'[q] \in {"holiday", "count", "store", "check"} => gate'[q]
      BY <1>1, <1>2, <2>1, <2>2 DEF GatesHeld, UnservedWait
  <2>. QED BY <2>2, <2>3, <2>4, QuietReindeer
<1>. QED BY <1>3, <1>4, <1>5, <1>6, <1>7 DEF ReindeerStep

LEMMA DeliveryInit == Init => Delivery
<1>. SUFFICES ASSUME Init PROVE Delivery
    OBVIOUS
<1>1. Unserved = {} /\ Counted = {}
    BY DEF Init, Unserved, Counted, Home
<1>2. CountMatches
    BY <1>1, FS_EmptySet DEF Init, CountMatches
<1>3. UnservedWait /\ GatesHeld
    BY <1>1 DEF Init, UnservedWait, GatesHeld
<1>. QED BY <1>2, <1>3 DEF Delivery

LEMMA DeliveryNext ==
    ASSUME Basic, Delivery, [Next]_vars
    PROVE  Delivery'
\* Once Santa has woken up for nothing nothing is claimed.
<1>1. CASE WakeSpuriously
  <2>1. spurious' # 0
      BY <1>1 DEF Basic, TypeOK, WakeSpuriously
  <2>. QED BY <2>1 DEF Delivery, UnservedWait, GatesHeld, CountMatches
<1>2. CASE UNCHANGED vars
  <2>1. UNCHANGED <<santa, next, spurious, count>>
        /\ (\A q \in Reindeer : Home(q)' = Home(q) /\ (Home(q) => gate'[q] = gate[q]))
        /\ pc' = pc /\ gate' = gate
      BY <1>2 DEF vars, Home
  <2>2. spurious = 0 =>
          /\ \A q \in Unserved : pc'[q] \in {"leave", "gate"}
          /\ \A q \in Reindeer : pc'[q] \in {"holiday", "count", "store", "check"} => gate'[q]
      BY <2>1 DEF Delivery, GatesHeld, UnservedWait
  <2>. QED BY <2>1, <2>2, QuietReindeer
<1>. QED BY <1>1, <1>2, DeliverySanta, DeliveryReindeer DEF Next, Exit

-----------------------------------------------------------------------------
(* Theorems *)

\* The inductive invariant holds in every state.
THEOREM Invariance == Spec => []IInv
<1>1. IInv <=> Basic /\ Delivery
    BY DEF IInv, Basic, Delivery
<1>2. Init => IInv
    BY <1>1, BasicInit, DeliveryInit
<1>3. IInv /\ [Next]_vars => IInv'
  <2>1. IInv' <=> Basic' /\ Delivery'
      BY DEF IInv, Basic, Delivery
  <2>. QED BY <1>1, <2>1, BasicNext, DeliveryNext
<1>. QED BY <1>2, <1>3, PTL DEF Spec

\* reindeers_count stays within 0..R and every loop counter within its bounds,
\* also when Santa wakes up for nothing and reindeer are counted twice.
THEOREM TypeCorrect == Spec => []TypeOK
<1>1. IInv => TypeOK
    BY DEF IInv
<1>. QED BY Invariance, <1>1, PTL

\* Santa delivers only when all reindeer are back, unless pthread_cond_wait has
\* ever returned without a signal.
THEOREM DeliveriesComplete == Spec => []AllBackUnlessSpurious
<1>1. IInv => AllBackUnlessSpurious
  <2>. SUFFICES ASSUME UnservedWait, spurious = 0, santa = "deliver", NEW r \in Reindeer
                PROVE  Home(r)
      BY DEF IInv, AllBackUnlessSpurious, AllBackWhenDelivering
  <2>. QED BY DEF UnservedWait, Unserved, Home
<1>. QED BY Invariance, <1>1, PTL

\* A reindeer that comes back stays at its gate until Santa has served it.
THEOREM GatesAreHeld == Spec => []GatesHeld
<1>1. IInv => GatesHeld
    BY DEF IInv
<1>. QED BY Invariance, <1>1, PTL

\* The count is that of the reindeer that are back for the coming delivery.
THEOREM CountIsRight == Spec => []CountMatches
<1>1. IInv => CountMatches
    BY DEF IInv
<1>. QED BY Invariance, <1>1, PTL
=============================================================================
