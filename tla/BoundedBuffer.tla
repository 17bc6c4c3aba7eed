--------------------------- MODULE BoundedBuffer ---------------------------
(***************************************************************************)
(* The producer/consumer program 05_..._kol_02/03/main.c.                  *)
(*                                                                         *)
(* Threads share a ring buffer with the cursors in and out.  The counting  *)
(* semaphores empty and full reserve a slot and an item before a thread    *)
(* may lock the mutex; the mutex protects the cursors.  Inside the         *)
(* critical section the slot access and the cursor update are two steps,   *)
(* so whatever exclusion they need has to come from the mutex.             *)
(*                                                                         *)
(* pc[t] is where thread t stands in its loop:                             *)
(*   "next"     loop test, then sem_wait                                   *)
(*   "lock"     holds a semaphore token, waits for the mutex               *)
(*   "access"   holds the mutex, about to write or read a slot             *)
(*   "advance"  about to move its cursor                                   *)
(*   "unlock"   about to release the mutex                                 *)
(*   "post"     about to post the other semaphore                          *)
(***************************************************************************)
EXTENDS Naturals, Sequences, FiniteSets

CONSTANTS
    Producers,   \* pro[5] in the program
    Consumers,   \* con[5] in the program
    BufferSize,  \* BufferSize, 5 in the program
    MaxItems     \* MaxItems, 5 in the program

ASSUME ThreadsAssumption ==
    /\ IsFiniteSet(Producers)
    /\ IsFiniteSet(Consumers)
    /\ Producers \cap Consumers = {}

ASSUME SizesAssumption ==
    /\ BufferSize \in Nat \ {0}
    /\ MaxItems \in Nat \ {0}

VARIABLES
    empty,   \* value of semaphore empty
    full,    \* value of semaphore full
    mutex,   \* {} when free, {t} when thread t owns it
    in,      \* next slot to write
    out,     \* next slot to read
    buffer,  \* the ring
    pc,      \* pc[t]: control point of thread t
    i,       \* i[t]: the thread's loop counter
    item     \* item[t]: the thread's local variable item

vars == <<empty, full, mutex, in, out, buffer, pc, i, item>>

Threads == Producers \cup Consumers
Slots == 0..(BufferSize - 1)
Item == Producers \X (1..MaxItems)
NoItem == <<>>
Locations == {"next", "lock", "access", "advance", "unlock", "post"}

TypeOK ==
    /\ empty \in 0..BufferSize
    /\ full \in 0..BufferSize
    /\ mutex \in SUBSET Threads
    /\ in \in Slots
    /\ out \in Slots
    /\ buffer \in [Slots -> Item \cup {NoItem}]
    /\ pc \in [Threads -> Locations]
    /\ i \in [Threads -> 0..MaxItems]
    /\ item \in [Threads -> Item \cup {NoItem}]

-----------------------------------------------------------------------------
\* main(): both semaphores and the mutex are initialised before the threads
\* are created, and the globals in, out and buffer start as zero.
InitialEmpty == BufferSize

Init ==
    /\ empty = InitialEmpty
    /\ full = 0
    /\ mutex = {}
    /\ in = 0
    /\ out = 0
    /\ buffer = [s \in Slots |-> NoItem]
    /\ pc = [t \in Threads |-> "next"]
    /\ i = [t \in Threads |-> 0]
    /\ item = [t \in Threads |-> NoItem]

Move(t, from, to) ==
    /\ pc[t] = from
    /\ pc' = [pc EXCEPT ![t] = to]

LoopAgain(t) == i[t] < MaxItems

\* Fault for the mutants: the loop counter is not incremented.
SameIteration(t) == UNCHANGED i
NextIteration(t) == i' = [i EXCEPT ![t] = @ + 1]

\* Fault for the mutants: a post is forgotten.
SignalNone == UNCHANGED <<empty, full>>
SignalEmpty == empty' = empty + 1 /\ UNCHANGED full
SignalFull == full' = full + 1 /\ UNCHANGED empty

\* Fault for the mutants: a lock that does not wait for its owner.
MutexIgnored == TRUE
MutexFree == mutex = {}

Lock(t) ==
    /\ Move(t, "lock", "access")
    /\ MutexFree
    /\ mutex' = {t}
    /\ UNCHANGED <<empty, full, in, out, buffer, i, item>>

Unlock(t) ==
    /\ Move(t, "unlock", "post")
    /\ mutex' = {}
    /\ UNCHANGED <<empty, full, in, out, buffer, i, item>>

Following(s) == (s + 1) % BufferSize

-----------------------------------------------------------------------------
\* producer(): item = rand(); sem_wait(&empty).
WaitEmpty(p) ==
    /\ Move(p, "next", "lock")
    /\ LoopAgain(p)
    /\ empty > 0
    /\ empty' = empty - 1
    /\ item' = [item EXCEPT ![p] = <<p, i[p] + 1>>]
    /\ UNCHANGED <<full, mutex, in, out, buffer, i>>

\* buffer[in] = item
WriteSlot(p) ==
    /\ Move(p, "access", "advance")
    /\ buffer' = [buffer EXCEPT ![in] = item[p]]
    /\ UNCHANGED <<empty, full, mutex, in, out, i, item>>

\* in = (in+1)%BufferSize
AdvanceIn(p) ==
    /\ Move(p, "advance", "unlock")
    /\ in' = Following(in)
    /\ UNCHANGED <<empty, full, mutex, out, buffer, i, item>>

\* sem_post(&full); i++
PostFull(p) ==
    /\ Move(p, "post", "next")
    /\ SignalFull
    /\ NextIteration(p)
    /\ UNCHANGED <<mutex, in, out, buffer, item>>

Producer(p) ==
    \/ WaitEmpty(p) \/ Lock(p) \/ WriteSlot(p) \/ AdvanceIn(p) \/ Unlock(p)
    \/ PostFull(p)

-----------------------------------------------------------------------------
\* consumer(): sem_wait(&full).
WaitFull(c) ==
    /\ Move(c, "next", "lock")
    /\ LoopAgain(c)
    /\ full > 0
    /\ full' = full - 1
    /\ UNCHANGED <<empty, mutex, in, out, buffer, i, item>>

\* int item = buffer[out]
ReadSlot(c) ==
    /\ Move(c, "access", "advance")
    /\ item' = [item EXCEPT ![c] = buffer[out]]
    /\ UNCHANGED <<empty, full, mutex, in, out, buffer, i>>

\* out = (out+1)%BufferSize
AdvanceOut(c) ==
    /\ Move(c, "advance", "unlock")
    /\ out' = Following(out)
    /\ UNCHANGED <<empty, full, mutex, in, buffer, i, item>>

\* sem_post(&empty); i++
PostEmpty(c) ==
    /\ Move(c, "post", "next")
    /\ SignalEmpty
    /\ NextIteration(c)
    /\ UNCHANGED <<mutex, in, out, buffer, item>>

Consumer(c) ==
    \/ WaitFull(c) \/ Lock(c) \/ ReadSlot(c) \/ AdvanceOut(c) \/ Unlock(c)
    \/ PostEmpty(c)

-----------------------------------------------------------------------------
\* main() has joined every thread and destroys the mutex and semaphores.
Finished == \A t \in Threads : pc[t] = "next" /\ ~LoopAgain(t)
Exit == Finished /\ UNCHANGED vars

Next ==
    \/ \E p \in Producers : Producer(p)
    \/ \E c \in Consumers : Consumer(c)
    \/ Exit

Spec == Init /\ [][Next]_vars

\* Every created thread keeps being scheduled.
Fairness ==
    /\ \A p \in Producers : WF_vars(Producer(p))
    /\ \A c \in Consumers : WF_vars(Consumer(c))

FairSpec == Spec /\ Fairness

-----------------------------------------------------------------------------
\* Where the tokens of the two semaphores are while threads carry them.
Filling  == {p \in Producers : pc[p] \in {"lock", "access"}}
Filled   == {p \in Producers : pc[p] \in {"advance", "unlock", "post"}}
Draining == {c \in Consumers : pc[c] \in {"lock", "access"}}
Drained  == {c \in Consumers : pc[c] \in {"advance", "unlock", "post"}}

\* The items in the ring: announced, stored but not announced yet, or
\* reserved by a consumer that has not read its item yet.
Count == full + Cardinality(Filled) + Cardinality(Draining)

\* The oldest item's slot and the slot behind the newest item, allowing for
\* a thread that has used a slot and has not moved the cursor yet.
First == IF \E c \in Consumers : pc[c] = "advance" THEN Following(out) ELSE out
Free  == IF \E p \in Producers : pc[p] = "advance" THEN Following(in) ELSE in

\* The two semaphores and the threads between them always account for every
\* slot exactly once, so a token can neither leak nor be duplicated
\* (main.c:24-32 and 41-49).
SlotsAccounted ==
    empty + Cardinality(Filling) + Cardinality(Drained) + Count = BufferSize

\* The cursors agree with the semaphores: in is exactly Count slots ahead of
\* out.  Nothing in the code relates the two, each side updates its own
\* (main.c:29 and 46).
CursorsAgree == Free = (First + Count) % BufferSize

\* Only the owner of the mutex is between pthread_mutex_lock and unlock.
InCritical(t) == pc[t] \in {"access", "advance", "unlock"}
OwnerOnly == \A t \in Threads : InCritical(t) <=> mutex = {t}

\* A thread past its loop test has iterations left, and a producer on its way
\* to the ring carries the item of this iteration.
LoopBound == \A t \in Threads : pc[t] # "next" => i[t] < MaxItems
ItemLoaded ==
    \A p \in Producers : pc[p] \in {"lock", "access"} => item[p] = <<p, i[p] + 1>>

\* The inductive invariant behind the theorems of BoundedBufferProofs.
IInv ==
    /\ TypeOK
    /\ LoopBound
    /\ ItemLoaded
    /\ OwnerOnly
    /\ SlotsAccounted
    /\ CursorsAgree

\* The content of the ring, oldest item first.
Contents == [k \in 1..Count |-> buffer[(First + (k - 1)) % BufferSize]]

Sent == [p \in Producers |-> IF p \in Filled THEN i[p] + 1 ELSE i[p]]
Taken == [c \in Consumers |-> IF c \in Drained THEN i[c] + 1 ELSE i[c]]
Held == [c \in Consumers |-> item[c]]

Fifo == INSTANCE BoundedFifo WITH
    Capacity <- BufferSize, queue <- Contents,
    sent <- Sent, taken <- Taken, held <- Held

\* The program is a bounded FIFO queue: every slot write appends the
\* producer's next item and every slot read removes the oldest one, whatever
\* the interleaving (main.c:18-53).
ImplementsFifo == Fifo!Spec

\* It is a fair queue, too: items do not stay in the ring while a consumer
\* still wants one, and a free slot does not stay unused.
ImplementsFairFifo == Fifo!FairSpec

\* With as many consumers as producers every thread leaves its loop, so
\* main() gets past its joins (main.c:72-77).
Termination == <>Finished
=============================================================================
