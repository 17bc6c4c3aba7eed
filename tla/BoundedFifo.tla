---------------------------- MODULE BoundedFifo ----------------------------
(***************************************************************************)
(* What the producer/consumer exam program (kol_02/03/main.c) promises:    *)
(* a bounded queue between producers and consumers.  Every producer puts   *)
(* its items in order, every consumer takes the oldest item, nothing is    *)
(* lost, duplicated or overwritten, and the queue never exceeds Capacity.  *)
(***************************************************************************)
EXTENDS Naturals, Sequences

CONSTANTS
    Producers,  \* the producer threads
    Consumers,  \* the consumer threads
    Capacity,   \* how many items fit
    MaxItems    \* items per producer and per consumer

VARIABLES
    queue,  \* items put and not yet taken, oldest first
    sent,   \* sent[p]: how many items producer p has put
    taken,  \* taken[c]: how many items consumer c has taken
    held    \* held[c]: the item consumer c took last

vars == <<queue, sent, taken, held>>

\* The k-th item of producer p.  The program puts rand() values; the pair
\* stands for the occasion on which a value was produced.
Item == Producers \X (1..MaxItems)
NoItem == <<>>

Init ==
    /\ queue = <<>>
    /\ sent = [p \in Producers |-> 0]
    /\ taken = [c \in Consumers |-> 0]
    /\ held = [c \in Consumers |-> NoItem]

Put(p) ==
    /\ sent[p] < MaxItems
    /\ Len(queue) < Capacity
    /\ queue' = Append(queue, <<p, sent[p] + 1>>)
    /\ sent' = [sent EXCEPT ![p] = @ + 1]
    /\ UNCHANGED <<taken, held>>

Get(c) ==
    /\ taken[c] < MaxItems
    /\ queue # <<>>
    /\ held' = [held EXCEPT ![c] = Head(queue)]
    /\ taken' = [taken EXCEPT ![c] = @ + 1]
    /\ queue' = Tail(queue)
    /\ UNCHANGED sent

Next ==
    \/ \E p \in Producers : Put(p)
    \/ \E c \in Consumers : Get(c)

Spec == Init /\ [][Next]_vars

\* While there is room someone puts, while there are items someone takes.
Fairness ==
    /\ WF_vars(\E p \in Producers : Put(p))
    /\ WF_vars(\E c \in Consumers : Get(c))

FairSpec == Spec /\ Fairness
=============================================================================
