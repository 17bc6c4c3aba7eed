------------------------------- MODULE ChatMq -------------------------------
(***************************************************************************)
(* The POSIX message queue chat of ex7/zad1: server.c with its queue and   *)
(* its table of clients, and client.c, whose parent process reads lines    *)
(* and sends them while its child receives and prints.                     *)
(*                                                                         *)
(* All queues hold QLen messages and mq_send blocks when one is full.      *)
(* Every message has priority 1, so a queue is first in, first out.        *)
(*                                                                         *)
(* spc:    "receive", "reply" (sends ID to a new client), "relay" (the     *)
(*         while loop over the clients, at index at)                       *)
(* cpc[c]: "off", "init" (its queue is open), "wait" (reads the pipe for   *)
(*         its id), "chat"                                                 *)
(***************************************************************************)
EXTENDS Naturals, Sequences, FiniteSets, SequencesExt

CONSTANTS
    Clients,      \* the client programs
    QLen,         \* mq_maxmsg, 10 in the program
    MaxMsgs,      \* bound: lines the clients send together
    MaxKills,     \* bound: clients that are killed
    MaxRestarts   \* bound: how often the server is killed and started again

ASSUME SizesAssumption ==
    /\ IsFiniteSet(Clients) /\ QLen \in Nat \ {0}
    /\ {MaxMsgs, MaxKills, MaxRestarts} \subseteq Nat

VARIABLES
    mq_server,   \* the server's queue
    mq_client,   \* mq_client[c]: the client's queue
    mq_clients,  \* the server's table: the client with id n is at n + 1
    spc,         \* control point of the server
    received,    \* msg_received
    at,          \* id, the index of the relay loop
    restarts,    \* how often the server was restarted
    cpc,         \* cpc[c]: control point of the client's parent process
    id,          \* id[c]: the parent's id
    pipe,        \* pipe[c]: ids the receiver passed to the parent
    sent,        \* how many lines the clients have sent
    shown,       \* shown[c]: what the receiver printed
    dead,        \* the clients that were killed
    log          \* history: what the server has taken from its queue

server == <<mq_clients, spc, received, at, restarts, log>>
clients == <<cpc, id, pipe, sent, shown, dead>>
vars == <<mq_server, mq_client, server, clients>>

Ids == 0..(Cardinality(Clients) - 1)
Msg == [type : {"INIT", "MSG", "ID"}, id : Ids, from : Clients, n : 0..MaxMsgs]

InitMsg(c) == [type |-> "INIT", id |-> 0, from |-> c, n |-> 0]
IdMsg(c, i) == [type |-> "ID", id |-> i, from |-> c, n |-> 0]
ChatMsg(c, n) == [type |-> "MSG", id |-> id[c], from |-> c, n |-> n]

TypeOK ==
    /\ mq_server \in Seq(Msg) /\ Len(mq_server) <= QLen
    /\ mq_client \in [Clients -> Seq(Msg)]
    /\ \A c \in Clients : Len(mq_client[c]) <= QLen
    /\ mq_clients \in Seq(Clients)
    /\ spc \in {"receive", "reply", "relay"}
    /\ received \in Msg \cup {<<>>}
    /\ at \in 0..Cardinality(Clients)
    /\ restarts \in 0..MaxRestarts
    /\ cpc \in [Clients -> {"off", "init", "wait", "chat"}]
    /\ id \in [Clients -> Ids]
    /\ pipe \in [Clients -> Seq(Ids)]
    /\ sent \in 0..MaxMsgs
    /\ shown \in [Clients -> Seq(Msg)]
    /\ dead \in SUBSET Clients
    /\ log \in Seq(Msg)

Init ==
    /\ mq_server = <<>>
    /\ mq_client = [c \in Clients |-> <<>>]
    /\ mq_clients = <<>>
    /\ spc = "receive"
    /\ received = <<>>
    /\ at = 0
    /\ restarts = 0
    /\ cpc = [c \in Clients |-> "off"]
    /\ id = [c \in Clients |-> 0]
    /\ pipe = [c \in Clients |-> <<>>]
    /\ sent = 0
    /\ shown = [c \in Clients |-> <<>>]
    /\ dead = {}
    /\ log = <<>>

\* Fault for the mutants: every message has a higher priority than those before.
EnqueueUrgent(q, m) == <<m>> \o q

\* mq_send with priority 1 puts the message behind all others.
Enqueue(q, m) == Append(q, m)

-----------------------------------------------------------------------------
(* server.c *)

\* mq_receive(mq_server)
Receive ==
    /\ spc = "receive"
    /\ mq_server # <<>>
    /\ received' = Head(mq_server)
    /\ mq_server' = Tail(mq_server)
    /\ log' = Append(log, received')
    /\ spc' = IF received'.type = "INIT" THEN "reply" ELSE "relay"
    /\ at' = 0
    /\ UNCHANGED <<mq_client, mq_clients, restarts, clients>>

clients_count == Len(mq_clients)

\* case INIT: mq_open, mq_send(ID), clients_count++
Reply ==
    /\ spc = "reply"
    /\ LET c == received.from IN
         /\ Len(mq_client[c]) < QLen
         /\ mq_client' = [mq_client EXCEPT ![c] = Enqueue(@, IdMsg(c, clients_count))]
         /\ mq_clients' = Append(mq_clients, c)
    /\ spc' = "receive"
    /\ UNCHANGED <<mq_server, received, at, restarts, log, clients>>

\* Faults for the mutants: everyone up to the sender is skipped, and the loop
\* does not go on.
SkipUpToSender == at <= received.id
SameAgain == at
SkipThis == at = received.id
Following == at + 1

\* case MSG: one mq_send of the loop, to the client with id at.
RelayOne ==
    /\ spc = "relay"
    /\ at < Len(mq_clients)
    /\ LET c == mq_clients[at + 1] IN
         IF SkipThis THEN UNCHANGED mq_client
         ELSE /\ Len(mq_client[c]) < QLen
              /\ mq_client' = [mq_client EXCEPT ![c] = Enqueue(@, received)]
    /\ at' = Following
    /\ UNCHANGED <<mq_server, mq_clients, spc, received, restarts, log, clients>>

RelayDone ==
    /\ spc = "relay"
    /\ at = Len(mq_clients)
    /\ spc' = "receive"
    /\ at' = 0
    /\ UNCHANGED <<mq_server, mq_client, mq_clients, received, restarts, log, clients>>

Server ==
    \/ Receive \/ Reply \/ RelayOne \/ RelayDone

\* The server is killed and started again.  The queues survive in the kernel
\* under their names, the table and the message at hand do not.
Restart ==
    /\ restarts < MaxRestarts
    /\ restarts' = restarts + 1
    /\ mq_clients' = <<>>
    /\ spc' = "receive"
    /\ received' = <<>>
    /\ at' = 0
    /\ UNCHANGED <<mq_server, mq_client, log, clients>>

-----------------------------------------------------------------------------
(* client.c *)

\* The client's two processes run until the terminal's Ctrl-C kills both.
Step(c, from, to) ==
    /\ c \notin dead
    /\ cpc[c] = from
    /\ cpc' = [cpc EXCEPT ![c] = to]
    /\ UNCHANGED <<server, dead>>

OpenQueue(c) ==
    /\ Step(c, "off", "init")
    /\ UNCHANGED <<mq_server, mq_client, id, pipe, sent, shown>>

\* mq_send(mq_server, INIT); pipe(); fork()
SendInit(c) ==
    /\ Step(c, "init", "wait")
    /\ Len(mq_server) < QLen
    /\ mq_server' = Enqueue(mq_server, InitMsg(c))
    /\ UNCHANGED <<mq_client, id, pipe, sent, shown>>

\* Parent: read(id_pipe[0])
ReadId(c) ==
    /\ Step(c, "wait", "chat")
    /\ pipe[c] # <<>>
    /\ id' = [id EXCEPT ![c] = Head(pipe[c])]
    /\ pipe' = [pipe EXCEPT ![c] = Tail(@)]
    /\ UNCHANGED <<mq_server, mq_client, sent, shown>>

\* Parent: scanf(); mq_send(mq_server, MSG)
SendLine(c) ==
    /\ Step(c, "chat", "chat")
    /\ sent < MaxMsgs
    /\ Len(mq_server) < QLen
    /\ mq_server' = Enqueue(mq_server, ChatMsg(c, sent + 1))
    /\ sent' = sent + 1
    /\ UNCHANGED <<mq_client, id, pipe, shown>>

\* Child: mq_receive(mq_client), printf, and for ID a write to the pipe.
Show(c) ==
    /\ c \notin dead
    /\ cpc[c] \in {"wait", "chat"}
    /\ mq_client[c] # <<>>
    /\ LET m == Head(mq_client[c]) IN
         /\ shown' = [shown EXCEPT ![c] = Append(@, m)]
         /\ pipe' = IF m.type = "ID" THEN [pipe EXCEPT ![c] = Append(@, m.id)] ELSE pipe
    /\ mq_client' = [mq_client EXCEPT ![c] = Tail(@)]
    /\ UNCHANGED <<mq_server, server, cpc, id, sent, dead>>

Kill(c) ==
    /\ c \notin dead
    /\ cpc[c] # "off"
    /\ Cardinality(dead) < MaxKills
    /\ dead' = dead \cup {c}
    /\ UNCHANGED <<mq_server, mq_client, server, cpc, id, pipe, sent, shown>>

Next ==
    \/ Server
    \/ Restart
    \/ \E c \in Clients :
         OpenQueue(c) \/ SendInit(c) \/ ReadId(c) \/ SendLine(c) \/ Show(c) \/ Kill(c)

Spec == Init /\ [][Next]_vars

\* The processes that have something to do keep running; nobody has to type.
Fairness ==
    /\ WF_vars(Server)
    /\ \A c \in Clients : WF_vars(ReadId(c)) /\ WF_vars(Show(c))

FairSpec == Spec /\ Fairness

-----------------------------------------------------------------------------
IsChat(m) == m.type = "MSG"

\* What client c has been given: what it has printed and what waits in its queue.
Given(c) == shown[c] \o mq_client[c]

\* The id of client c and the place of its INIT in the log.
IdOf(c) == CHOOSE i \in Ids : i < Len(mq_clients) /\ mq_clients[i + 1] = c
Joined(c) == CHOOSE j \in 1..Len(log) : log[j] = InitMsg(c)

\* The message at hand has not reached the clients from index at on.
OnTheWay(c) == spc = "relay" /\ IdOf(c) >= at /\ received.from # c

\* Where the log has what client c is owed: the messages of others since its
\* INIT, but for the one that is on its way.
Owed(c) ==
    {k \in Joined(c)..Len(log) : IsChat(log[k]) /\ log[k].from # c}
      \ (IF OnTheWay(c) THEN {Len(log)} ELSE {})

\* t is what s has at the places P, each once and in their order.
Picks(t, s, P) == \E place \in [1..Len(t) -> P] :
    /\ \A i, j \in 1..Len(t) : i < j => place[i] < place[j]
    /\ \A k \in P : \E i \in 1..Len(t) : place[i] = k
    /\ \A i \in 1..Len(t) : t[i] = s[place[i]]

\* Every registered client is given its ID and then exactly what it is owed, in
\* order, without loss or duplication, before the next message is taken
\* (server.c:24-61), and sends nothing before it has learnt its own id
\* (client.c:74-88), as long as the server is not restarted: then it hands the
\* ids out again.
DeliveredExactly == restarts = 0 => \A c \in ToSet(mq_clients) :
    /\ Given(c) # <<>> /\ Head(Given(c)) = IdMsg(c, IdOf(c))
    /\ Picks(Tail(Given(c)), log, Owed(c))
    /\ cpc[c] = "chat" => id[c] = IdOf(c)

\* No client sees a message twice, and any two see the messages that they both
\* see in the same order, also when clients die and the server is restarted
\* (server.c:45-53, client.c:53-69).
SameOrder == \A c, d \in Clients :
    \A i, j \in DOMAIN shown[c], k, l \in DOMAIN shown[d] :
      /\ IsChat(shown[c][i]) /\ shown[c][i] = shown[d][k]
      /\ IsChat(shown[c][j]) /\ shown[c][j] = shown[d][l]
      => (i < j <=> k < l)

\* The server comes back to its queue, unless it waits for a dead client whose
\* queue is full: mq_send has no timeout (server.c:40 and 49).
Stuck == \E c \in dead :
    /\ Len(mq_client[c]) = QLen
    /\ \/ spc = "reply" /\ received.from = c
       \/ spc = "relay" /\ at < Len(mq_clients) /\ mq_clients[at + 1] = c
ServerReturns == spc # "receive" ~> spc = "receive" \/ Stuck
=============================================================================
