------------------------------ MODULE ChatTcp ------------------------------
(***************************************************************************)
(* The TCP chat of ex11/zad1: server.c with its accepting main thread and  *)
(* one handler thread per connection, client.c, and the sockets between.   *)
(*                                                                         *)
(* A client connects once; its id is the client itself.  The handler that  *)
(* pthread_create starts for a client's connection bears the client's      *)
(* name, whatever descriptor it then reads through its argument.           *)
(*                                                                         *)
(* conn[c]: "off", "backlog" (connected, not accepted), "open", "gone"     *)
(*          (the client process has ended)                                 *)
(* tpc[t]:  "none", "start" (created), "id" (first recv), "add",           *)
(*          "recv" (loop), "act" (has a command), "bcast" (in the loop of  *)
(*          broadcast_message), "close", "unlist" (the two halves of       *)
(*          remove_client), "end"                                          *)
(***************************************************************************)
EXTENDS Naturals, Sequences, FiniteSets, FiniteSetsExt

CONSTANTS
    Clients,    \* the client processes
    Slots,      \* the number of entries of clients[], MAX_CLIENTS = 8
    MaxCmds,    \* bound: lines the clients send together
    MaxVanish,  \* bound: no client dies silently once that many have ended
    Coalesce    \* TRUE: one recv() may return several messages of the stream

ASSUME SizesAssumption ==
    /\ IsFiniteSet(Clients) /\ Clients \cap {"nobody", "all", "list"} = {}
    /\ Slots \in Nat \ {0} /\ MaxCmds \in Nat /\ MaxVanish \in Nat
    /\ Coalesce \in BOOLEAN

VARIABLES
    conn,     \* conn[c]: state of the client's connection
    greeted,  \* the clients that have sent their id
    inbox,    \* inbox[c]: what the server has not received from c yet
    cmds,     \* how many lines the clients have sent
    got,      \* got[c]: the chat messages that reached c
    broken,   \* clients whose kernel has answered a send with a reset
    fdOf,     \* fdOf[f]: the connection descriptor f refers to
    arg,      \* main's client_socket, which every thread's argument points to
    pending,  \* the client accepted whose thread is not created yet, or nobody
    raced,    \* history: the races lost so far, see Accept
    tpc,      \* tpc[t]: control point of handler t
    sock,     \* sock[t]: the handler's client_socket
    name,     \* name[t]: the handler's client_id
    cmd,      \* cmd[t]: the handler's buffer
    k,        \* k[t]: loop index in broadcast_message
    lock,     \* owner of clients_mutex: {} or {t}
    entry,    \* entry[s]: clients[s], its socket, id and active flag
    up        \* FALSE once SIGPIPE has killed the server

clientVars == <<conn, greeted, inbox, cmds>>
wire == <<got, broken, up>>
mainVars == <<arg, pending, raced>>
handlers == <<tpc, sock, name, cmd, k>>
vars == <<clientVars, wire, fdOf, mainVars, handlers, lock, entry>>

Nobody == "nobody"
All == "all"
Listing == "list"
Fds == 1..Cardinality(Clients)
NoFd == 0
Table == 1..Slots
Stop == <<"STOP", Nobody>>
Other == <<"", Nobody>>  \* a line that is no command
Commands == {<<"LIST", Nobody>>, <<"2ALL", All>>, Stop, Other} \cup ({"2ONE"} \X Clients)
Hello == <<"ID", Nobody>>
Garbled == Nobody  \* an id that is no client's
Unused == [socket |-> NoFd, id |-> Nobody, active |-> FALSE]

TypeOK ==
    /\ conn \in [Clients -> {"off", "backlog", "open", "gone"}]
    /\ greeted \in SUBSET Clients
    /\ inbox \in [Clients -> Seq(Commands \cup {Hello})]
    /\ cmds \in 0..MaxCmds
    /\ got \in [Clients -> SUBSET ((Clients \cup {Garbled}) \X (Clients \cup {All, Listing}))]
    /\ broken \in SUBSET Clients
    /\ fdOf \in [Fds -> Clients \cup {Nobody}]
    /\ arg \in Fds \cup {NoFd}
    /\ pending \in Clients \cup {Nobody}
    /\ raced \in SUBSET {"argument", "descriptor"}
    /\ tpc \in [Clients -> {"none", "start", "id", "add", "recv", "act", "bcast",
                            "close", "unlist", "end"}]
    /\ sock \in [Clients -> Fds \cup {NoFd}]
    /\ name \in [Clients -> Clients \cup {Garbled}]
    /\ cmd \in [Clients -> Commands \cup {Hello}]
    /\ k \in [Clients -> 1..(Slots + 1)]
    /\ lock \in SUBSET Clients
    /\ entry \in [Table -> [socket : Fds \cup {NoFd}, id : Clients \cup {Garbled},
                            active : BOOLEAN]]
    /\ up \in BOOLEAN

Init ==
    /\ conn = [c \in Clients |-> "off"]
    /\ greeted = {}
    /\ inbox = [c \in Clients |-> <<>>]
    /\ cmds = 0
    /\ got = [c \in Clients |-> {}]
    /\ broken = {}
    /\ fdOf = [f \in Fds |-> Nobody]
    /\ arg = NoFd
    /\ pending = Nobody
    /\ raced = {}
    /\ tpc = [t \in Clients |-> "none"]
    /\ sock = [t \in Clients |-> NoFd]
    /\ name = [t \in Clients |-> Nobody]
    /\ cmd = [t \in Clients |-> Other]
    /\ k = [t \in Clients |-> 1]
    /\ lock = {}
    /\ entry = [s \in Table |-> Unused]
    /\ up = TRUE

-----------------------------------------------------------------------------
(* client.c *)

serverVars == <<fdOf, mainVars, handlers, lock, entry>>

\* connect()
Connect(c) ==
    /\ up /\ conn[c] = "off"
    /\ conn' = [conn EXCEPT ![c] = "backlog"]
    /\ UNCHANGED <<greeted, inbox, cmds, wire, serverVars>>

Connected(c) == conn[c] \in {"backlog", "open"}

\* send(server_socket, client_id)
SendId(c) ==
    /\ up /\ Connected(c) /\ c \notin greeted
    /\ greeted' = greeted \cup {c}
    /\ inbox' = [inbox EXCEPT ![c] = Append(@, Hello)]
    /\ UNCHANGED <<conn, cmds, wire, serverVars>>

\* A line read from stdin is sent as it is.
SendLine(c) ==
    /\ up /\ Connected(c) /\ c \in greeted
    /\ cmds < MaxCmds
    /\ \E line \in Commands : inbox' = [inbox EXCEPT ![c] = Append(@, line)]
    /\ cmds' = cmds + 1
    /\ UNCHANGED <<conn, greeted, wire, serverVars>>

\* handle_sigint(), installed before the id is sent: send "STOP", close, exit.
Interrupt(c) ==
    /\ Connected(c)
    /\ inbox' = [inbox EXCEPT ![c] = Append(@, Stop)]
    /\ conn' = [conn EXCEPT ![c] = "gone"]
    /\ UNCHANGED <<greeted, cmds, wire, serverVars>>

\* recv() returned 0: the server closed the connection or has died.
SeeClosed(c) ==
    /\ conn[c] = "open"
    /\ up => \A f \in Fds : fdOf[f] # c
    /\ conn' = [conn EXCEPT ![c] = "gone"]
    /\ UNCHANGED <<greeted, inbox, cmds, wire, serverVars>>

\* The client is killed: no STOP is sent.
Gone == {c \in Clients : conn[c] = "gone"}
Vanish(c) ==
    /\ Connected(c)
    /\ Cardinality(Gone) < MaxVanish
    /\ conn' = [conn EXCEPT ![c] = "gone"]
    /\ UNCHANGED <<greeted, inbox, cmds, wire, serverVars>>

Client(c) ==
    \/ Connect(c) \/ SendId(c) \/ SendLine(c) \/ Interrupt(c) \/ SeeClosed(c) \/ Vanish(c)

-----------------------------------------------------------------------------
(* server.c: main *)

LowestFree == Min({f \in Fds : fdOf[f] = Nobody})

\* accept() loses a race when it overwrites the argument of a thread that has
\* not read it yet (line 93), and when it hands out the descriptor of a client
\* that remove_client has closed and not unlisted yet (line 80).
RacesLost ==
    (IF \E t \in Clients : tpc[t] = "start" THEN {"argument"} ELSE {}) \cup
    (IF \E t \in Clients : tpc[t] = "unlist" /\ sock[t] = LowestFree THEN {"descriptor"} ELSE {})

\* accept() returns the lowest free descriptor in main's client_socket.  The
\* client may already have ended.
Accept ==
    /\ up /\ pending = Nobody
    /\ \E c \in Clients :
         /\ conn[c] = "backlog" \/ (conn[c] = "gone" /\ tpc[c] = "none")
         /\ conn' = [conn EXCEPT ![c] = IF @ = "backlog" THEN "open" ELSE @]
         /\ fdOf' = [fdOf EXCEPT ![LowestFree] = c]
         /\ arg' = LowestFree
         /\ pending' = c
    /\ raced' = raced \cup RacesLost
    /\ UNCHANGED <<greeted, inbox, cmds, wire, handlers, lock, entry>>

\* pthread_create(..., &client_socket)
CreateThread ==
    /\ up /\ pending # Nobody
    /\ tpc' = [tpc EXCEPT ![pending] = "start"]
    /\ pending' = Nobody
    /\ UNCHANGED <<clientVars, wire, fdOf, arg, raced, sock, name, cmd, k, lock, entry>>

-----------------------------------------------------------------------------
(* server.c: client_handler *)

Move(t, from, to) ==
    /\ up
    /\ tpc[t] = from
    /\ tpc' = [tpc EXCEPT ![t] = to]

\* int client_socket = *((int*)arg)
ReadArg(t) ==
    /\ Move(t, "start", "id")
    /\ sock' = [sock EXCEPT ![t] = arg]
    /\ UNCHANGED <<clientVars, wire, fdOf, mainVars, name, cmd, k, lock, entry>>

\* The connection behind a handler's descriptor.
Peer(t) == fdOf[sock[t]]
HasData(t) == Peer(t) # Nobody /\ inbox[Peer(t)] # <<>>

\* The peer has ended and everything it sent was received, or the descriptor
\* was closed by another handler: recv() returns 0 or -1 (a recv() that another
\* handler's close() finds waiting is taken to return too).
AtEnd(t) == Peer(t) # Nobody => inbox[Peer(t)] = <<>> /\ conn[Peer(t)] = "gone"

\* How many messages one recv() returns.  Only the first of them is looked at,
\* and an id with anything behind it is no client's id.  A message is sent by
\* one send() of a few bytes and is never split; that two clients choose the
\* same id is left out.
Batch(q) == IF Coalesce THEN 1..Len(q) ELSE {1}

RecvId(t) ==
    /\ Move(t, "id", "add")
    /\ HasData(t)
    /\ \E n \in Batch(inbox[Peer(t)]) :
         /\ name' = [name EXCEPT ![t] =
                       IF n = 1 /\ Head(inbox[Peer(t)]) = Hello THEN Peer(t) ELSE Garbled]
         /\ inbox' = [inbox EXCEPT ![Peer(t)] = SubSeq(@, n + 1, Len(@))]
    /\ UNCHANGED <<conn, greeted, cmds, wire, fdOf, mainVars, sock, cmd, k, lock, entry>>

\* perror("recv"); close(client_socket); return
RecvIdFails(t) ==
    /\ Move(t, "id", "end")
    /\ AtEnd(t)
    /\ fdOf' = [fdOf EXCEPT ![sock[t]] = Nobody]
    /\ UNCHANGED <<clientVars, wire, mainVars, sock, name, cmd, k, lock, entry>>

\* add_client(): the first inactive entry, if there is one.
FreeEntries == {s \in Table : ~entry[s].active}

\* Fault for the mutants: the loop goes on after the first free entry.
NoBreak == FreeEntries
FirstFree == IF FreeEntries = {} THEN {} ELSE {Min(FreeEntries)}

AddClient(t) ==
    /\ Move(t, "add", "recv")
    /\ lock = {}
    /\ entry' = [s \in Table |-> IF s \in FirstFree
                   THEN [socket |-> sock[t], id |-> name[t], active |-> TRUE]
                   ELSE entry[s]]
    /\ UNCHANGED <<clientVars, wire, fdOf, mainVars, sock, name, cmd, k, lock>>

RecvCmd(t) ==
    /\ Move(t, "recv", "act")
    /\ HasData(t)
    /\ cmd' = [cmd EXCEPT ![t] = Head(inbox[Peer(t)])]
    /\ \E n \in Batch(inbox[Peer(t)]) :
         inbox' = [inbox EXCEPT ![Peer(t)] = SubSeq(@, n + 1, Len(@))]
    /\ UNCHANGED <<conn, greeted, cmds, wire, fdOf, mainVars, sock, name, k, lock, entry>>

\* The loop ends without remove_client() when recv() returns 0 or -1.
RecvEnd(t) ==
    /\ Move(t, "recv", "end")
    /\ AtEnd(t)
    /\ UNCHANGED <<clientVars, wire, fdOf, mainVars, sock, name, cmd, k, lock, entry>>

\* send(f, m) for the messages of M: a closed descriptor fails harmlessly, the
\* first send to an ended client draws a reset, and once that has arrived the
\* next one raises SIGPIPE.  Send never blocks: the few messages that MaxCmds
\* lines give rise to fit the buffers of a client that does not read.
Send(f, M) ==
    IF M = {} THEN UNCHANGED wire ELSE
    LET c == fdOf[f]
        live == c # Nobody /\ conn[c] # "gone"
        lost == c # Nobody /\ conn[c] = "gone"
    IN  /\ got' = IF live THEN [got EXCEPT ![c] = @ \cup M] ELSE got
        /\ broken' = IF lost THEN broken \cup {c} ELSE broken
        /\ up' \in IF lost /\ (c \in broken \/ Cardinality(M) > 1) THEN BOOLEAN ELSE {TRUE}

Message(from, to) == <<from, to>>

\* send_client_list(): the active entries, all under the lock.
SendList(t) ==
    /\ Move(t, "act", "recv")
    /\ cmd[t][1] = "LIST"
    /\ lock = {}
    /\ Send(sock[t], {Message(entry[s].id, Listing) : s \in {u \in Table : entry[u].active}})
    /\ UNCHANGED <<clientVars, fdOf, mainVars, sock, name, cmd, k, lock, entry>>

\* broadcast_message(): lock, then one entry per step, then unlock.
BeginBroadcast(t) ==
    /\ Move(t, "act", "bcast")
    /\ cmd[t][1] = "2ALL"
    /\ lock = {}
    /\ lock' = {t}
    /\ k' = [k EXCEPT ![t] = 1]
    /\ UNCHANGED <<clientVars, wire, fdOf, mainVars, sock, name, cmd, entry>>

\* Fault for the mutants: the sender is not left out.
AnyRecipient(t, e) == e.active
Recipient(t, e) == e.active /\ e.socket # sock[t]

BroadcastTo(t) ==
    /\ Move(t, "bcast", "bcast")
    /\ k[t] <= Slots
    /\ Send(entry[k[t]].socket,
            IF Recipient(t, entry[k[t]]) THEN {Message(name[t], All)} ELSE {})
    /\ k' = [k EXCEPT ![t] = @ + 1]
    /\ UNCHANGED <<clientVars, fdOf, mainVars, sock, name, cmd, lock, entry>>

EndBroadcast(t) ==
    /\ Move(t, "bcast", "recv")
    /\ k[t] > Slots
    /\ lock' = {}
    /\ UNCHANGED <<clientVars, wire, fdOf, mainVars, sock, name, cmd, k, entry>>

\* handle_private_message(): the first active entry with that id.
Matching(d) == {s \in Table : entry[s].active /\ entry[s].id = d}

SendPrivate(t) ==
    /\ Move(t, "act", "recv")
    /\ cmd[t][1] = "2ONE"
    /\ lock = {}
    /\ LET d == cmd[t][2] IN
       Matching(d) # {} => Send(entry[Min(Matching(d))].socket, {Message(name[t], d)})
    /\ Matching(cmd[t][2]) = {} => UNCHANGED wire
    /\ UNCHANGED <<clientVars, fdOf, mainVars, sock, name, cmd, k, lock, entry>>

\* A buffer that starts with no command is ignored.
Ignore(t) ==
    /\ Move(t, "act", "recv")
    /\ cmd[t] \in {Other, Hello}
    /\ UNCHANGED <<clientVars, wire, fdOf, mainVars, sock, name, cmd, k, lock, entry>>

ObeyStop(t) ==
    /\ Move(t, "act", "close")
    /\ cmd[t][1] = "STOP"
    /\ UNCHANGED <<clientVars, wire, fdOf, mainVars, sock, name, cmd, k, lock, entry>>

\* remove_client(): close() comes first, without the lock.
CloseSocket(t) ==
    /\ Move(t, "close", "unlist")
    /\ fdOf' = [fdOf EXCEPT ![sock[t]] = Nobody]
    /\ UNCHANGED <<clientVars, wire, mainVars, sock, name, cmd, k, lock, entry>>

\* Fault for the mutants: the loop over the table starts at the second entry.
EntriesFromSecond(t) == {s \in Table \ {1} : entry[s].socket = sock[t]}
EntriesOf(t) == {s \in Table : entry[s].socket = sock[t]}

Unlist(t) ==
    /\ Move(t, "unlist", "end")
    /\ lock = {}
    /\ entry' = IF EntriesOf(t) = {} THEN entry
                ELSE [entry EXCEPT ![Min(EntriesOf(t))].active = FALSE]
    /\ UNCHANGED <<clientVars, wire, fdOf, mainVars, sock, name, cmd, k, lock>>

Handler(t) ==
    \/ ReadArg(t) \/ RecvId(t) \/ RecvIdFails(t) \/ AddClient(t) \/ RecvCmd(t)
    \/ RecvEnd(t) \/ SendList(t) \/ BeginBroadcast(t) \/ BroadcastTo(t)
    \/ EndBroadcast(t) \/ SendPrivate(t) \/ Ignore(t) \/ ObeyStop(t)
    \/ CloseSocket(t) \/ Unlist(t)

Next ==
    \/ Accept
    \/ CreateThread
    \/ \E t \in Clients : Handler(t)
    \/ \E c \in Clients : Client(c)

Spec == Init /\ [][Next]_vars

\* Threads are scheduled and an established connection is accepted; nothing
\* obliges a client to do anything.
Fairness ==
    /\ WF_vars(Accept)
    /\ WF_vars(CreateThread)
    /\ \A t \in Clients : WF_vars(Handler(t))

FairSpec == Spec /\ Fairness

-----------------------------------------------------------------------------
(* Properties.  What can go wrong in the table goes wrong only by one of   *)
(* the two races: with raced = {} neither has been lost so far.             *)

\* Unless a race was lost an active entry leads to the client it names: messages
\* for a client are never written to the connection of another one (lines 40-43,
\* 68-70, 79-83).
RegistryFaithful == raced = {} => \A s \in Table :
    LET e == entry[s] IN
    e.active /\ e.id # Garbled =>
        \/ fdOf[e.socket] = e.id
        \/ \E t \in Clients : tpc[t] = "unlist" /\ sock[t] = e.socket

\* Unless a race was lost no client is listed twice (lines 66-73).
ListedOnce == raced = {} => \A s, u \in Table :
    entry[s].active /\ entry[u].active /\ s # u =>
        entry[s].socket # entry[u].socket /\ (entry[s].id = entry[u].id => entry[s].id = Garbled)

\* Unless a race was lost a private message reaches its addressee and nobody
\* else, and a broadcast does not come back to its sender (lines 33-61).
Deliveries == \A c \in Clients : \A m \in got[c] :
    /\ m[2] \in {c, All, Listing}
    /\ m[2] = All => m[1] # c
DeliveredRight == raced = {} => Deliveries

\* "Function to handle communication with a single client" (line 91): no two
\* handlers serve the same connection.
Serving(t) == tpc[t] \in {"id", "add", "recv", "act"}
OneHandlerEach == \A t, u \in Clients :
    t # u /\ Serving(t) /\ Serving(u) => sock[t] # sock[u]

\* "Function to remove a client from the list and clean up" (line 77): when
\* remove_client has returned its client, if the handler had its own argument,
\* is not in the list any more.
Removed(t) == tpc[t] = "end" /\ cmd[t][1] = "STOP"
RemovedIsUnlisted == "argument" \notin raced => \A t \in Clients : \A s \in Table :
    Removed(t) /\ entry[s].active => entry[s].id # t

\* "Function to send the list of active clients" (line 19): unless a race was
\* lost a client in the list has its handler as long as it runs; only a client
\* that has ended without a STOP the handler saw stays there (lines 110-125).
ListedAreServed == raced = {} => \A s \in Table : \A c \in Clients :
    entry[s].active /\ entry[s].id = c /\ tpc[c] = "end" => conn[c] = "gone" /\ ~Removed(c)

\* Connections that main has accepted have one descriptor each, as long as the
\* server has not closed it, and main's client_socket is some descriptor.
Accepted(c) == pending = c \/ tpc[c] # "none"

DescriptorsFaithful ==
    /\ \A f, g \in Fds : fdOf[f] # Nobody /\ fdOf[f] = fdOf[g] => f = g
    /\ \A f \in Fds : fdOf[f] # Nobody => Accepted(fdOf[f])
    /\ \A c \in Clients : Accepted(c) => conn[c] \in {"open", "gone"}
    /\ pending # Nobody => arg \in Fds /\ tpc[pending] = "none"

\* Whatever was lost, descriptors in use are known, and no handler that goes on
\* has read a STOP.
SocketsKnown ==
    /\ \A t \in Clients :
         /\ tpc[t] = "start" => arg \in Fds
         /\ tpc[t] \notin {"none", "start", "end"} => sock[t] \in Fds
         /\ tpc[t] \in {"none", "start", "id", "add", "recv", "bcast"} => cmd[t][1] # "STOP"
    /\ \A s \in Table : entry[s].active => entry[s].socket \in Fds

\* A handler's descriptor is that of its own client until it closes it, if no
\* argument was overwritten.
OwnSocket == \A t \in Clients :
    /\ pending = t => fdOf[arg] = t
    /\ tpc[t] = "start" => arg \in Fds /\ fdOf[arg] = t
    /\ tpc[t] \in {"id", "add", "recv", "act", "bcast", "close"} =>
         sock[t] \in Fds /\ fdOf[sock[t]] = t
    /\ name[t] \in {t, Garbled}

\* A descriptor is not in use again before its client is unlisted.
NotReused == \A t \in Clients : tpc[t] = "unlist" => fdOf[sock[t]] = Nobody

\* An active entry is that of a handler that has registered its client and not
\* unlisted it; no entry before it has its descriptor, not even an old one.
Registered(t) ==
    \/ tpc[t] \in {"recv", "act", "bcast", "close", "unlist"}
    \/ tpc[t] = "end" /\ ~Removed(t) /\ conn[t] = "gone" /\ sock[t] \in Fds /\ fdOf[sock[t]] = t

EntriesOwned == \A s \in Table : entry[s].active =>
    /\ \E t \in Clients :
         Registered(t) /\ entry[s].socket = sock[t] /\ entry[s].id \in {t, Garbled}
    /\ \A u \in Table : u < s => entry[u].socket # entry[s].socket

\* The inductive invariant behind the theorems of ChatTcpProofs.
IInv ==
    /\ TypeOK /\ DescriptorsFaithful /\ SocketsKnown
    /\ "argument" \notin raced => OwnSocket
    /\ raced = {} => NotReused /\ EntriesOwned /\ Deliveries

\* A client that sends STOP is unlisted in the end, unless a race was lost or
\* the server has died (lines 119-121).  Only as long as no send() blocks under
\* clients_mutex, see Send.
StopUnlists == \A t \in Clients :
    tpc[t] = "act" /\ cmd[t][1] = "STOP" ~>
        ~up \/ raced # {} \/ (tpc[t] = "end" /\ \A s \in Table : entry[s].active => entry[s].id # t)
=============================================================================
