------------------------------ MODULE ChatUdp ------------------------------
(***************************************************************************)
(* The UDP chat of ex12/zad1: the server, a single thread that handles one *)
(* datagram after the other, its clients, and the network, which may lose, *)
(* repeat, reorder and damage datagrams.  A client is its address and has  *)
(* the id it was started with, which is the client itself.                 *)
(*                                                                         *)
(* The server's command[] is [kind, tail]: kind is the word at its start   *)
(* that the server compares, "other" any other; tail is the string behind  *)
(* that word and one character, at command + 5.  A tail is [to, text,      *)
(* author]: the client it names first (Nobody: none, Blank: there is no    *)
(* word in it), whether a space and a text follow, and who typed it.  A    *)
(* line that ends before command + 5 is bare and leaves the tail alone; a  *)
(* datagram of kind "none" ends after the id, as the initial one does.     *)
(***************************************************************************)
EXTENDS Naturals, FiniteSets, FiniteSetsExt

CONSTANTS
    Clients,    \* the clients, which are their addresses and their ids
    Slots,      \* MAX_CLIENTS, 8 in the code
    Lines,      \* bound: the lines that are typed, [kind, tail], see LinesAssumption
    MaxEvents   \* bound: lines typed, and datagrams lost, repeated or damaged

ASSUME SizesAssumption ==
    /\ IsFiniteSet(Clients) /\ Clients \cap {"nobody", "blank"} = {}
    /\ Slots \in Nat \ {0} /\ MaxEvents \in Nat

Nobody == "nobody"
Blank == "blank"
Kinds == {"LIST", "2ALL", "2ONE", "STOP", "other"}
Targets == [to: Clients \cup {Nobody, Blank}, text: BOOLEAN]

\* A bare line has the tail {}, any other one the tail it puts behind its word.
ASSUME LinesAssumption ==
    \A line \in Lines:
      /\ line.kind \in Kinds \cup {"none"}
      /\ line.tail \in {{}} \cup {{t}: t \in Targets}
      /\ line.kind = "none" => line.tail = {}

VARIABLES
    pc,         \* pc[c]: "off", "hello" (initial message sent), "up", "gone"
    net,        \* the datagrams on their way to the server
    lines,      \* how many lines were typed
    faults,     \* how many faults the network has made
    up,         \* FALSE once the server has crashed
    entry,      \* entry[i]: address and id of clients[i] while it is active
    command,    \* what the last call left on the stack in command[]
    sent,       \* sent[c]: the messages the server has sent to c
    last,       \* history: what each client's last datagram was obeyed as
    turnedAway, \* history: clients whose last datagram met a full table
    wordless    \* history: clients one of whose datagrams ended before its tail

vars == <<pc, net, lines, faults, up, entry, command, sent, last, turnedAway, wordless>>

Table == 1..Slots
Free == [addr |-> Nobody, id |-> Nobody]
Tails == [to: Clients \cup {Nobody, Blank}, text: BOOLEAN, author: Clients \cup {Nobody}]
Commands == [kind: Kinds, tail: Tails]

\* What other calls leave in command[] spells no command and names no client.
Garbage == [kind |-> "other", tail |-> [to |-> Nobody, text |-> FALSE, author |-> Nobody]]

\* What the server finds in a datagram.  "raw" is the datagram of Ctrl-C,
\* four letters without a space; n tells the datagrams of a client apart.
Datagrams ==
    [from: Clients, n: 0..(MaxEvents + 1), id: Clients \cup {Nobody},
     kind: Kinds \cup {"none", "raw"}, tail: SUBSET Tails, intact: BOOLEAN]

Messages ==
    [kind: {"LIST", "2ALL", "2ONE"}, as: Clients \cup {Nobody},
     to: Clients \cup {Nobody}, author: Clients \cup {Nobody}]

TypeOK ==
    /\ pc \in [Clients -> {"off", "hello", "up", "gone"}]
    /\ net \in SUBSET Datagrams
    /\ lines \in 0..MaxEvents /\ faults \in 0..MaxEvents
    /\ up \in BOOLEAN
    /\ entry \in [Table -> [addr: Clients, id: Clients \cup {Nobody}] \cup {Free}]
    /\ command \in Commands
    /\ sent \in [Clients -> SUBSET Messages]
    /\ last \in [Clients -> Kinds \cup {"nothing", "raw"}]
    /\ turnedAway \in SUBSET Clients /\ wordless \in SUBSET Clients

Init ==
    /\ pc = [c \in Clients |-> "off"]
    /\ net = {} /\ lines = 0 /\ faults = 0
    /\ up = TRUE
    /\ entry = [i \in Table |-> Free]
    /\ command = Garbage
    /\ sent = [c \in Clients |-> {}]
    /\ last = [c \in Clients |-> "nothing"]
    /\ turnedAway = {} /\ wordless = {}

server == <<up, entry, command, sent, last, turnedAway, wordless>>

-----------------------------------------------------------------------------
(* The clients.                                                            *)

Datagram(c, n, kind, tail) ==
    [from |-> c, n |-> n, id |-> c, kind |-> kind, tail |-> tail, intact |-> TRUE]

\* The initial message is an id and a space, without a command.
SendInitial(c) ==
    /\ pc[c] = "off"
    /\ pc' = [pc EXCEPT ![c] = "hello"]
    /\ net' = net \cup {Datagram(c, 0, "none", {})}
    /\ UNCHANGED <<lines, faults, server>>

\* The handler of SIGINT is set up after the initial message.
SetupHandler(c) ==
    /\ pc[c] = "hello"
    /\ pc' = [pc EXCEPT ![c] = "up"]
    /\ UNCHANGED <<net, lines, faults, server>>

TypedBy(c, tail) == {[to |-> t.to, text |-> t.text, author |-> c]: t \in tail}

\* A line is sent as it is typed; nothing ends the client after STOP, and an
\* empty line is a datagram without a command.
SendLine(c) ==
    /\ pc[c] = "up" /\ lines + faults < MaxEvents
    /\ lines' = lines + 1
    /\ \E line \in Lines:
         net' = net \cup {Datagram(c, lines + 1, line.kind, TypedBy(c, line.tail))}
    /\ UNCHANGED <<pc, faults, server>>

\* Ctrl-C: before the handler is set up the process just ends.
Interrupt(c) ==
    /\ pc[c] \in {"hello", "up"}
    /\ pc' = [pc EXCEPT ![c] = "gone"]
    /\ net' = IF pc[c] = "up"
                THEN net \cup {Datagram(c, 0, "raw", {})} ELSE net
    /\ UNCHANGED <<lines, faults, server>>

Client(c) == SendInitial(c) \/ SetupHandler(c) \/ SendLine(c) \/ Interrupt(c)

-----------------------------------------------------------------------------
(* The network.  Reordering needs no action: any datagram may be next.     *)

Lose(d) ==
    /\ net' = net \ {d}
    /\ UNCHANGED <<pc, lines, server>>

\* A byte of the id is changed, and with it the checksum the server computes.
Damage(d) ==
    /\ d.intact /\ d.kind # "raw"
    /\ net' = (net \ {d}) \cup {[d EXCEPT !.id = Nobody, !.intact = FALSE]}
    /\ UNCHANGED <<pc, lines, server>>

Fault ==
    /\ lines + faults < MaxEvents
    /\ faults' = faults + 1
    /\ \E d \in net: Lose(d) \/ Damage(d)

\* recvfrom takes a datagram off the network; one that was repeated stays.
Receive(d) ==
    /\ up /\ d \in net
    /\ \/ net' = net \ {d} /\ UNCHANGED faults
       \/ net' = net /\ lines + faults < MaxEvents /\ faults' = faults + 1
    /\ UNCHANGED <<pc, lines>>

-----------------------------------------------------------------------------
(* handle_client_message.                                                  *)

EntriesOf(table, c) == {i \in Table: table[i].addr = c}
FreeEntries == {i \in Table: entry[i] = Free}
Active == {i \in Table: entry[i] # Free}

\* Fault for the mutants: the test of the active flag is left out, so that a
\* full table gives its first entry away.
RegisteredOver(c, id) ==
    IF EntriesOf(entry, c) = {}
      THEN [entry EXCEPT ![Min(Table)] = [addr |-> c, id |-> id]]
      ELSE entry
\* Fault for the mutants: an entry that is active already is not looked for.
RegisteredAgain(c, id) ==
    IF FreeEntries # {}
      THEN [entry EXCEPT ![Min(FreeEntries)] = [addr |-> c, id |-> id]]
      ELSE entry

\* The entries after the search by address and the registration of a new one.
Registered(c, id) ==
    IF EntriesOf(entry, c) = {} /\ FreeEntries # {}
      THEN [entry EXCEPT ![Min(FreeEntries)] = [addr |-> c, id |-> id]]
      ELSE entry

\* Fault for the mutants: the loop over the entries ends one too early.
UnregisteredEarly(table, c) ==
    IF EntriesOf(table, c) \ {Slots} = {} THEN table
    ELSE [table EXCEPT ![Min(EntriesOf(table, c))] = Free]

\* The entries after STOP.
Unregistered(table, c) ==
    IF EntriesOf(table, c) = {} THEN table
    ELSE [table EXCEPT ![Min(EntriesOf(table, c))] = Free]

\* Fault for the mutants: the command is split off with the id, and there may be
\* none to be found.
HasCommand(d) == d.kind \notin {"raw", "none"}

\* strchr finds no space, and the checksum is computed from address 1.
HasSpace(d) == d.kind # "raw"

ChecksumMatches(d) == d.intact

\* sscanf leaves command alone when nothing follows the id, and its tail when
\* the line is bare: what the call before left on the stack is obeyed, unless
\* something else has overwritten it.
Parsed(d) ==
    IF d.kind = "none" THEN {command, Garbage}
    ELSE [kind: {d.kind}, tail: IF d.tail = {} THEN {command.tail, Garbage.tail} ELSE d.tail]

\* The entry a private message goes to: the first one with that id.
Addressees(table, id) == {i \in Table: table[i] # Free /\ table[i].id = id}
Addressee(table, id) == table[Min(Addressees(table, id))].addr

\* Fault for the mutants: the sender is not excluded.
Everybody(table, c) == {table[i].addr: i \in Table} \ {Nobody}

\* Who gets a broadcast: every active entry but the sender's.
Audience(table, c) == {table[i].addr: i \in Table} \ {c, Nobody}

\* What sscanf leaves in target_id: without a word to read it keeps whatever an
\* earlier call has left there.
TargetIds(tail) == IF tail.to = Blank THEN Clients \cup {Nobody} ELSE {tail.to}

Message(d, cmd, to) ==
    [kind |-> cmd.kind, as |-> d.id, to |-> to, author |-> cmd.tail.author]

SendTo(set, messages) ==
    sent' = [c \in Clients |-> IF c \in set THEN sent[c] \cup messages ELSE sent[c]]

Crash(d) ==
    /\ Receive(d)
    /\ ~HasSpace(d)
    /\ up' = FALSE
    /\ last' = [last EXCEPT ![d.from] = "raw"]
    /\ UNCHANGED <<entry, command, sent, turnedAway, wordless>>

Discard(d) ==
    /\ Receive(d)
    /\ HasSpace(d) /\ ~ChecksumMatches(d)
    /\ UNCHANGED server

\* What every datagram that is parsed does before its command is looked at.
Accept(d, cmd) ==
    /\ Receive(d)
    /\ HasSpace(d) /\ ChecksumMatches(d)
    /\ command' = cmd
    /\ last' = [last EXCEPT ![d.from] = cmd.kind]
    /\ turnedAway' = IF EntriesOf(entry, d.from) = {} /\ FreeEntries = {}
                       THEN turnedAway \cup {d.from} ELSE turnedAway \ {d.from}
    /\ wordless' = IF d.tail = {} THEN wordless \cup {d.from} ELSE wordless

SendList(d, cmd) ==
    /\ Accept(d, cmd)
    /\ cmd.kind = "LIST"
    /\ entry' = Registered(d.from, d.id)
    /\ SendTo({d.from},
              {[kind |-> "LIST", as |-> entry'[i].id, to |-> d.from, author |-> Nobody]:
                 i \in {j \in Table: entry'[j] # Free}})
    /\ UNCHANGED up

Broadcast(d, cmd) ==
    /\ Accept(d, cmd)
    /\ cmd.kind = "2ALL"
    /\ entry' = Registered(d.from, d.id)
    /\ SendTo(Audience(entry', d.from), {Message(d, cmd, Nobody)})
    /\ UNCHANGED up

\* Without a text, msg is the address 1, which snprintf reads only when the
\* addressee is found.
SendPrivate(d, cmd) ==
    /\ Accept(d, cmd)
    /\ cmd.kind = "2ONE"
    /\ entry' = Registered(d.from, d.id)
    /\ \E to \in TargetIds(cmd.tail):
         LET found == Addressees(entry', to) # {} IN
         /\ IF found /\ cmd.tail.text
              THEN SendTo({Addressee(entry', to)}, {Message(d, cmd, to)})
              ELSE UNCHANGED sent
         /\ up' = (found => cmd.tail.text)

ObeyStop(d, cmd) ==
    /\ Accept(d, cmd)
    /\ cmd.kind = "STOP"
    /\ entry' = Unregistered(Registered(d.from, d.id), d.from)
    /\ UNCHANGED <<up, sent>>

RegisterOnly(d, cmd) ==
    /\ Accept(d, cmd)
    /\ cmd.kind = "other"
    /\ entry' = Registered(d.from, d.id)
    /\ UNCHANGED <<up, sent>>

Obey(d, cmd) ==
    \/ SendList(d, cmd) \/ Broadcast(d, cmd) \/ SendPrivate(d, cmd)
    \/ ObeyStop(d, cmd) \/ RegisterOnly(d, cmd)

Server ==
    \E d \in net:
      \/ Crash(d) \/ Discard(d)
      \/ \E cmd \in Parsed(d): Obey(d, cmd)

Next == (\E c \in Clients: Client(c)) \/ Fault \/ Server

Spec == Init /\ [][Next]_vars

-----------------------------------------------------------------------------
(* Properties.                                                             *)

Listed(c) == EntriesOf(entry, c) # {}

\* An active entry bears the id of the client at its address, and no address
\* has two entries, whatever the network repeats or damages.
RegistryFaithful ==
    /\ \A i \in Active: entry[i].id = entry[i].addr
    /\ \A i, j \in Active: entry[i].addr = entry[j].addr => i = j

\* A client is listed exactly when the last datagram of its that was handled
\* was not obeyed as a STOP, also after a late or repeated datagram; the only
\* exception is a table that was full at that moment.
ListedByLast ==
    \A c \in Clients:
      /\ Listed(c) => last[c] \notin {"nothing", "STOP"}
      /\ last[c] \notin {"nothing", "STOP", "raw"} /\ ~Listed(c) => c \in turnedAway

\* A private message goes to nobody but its addressee, nobody hears a
\* broadcast of its own, names in a list are those of clients, and a text that
\* a client has not typed appears under its name only after a datagram of its
\* that ended before the text, without a command or with nothing but the word.
SentRight ==
    \A c \in Clients: \A m \in sent[c]:
      /\ m.as \in Clients
      /\ m.kind = "2ONE" => m.to = c
      /\ m.kind = "2ALL" => m.as # c
      /\ m.kind # "LIST" /\ m.author # m.as => m.as \in wordless

\* Only the datagram of Ctrl-C, by a client that has ended, and a private
\* message without a text, whoever left it in command[], end the server: both
\* are read behind a space that is not there.
UpUnlessUnparsed ==
    ~up => \/ \E c \in Clients: pc[c] = "gone" /\ last[c] = "raw"
           \/ command.kind = "2ONE" /\ ~command.tail.text

\* An undamaged datagram bears its sender's id, what it carries its sender has
\* typed, and the datagram of Ctrl-C is the last thing its client did.
NetFaithful ==
    \A d \in net:
      /\ d.intact => d.id = d.from
      /\ \A t \in d.tail: t.author = d.from
      /\ d.kind = "none" => d.tail = {}
      /\ d.kind = "raw" => pc[d.from] = "gone"

\* The inductive invariant behind the theorems of ChatUdpProofs.
IInv ==
    /\ TypeOK /\ NetFaithful /\ RegistryFaithful
    /\ ListedByLast /\ SentRight /\ UpUnlessUnparsed

\* The table is a registry of bounded capacity.
Members == {entry[i].addr: i \in Active}
R == INSTANCE Registry WITH members <- Members, Capacity <- Slots
ImplementsRegistry == R!Spec
=============================================================================
