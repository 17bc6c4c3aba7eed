--------------------------- MODULE ChatUdpProofs ---------------------------
(***************************************************************************)
(* Theorems about ChatUdp for every finite set of clients, every size of   *)
(* the table, whatever lines are typed and whatever faults the network has. *)
(***************************************************************************)
EXTENDS ChatUdp, FiniteSetsExt, FiniteSetTheorems, WellFoundedInduction, TLAPS

\* A non-empty set of natural numbers has a least element, Min's.
LEMMA Least ==
    ASSUME NEW S, S \subseteq Nat, S # {}
    PROVE  Min(S) \in S /\ \A x \in S: Min(S) <= x
<1>. DEFINE Below == {0..n: n \in S}
<1>1. Below \subseteq FiniteSubsetsOf(Nat) /\ Below # {}
  <2>1. ASSUME NEW n \in S PROVE 0..n \in FiniteSubsetsOf(Nat)
    <3>1. n \in Nat /\ 0..n \subseteq Nat
      OBVIOUS
    <3>2. IsFiniteSet(0..n)
      BY <3>1, FS_Interval
    <3>. QED BY <3>1, <3>2 DEF FiniteSubsetsOf
  <2>. QED BY <2>1
<1>2. PICK b \in Below: \A a \in Below: <<a, b>> \notin StrictSubsetOrdering(Nat)
    BY <1>1, FS_StrictSubsetOrderingWellFounded, WFMin
<1>3. PICK n \in S: b = 0..n
    BY <1>2
<1>4. \A m \in S: n <= m
  <2>. SUFFICES ASSUME NEW m \in S, m < n PROVE FALSE
    OBVIOUS
  <2>1. 0..m \subseteq 0..n /\ n \in 0..n /\ n \notin 0..m
    OBVIOUS
  <2>2. <<0..m, 0..n>> \in StrictSubsetOrdering(Nat)
    BY <2>1 DEF StrictSubsetOrdering
  <2>. QED BY <1>2, <1>3, <2>2
<1>. QED BY <1>4 DEF Min

-----------------------------------------------------------------------------
(* The first entry with a property *)

\* The first of some entries is one of them.
LEMMA FirstEntry ==
    ASSUME NEW S, S \subseteq Table, S # {}
    PROVE  Min(S) \in S
<1>1. S \subseteq Nat
    BY SizesAssumption DEF Table
<1>. QED BY <1>1, Least

-----------------------------------------------------------------------------
(* The table *)

Tables == [Table -> [addr: Clients, id: Clients \cup {Nobody}] \cup {Free}]

\* RegistryFaithful for any table.
Faithful(table) ==
    /\ \A i \in Table: table[i] # Free => table[i].id = table[i].addr
    /\ \A i, j \in Table:
         table[i] # Free /\ table[j] # Free /\ table[i].addr = table[j].addr => i = j

LEMMA Strangers == Nobody \notin Clients
BY SizesAssumption DEF Nobody

\* An entry is active when it has a client's address.
LEMMA ActiveEntry ==
    ASSUME NEW table \in Tables, NEW i \in Table
    PROVE  /\ table[i] # Free => table[i].addr \in Clients
           /\ table[i] = Free => table[i].addr = Nobody
BY DEF Tables, Free

\* What is faithful for entry is RegistryFaithful.
LEMMA FaithfulEntry == entry \in Tables => (RegistryFaithful <=> Faithful(entry))
BY DEF RegistryFaithful, Faithful, Active

\* Registration keeps the table faithful and leaves the other clients alone; it
\* fails only for a client that finds the table full.
LEMMA AfterRegistered ==
    ASSUME entry \in Tables, Faithful(entry), NEW c \in Clients
    PROVE  /\ Registered(c, c) \in Tables
           /\ Faithful(Registered(c, c))
           /\ \A a \in Clients \ {c}: EntriesOf(Registered(c, c), a) = EntriesOf(entry, a)
           /\ EntriesOf(Registered(c, c), c) = {} =>
                EntriesOf(entry, c) = {} /\ FreeEntries = {}
<1>1. CASE EntriesOf(entry, c) # {} \/ FreeEntries = {}
  <2>1. Registered(c, c) = entry
    BY <1>1 DEF Registered
  <2>. QED BY <1>1, <2>1
<1>2. CASE EntriesOf(entry, c) = {} /\ FreeEntries # {}
  <2>. DEFINE k == Min(FreeEntries)
              e == [addr |-> c, id |-> c]
  <2>1. k \in Table /\ entry[k] = Free
    BY <1>2, FirstEntry DEF FreeEntries
  <2>2. Registered(c, c) = [entry EXCEPT ![k] = e]
    BY <1>2 DEF Registered
  <2>3. e \in [addr: Clients, id: Clients \cup {Nobody}] /\ e.addr = c /\ e.id = c
    OBVIOUS
  <2>. HIDE DEF k, e
  <2>4. Registered(c, c) \in Tables
    BY <2>1, <2>2, <2>3 DEF Tables
  <2>5. \A i \in Table: Registered(c, c)[i] = IF i = k THEN e ELSE entry[i]
    BY <2>1, <2>2 DEF Tables
  <2>6. \A i \in Table: entry[i].addr # c
    BY <1>2 DEF EntriesOf
  <2>7. Faithful(Registered(c, c))
    BY <2>3, <2>5, <2>6 DEF Faithful
  <2>8. Free.addr = Nobody
    BY DEF Free
  <2>9. \A a \in Clients \ {c}: EntriesOf(Registered(c, c), a) = EntriesOf(entry, a)
    BY <2>1, <2>3, <2>5, <2>8, Strangers DEF EntriesOf
  <2>10. k \in EntriesOf(Registered(c, c), c)
    BY <2>1, <2>3, <2>5 DEF EntriesOf
  <2>. QED BY <2>4, <2>7, <2>9, <2>10
<1>. QED BY <1>1, <1>2

\* STOP keeps it faithful too, and its client has no entry left.
LEMMA AfterUnregistered ==
    ASSUME NEW table \in Tables, Faithful(table), NEW c \in Clients
    PROVE  /\ Unregistered(table, c) \in Tables
           /\ Faithful(Unregistered(table, c))
           /\ \A a \in Clients \ {c}: EntriesOf(Unregistered(table, c), a) = EntriesOf(table, a)
           /\ EntriesOf(Unregistered(table, c), c) = {}
<1>1. CASE EntriesOf(table, c) = {}
  <2>1. Unregistered(table, c) = table
    BY <1>1 DEF Unregistered
  <2>. QED BY <1>1, <2>1
<1>2. CASE EntriesOf(table, c) # {}
  <2>. DEFINE k == Min(EntriesOf(table, c))
  <2>1. k \in Table /\ table[k].addr = c
    BY <1>2, FirstEntry DEF EntriesOf
  <2>2. Unregistered(table, c) = [table EXCEPT ![k] = Free]
    BY <1>2 DEF Unregistered
  <2>. HIDE DEF k
  <2>3. Unregistered(table, c) \in Tables
    BY <2>1, <2>2 DEF Tables
  <2>4. \A i \in Table: Unregistered(table, c)[i] = IF i = k THEN Free ELSE table[i]
    BY <2>1, <2>2 DEF Tables
  <2>5. Faithful(Unregistered(table, c))
    BY <2>4 DEF Faithful
  <2>6. Free.addr = Nobody
    BY DEF Free
  <2>7. \A a \in Clients \ {c}: EntriesOf(Unregistered(table, c), a) = EntriesOf(table, a)
    BY <2>1, <2>4, <2>6, Strangers DEF EntriesOf
  <2>8. table[k] # Free
    BY <2>1, <2>6, Strangers
  <2>9. \A i \in Table: table[i].addr = c => i = k
    BY <2>1, <2>6, <2>8, Strangers DEF Faithful
  <2>10. EntriesOf(Unregistered(table, c), c) = {}
    BY <2>4, <2>6, <2>9, Strangers DEF EntriesOf
  <2>. QED BY <2>3, <2>5, <2>7, <2>10
<1>. QED BY <1>1, <1>2

-----------------------------------------------------------------------------
(* The clients and the network, which leave the server alone *)

LEMMA InitialInvariant == Init => IInv
<1>. SUFFICES ASSUME Init PROVE IInv
    OBVIOUS
<1>1. Nobody \in Clients \cup {Nobody} /\ Garbage \in Commands
    BY DEF Garbage, Commands, Kinds, Tails
<1>2. TypeOK
    BY <1>1, SizesAssumption DEF Init, TypeOK
<1>3. \A c \in Clients: EntriesOf(entry, c) = {}
    BY Strangers DEF Init, EntriesOf, Free
<1>4. RegistryFaithful /\ NetFaithful
    BY DEF Init, RegistryFaithful, NetFaithful, Active
<1>5. ListedByLast
    BY <1>3 DEF Init, ListedByLast, Listed
<1>6. SentRight /\ UpUnlessUnparsed
    BY DEF Init, SentRight, UpUnlessUnparsed
<1>. QED BY <1>2, <1>4, <1>5, <1>6 DEF IInv

\* What is said of the server's variables stays true while they do.
LEMMA ServerKept ==
    ASSUME IInv, UNCHANGED server
    PROVE  RegistryFaithful' /\ ListedByLast' /\ SentRight'
<1>1. entry' = entry /\ sent' = sent /\ last' = last
      /\ turnedAway' = turnedAway /\ wordless' = wordless
    BY DEF server
<1>2. RegistryFaithful'
    BY <1>1 DEF IInv, RegistryFaithful, Active
<1>3. ListedByLast'
    BY <1>1 DEF IInv, ListedByLast, Listed, EntriesOf
<1>4. SentRight'
    BY <1>1 DEF IInv, SentRight
<1>. QED BY <1>2, <1>3, <1>4

LEMMA DatagramType ==
    ASSUME NEW c \in Clients, NEW n \in 0..(MaxEvents + 1),
           NEW kind \in Kinds \cup {"none", "raw"}, NEW tail \in SUBSET Tails
    PROVE  /\ Datagram(c, n, kind, tail) \in Datagrams
           /\ Datagram(c, n, kind, tail).id = Datagram(c, n, kind, tail).from
           /\ Datagram(c, n, kind, tail).from = c
           /\ Datagram(c, n, kind, tail).kind = kind
           /\ Datagram(c, n, kind, tail).tail = tail
BY DEF Datagram, Datagrams

\* What a client types behind a word is a tail of its own.
LEMMA LineType ==
    ASSUME NEW c \in Clients, NEW line \in Lines
    PROVE  /\ line.kind \in Kinds \cup {"none"}
           /\ TypedBy(c, line.tail) \in SUBSET Tails
           /\ \A t \in TypedBy(c, line.tail): t.author = c
           /\ line.kind = "none" => TypedBy(c, line.tail) = {}
<1>1. /\ line.kind \in Kinds \cup {"none"}
      /\ \A t \in line.tail: t \in Targets
      /\ line.kind = "none" => line.tail = {}
    BY LinesAssumption
<1>. QED BY <1>1 DEF TypedBy, Targets, Tails

LEMMA ClientInvariant ==
    ASSUME IInv, NEW c \in Clients, Client(c)
    PROVE  IInv'
<1>0. /\ TypeOK /\ NetFaithful /\ UpUnlessUnparsed
      /\ MaxEvents \in Nat /\ 0 \in 0..(MaxEvents + 1)
      /\ lines \in 0..MaxEvents /\ faults \in 0..MaxEvents /\ pc \in [Clients -> {"off", "hello", "up", "gone"}]
    BY SizesAssumption DEF IInv, TypeOK
<1>1. UNCHANGED server /\ UNCHANGED faults
    BY DEF Client, SendInitial, SetupHandler, SendLine, Interrupt
<1>2. RegistryFaithful' /\ ListedByLast' /\ SentRight'
    BY <1>1, ServerKept
<1>3. \A a \in Clients: pc[a] = "gone" => pc'[a] = "gone"
    BY <1>0 DEF TypeOK, Client, SendInitial, SetupHandler, SendLine, Interrupt
<1>4. UpUnlessUnparsed'
    BY <1>0, <1>1, <1>3 DEF UpUnlessUnparsed, server
<1>5. /\ pc' \in [Clients -> {"off", "hello", "up", "gone"}]
      /\ lines' \in 0..MaxEvents
  <2>1. CASE SendLine(c)
    <3>1. pc' = pc /\ lines + faults < MaxEvents /\ lines' = lines + 1
        BY <2>1 DEF SendLine
    <3>. QED BY <1>0, <3>1
  <2>2. CASE SendInitial(c) \/ SetupHandler(c) \/ Interrupt(c)
      BY <1>0, <2>2 DEF SendInitial, SetupHandler, Interrupt
  <2>. QED BY <2>1, <2>2 DEF Client
\* At most one datagram is new, and it is the client's.
<1>6. \/ net' = net
      \/ \E n \in 0..(MaxEvents + 1), kind \in Kinds \cup {"none", "raw"}, tail \in SUBSET Tails:
           /\ net' = net \cup {Datagram(c, n, kind, tail)}
           /\ kind = "raw" => pc'[c] = "gone"
           /\ \A t \in tail: t.author = c
           /\ kind = "none" => tail = {}
  <2>1. CASE SendInitial(c)
      BY <1>0, <2>1 DEF SendInitial
  <2>2. CASE SetupHandler(c)
      BY <2>2 DEF SetupHandler
  <2>3. CASE SendLine(c)
    <3>1. lines + 1 \in 0..(MaxEvents + 1)
        BY <1>0
    <3>2. "raw" \notin Kinds \cup {"none"}
        BY DEF Kinds
    <3>3. PICK line \in Lines:
            net' = net \cup {Datagram(c, lines + 1, line.kind, TypedBy(c, line.tail))}
        BY <2>3 DEF SendLine
    <3>. QED BY <3>1, <3>2, <3>3, LineType
  <2>4. CASE Interrupt(c)
    <3>1. pc'[c] = "gone"
        BY <1>0, <2>4 DEF TypeOK, Interrupt
    <3>. QED BY <1>0, <2>4, <3>1 DEF Interrupt
  <2>. QED BY <2>1, <2>2, <2>3, <2>4 DEF Client
<1>7. net' \in SUBSET Datagrams
  <2>1. net \in SUBSET Datagrams
      BY <1>0 DEF TypeOK
  <2>. QED BY <1>6, <2>1, DatagramType
<1>8. NetFaithful'
  <2>1. CASE net' = net
    <3>1. \A d \in net: d.from \in Clients
        BY <1>0 DEF TypeOK, Datagrams
    <3>. QED BY <1>0, <1>3, <2>1, <3>1 DEF NetFaithful
  <2>2. ASSUME NEW n \in 0..(MaxEvents + 1), NEW kind \in Kinds \cup {"none", "raw"},
               NEW tail \in SUBSET Tails,
               net' = net \cup {Datagram(c, n, kind, tail)},
               kind = "raw" => pc'[c] = "gone",
               \A t \in tail: t.author = c, kind = "none" => tail = {}
        PROVE  NetFaithful'
    <3>1. \A d \in net: d.from \in Clients
        BY <1>0 DEF TypeOK, Datagrams
    <3>. QED BY <1>0, <1>3, <2>2, <3>1, DatagramType DEF NetFaithful
  <2>. QED BY <1>6, <2>1, <2>2
<1>9. TypeOK'
    BY <1>0, <1>1, <1>5, <1>7 DEF TypeOK, server
<1>. QED BY <1>2, <1>4, <1>8, <1>9 DEF IInv

LEMMA FaultInvariant ==
    ASSUME IInv, Fault
    PROVE  IInv'
<1>0. TypeOK /\ NetFaithful /\ UpUnlessUnparsed
    BY DEF IInv
<1>1. UNCHANGED <<pc, lines, server>>
    BY DEF Fault, Lose, Damage
<1>2. RegistryFaithful' /\ ListedByLast' /\ SentRight'
    BY <1>1, ServerKept
<1>3. UpUnlessUnparsed'
    BY <1>0, <1>1 DEF UpUnlessUnparsed, server
<1>4. faults' \in 0..MaxEvents
  <2>1. lines \in 0..MaxEvents /\ faults \in 0..MaxEvents /\ MaxEvents \in Nat
      BY <1>0, SizesAssumption DEF TypeOK
  <2>. QED BY <2>1 DEF Fault
\* What is damaged is no longer intact.
<1>5. net' \in SUBSET Datagrams /\ NetFaithful'
  <2>. PICK d \in net: Lose(d) \/ Damage(d)
      BY DEF Fault
  <2>1. CASE Lose(d)
      BY <1>0, <1>1, <2>1 DEF Lose, TypeOK, NetFaithful
  <2>2. CASE Damage(d)
    <3>. DEFINE e == [d EXCEPT !.id = Nobody, !.intact = FALSE]
    <3>1. d \in Datagrams /\ d.kind # "raw"
        BY <1>0, <2>2 DEF TypeOK, Damage
    <3>2. /\ e \in Datagrams /\ e.intact = FALSE /\ e.kind = d.kind
          /\ e.tail = d.tail /\ e.from = d.from
        BY <3>1 DEF Datagrams
    <3>3. net' = (net \ {d}) \cup {e}
        BY <2>2 DEF Damage
    <3>. HIDE DEF e
    <3>4. net' \in SUBSET Datagrams
        BY <1>0, <3>2, <3>3 DEF TypeOK
    <3>. QED BY <1>0, <1>1, <3>1, <3>2, <3>3, <3>4 DEF NetFaithful
  <2>. QED BY <2>1, <2>2
<1>6. TypeOK'
    BY <1>0, <1>1, <1>4, <1>5 DEF TypeOK, server
<1>. QED BY <1>2, <1>3, <1>5, <1>6 DEF IInv

-----------------------------------------------------------------------------
(* The server *)

\* What a datagram is parsed to has the sender as the author of its tail, unless
\* the datagram ended before it.
LEMMA ParsedCommand ==
    ASSUME TypeOK, NetFaithful, NEW d \in net, HasSpace(d), NEW cmd \in Parsed(d)
    PROVE  cmd \in Commands /\ (d.tail # {} => cmd.tail.author = d.from)
<1>1. d \in Datagrams /\ command \in Commands
    BY DEF TypeOK
<1>2. Garbage \in Commands
    BY DEF Garbage, Commands, Kinds, Tails
<1>3. CASE d.kind = "none"
    BY <1>1, <1>2, <1>3 DEF Parsed, NetFaithful
<1>4. CASE d.kind # "none"
  <2>1. d.kind \in Kinds /\ d.tail \in SUBSET Tails
      BY <1>1, <1>4 DEF HasSpace, Datagrams
  <2>2. command.tail \in Tails /\ Garbage.tail \in Tails
      BY <1>1, <1>2 DEF Commands
  <2>3. /\ cmd.kind = d.kind /\ cmd = [kind |-> cmd.kind, tail |-> cmd.tail]
        /\ IF d.tail = {} THEN cmd.tail \in {command.tail, Garbage.tail}
                          ELSE cmd.tail \in d.tail
      BY <1>4 DEF Parsed
  <2>4. cmd.tail \in Tails
      BY <2>1, <2>2, <2>3
  <2>5. cmd \in Commands
      BY <2>1, <2>3, <2>4 DEF Commands
  <2>. QED BY <2>3, <2>5 DEF NetFaithful
<1>. QED BY <1>3, <1>4

\* Taking a datagram off the network, or leaving a repeated one there.
LEMMA AfterReceive ==
    ASSUME IInv, NEW d, Receive(d)
    PROVE  /\ d \in net /\ d \in Datagrams /\ up
           /\ pc' = pc /\ lines' = lines
           /\ net' \in SUBSET net /\ faults' \in 0..MaxEvents
           /\ NetFaithful'
<1>1. /\ TypeOK /\ NetFaithful /\ MaxEvents \in Nat
      /\ faults \in 0..MaxEvents /\ lines \in 0..MaxEvents
    BY SizesAssumption DEF IInv, TypeOK
<1>2. d \in net /\ up /\ pc' = pc /\ lines' = lines /\ net' \in SUBSET net
    BY DEF Receive
<1>3. faults' \in 0..MaxEvents
  <2>1. faults' = faults \/ (lines + faults < MaxEvents /\ faults' = faults + 1)
      BY DEF Receive
  <2>. QED BY <1>1, <2>1
<1>4. d \in Datagrams
    BY <1>1, <1>2 DEF TypeOK
<1>5. NetFaithful'
    BY <1>1, <1>2 DEF NetFaithful
<1>. QED BY <1>2, <1>3, <1>4, <1>5

\* The entries after a datagram of client c was obeyed.
LEMMA AfterObey ==
    ASSUME IInv, NEW d \in net, NEW cmd \in Parsed(d), Obey(d, cmd)
    PROVE  /\ d.from \in Clients /\ d.id = d.from
           /\ entry' \in Tables /\ Faithful(entry')
           /\ \A a \in Clients \ {d.from}: EntriesOf(entry', a) = EntriesOf(entry, a)
           /\ cmd.kind = "STOP" => EntriesOf(entry', d.from) = {}
           /\ cmd.kind # "STOP" /\ EntriesOf(entry', d.from) = {} =>
                EntriesOf(entry, d.from) = {} /\ FreeEntries = {}
<1>1. Accept(d, cmd)
    BY DEF Obey, SendList, Broadcast, SendPrivate, ObeyStop, RegisterOnly
<1>2. d \in Datagrams /\ d.id = d.from
    BY <1>1 DEF IInv, TypeOK, NetFaithful, Accept, ChecksumMatches
<1>3. d.from \in Clients
    BY <1>2 DEF Datagrams
<1>4. entry \in Tables /\ Faithful(entry)
    BY FaithfulEntry DEF IInv, TypeOK, Tables
<1>. DEFINE t == Registered(d.from, d.from)
<1>5. /\ t \in Tables /\ Faithful(t)
      /\ \A a \in Clients \ {d.from}: EntriesOf(t, a) = EntriesOf(entry, a)
      /\ EntriesOf(t, d.from) = {} => EntriesOf(entry, d.from) = {} /\ FreeEntries = {}
    BY <1>3, <1>4, AfterRegistered
<1>6. CASE cmd.kind # "STOP"
  <2>1. entry' = t
      BY <1>2, <1>6 DEF Obey, SendList, Broadcast, SendPrivate, ObeyStop, RegisterOnly
  <2>. QED BY <1>2, <1>3, <1>5, <1>6, <2>1
<1>7. CASE cmd.kind = "STOP"
  <2>1. entry' = Unregistered(t, d.from)
      BY <1>2, <1>7 DEF Obey, SendList, Broadcast, SendPrivate, ObeyStop, RegisterOnly
  <2>. HIDE DEF t
  <2>2. /\ Unregistered(t, d.from) \in Tables /\ Faithful(Unregistered(t, d.from))
        /\ \A a \in Clients \ {d.from}:
             EntriesOf(Unregistered(t, d.from), a) = EntriesOf(t, a)
        /\ EntriesOf(Unregistered(t, d.from), d.from) = {}
      BY <1>3, <1>5, AfterUnregistered
  <2>. QED BY <1>2, <1>3, <1>5, <1>7, <2>1, <2>2
<1>. QED BY <1>6, <1>7

\* The list of clients is kept by the last command obeyed for each.
LEMMA ObeyListed ==
    ASSUME IInv, NEW d \in net, NEW cmd \in Parsed(d), Obey(d, cmd)
    PROVE  ListedByLast'
<1>1. Accept(d, cmd)
    BY DEF Obey, SendList, Broadcast, SendPrivate, ObeyStop, RegisterOnly
<1>2. TypeOK /\ ListedByLast
    BY DEF IInv
<1>3. cmd \in Commands
    BY <1>1, <1>2, ParsedCommand DEF Accept, IInv
<1>4. cmd.kind # "nothing"
    BY <1>3 DEF Commands, Kinds
<1>5. /\ d.from \in Clients
      /\ \A a \in Clients \ {d.from}: EntriesOf(entry', a) = EntriesOf(entry, a)
      /\ cmd.kind = "STOP" => EntriesOf(entry', d.from) = {}
      /\ cmd.kind # "STOP" /\ EntriesOf(entry', d.from) = {} =>
           EntriesOf(entry, d.from) = {} /\ FreeEntries = {}
    BY AfterObey
<1>6. /\ last \in [Clients -> Kinds \cup {"nothing", "raw"}]
      /\ last' = [last EXCEPT ![d.from] = cmd.kind]
      /\ turnedAway' = IF EntriesOf(entry, d.from) = {} /\ FreeEntries = {}
                         THEN turnedAway \cup {d.from} ELSE turnedAway \ {d.from}
    BY <1>1, <1>2 DEF TypeOK, Accept
<1>7. ASSUME NEW c \in Clients
      PROVE  /\ EntriesOf(entry', c) # {} => last'[c] \notin {"nothing", "STOP"}
             /\ last'[c] \notin {"nothing", "STOP", "raw"} /\ EntriesOf(entry', c) = {} =>
                  c \in turnedAway'
  <2>1. CASE c = d.from
      BY <1>4, <1>5, <1>6, <2>1
  <2>2. CASE c # d.from
    <3>1. /\ EntriesOf(entry', c) = EntriesOf(entry, c)
          /\ last'[c] = last[c]
          /\ c \in turnedAway => c \in turnedAway'
        BY <1>5, <1>6, <2>2
    <3>. QED BY <1>2, <3>1 DEF ListedByLast, Listed
  <2>. QED BY <2>1, <2>2
<1>. QED BY <1>7 DEF ListedByLast, Listed, EntriesOf

\* A message sent for datagram d bears the sender's id, and another author
\* only when d ended before the text.
LEMMA MessageRight ==
    ASSUME NEW d \in Datagrams, NEW cmd \in Commands, d.id = d.from,
           d.tail # {} => cmd.tail.author = d.from,
           cmd.kind \in {"2ALL", "2ONE"}, NEW to \in Clients \cup {Nobody}
    PROVE  /\ Message(d, cmd, to) \in Messages
           /\ Message(d, cmd, to).as = d.from /\ Message(d, cmd, to).to = to
           /\ Message(d, cmd, to).kind = cmd.kind
           /\ Message(d, cmd, to).author # Message(d, cmd, to).as => d.tail = {}
<1>1. cmd.tail.author \in Clients \cup {Nobody}
    BY DEF Commands, Tails
<1>. QED BY <1>1 DEF Message, Messages, Datagrams

\* A private message goes to the client with that id.
LEMMA AddresseeRight ==
    ASSUME NEW table \in Tables, Faithful(table), NEW id,
           Addressees(table, id) # {}
    PROVE  Addressee(table, id) = id /\ id \in Clients
<1>. DEFINE k == Min(Addressees(table, id))
<1>1. Addressees(table, id) \subseteq Table
    BY DEF Addressees
<1>2. k \in Addressees(table, id)
    BY <1>1, FirstEntry
<1>3. k \in Table /\ table[k] # Free /\ table[k].id = id
    BY <1>2 DEF Addressees
<1>4. Addressee(table, id) = table[k].addr
    BY DEF Addressee
<1>. HIDE DEF k
<1>. QED BY <1>3, <1>4, ActiveEntry DEF Faithful

\* What the server sends for a datagram of client c.
LEMMA ObeySends ==
    ASSUME IInv, NEW d \in net, NEW cmd \in Parsed(d), Obey(d, cmd),
           NEW c \in Clients
    PROVE  \A m \in sent'[c]:
             \/ m \in sent[c]
             \/ /\ m \in Messages /\ m.as \in Clients
                /\ m.kind = "2ONE" => m.to = c
                /\ m.kind = "2ALL" => m.as # c
                /\ m.kind # "LIST" /\ m.author # m.as => m.as \in wordless'
<1>1. Accept(d, cmd)
    BY DEF Obey, SendList, Broadcast, SendPrivate, ObeyStop, RegisterOnly
<1>2. TypeOK /\ sent \in [Clients -> SUBSET Messages] /\ d \in Datagrams
    BY DEF IInv, TypeOK
<1>3. cmd \in Commands /\ (d.tail # {} => cmd.tail.author = d.from)
    BY <1>1, <1>2, ParsedCommand DEF Accept, IInv
<1>4. /\ d.from \in Clients /\ d.id = d.from
      /\ entry' \in Tables /\ Faithful(entry')
    BY AfterObey
<1>5. d.tail = {} => d.from \in wordless'
    BY <1>1 DEF Accept
<1>6. CASE SendList(d, cmd)
  <2>. SUFFICES ASSUME NEW m \in sent'[c], m \notin sent[c]
                PROVE  m \in Messages /\ m.as \in Clients /\ m.kind = "LIST"
      BY <1>2
  <2>1. PICK i \in Table:
          /\ entry'[i] # Free
          /\ m = [kind |-> "LIST", as |-> entry'[i].id, to |-> d.from, author |-> Nobody]
      BY <1>6 DEF SendList, SendTo
  <2>2. entry'[i].addr \in Clients /\ entry'[i].id = entry'[i].addr
      BY <1>4, <2>1, ActiveEntry DEF Faithful
  <2>. QED BY <1>4, <2>1, <2>2 DEF Messages
<1>7. CASE Broadcast(d, cmd)
  <2>. SUFFICES ASSUME NEW m \in sent'[c], m \notin sent[c]
                PROVE  /\ m \in Messages /\ m.as \in Clients /\ m.kind = "2ALL"
                       /\ m.as # c
                       /\ m.author # m.as => m.as \in wordless'
      BY <1>2
  <2>1. m = Message(d, cmd, Nobody) /\ c # d.from /\ cmd.kind = "2ALL"
      BY <1>7 DEF Broadcast, SendTo, Audience
  <2>. QED BY <1>2, <1>3, <1>4, <1>5, <2>1, MessageRight
<1>8. CASE SendPrivate(d, cmd)
  <2>. SUFFICES ASSUME NEW m \in sent'[c], m \notin sent[c]
                PROVE  /\ m \in Messages /\ m.as \in Clients /\ m.kind = "2ONE"
                       /\ m.to = c
                       /\ m.author # m.as => m.as \in wordless'
      BY <1>2
  <2>1. PICK to \in TargetIds(cmd.tail):
          /\ Addressees(entry', to) # {} /\ cmd.kind = "2ONE"
          /\ m = Message(d, cmd, to) /\ c = Addressee(entry', to)
      BY <1>8 DEF SendPrivate, SendTo
  <2>2. c = to
      BY <1>4, <2>1, AddresseeRight
  <2>. QED BY <1>2, <1>3, <1>4, <1>5, <2>1, <2>2, MessageRight
<1>9. CASE ObeyStop(d, cmd) \/ RegisterOnly(d, cmd)
    BY <1>9 DEF ObeyStop, RegisterOnly
<1>. QED BY <1>6, <1>7, <1>8, <1>9 DEF Obey

LEMMA ObeyInvariant ==
    ASSUME IInv, NEW d \in net, NEW cmd \in Parsed(d), Obey(d, cmd)
    PROVE  IInv'
<1>1. Accept(d, cmd)
    BY DEF Obey, SendList, Broadcast, SendPrivate, ObeyStop, RegisterOnly
<1>2. TypeOK /\ RegistryFaithful /\ SentRight /\ UpUnlessUnparsed
    BY DEF IInv
<1>3. cmd \in Commands /\ HasSpace(d)
    BY <1>1, <1>2, ParsedCommand DEF Accept, IInv
<1>4. /\ d \in Datagrams /\ up /\ pc' = pc /\ lines' = lines
      /\ net' \in SUBSET net /\ faults' \in 0..MaxEvents /\ NetFaithful'
    BY <1>1, AfterReceive DEF Accept
<1>5. d.from \in Clients /\ entry' \in Tables /\ Faithful(entry')
    BY AfterObey
<1>6. RegistryFaithful'
    BY <1>5 DEF RegistryFaithful, Active, Faithful
<1>7. ListedByLast'
    BY ObeyListed
<1>8. /\ command' = cmd /\ last' = [last EXCEPT ![d.from] = cmd.kind]
      /\ turnedAway' \in SUBSET Clients /\ wordless' \in SUBSET Clients
      /\ wordless \subseteq wordless'
    BY <1>1, <1>2, <1>5 DEF Accept, TypeOK
<1>9. SentRight'
  <2>. SUFFICES ASSUME NEW c \in Clients, NEW m \in sent'[c]
                PROVE  /\ m.as \in Clients
                       /\ m.kind = "2ONE" => m.to = c
                       /\ m.kind = "2ALL" => m.as # c
                       /\ m.kind # "LIST" /\ m.author # m.as => m.as \in wordless'
      BY DEF SentRight
  <2>1. CASE m \in sent[c]
      BY <1>2, <1>8, <2>1 DEF SentRight
  <2>. QED BY <2>1, ObeySends
<1>10. sent' \in [Clients -> SUBSET Messages]
  <2>1. sent \in [Clients -> SUBSET Messages]
      BY <1>2 DEF TypeOK
  <2>2. sent' = [c \in Clients |-> sent'[c]]
      BY <2>1 DEF Obey, SendList, Broadcast, SendPrivate, ObeyStop, RegisterOnly, SendTo
  <2>3. \A c \in Clients: sent'[c] \in SUBSET Messages
      BY <2>1, ObeySends
  <2>. QED BY <2>2, <2>3
<1>11. up' \in BOOLEAN
    BY <1>2 DEF TypeOK, Obey, SendList, Broadcast, SendPrivate, ObeyStop, RegisterOnly
<1>12. last' \in [Clients -> Kinds \cup {"nothing", "raw"}]
    BY <1>2, <1>3, <1>5, <1>8 DEF TypeOK, Commands
<1>13. TypeOK'
    BY <1>2, <1>3, <1>4, <1>5, <1>8, <1>10, <1>11, <1>12 DEF TypeOK, Tables
\* Only a private line without a text ends the server.
<1>14. UpUnlessUnparsed'
  <2>1. ~up' => cmd.kind = "2ONE" /\ ~cmd.tail.text
      BY <1>4 DEF Obey, SendList, Broadcast, SendPrivate, ObeyStop, RegisterOnly
  <2>. QED BY <1>8, <2>1 DEF UpUnlessUnparsed
<1>. QED BY <1>4, <1>6, <1>7, <1>9, <1>13, <1>14 DEF IInv

LEMMA ServerInvariant ==
    ASSUME IInv, Server
    PROVE  IInv'
<1>. PICK d \in net:
       \/ Crash(d) \/ Discard(d)
       \/ \E cmd \in Parsed(d): Obey(d, cmd)
    BY DEF Server
<1>1. CASE \E cmd \in Parsed(d): Obey(d, cmd)
    BY <1>1, ObeyInvariant
<1>2. CASE Discard(d) \/ Crash(d)
  <2>1. TypeOK /\ NetFaithful /\ RegistryFaithful /\ ListedByLast /\ SentRight
        /\ UpUnlessUnparsed
      BY DEF IInv
  <2>2. /\ d \in net /\ d \in Datagrams /\ pc' = pc /\ lines' = lines
        /\ net' \in SUBSET net /\ faults' \in 0..MaxEvents /\ NetFaithful'
      BY <1>2, AfterReceive DEF Discard, Crash
  <2>3. /\ UNCHANGED <<entry, command, sent, turnedAway, wordless>>
        /\ last' = last \/ (Crash(d) /\ last' = [last EXCEPT ![d.from] = "raw"])
      BY <1>2 DEF Discard, Crash, server
  <2>4. RegistryFaithful' /\ ListedByLast' /\ SentRight'
    <3>1. RegistryFaithful'
        BY <2>1, <2>3 DEF RegistryFaithful, Active
    <3>2. \A c \in Clients: last'[c] \in {last[c], "raw"}
        BY <2>1, <2>3 DEF TypeOK
    <3>3. ListedByLast'
        BY <2>1, <2>3, <3>2 DEF ListedByLast, Listed, EntriesOf
    <3>4. SentRight'
        BY <2>1, <2>3 DEF SentRight
    <3>. QED BY <3>1, <3>3, <3>4
  <2>5. UpUnlessUnparsed'
    <3>1. CASE Discard(d)
        BY <2>1, <2>2, <3>1 DEF UpUnlessUnparsed, Discard, server
    \* The datagram without a space is that of Ctrl-C.
    <3>2. CASE Crash(d)
      <4>1. d.from \in Clients /\ pc'[d.from] = "gone"
          BY <2>1, <2>2, <3>2 DEF Crash, HasSpace, NetFaithful, Datagrams
      <4>2. last'[d.from] = "raw"
          BY <2>1, <3>2, <4>1 DEF Crash, TypeOK
      <4>. QED BY <4>1, <4>2 DEF UpUnlessUnparsed
    <3>. QED BY <1>2, <3>1, <3>2
  <2>6. up' \in BOOLEAN
      BY <1>2, <2>1 DEF Discard, Crash, server, TypeOK
  <2>7. TypeOK'
    <3>1. last' \in [Clients -> Kinds \cup {"nothing", "raw"}]
        BY <2>1, <2>3 DEF TypeOK
    <3>. QED BY <2>1, <2>2, <2>3, <2>6, <3>1 DEF TypeOK
  <2>. QED BY <2>2, <2>4, <2>5, <2>7 DEF IInv
<1>. QED BY <1>1, <1>2

LEMMA StutterInvariant ==
    ASSUME IInv, UNCHANGED vars
    PROVE  IInv'
<1>1. UNCHANGED server /\ UNCHANGED <<pc, net, lines, faults>>
    BY DEF vars, server
<1>2. RegistryFaithful' /\ ListedByLast' /\ SentRight'
    BY <1>1, ServerKept
<1>3. TypeOK'
    BY <1>1 DEF IInv, TypeOK, server
<1>4. NetFaithful' /\ UpUnlessUnparsed'
    BY <1>1 DEF IInv, NetFaithful, UpUnlessUnparsed, server
<1>. QED BY <1>2, <1>3, <1>4 DEF IInv

-----------------------------------------------------------------------------
(* Theorems *)

\* The inductive invariant holds in every state.
THEOREM Invariance == Spec => []IInv
<1>1. IInv /\ [Next]_vars => IInv'
    BY ClientInvariant, FaultInvariant, ServerInvariant, StutterInvariant DEF Next
<1>. QED BY InitialInvariant, <1>1, PTL DEF Spec

\* Every variable of the chat, its clients and its network keeps its type,
\* whatever is lost, repeated or damaged.
THEOREM TypeCorrect == Spec => []TypeOK
<1>1. IInv => TypeOK
    BY DEF IInv
<1>. QED BY Invariance, <1>1, PTL

\* handle_client_message keeps one active entry per address, with the id of
\* the client there.
THEOREM OneEntryPerClient == Spec => []RegistryFaithful
<1>1. IInv => RegistryFaithful
    BY DEF IInv
<1>. QED BY Invariance, <1>1, PTL

\* The last datagram handled decides whether a client is listed, unless the
\* table was full.
THEOREM LastDatagramDecides == Spec => []ListedByLast
<1>1. IInv => ListedByLast
    BY DEF IInv
<1>. QED BY Invariance, <1>1, PTL

\* Messages reach the clients they are for, under their sender's id.
THEOREM MessagesReachTheirClients == Spec => []SentRight
<1>1. IInv => SentRight
    BY DEF IInv
<1>. QED BY Invariance, <1>1, PTL

\* The server ends only at Ctrl-C's datagram and at a private line without a
\* text.
THEOREM OnlyUnparsedEndsServer == Spec => []UpUnlessUnparsed
<1>1. IInv => UpUnlessUnparsed
    BY DEF IInv
<1>. QED BY Invariance, <1>1, PTL

-----------------------------------------------------------------------------
(* The registry *)

\* Members are the clients that have an entry.
LEMMA MembersListed ==
    ASSUME NEW table \in Tables
    PROVE  {table[i].addr: i \in {j \in Table: table[j] # Free}}
             = {c \in Clients: EntriesOf(table, c) # {}}
BY ActiveEntry, Strangers DEF EntriesOf, Free

\* A table with a free entry has fewer members than entries.
LEMMA RoomLeft ==
    ASSUME NEW free \in Table, entry[free] = Free
    PROVE  Cardinality(Members) < Slots
<1>. DEFINE f == [i \in Active |-> entry[i].addr]
<1>1. Slots \in Nat /\ IsFiniteSet(Table) /\ Cardinality(Table) = Slots
    BY SizesAssumption, FS_Interval DEF Table
<1>2. IsFiniteSet(Table \ {free}) /\ Cardinality(Table \ {free}) = Slots - 1
    BY <1>1, FS_RemoveElement
<1>3. Active \in SUBSET (Table \ {free})
    BY DEF Active
<1>4. IsFiniteSet(Active) /\ Cardinality(Active) <= Slots - 1
    BY <1>2, <1>3, FS_Subset
<1>5. f \in Surjection(Active, Members)
    BY DEF Surjection, Members
<1>. HIDE DEF f
<1>6. IsFiniteSet(Members) /\ Cardinality(Members) <= Cardinality(Active)
    BY <1>4, <1>5, FS_Surjection
<1>7. Cardinality(Members) \in Nat /\ Cardinality(Active) \in Nat
    BY <1>4, <1>6, FS_CardinalityType
<1>. QED BY <1>1, <1>4, <1>6, <1>7

\* Steps that leave the table alone are no steps of the registry.
LEMMA QuietStep ==
    ASSUME entry' = entry
    PROVE  Members' = Members
BY DEF Members, Active

\* A datagram that is obeyed lets its sender in or out, or changes nothing.
LEMMA ObeyStep ==
    ASSUME IInv, NEW d \in net, NEW cmd \in Parsed(d), Obey(d, cmd)
    PROVE  R!Next \/ Members' = Members
<1>. DEFINE c == d.from
<1>1. /\ c \in Clients /\ d.id = c
      /\ entry' \in Tables
      /\ \A a \in Clients \ {c}: EntriesOf(entry', a) = EntriesOf(entry, a)
      /\ cmd.kind = "STOP" => EntriesOf(entry', c) = {}
    BY AfterObey
<1>2. entry \in Tables
    BY DEF IInv, TypeOK, Tables
<1>3. Members = {a \in Clients: EntriesOf(entry, a) # {}}
    BY <1>2, MembersListed DEF Members, Active
<1>4. Members' = {a \in Clients: EntriesOf(entry', a) # {}}
  <2>1. Members' = {entry'[i].addr: i \in {j \in Table: entry'[j] # Free}}
      BY DEF Members, Active
  <2>. QED BY <1>1, <2>1, MembersListed
<1>5. CASE EntriesOf(entry', c) = {} <=> EntriesOf(entry, c) = {}
    BY <1>1, <1>3, <1>4, <1>5
<1>6. CASE EntriesOf(entry', c) = {} /\ EntriesOf(entry, c) # {}
  <2>1. c \in Members /\ Members' = Members \ {c}
      BY <1>1, <1>3, <1>4, <1>6
  <2>. QED BY <1>1, <2>1 DEF R!Next, R!Leave
<1>7. CASE EntriesOf(entry', c) # {} /\ EntriesOf(entry, c) = {}
  <2>1. c \notin Members /\ Members' = Members \cup {c}
      BY <1>1, <1>3, <1>4, <1>7
  <2>2. entry' = Registered(c, c)
      BY <1>1, <1>7 DEF Obey, SendList, Broadcast, SendPrivate, ObeyStop, RegisterOnly
  <2>3. FreeEntries # {}
    <3>1. FreeEntries = {} => entry' = entry
        BY <2>2 DEF Registered
    <3>2. entry' # entry
        BY <2>1, QuietStep
    <3>. QED BY <3>1, <3>2
  <2>4. Cardinality(Members) < Slots
      BY <2>3, RoomLeft DEF FreeEntries
  <2>5. R!Cardinality(Members) < Slots
      BY <2>4 DEF Cardinality, R!Cardinality
  <2>. QED BY <1>1, <2>1, <2>5 DEF R!Next, R!Join
<1>. QED BY <1>5, <1>6, <1>7

\* The server's table is a registry of MAX_CLIENTS members: a client enters it
\* only while there is room, and one client at a time enters or leaves.
THEOREM Refinement == Spec => ImplementsRegistry
<1>1. Init => R!Init
    BY DEF Init, R!Init, Members, Active
<1>2. IInv /\ [Next]_vars => [R!Next]_Members
  <2>. SUFFICES ASSUME IInv, [Next]_vars PROVE R!Next \/ Members' = Members
      OBVIOUS
  <2>1. CASE \E c \in Clients: Client(c)
    <3>1. entry' = entry
        BY <2>1 DEF Client, SendInitial, SetupHandler, SendLine, Interrupt, server
    <3>. QED BY <3>1, QuietStep
  <2>2. CASE Fault
    <3>1. entry' = entry
        BY <2>2 DEF Fault, Lose, Damage, server
    <3>. QED BY <3>1, QuietStep
  <2>3. CASE Server
    <3>. PICK d \in net:
           \/ Crash(d) \/ Discard(d)
           \/ \E cmd \in Parsed(d): Obey(d, cmd)
        BY <2>3 DEF Server
    <3>1. CASE \E cmd \in Parsed(d): Obey(d, cmd)
        BY <3>1, ObeyStep
    <3>2. CASE Crash(d) \/ Discard(d)
      <4>1. entry' = entry
          BY <3>2 DEF Crash, Discard, server
      <4>. QED BY <4>1, QuietStep
    <3>. QED BY <3>1, <3>2
  <2>4. CASE UNCHANGED vars
    <3>1. entry' = entry
        BY <2>4 DEF vars
    <3>. QED BY <3>1, QuietStep
  <2>. QED BY <2>1, <2>2, <2>3, <2>4 DEF Next
<1>. QED BY Invariance, <1>1, <1>2, PTL DEF Spec, ImplementsRegistry, R!Spec
=============================================================================
