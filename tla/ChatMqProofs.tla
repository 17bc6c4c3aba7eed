---------------------------- MODULE ChatMqProofs ----------------------------
(***************************************************************************)
(* Proofs about ChatMq for any finite set of clients, any length of the    *)
(* queues and any number of lines, kills and restarts: the inductive       *)
(* invariant, that clients see messages in the same order and, while the   *)
(* server is not restarted, are given exactly what they are owed.          *)
(***************************************************************************)
EXTENDS ChatMq, FiniteSetTheorems, SequenceTheorems, TLAPS

-----------------------------------------------------------------------------
(* Sequences *)

\* A message that goes from the head of one sequence to the end of another
\* leaves the two together as they are: Receive and Show.
LEMMA PassedOn ==
    ASSUME NEW S, NEW s \in Seq(S), NEW q \in Seq(S), q # <<>>
    PROVE  /\ Append(s, Head(q)) \in Seq(S) /\ Tail(q) \in Seq(S)
           /\ Append(s, Head(q)) \o Tail(q) = s \o q
<1>1. /\ Head(q) \in S /\ Tail(q) \in Seq(S) /\ Len(Tail(q)) = Len(q) - 1
      /\ \A i \in 1..Len(Tail(q)) : Tail(q)[i] = q[i + 1]
  BY HeadTailProperties
<1>2. /\ Append(s, Head(q)) \in Seq(S) /\ Len(Append(s, Head(q))) = Len(s) + 1
      /\ \A i \in 1..Len(s) : Append(s, Head(q))[i] = s[i]
      /\ Append(s, Head(q))[Len(s) + 1] = q[1]
  BY <1>1, AppendProperties
<1> DEFINE t == Append(s, Head(q))  u == Tail(q)
<1>3. /\ Len(t \o u) = Len(t) + Len(u) /\ t \o u \in Seq(S)
      /\ \A i \in 1..(Len(t) + Len(u)) : (t \o u)[i] = IF i <= Len(t) THEN t[i] ELSE u[i - Len(t)]
  <2>1. t \in Seq(S) /\ u \in Seq(S)  BY <1>1, <1>2
  <2> HIDE DEF t, u
  <2> QED  BY <2>1, ConcatProperties
<1>4. /\ Len(s \o q) = Len(s) + Len(q) /\ s \o q \in Seq(S)
      /\ \A i \in 1..(Len(s) + Len(q)) : (s \o q)[i] = IF i <= Len(s) THEN s[i] ELSE q[i - Len(s)]
  BY ConcatProperties
<1>5. Len(s) \in Nat /\ Len(q) \in Nat \ {0}
  BY LenProperties, EmptySeq
<1>6. Len(t \o u) = Len(s \o q)
  BY <1>1, <1>2, <1>3, <1>4, <1>5
<1>7. \A i \in 1..Len(t \o u) : (t \o u)[i] = (s \o q)[i]
  <2> SUFFICES ASSUME NEW i \in 1..Len(t \o u) PROVE (t \o u)[i] = (s \o q)[i]
    OBVIOUS
  <2>1. i \in 1..(Len(s) + Len(q)) /\ i \in 1..(Len(t) + Len(u))
    BY <1>3, <1>4, <1>6
  <2>2. CASE i <= Len(s)
    BY <2>1, <2>2, <1>2, <1>3, <1>4, <1>5
  <2>3. CASE i = Len(s) + 1
    BY <2>1, <2>3, <1>2, <1>3, <1>4, <1>5
  <2>4. CASE i > Len(s) + 1
    <3>1. i - (Len(s) + 1) \in 1..Len(u) /\ (i - (Len(s) + 1)) + 1 = i - Len(s)
      BY <2>1, <2>4, <1>1, <1>5
    <3>2. u[i - (Len(s) + 1)] = q[i - Len(s)]
      BY <3>1, <1>1
    <3> QED  BY <2>1, <2>4, <3>2, <1>2, <1>3, <1>4, <1>5
  <2> QED  BY <2>1, <2>2, <2>3, <2>4, <1>5
<1>8. t \o u = s \o q
  BY <1>3, <1>4, <1>6, <1>7, SeqEqual
<1> QED  BY <1>1, <1>2, <1>8

\* A message put behind the second of two sequences is behind both.
LEMMA PutBehind ==
    ASSUME NEW S, NEW s \in Seq(S), NEW q \in Seq(S), NEW m \in S
    PROVE  /\ Append(q, m) \in Seq(S) /\ Len(Append(q, m)) = Len(q) + 1
           /\ s \o q \in Seq(S)
           /\ s \o Append(q, m) = Append(s \o q, m)
<1>1. <<m>> \in Seq(S)
  OBVIOUS
<1>2. s \o q \in Seq(S) /\ Append(q, m) = q \o <<m>> /\ Append(q, m) \in Seq(S)
      /\ Len(Append(q, m)) = Len(q) + 1
  BY ConcatProperties, AppendIsConcat, AppendProperties
<1>3. (s \o q) \o <<m>> = s \o (q \o <<m>>)
  BY <1>1, ConcatAssociative
<1>4. Append(s \o q, m) = (s \o q) \o <<m>>
  BY <1>2, AppendIsConcat
<1> QED  BY <1>2, <1>3, <1>4

\* The elements of two sequences in a row.
LEMMA InARow ==
    ASSUME NEW S, NEW s \in Seq(S), NEW q \in Seq(S)
    PROVE  /\ s \o q \in Seq(S) /\ Len(s \o q) = Len(s) + Len(q)
           /\ Len(s) \in Nat /\ Len(q) \in Nat
           /\ \A i \in 1..Len(s) : (s \o q)[i] = s[i]
           /\ \A i \in 1..Len(q) : (s \o q)[Len(s) + i] = q[i]
           /\ q # <<>> => Len(s) + 1 \in 1..Len(s \o q) /\ (s \o q)[Len(s) + 1] = Head(q)
<1>1. Len(s) \in Nat /\ Len(q) \in Nat
  BY LenProperties
<1>2. \A i \in 1..(Len(s) + Len(q)) : (s \o q)[i] = IF i <= Len(s) THEN s[i] ELSE q[i - Len(s)]
  BY ConcatProperties
<1>3. \A i \in 1..Len(s) : (s \o q)[i] = s[i]
  BY <1>1, <1>2
<1>4. \A i \in 1..Len(q) : (s \o q)[Len(s) + i] = q[i]
  <2> SUFFICES ASSUME NEW i \in 1..Len(q) PROVE (s \o q)[Len(s) + i] = q[i]
    OBVIOUS
  <2>1. Len(s) + i \in 1..(Len(s) + Len(q)) /\ ~(Len(s) + i <= Len(s)) /\ (Len(s) + i) - Len(s) = i
    BY <1>1
  <2> QED  BY <2>1, <1>2
<1>5. q # <<>> => Len(s) + 1 \in 1..Len(s \o q) /\ (s \o q)[Len(s) + 1] = Head(q)
  <2> SUFFICES ASSUME q # <<>>
               PROVE  Len(s) + 1 \in 1..Len(s \o q) /\ (s \o q)[Len(s) + 1] = Head(q)
    OBVIOUS
  <2>1. Len(q) \in Nat \ {0} /\ Len(s \o q) = Len(s) + Len(q)
    BY EmptySeq, ConcatProperties
  <2> QED  BY <1>1, <1>4, <2>1
<1> QED  BY <1>1, <1>3, <1>4, <1>5, ConcatProperties

\* An injective sequence is no longer than the set it is taken from.
LEMMA Pigeons ==
    ASSUME NEW S, IsFiniteSet(S), NEW s \in Seq(S),
           \A i, j \in 1..Len(s) : s[i] = s[j] => i = j
    PROVE  Len(s) <= Cardinality(S)
<1>1. Len(s) \in Nat /\ s \in [1..Len(s) -> S]
  BY LenProperties
<1>2. IsFiniteSet(1..Len(s)) /\ Cardinality(1..Len(s)) = Len(s)
  BY <1>1, FS_Interval
<1>3. Cardinality(S) \in Nat
  BY FS_CardinalityType
<1>4. ~(Cardinality(S) < Len(s))
  <2> SUFFICES ASSUME Cardinality(S) < Cardinality(1..Len(s)) PROVE FALSE
    BY <1>2
  <2>1. \E i, j \in 1..Len(s) : i # j /\ s[i] = s[j]
    <3> DEFINE D == 1..Len(s)
    <3>1. IsFiniteSet(D) /\ Cardinality(S) < Cardinality(D) /\ s \in [D -> S]
      BY <1>1, <1>2
    <3> HIDE DEF D
    <3>2. \E i, j \in D : i # j /\ s[i] = s[j]
      BY <3>1, FS_PigeonHole
    <3> QED  BY <3>2 DEF D
  <2> QED  BY <2>1
<1> QED  BY <1>1, <1>3, <1>4

\* What is picked grows at its end by a place behind all others.
LEMMA PicksOneMore ==
    ASSUME NEW S, NEW t \in Seq(S), NEW s, NEW P \in SUBSET Nat, Picks(t, s, P),
           NEW k \in Nat, \A p \in P : p < k, s[k] \in S
    PROVE  Picks(Append(t, s[k]), s, P \cup {k})
<1>1. PICK place \in [1..Len(t) -> P] :
        /\ \A i, j \in 1..Len(t) : i < j => place[i] < place[j]
        /\ \A p \in P : \E i \in 1..Len(t) : place[i] = p
        /\ \A i \in 1..Len(t) : t[i] = s[place[i]]
  BY DEF Picks
<1> DEFINE u == Append(t, s[k])
           more == [i \in 1..(Len(t) + 1) |-> IF i = Len(t) + 1 THEN k ELSE place[i]]
<1>2. /\ Len(t) \in Nat /\ Len(u) = Len(t) + 1 /\ u[Len(t) + 1] = s[k]
      /\ \A i \in 1..Len(t) : u[i] = t[i]
  BY AppendProperties, LenProperties
<1>3. more \in [1..Len(u) -> P \cup {k}]
  BY <1>2
<1>4. \A i, j \in 1..Len(u) : i < j => more[i] < more[j]
  <2> SUFFICES ASSUME NEW i \in 1..Len(u), NEW j \in 1..Len(u), i < j
               PROVE  more[i] < more[j]
    OBVIOUS
  <2>1. i \in 1..Len(t) /\ more[i] = place[i] /\ place[i] \in P
    BY <1>2
  <2>2. CASE j = Len(t) + 1
    BY <1>2, <2>1, <2>2
  <2>3. CASE j # Len(t) + 1
    <3>1. j \in 1..Len(t) /\ more[j] = place[j]
      BY <1>2, <2>3
    <3> QED  BY <1>1, <2>1, <3>1
  <2> QED  BY <2>2, <2>3
<1>5. \A p \in P \cup {k} : \E i \in 1..Len(u) : more[i] = p
  <2>1. more[Len(t) + 1] = k /\ Len(t) + 1 \in 1..Len(u)
    BY <1>2
  <2>2. ASSUME NEW p \in P PROVE \E i \in 1..Len(u) : more[i] = p
    <3>1. PICK i \in 1..Len(t) : place[i] = p
      BY <1>1
    <3>2. i \in 1..Len(u) /\ more[i] = p
      BY <1>2, <3>1
    <3> QED  BY <3>2
  <2> QED  BY <2>1, <2>2
<1>6. \A i \in 1..Len(u) : u[i] = s[more[i]]
  <2> SUFFICES ASSUME NEW i \in 1..Len(u) PROVE u[i] = s[more[i]]
    OBVIOUS
  <2>1. CASE i = Len(t) + 1
    BY <1>2, <2>1
  <2>2. CASE i # Len(t) + 1
    <3>1. i \in 1..Len(t) /\ more[i] = place[i]
      BY <1>2, <2>2
    <3> QED  BY <1>1, <1>2, <3>1
  <2> QED  BY <2>1, <2>2
<1> HIDE DEF u, more
<1>7. Picks(u, s, P \cup {k})
  BY <1>3, <1>4, <1>5, <1>6 DEF Picks
<1> QED  BY <1>7 DEF u

\* A change elsewhere does not matter.
LEMMA PicksSame ==
    ASSUME NEW t, NEW s, NEW r, NEW P, Picks(t, s, P), \A p \in P : r[p] = s[p]
    PROVE  Picks(t, r, P)
<1>1. PICK place \in [1..Len(t) -> P] :
        /\ \A i, j \in 1..Len(t) : i < j => place[i] < place[j]
        /\ \A p \in P : \E i \in 1..Len(t) : place[i] = p
        /\ \A i \in 1..Len(t) : t[i] = s[place[i]]
  BY DEF Picks
<1>2. \A i \in 1..Len(t) : t[i] = r[place[i]]
  BY <1>1
<1> QED  BY <1>1, <1>2 DEF Picks

LEMMA PicksNothing ==
    ASSUME NEW s
    PROVE  Picks(<<>>, s, {})
<1>1. Len(<<>>) = 0 /\ 1..0 = {}
  OBVIOUS
<1>2. [i \in 1..0 |-> i] \in [1..0 -> {}]
  BY <1>1
<1> QED  BY <1>1, <1>2 DEF Picks

-----------------------------------------------------------------------------
(* The inductive invariant *)

\* Everything the server has taken from its queue or will take.
All == log \o mq_server

IsRegistered(c) == \E i \in 1..Len(mq_clients) : mq_clients[i] = c

\* Messages in the order in which they were sent.
Rising(q) == \A i, j \in 1..Len(q) :
    i < j /\ IsChat(q[i]) /\ IsChat(q[j]) => q[i].n < q[j].n

\* Each client asks for its id once, and lines are numbered as they come.
Requests ==
    /\ \A i \in 1..Len(All) :
         /\ IsChat(All[i]) => All[i].n <= sent
         /\ ~IsChat(All[i]) => /\ All[i] = InitMsg(All[i].from)
                               /\ cpc[All[i].from] \in {"wait", "chat"}
    /\ \A i, j \in 1..Len(All) : ~IsChat(All[i]) /\ All[i] = All[j] => i = j
    /\ Rising(All)

\* The message at hand is the last in the log; who is in the table asked before
\* and is there once.
Table ==
    /\ spc # "receive" => /\ log # <<>> /\ received = log[Len(log)]
                          /\ IsChat(received) <=> spc = "relay"
    /\ at <= Len(mq_clients)
    /\ \A i, j \in 1..Len(mq_clients) : mq_clients[i] = mq_clients[j] => i = j
    /\ \A i \in 1..Len(mq_clients) : \E k \in 1..Len(log) :
         /\ log[k] = InitMsg(mq_clients[i])
         /\ spc = "reply" => k < Len(log)

\* The relay loop has still to come to client c.
Ahead(c) == spc = "relay" /\ \E i \in 1..Len(mq_clients) : i > at /\ mq_clients[i] = c

\* What a client is given is taken from the log, and so far not its last message
\* if the loop has still to come to the client.
Logged == \A c \in Clients :
    /\ Rising(Given(c))
    /\ \A i \in 1..Len(Given(c)) : IsChat(Given(c)[i]) =>
         \E k \in 1..Len(log) : Given(c)[i] = log[k] /\ (Ahead(c) => k < Len(log))

\* Without a restart the ids that clients know and send are those of the table.
IdsAgree ==
    /\ \A c \in Clients, i \in Ids :
         (i \in ToSet(pipe[c]) \/ (cpc[c] = "chat" /\ id[c] = i)) =>
           i < Len(mq_clients) /\ mq_clients[i + 1] = c
    /\ \A i \in 1..Len(All) : IsChat(All[i]) =>
         /\ All[i].id < Len(mq_clients)
         /\ mq_clients[All[i].id + 1] = All[i].from

\* Client c has been given nothing before it is registered, and exactly what it
\* is owed afterwards.
GivenExactly(c) ==
    IF IsRegistered(c)
      THEN /\ Given(c) # <<>> /\ Head(Given(c)) = IdMsg(c, IdOf(c))
           /\ Picks(Tail(Given(c)), log, Owed(c))
      ELSE Given(c) = <<>>

Exact == restarts = 0 => IdsAgree /\ \A c \in Clients : GivenExactly(c)

IInv == TypeOK /\ Requests /\ Table /\ Logged /\ Exact

-----------------------------------------------------------------------------
(* What the invariant says about a state *)

LEMMA MessageTypes ==
    ASSUME NEW c \in Clients
    PROVE  /\ 0 \in Ids /\ InitMsg(c) \in Msg /\ ~IsChat(InitMsg(c))
           /\ \A i \in Ids : IdMsg(c, i) \in Msg
           /\ TypeOK => \A n \in 0..MaxMsgs : ChatMsg(c, n) \in Msg /\ IsChat(ChatMsg(c, n))
<1>1. Cardinality(Clients) \in Nat \ {0}
  BY SizesAssumption, FS_CardinalityType, FS_EmptySet
<1>2. 0 \in Ids /\ 0 \in 0..MaxMsgs
  BY <1>1, SizesAssumption DEF Ids
<1> QED  BY <1>2 DEF InitMsg, IdMsg, ChatMsg, Msg, IsChat, TypeOK

LEMMA QueueFacts ==
    ASSUME TypeOK
    PROVE  /\ log \in Seq(Msg) /\ mq_server \in Seq(Msg) /\ All \in Seq(Msg)
           /\ Len(log) \in Nat /\ Len(mq_server) \in Nat
           /\ Len(All) = Len(log) + Len(mq_server)
           /\ \A i \in 1..Len(log) : i \in 1..Len(All) /\ All[i] = log[i]
           /\ mq_server # <<>> =>
                Len(log) + 1 \in 1..Len(All) /\ All[Len(log) + 1] = Head(mq_server)
           /\ \A c \in Clients :
                /\ Given(c) \in Seq(Msg) /\ shown[c] \in Seq(Msg) /\ mq_client[c] \in Seq(Msg)
                /\ mq_client[c] # <<>> =>
                     /\ Len(shown[c]) + 1 \in 1..Len(Given(c))
                     /\ Given(c)[Len(shown[c]) + 1] = Head(mq_client[c])
<1>1. log \in Seq(Msg) /\ mq_server \in Seq(Msg)
      /\ \A c \in Clients : shown[c] \in Seq(Msg) /\ mq_client[c] \in Seq(Msg)
  BY DEF TypeOK
<1>2. /\ All \in Seq(Msg) /\ Len(log) \in Nat /\ Len(mq_server) \in Nat
      /\ Len(All) = Len(log) + Len(mq_server)
      /\ \A i \in 1..Len(log) : All[i] = log[i]
      /\ mq_server # <<>> =>
           Len(log) + 1 \in 1..Len(All) /\ All[Len(log) + 1] = Head(mq_server)
  BY <1>1, InARow DEF All
<1>3. ASSUME NEW c \in Clients
      PROVE  /\ Given(c) \in Seq(Msg)
             /\ mq_client[c] # <<>> =>
                  /\ Len(shown[c]) + 1 \in 1..Len(Given(c))
                  /\ Given(c)[Len(shown[c]) + 1] = Head(mq_client[c])
  <2> DEFINE s == shown[c]  q == mq_client[c]
  <2>1. s \in Seq(Msg) /\ q \in Seq(Msg)
    BY <1>1
  <2> HIDE DEF s, q
  <2>2. /\ s \o q \in Seq(Msg)
        /\ q # <<>> => Len(s) + 1 \in 1..Len(s \o q) /\ (s \o q)[Len(s) + 1] = Head(q)
    BY <2>1, InARow
  <2> QED  BY <2>2 DEF Given, s, q
<1> QED  BY <1>1, <1>2, <1>3

\* The table never holds more clients than there are, so ids are what they
\* should be.
LEMMA TableFits ==
    ASSUME TypeOK, Table
    PROVE  /\ Len(mq_clients) \in Nat /\ Cardinality(Clients) \in Nat
           /\ Len(mq_clients) <= Cardinality(Clients)
           /\ \A i \in 1..Len(mq_clients) : mq_clients[i] \in Clients
<1>1. mq_clients \in Seq(Clients) /\ IsFiniteSet(Clients)
  BY SizesAssumption DEF TypeOK
<1>2. \A i, j \in 1..Len(mq_clients) : mq_clients[i] = mq_clients[j] => i = j
  BY DEF Table
<1>3. Len(mq_clients) <= Cardinality(Clients)
  BY <1>1, <1>2, Pigeons
<1> QED  BY <1>1, <1>3, LenProperties, ElementOfSeq, FS_CardinalityType

\* The id of a client is its place in the table.
LEMMA IdKnown ==
    ASSUME TypeOK, Table, NEW i \in 1..Len(mq_clients)
    PROVE  IdOf(mq_clients[i]) = i - 1 /\ i - 1 \in Ids
<1>1. i - 1 \in Ids /\ i - 1 < Len(mq_clients) /\ (i - 1) + 1 = i
  BY TableFits DEF Ids
<1>2. \A k \in Ids : k < Len(mq_clients) /\ mq_clients[k + 1] = mq_clients[i] => k = i - 1
  <2> SUFFICES ASSUME NEW k \in Ids, k < Len(mq_clients), mq_clients[k + 1] = mq_clients[i]
               PROVE  k = i - 1
    OBVIOUS
  <2>1. k \in Nat /\ k + 1 \in 1..Len(mq_clients)
    BY TableFits DEF Ids
  <2>2. k + 1 = i
    BY <2>1 DEF Table
  <2> QED  BY <2>1, <2>2
<1> QED  BY <1>1, <1>2 DEF IdOf

\* A client's request is in the log once.
LEMMA JoinedKnown ==
    ASSUME TypeOK, Requests, NEW c \in Clients, NEW k \in 1..Len(log), log[k] = InitMsg(c)
    PROVE  Joined(c) = k
<1>1. \A j \in 1..Len(log) : log[j] = InitMsg(c) => j = k
  BY QueueFacts, MessageTypes DEF Requests
<1> QED  BY <1>1 DEF Joined

\* Nobody is registered twice: who is about to be registered is not.
LEMMA NewClient ==
    ASSUME TypeOK, Requests, Table, spc = "reply"
    PROVE  /\ received \in Msg /\ received.from \in Clients
           /\ Len(log) \in 1..Len(log) /\ log[Len(log)] = received
           /\ received = InitMsg(received.from)
           /\ ~IsRegistered(received.from) /\ Len(mq_clients) < Cardinality(Clients)
<1>1. /\ log # <<>> /\ received = log[Len(log)] /\ ~IsChat(received)
  BY DEF Table
<1>2. Len(log) \in 1..Len(log)
  BY <1>1, EmptySeq, QueueFacts
<1>3. received \in Msg /\ received.from \in Clients
  <2>1. log \in Seq(Msg) /\ log[Len(log)] \in Msg
    BY <1>2, QueueFacts, ElementOfSeq
  <2>2. \A m \in Msg : m.from \in Clients
    BY DEF Msg
  <2> QED  BY <1>1, <2>1, <2>2
<1>4. received = InitMsg(received.from)
  BY <1>1, <1>2, QueueFacts DEF Requests
<1>5. ~IsRegistered(received.from)
  <2> SUFFICES ASSUME NEW i \in 1..Len(mq_clients), mq_clients[i] = received.from PROVE FALSE
    BY DEF IsRegistered
  <2>1. PICK k \in 1..Len(log) : log[k] = InitMsg(mq_clients[i]) /\ k < Len(log)
    BY DEF Table
  <2>2. Joined(received.from) = k /\ Joined(received.from) = Len(log)
    BY <1>1, <1>2, <1>3, <1>4, <2>1, JoinedKnown
  <2> QED  BY <2>1, <2>2, QueueFacts
<1>6. Len(mq_clients) < Cardinality(Clients)
  <2> DEFINE c == received.from  s == Append(mq_clients, c)
  <2>1. /\ mq_clients \in Seq(Clients) /\ s \in Seq(Clients) /\ Len(s) = Len(mq_clients) + 1
        /\ s[Len(mq_clients) + 1] = c /\ \A i \in 1..Len(mq_clients) : s[i] = mq_clients[i]
    BY <1>3, AppendProperties DEF TypeOK
  <2> HIDE DEF s
  <2>2. \A i, j \in 1..Len(s) : s[i] = s[j] => i = j
    BY <1>5, <2>1, TableFits DEF Table, IsRegistered
  <2>3. Len(s) <= Cardinality(Clients)
    BY <2>1, <2>2, Pigeons, SizesAssumption
  <2> QED  BY <2>1, <2>3, TableFits
<1> QED  BY <1>1, <1>2, <1>3, <1>4, <1>5, <1>6

-----------------------------------------------------------------------------
(* What leaves the parts of the invariant as they are *)

LEMMA RequestsKept ==
    ASSUME TypeOK, Requests, All' = All, sent' = sent,
           \A c \in Clients : cpc[c] \in {"wait", "chat"} => cpc'[c] \in {"wait", "chat"}
    PROVE  Requests'
<1>1. \A i \in 1..Len(All) : All[i].from \in Clients
  <2>1. \A m \in Msg : m.from \in Clients
    BY DEF Msg
  <2> QED  BY <2>1, QueueFacts, ElementOfSeq
<1> QED  BY <1>1 DEF Requests, Rising, IsChat, InitMsg

LEMMA LoggedKept ==
    ASSUME Logged, log' = log,
           \A c \in Clients : Given(c)' = Given(c) /\ (Ahead(c)' => Ahead(c))
    PROVE  Logged'
BY DEF Logged, Rising, IsChat

LEMMA GivenKept ==
    ASSUME NEW c \in Clients, GivenExactly(c), UNCHANGED <<log, mq_clients>>,
           Given(c)' = Given(c), IsRegistered(c) => (OnTheWay(c)' <=> OnTheWay(c))
    PROVE  GivenExactly(c)'
<1>1. /\ IsRegistered(c)' <=> IsRegistered(c)
      /\ IdOf(c)' = IdOf(c) /\ Joined(c)' = Joined(c)
  BY DEF IsRegistered, IdOf, Joined, InitMsg
<1>2. IsRegistered(c) => Owed(c)' = Owed(c)
  BY <1>1 DEF Owed, IsChat
<1>3. CASE IsRegistered(c)
  <2>1. /\ Given(c) # <<>> /\ Head(Given(c)) = IdMsg(c, IdOf(c))
        /\ Picks(Tail(Given(c)), log, Owed(c))
    BY <1>3 DEF GivenExactly
  <2>2. Picks(Tail(Given(c)'), log', Owed(c)')
    BY <2>1, <1>2, <1>3
  <2> QED  BY <1>1, <1>3, <2>1, <2>2 DEF GivenExactly, IdMsg
<1>4. CASE ~IsRegistered(c)
  BY <1>1, <1>4 DEF GivenExactly
<1> QED  BY <1>3, <1>4

LEMMA IdsKept ==
    ASSUME IdsAgree, All' = All, UNCHANGED <<mq_clients, pipe, id, cpc>>
    PROVE  IdsAgree'
BY DEF IdsAgree, IsChat, ToSet

\* A step of a client: the server's variables and what the clients are given
\* stay as they are.
LEMMA ClientKeeps ==
    ASSUME IInv, TypeOK', UNCHANGED server, \A c \in Clients : Given(c)' = Given(c),
           Requests', restarts = 0 => IdsAgree'
    PROVE  IInv'
<1>1. TypeOK /\ Requests /\ Table /\ Logged /\ Exact
  BY DEF IInv
<1>2. UNCHANGED <<mq_clients, spc, received, at, restarts, log>>
  BY DEF server
<1>3. Table'
  BY <1>1, <1>2 DEF Table, IsChat, InitMsg
<1>4. \A c \in Clients : (Ahead(c)' <=> Ahead(c)) /\ (OnTheWay(c)' <=> OnTheWay(c))
  BY <1>2 DEF Ahead, OnTheWay, IdOf
<1>5. Logged'
  BY <1>1, <1>2, <1>4, LoggedKept
<1>6. Exact'
  BY <1>1, <1>2, <1>4, GivenKept DEF Exact
<1> QED  BY <1>3, <1>5, <1>6 DEF IInv

-----------------------------------------------------------------------------
(* The clients' steps *)

LEMMA OpenQueueStep == ASSUME IInv, NEW c \in Clients, OpenQueue(c) PROVE IInv'
<1>1. TypeOK /\ Exact /\ Requests
  BY DEF IInv
<1>2. /\ cpc[c] = "off" /\ cpc' = [cpc EXCEPT ![c] = "init"]
      /\ UNCHANGED <<mq_server, mq_client, server, id, pipe, sent, shown, dead>>
  BY DEF OpenQueue, Step
<1>3. TypeOK'
  BY <1>1, <1>2 DEF TypeOK, server
<1>4. \A d \in Clients : cpc'[d] = IF d = c THEN "init" ELSE cpc[d]
  BY <1>1, <1>2 DEF TypeOK
<1>5. All' = All /\ mq_clients' = mq_clients
  BY <1>2 DEF All, server
<1>6. IdsAgree => IdsAgree'
  BY <1>2, <1>4, <1>5 DEF IdsAgree, IsChat, ToSet
<1>7. \A d \in Clients : Given(d)' = Given(d)
  BY <1>2 DEF Given
<1>8. Requests'
  BY <1>1, <1>2, <1>4, <1>5, RequestsKept
<1> QED  BY <1>1, <1>2, <1>3, <1>6, <1>7, <1>8, ClientKeeps DEF Exact

LEMMA KillStep == ASSUME IInv, NEW c \in Clients, Kill(c) PROVE IInv'
<1>1. TypeOK /\ Exact /\ Requests
  BY DEF IInv
<1>2. /\ dead' = dead \cup {c}
      /\ UNCHANGED <<mq_server, mq_client, server, cpc, id, pipe, sent, shown>>
  BY DEF Kill
<1>3. TypeOK'
  BY <1>1, <1>2 DEF TypeOK, server
<1>4. All' = All /\ mq_clients' = mq_clients
  BY <1>2 DEF All, server
<1>5. IdsAgree => IdsAgree'
  BY <1>2, <1>4, IdsKept
<1>6. \A d \in Clients : Given(d)' = Given(d)
  BY <1>2 DEF Given
<1>7. Requests'
  BY <1>1, <1>2, <1>4, RequestsKept
<1> QED  BY <1>1, <1>2, <1>3, <1>5, <1>6, <1>7, ClientKeeps DEF Exact

\* The parent learns its id from the pipe, and from nowhere else.
LEMMA ReadIdStep == ASSUME IInv, NEW c \in Clients, ReadId(c) PROVE IInv'
<1>1. TypeOK /\ Exact /\ Requests
  BY DEF IInv
<1>2. /\ cpc[c] = "wait" /\ cpc' = [cpc EXCEPT ![c] = "chat"]
      /\ pipe[c] # <<>>
      /\ id' = [id EXCEPT ![c] = Head(pipe[c])] /\ pipe' = [pipe EXCEPT ![c] = Tail(@)]
      /\ UNCHANGED <<mq_server, mq_client, server, sent, shown, dead>>
  BY DEF ReadId, Step
<1>3. /\ Head(pipe[c]) \in Ids /\ Tail(pipe[c]) \in Seq(Ids)
      /\ Head(pipe[c]) \in ToSet(pipe[c]) /\ ToSet(Tail(pipe[c])) \subseteq ToSet(pipe[c])
  <2>1. pipe[c] \in Seq(Ids)
    BY <1>1 DEF TypeOK
  <2>2. /\ Head(pipe[c]) \in Ids /\ Tail(pipe[c]) \in Seq(Ids)
        /\ Len(Tail(pipe[c])) = Len(pipe[c]) - 1 /\ Len(pipe[c]) \in Nat \ {0}
        /\ \A i \in 1..Len(Tail(pipe[c])) : Tail(pipe[c])[i] = pipe[c][i + 1]
    BY <1>2, <2>1, HeadTailProperties, EmptySeq
  <2>3. DOMAIN pipe[c] = 1..Len(pipe[c]) /\ DOMAIN Tail(pipe[c]) = 1..Len(Tail(pipe[c]))
    BY <2>1, <2>2, LenProperties
  <2>4. Head(pipe[c]) \in ToSet(pipe[c])
    BY <2>1, <2>2, <2>3 DEF ToSet
  <2>5. ASSUME NEW i \in DOMAIN Tail(pipe[c]) PROVE Tail(pipe[c])[i] \in ToSet(pipe[c])
    BY <2>2, <2>3 DEF ToSet
  <2> QED  BY <2>2, <2>4, <2>5 DEF ToSet
<1>4. TypeOK'
  BY <1>1, <1>2, <1>3 DEF TypeOK, server
<1>5. \A d \in Clients : /\ cpc'[d] = IF d = c THEN "chat" ELSE cpc[d]
                         /\ id'[d] = IF d = c THEN Head(pipe[c]) ELSE id[d]
                         /\ pipe'[d] = IF d = c THEN Tail(pipe[c]) ELSE pipe[d]
  BY <1>1, <1>2 DEF TypeOK
<1>6. All' = All /\ mq_clients' = mq_clients
  BY <1>2 DEF All, server
<1>7. IdsAgree => IdsAgree'
  <2> SUFFICES ASSUME IdsAgree PROVE IdsAgree'
    OBVIOUS
  <2>1. ASSUME NEW d \in Clients, NEW i \in Ids,
               i \in ToSet(pipe'[d]) \/ (cpc'[d] = "chat" /\ id'[d] = i)
        PROVE  i < Len(mq_clients) /\ mq_clients[i + 1] = d
    BY <1>3, <1>5, <2>1 DEF IdsAgree
  <2> QED  BY <1>6, <2>1 DEF IdsAgree, IsChat
<1>8. \A d \in Clients : Given(d)' = Given(d)
  BY <1>2 DEF Given
<1>9. Requests'
  BY <1>1, <1>2, <1>5, <1>6, RequestsKept
<1> QED  BY <1>1, <1>2, <1>4, <1>7, <1>8, <1>9, ClientKeeps DEF Exact

\* What a client is given begins with its ID, and the rest are lines.
LEMMA GivenTypes ==
    ASSUME TypeOK, NEW c \in Clients, GivenExactly(c), NEW i \in 1..Len(Given(c)),
           ~IsChat(Given(c)[i])
    PROVE  i = 1 /\ IsRegistered(c) /\ Given(c)[i] = IdMsg(c, IdOf(c))
<1>1. Given(c) \in Seq(Msg)
  BY QueueFacts
<1>2. Given(c) # <<>> /\ IsRegistered(c)
  BY <1>1, EmptySeq DEF GivenExactly
<1>3. Head(Given(c)) = IdMsg(c, IdOf(c)) /\ Picks(Tail(Given(c)), log, Owed(c))
  BY <1>2 DEF GivenExactly
<1>4. CASE i = 1
  BY <1>1, <1>2, <1>3, <1>4
<1>5. CASE i # 1
  <2>1. /\ Len(Tail(Given(c))) = Len(Given(c)) - 1 /\ Len(Given(c)) \in Nat
        /\ \A j \in 1..Len(Tail(Given(c))) : Tail(Given(c))[j] = Given(c)[j + 1]
    BY <1>1, <1>2, HeadTailProperties, LenProperties
  <2>2. i - 1 \in 1..Len(Tail(Given(c))) /\ Given(c)[i] = Tail(Given(c))[i - 1]
    BY <1>5, <2>1
  <2>3. PICK k \in Owed(c) : Tail(Given(c))[i - 1] = log[k]
    BY <1>3, <2>2 DEF Picks
  <2> QED  BY <2>2, <2>3 DEF Owed
<1> QED  BY <1>4, <1>5

\* The receiver prints in the order of its queue and passes its id on, once.
LEMMA ShowStep == ASSUME IInv, NEW c \in Clients, Show(c) PROVE IInv'
<1> DEFINE m == Head(mq_client[c])
<1>1. TypeOK /\ Exact /\ Requests /\ Table
  BY DEF IInv
<1>2. /\ mq_client[c] # <<>>
      /\ shown' = [shown EXCEPT ![c] = Append(@, m)]
      /\ pipe' = IF m.type = "ID" THEN [pipe EXCEPT ![c] = Append(@, m.id)] ELSE pipe
      /\ mq_client' = [mq_client EXCEPT ![c] = Tail(@)]
      /\ UNCHANGED <<mq_server, server, cpc, id, sent, dead>>
  BY DEF Show
<1>3. shown[c] \in Seq(Msg) /\ mq_client[c] \in Seq(Msg) /\ pipe[c] \in Seq(Ids)
  BY <1>1 DEF TypeOK
<1>4. /\ m \in Msg /\ m.id \in Ids /\ m.type \in {"INIT", "MSG", "ID"}
      /\ Len(mq_client[c]) \in Nat \ {0} /\ Len(Tail(mq_client[c])) = Len(mq_client[c]) - 1
  <2>1. m \in Msg
    BY <1>2, <1>3, HeadTailProperties
  <2> QED  BY <1>2, <1>3, <2>1, HeadTailProperties, EmptySeq DEF Msg
<1>5. /\ Append(shown[c], m) \in Seq(Msg) /\ Tail(mq_client[c]) \in Seq(Msg)
      /\ Append(shown[c], m) \o Tail(mq_client[c]) = shown[c] \o mq_client[c]
  BY <1>2, <1>3, PassedOn
<1>6. Append(pipe[c], m.id) \in Seq(Ids)
  BY <1>3, <1>4, AppendProperties
<1> HIDE DEF m
<1>7. \A d \in Clients : Given(d)' = Given(d)
  BY <1>1, <1>2, <1>5 DEF Given, TypeOK
<1>8. TypeOK'
  <2>1. Len(mq_client[c]) <= QLen /\ QLen \in Nat
    BY <1>1, SizesAssumption DEF TypeOK
  <2>2. mq_client' \in [Clients -> Seq(Msg)] /\ \A d \in Clients : Len(mq_client'[d]) <= QLen
    BY <1>1, <1>2, <1>4, <1>5, <2>1 DEF TypeOK
  <2>3. shown' \in [Clients -> Seq(Msg)] /\ pipe' \in [Clients -> Seq(Ids)]
    BY <1>1, <1>2, <1>5, <1>6 DEF TypeOK
  <2> QED  BY <1>1, <1>2, <2>2, <2>3 DEF TypeOK, server
<1>9. All' = All /\ mq_clients' = mq_clients
  BY <1>2 DEF All, server
<1>10. Requests'
  BY <1>1, <1>2, <1>9, RequestsKept
<1>11. ASSUME restarts = 0, m.type = "ID"
       PROVE  m.id < Len(mq_clients) /\ mq_clients[m.id + 1] = c
  <2>1. Len(shown[c]) + 1 \in 1..Len(Given(c)) /\ Given(c)[Len(shown[c]) + 1] = m
    BY <1>1, <1>2, QueueFacts DEF m
  <2>2. ~IsChat(m) /\ GivenExactly(c)
    BY <1>1, <1>11 DEF IsChat, Exact
  <2>3. IsRegistered(c) /\ m = IdMsg(c, IdOf(c))
    BY <1>1, <2>1, <2>2, GivenTypes
  <2>4. PICK k \in 1..Len(mq_clients) : mq_clients[k] = c
    BY <2>3 DEF IsRegistered
  <2>5. IdOf(c) = k - 1 /\ m.id = IdOf(c)
    BY <1>1, <2>3, <2>4, IdKnown DEF IdMsg
  <2> QED  BY <1>1, <2>4, <2>5, TableFits
<1>12. restarts = 0 => IdsAgree'
  <2> SUFFICES ASSUME restarts = 0 PROVE IdsAgree'
    OBVIOUS
  <2>1. IdsAgree
    BY <1>1 DEF Exact
  <2>2. ASSUME NEW d \in Clients, NEW i \in Ids, i \in ToSet(pipe'[d])
        PROVE  i \in ToSet(pipe[d]) \/ (d = c /\ m.type = "ID" /\ i = m.id)
    <3>1. CASE d = c /\ m.type = "ID"
      <4>1. pipe'[d] = Append(pipe[c], m.id)
        BY <1>1, <1>2, <3>1 DEF TypeOK
      <4>2. /\ DOMAIN pipe[c] = 1..Len(pipe[c]) /\ Len(pipe[c]) \in Nat
            /\ DOMAIN pipe'[d] = 1..(Len(pipe[c]) + 1)
            /\ pipe'[d][Len(pipe[c]) + 1] = m.id
            /\ \A j \in 1..Len(pipe[c]) : pipe'[d][j] = pipe[c][j]
        BY <1>3, <1>4, <1>6, <4>1, AppendProperties, LenProperties
      <4>3. PICK j \in 1..(Len(pipe[c]) + 1) : pipe'[d][j] = i
        BY <2>2, <4>2 DEF ToSet
      <4>4. CASE j = Len(pipe[c]) + 1
        BY <3>1, <4>2, <4>3, <4>4
      <4>5. CASE j # Len(pipe[c]) + 1
        BY <3>1, <4>2, <4>3, <4>5 DEF ToSet
      <4> QED  BY <4>4, <4>5
    <3>2. CASE ~(d = c /\ m.type = "ID")
      <4>1. pipe'[d] = pipe[d]
        BY <1>1, <1>2, <3>2 DEF TypeOK
      <4> QED  BY <2>2, <4>1
    <3> QED  BY <3>1, <3>2
  <2>3. ASSUME NEW d \in Clients, NEW i \in Ids,
               i \in ToSet(pipe'[d]) \/ (cpc'[d] = "chat" /\ id'[d] = i)
        PROVE  i < Len(mq_clients) /\ mq_clients[i + 1] = d
    BY <1>2, <1>11, <2>1, <2>2, <2>3 DEF IdsAgree
  <2> QED  BY <1>9, <2>1, <2>3 DEF IdsAgree, IsChat
<1> QED  BY <1>2, <1>7, <1>8, <1>10, <1>12, ClientKeeps

\* A message sent to the server comes behind all others.
LEMMA RequestAdded ==
    ASSUME TypeOK, NEW m \in Msg, log' = log, mq_server' = Enqueue(mq_server, m)
    PROVE  /\ mq_server' \in Seq(Msg) /\ Len(mq_server') = Len(mq_server) + 1
           /\ All \in Seq(Msg) /\ Len(All) \in Nat /\ All' = Append(All, m)
           /\ Len(All') = Len(All) + 1 /\ All'[Len(All) + 1] = m
           /\ \A i \in 1..Len(All) : All'[i] = All[i] /\ All[i].from \in Clients
<1>1. log \in Seq(Msg) /\ mq_server \in Seq(Msg) /\ All \in Seq(Msg)
  BY QueueFacts
<1>2. /\ mq_server' = Append(mq_server, m) /\ mq_server' \in Seq(Msg)
      /\ Len(mq_server') = Len(mq_server) + 1
      /\ All' = Append(All, m)
  BY <1>1, PutBehind DEF All, Enqueue
<1>3. /\ Len(All) \in Nat /\ Len(All') = Len(All) + 1 /\ All'[Len(All) + 1] = m
      /\ \A i \in 1..Len(All) : All'[i] = All[i]
  BY <1>1, <1>2, AppendProperties, LenProperties
<1>4. \A i \in 1..Len(All) : All[i].from \in Clients
  <2>1. \A x \in Msg : x.from \in Clients
    BY DEF Msg
  <2> QED  BY <1>1, <2>1, ElementOfSeq
<1> QED  BY <1>1, <1>2, <1>3, <1>4

\* A client asks for its id once.
LEMMA SendInitStep == ASSUME IInv, NEW c \in Clients, SendInit(c) PROVE IInv'
<1> DEFINE m == InitMsg(c)
<1>1. TypeOK /\ Exact /\ Requests
  BY DEF IInv
<1>2. /\ cpc[c] = "init" /\ cpc' = [cpc EXCEPT ![c] = "wait"]
      /\ Len(mq_server) < QLen /\ mq_server' = Enqueue(mq_server, m)
      /\ UNCHANGED <<mq_client, server, id, pipe, sent, shown, dead>>
  BY DEF SendInit, Step
<1>3. m \in Msg /\ ~IsChat(m) /\ m.from = c /\ \A d \in Clients : InitMsg(d) = m => d = c
  BY MessageTypes DEF InitMsg
<1>4. /\ mq_server' \in Seq(Msg) /\ Len(mq_server') = Len(mq_server) + 1
      /\ Len(All) \in Nat /\ Len(All') = Len(All) + 1 /\ All'[Len(All) + 1] = m
      /\ \A i \in 1..Len(All) : All'[i] = All[i] /\ All[i].from \in Clients
  BY <1>1, <1>2, <1>3, RequestAdded DEF server
<1>5. \A d \in Clients : cpc'[d] = IF d = c THEN "wait" ELSE cpc[d]
  BY <1>1, <1>2 DEF TypeOK
<1>6. TypeOK'
  <2>1. Len(mq_server) \in Nat /\ QLen \in Nat
    BY <1>1, QueueFacts, SizesAssumption
  <2>2. Len(mq_server') <= QLen
    BY <1>2, <1>4, <2>1
  <2> QED  BY <1>1, <1>2, <1>4, <2>2 DEF TypeOK, server
<1> HIDE DEF m
<1>7. Requests'
  <2>1. \A i \in 1..Len(All) : ~IsChat(All[i]) => All[i] # m /\ cpc'[All[i].from] \in {"wait", "chat"}
    BY <1>1, <1>2, <1>3, <1>4, <1>5 DEF Requests
  <2>2. \A i \in 1..Len(All') :
          /\ IsChat(All'[i]) => All'[i].n <= sent'
          /\ ~IsChat(All'[i]) => All'[i] = InitMsg(All'[i].from) /\ cpc'[All'[i].from] \in {"wait", "chat"}
    <3> SUFFICES ASSUME NEW i \in 1..Len(All')
                 PROVE  /\ IsChat(All'[i]) => All'[i].n <= sent'
                        /\ ~IsChat(All'[i]) => /\ All'[i] = InitMsg(All'[i].from)
                                               /\ cpc'[All'[i].from] \in {"wait", "chat"}
      OBVIOUS
    <3>1. CASE i = Len(All) + 1
      BY <1>3, <1>4, <1>5, <3>1 DEF m
    <3>2. CASE i # Len(All) + 1
      BY <1>1, <1>2, <1>4, <2>1, <3>2 DEF Requests
    <3> QED  BY <3>1, <3>2
  <2>3. \A i, j \in 1..Len(All') : ~IsChat(All'[i]) /\ All'[i] = All'[j] => i = j
    BY <1>1, <1>3, <1>4, <2>1 DEF Requests
  <2>4. Rising(All')
    BY <1>1, <1>3, <1>4 DEF Requests, Rising
  <2> QED  BY <2>2, <2>3, <2>4 DEF Requests, Rising, IsChat, InitMsg
<1>8. restarts = 0 => IdsAgree'
  <2> SUFFICES ASSUME restarts = 0 PROVE IdsAgree'
    OBVIOUS
  <2>1. IdsAgree /\ mq_clients' = mq_clients
    BY <1>1, <1>2 DEF Exact, server
  <2>2. \A i \in 1..Len(All') : IsChat(All'[i]) =>
          All'[i].id < Len(mq_clients) /\ mq_clients[All'[i].id + 1] = All'[i].from
    BY <1>3, <1>4, <2>1 DEF IdsAgree
  <2>3. \A d \in Clients, i \in Ids :
          (i \in ToSet(pipe'[d]) \/ (cpc'[d] = "chat" /\ id'[d] = i)) =>
            i < Len(mq_clients) /\ mq_clients[i + 1] = d
    BY <1>2, <1>5, <2>1 DEF IdsAgree
  <2> QED  BY <2>1, <2>2, <2>3 DEF IdsAgree, IsChat
<1>9. \A d \in Clients : Given(d)' = Given(d)
  BY <1>2 DEF Given
<1> QED  BY <1>2, <1>6, <1>7, <1>8, <1>9, ClientKeeps

\* A line bears the number of lines sent so far and the id its client has learnt.
LEMMA SendLineStep == ASSUME IInv, NEW c \in Clients, SendLine(c) PROVE IInv'
<1> DEFINE m == ChatMsg(c, sent + 1)
<1>1. TypeOK /\ Exact /\ Requests
  BY DEF IInv
<1>2. /\ cpc[c] = "chat" /\ cpc' = [cpc EXCEPT ![c] = "chat"]
      /\ sent < MaxMsgs /\ sent' = sent + 1
      /\ Len(mq_server) < QLen /\ mq_server' = Enqueue(mq_server, m)
      /\ UNCHANGED <<mq_client, server, id, pipe, shown, dead>>
  BY DEF SendLine, Step
<1>3. /\ sent \in Nat /\ MaxMsgs \in Nat /\ sent' \in 0..MaxMsgs
      /\ m \in Msg /\ IsChat(m) /\ m.from = c /\ m.n = sent + 1 /\ m.id = id[c]
  <2>1. sent \in Nat /\ MaxMsgs \in Nat /\ sent + 1 \in 0..MaxMsgs
    BY <1>1, <1>2, SizesAssumption DEF TypeOK
  <2> QED  BY <1>1, <1>2, <2>1, MessageTypes DEF ChatMsg
<1>4. /\ mq_server' \in Seq(Msg) /\ Len(mq_server') = Len(mq_server) + 1
      /\ All \in Seq(Msg) /\ Len(All) \in Nat /\ Len(All') = Len(All) + 1
      /\ All'[Len(All) + 1] = m
      /\ \A i \in 1..Len(All) : All'[i] = All[i] /\ All[i].from \in Clients
  BY <1>1, <1>2, <1>3, RequestAdded DEF server
<1>5. cpc' = cpc
  BY <1>1, <1>2 DEF TypeOK
<1>6. TypeOK'
  <2>1. Len(mq_server) \in Nat /\ QLen \in Nat
    BY <1>1, QueueFacts, SizesAssumption
  <2>2. Len(mq_server') <= QLen
    BY <1>2, <1>4, <2>1
  <2> QED  BY <1>1, <1>2, <1>3, <1>4, <1>5, <2>2 DEF TypeOK, server
<1>7. \A i \in 1..Len(All) : All[i].n \in Nat
  <2>1. \A x \in Msg : x.n \in Nat
    BY SizesAssumption DEF Msg
  <2> QED  BY <1>4, <2>1, ElementOfSeq
<1> HIDE DEF m
<1>8. Requests'
  <2>1. \A i \in 1..Len(All') :
          /\ IsChat(All'[i]) => All'[i].n <= sent'
          /\ ~IsChat(All'[i]) => All'[i] = InitMsg(All'[i].from) /\ cpc'[All'[i].from] \in {"wait", "chat"}
    <3> SUFFICES ASSUME NEW i \in 1..Len(All')
                 PROVE  /\ IsChat(All'[i]) => All'[i].n <= sent'
                        /\ ~IsChat(All'[i]) => /\ All'[i] = InitMsg(All'[i].from)
                                               /\ cpc'[All'[i].from] \in {"wait", "chat"}
      OBVIOUS
    <3>1. CASE i = Len(All) + 1
      BY <1>2, <1>3, <1>4, <3>1
    <3>2. CASE i # Len(All) + 1
      <4>1. i \in 1..Len(All) /\ All'[i] = All[i]
        BY <1>4, <3>2
      <4> QED  BY <1>1, <1>2, <1>3, <1>5, <1>7, <4>1 DEF Requests
    <3> QED  BY <3>1, <3>2
  <2>2. \A i, j \in 1..Len(All') : ~IsChat(All'[i]) /\ All'[i] = All'[j] => i = j
    BY <1>1, <1>3, <1>4 DEF Requests
  <2>3. ASSUME NEW i \in 1..Len(All'), NEW j \in 1..Len(All'), i < j,
               IsChat(All'[i]), IsChat(All'[j])
        PROVE  All'[i].n < All'[j].n
    <3>1. i \in 1..Len(All) /\ All'[i] = All[i]
      BY <1>4, <2>3
    <3>2. CASE j = Len(All) + 1
      BY <1>1, <1>3, <1>4, <1>7, <2>3, <3>1, <3>2 DEF Requests
    <3>3. CASE j # Len(All) + 1
      BY <1>1, <1>4, <2>3, <3>1, <3>3 DEF Requests, Rising
    <3> QED  BY <3>2, <3>3
  <2> QED  BY <2>1, <2>2, <2>3 DEF Requests, Rising, IsChat, InitMsg
<1>9. restarts = 0 => IdsAgree'
  <2> SUFFICES ASSUME restarts = 0 PROVE IdsAgree'
    OBVIOUS
  <2>1. IdsAgree /\ mq_clients' = mq_clients
    BY <1>1, <1>2 DEF Exact, server
  <2>2. id[c] < Len(mq_clients) /\ mq_clients[id[c] + 1] = c
    BY <1>1, <1>2, <2>1 DEF IdsAgree, TypeOK
  <2>3. \A i \in 1..Len(All') : IsChat(All'[i]) =>
          All'[i].id < Len(mq_clients) /\ mq_clients[All'[i].id + 1] = All'[i].from
    BY <1>3, <1>4, <2>1, <2>2 DEF IdsAgree
  <2> QED  BY <1>2, <1>5, <2>1, <2>3 DEF IdsAgree, IsChat, ToSet
<1>10. \A d \in Clients : Given(d)' = Given(d)
  BY <1>2 DEF Given
<1> QED  BY <1>2, <1>6, <1>8, <1>9, <1>10, ClientKeeps

-----------------------------------------------------------------------------
(* The server's steps *)

\* The message at hand while it is passed on to the clients.
LEMMA AtHand ==
    ASSUME TypeOK, Table, spc = "relay"
    PROVE  /\ received \in Msg /\ IsChat(received) /\ received.id \in Ids
           /\ Len(log) \in 1..Len(log) /\ log[Len(log)] = received
           /\ Len(log) \in 1..Len(All) /\ All[Len(log)] = received
<1>1. log # <<>> /\ received = log[Len(log)] /\ IsChat(received)
  BY DEF Table
<1>2. Len(log) \in 1..Len(log)
  BY <1>1, EmptySeq, QueueFacts
<1>3. received \in Msg /\ received.id \in Ids
  <2>1. log[Len(log)] \in Msg
    BY <1>2, QueueFacts, ElementOfSeq
  <2>2. \A m \in Msg : m.id \in Ids
    BY DEF Msg
  <2> QED  BY <1>1, <2>1, <2>2
<1> QED  BY <1>1, <1>2, <1>3, QueueFacts

\* A message is taken: the place of a client's request in the log stays.
LEMMA JoinedKept ==
    ASSUME TypeOK, Requests, NEW c \in Clients, NEW k \in 1..Len(log), log[k] = InitMsg(c),
           mq_server # <<>>, log' = Append(log, Head(mq_server))
    PROVE  Joined(c)' = Joined(c)
<1>1. /\ Head(mq_server) \in Msg /\ Len(log) \in Nat /\ Len(log') = Len(log) + 1
      /\ \A i \in 1..Len(log) : log'[i] = log[i]
      /\ log'[Len(log) + 1] = Head(mq_server)
  BY QueueFacts, HeadTailProperties, AppendProperties
<1>2. \A i \in 1..Len(log') : i \in 1..Len(All) /\ log'[i] = All[i]
  <2> SUFFICES ASSUME NEW i \in 1..Len(log') PROVE i \in 1..Len(All) /\ log'[i] = All[i]
    OBVIOUS
  <2>1. CASE i = Len(log) + 1
    BY <1>1, <2>1, QueueFacts
  <2>2. CASE i # Len(log) + 1
    <3>1. i \in 1..Len(log) /\ log'[i] = log[i]
      BY <1>1, <2>2
    <3> QED  BY <3>1, QueueFacts
  <2> QED  BY <2>1, <2>2
<1>3. k \in 1..Len(log') /\ log'[k] = InitMsg(c) /\ ~IsChat(InitMsg(c))
  BY <1>1, MessageTypes
<1>4. \A j \in 1..Len(log') : log'[j] = InitMsg(c) => j = k
  BY <1>2, <1>3 DEF Requests
<1>5. Joined(c)' = k
  BY <1>3, <1>4 DEF Joined, InitMsg
<1> QED  BY <1>5, JoinedKnown

\* A message is taken from the queue to the log: nothing is owed that is not on
\* its way.
LEMMA ReceiveStep == ASSUME IInv, Receive PROVE IInv'
<1> DEFINE m == Head(mq_server)
<1>1. TypeOK /\ Requests /\ Table /\ Logged /\ Exact
  BY DEF IInv
<1>2. /\ spc = "receive" /\ mq_server # <<>> /\ received' = m
      /\ mq_server' = Tail(mq_server) /\ log' = Append(log, m)
      /\ spc' = IF m.type = "INIT" THEN "reply" ELSE "relay"
      /\ at' = 0
      /\ UNCHANGED <<mq_client, mq_clients, restarts, clients>>
      /\ UNCHANGED <<cpc, id, pipe, sent, shown, dead>>
  BY DEF Receive, clients
<1>3. /\ m \in Msg /\ Len(mq_server) \in Nat \ {0} /\ Len(mq_server') = Len(mq_server) - 1
      /\ mq_server' \in Seq(Msg)
      /\ Len(log) + 1 \in 1..Len(All) /\ All[Len(log) + 1] = m
  BY <1>1, <1>2, QueueFacts, HeadTailProperties, EmptySeq
<1>4. /\ log' \in Seq(Msg) /\ Len(log) \in Nat /\ Len(log') = Len(log) + 1
      /\ log'[Len(log) + 1] = m /\ \A i \in 1..Len(log) : log'[i] = log[i]
  BY <1>1, <1>2, <1>3, QueueFacts, AppendProperties
<1>5. All' = All
  BY <1>1, <1>2, QueueFacts, PassedOn DEF All
<1> HIDE DEF m
<1>6. ~IsChat(m) => m.type = "INIT"
  <2>1. ~IsChat(m) => m = InitMsg(m.from)
    BY <1>1, <1>3 DEF Requests
  <2> QED  BY <2>1 DEF InitMsg
<1>7. TypeOK'
  <2>1. 0 \in 0..Cardinality(Clients) /\ Len(mq_server') <= QLen
    BY <1>1, <1>3, SizesAssumption, FS_CardinalityType DEF TypeOK
  <2>2. received' \in Msg
    BY <1>2, <1>3
  <2>3. spc' \in {"receive", "reply", "relay"}
    BY <1>2
  <2> QED  BY <1>1, <1>2, <1>3, <1>4, <2>1, <2>2, <2>3 DEF TypeOK, Ids, Msg
<1>8. Requests'
  BY <1>1, <1>2, <1>5, RequestsKept
<1>9. Table'
  <2>1. log' # <<>> /\ received' = log'[Len(log')] /\ (IsChat(received') <=> spc' = "relay")
    BY <1>2, <1>4, <1>6 DEF IsChat
  <2>2. at' <= Len(mq_clients')
    BY <1>1, <1>2, TableFits
  <2>3. ASSUME NEW i \in 1..Len(mq_clients)
        PROVE  \E k \in 1..Len(log') : log'[k] = InitMsg(mq_clients[i]) /\ k < Len(log')
    <3>1. PICK k \in 1..Len(log) : log[k] = InitMsg(mq_clients[i])
      BY <1>1 DEF Table
    <3>2. k \in 1..Len(log') /\ k < Len(log') /\ log'[k] = log[k]
      BY <1>4
    <3> QED  BY <3>1, <3>2
  <2> QED  BY <1>1, <1>2, <2>1, <2>2, <2>3 DEF Table, IsChat, InitMsg
<1>10. \A c \in Clients : Given(c)' = Given(c)
  BY <1>2 DEF Given
<1>11. Logged'
  <2> SUFFICES ASSUME NEW c \in Clients, NEW i \in 1..Len(Given(c)), IsChat(Given(c)[i])
               PROVE  \E k \in 1..Len(log') : Given(c)[i] = log'[k] /\ k < Len(log')
    BY <1>1, <1>10 DEF Logged, Rising, IsChat
  <2>1. PICK k \in 1..Len(log) : Given(c)[i] = log[k]
    BY <1>1 DEF Logged
  <2>2. k \in 1..Len(log') /\ k < Len(log') /\ log'[k] = log[k]
    BY <1>4
  <2> QED  BY <2>1, <2>2
<1>12. Exact'
  <2> SUFFICES ASSUME restarts = 0 PROVE IdsAgree' /\ \A c \in Clients : GivenExactly(c)'
    BY <1>2 DEF Exact
  <2>1. IdsAgree'
    BY <1>1, <1>2, <1>5, IdsKept DEF Exact
  <2>2. ASSUME NEW c \in Clients PROVE GivenExactly(c)'
    <3>1. GivenExactly(c) /\ (IsRegistered(c)' <=> IsRegistered(c)) /\ IdOf(c)' = IdOf(c)
      BY <1>1, <1>2 DEF Exact, IsRegistered, IdOf
    <3>2. CASE ~IsRegistered(c)
      BY <1>10, <3>1, <3>2 DEF GivenExactly
    <3>3. CASE IsRegistered(c)
      <4>1. PICK i \in 1..Len(mq_clients) : mq_clients[i] = c
        BY <3>3 DEF IsRegistered
      <4>2. PICK k \in 1..Len(log) : log[k] = InitMsg(c)
        BY <1>1, <4>1 DEF Table
      <4>3. Joined(c) = k /\ Joined(c)' = k
        BY <1>1, <1>2, <4>2, JoinedKnown, JoinedKept DEF m
      <4>4. IdOf(c) \in Nat
        BY <1>1, <4>1, IdKnown DEF Ids
      <4>5. Owed(c) = {j \in k..Len(log) : IsChat(log[j]) /\ log[j].from # c}
        BY <1>2, <4>3 DEF Owed, OnTheWay
      <4>6. OnTheWay(c)' <=> IsChat(m) /\ m.from # c
        BY <1>2, <1>6, <3>1, <4>4 DEF OnTheWay, IsChat
      <4>7. Owed(c)' = {j \in k..Len(log') : IsChat(log'[j]) /\ log'[j].from # c}
                          \ (IF IsChat(m) /\ m.from # c THEN {Len(log')} ELSE {})
        BY <4>3, <4>6 DEF Owed, IsChat
      <4>8. Owed(c)' = Owed(c)
        BY <1>4, <4>5, <4>7
      <4>9. /\ Given(c) # <<>> /\ Head(Given(c)) = IdMsg(c, IdOf(c))
            /\ Picks(Tail(Given(c)), log, Owed(c))
        BY <3>1, <3>3 DEF GivenExactly
      <4>10. \A j \in Owed(c) : log'[j] = log[j]
        BY <1>4, <4>5
      <4>11. Picks(Tail(Given(c)), log', Owed(c))
        BY <4>9, <4>10, PicksSame
      <4>12. Picks(Tail(Given(c)'), log', Owed(c)')
        BY <1>10, <4>8, <4>11
      <4> QED  BY <1>10, <3>1, <3>3, <4>9, <4>12 DEF GivenExactly, IdMsg
    <3> QED  BY <3>2, <3>3
  <2> QED  BY <2>1, <2>2
<1> QED  BY <1>7, <1>8, <1>9, <1>11, <1>12 DEF IInv

\* A new client comes behind the others in the table, who keep their ids.
LEMMA IdsStay ==
    ASSUME TypeOK, Table, NEW c \in Clients, ~IsRegistered(c),
           Len(mq_clients) < Cardinality(Clients), mq_clients' = Append(mq_clients, c)
    PROVE  /\ Len(mq_clients') = Len(mq_clients) + 1 /\ mq_clients'[Len(mq_clients) + 1] = c
           /\ \A i \in 1..Len(mq_clients) : mq_clients'[i] = mq_clients[i]
           /\ \A i, j \in 1..Len(mq_clients') : mq_clients'[i] = mq_clients'[j] => i = j
           /\ mq_clients' \in Seq(Clients) /\ Len(mq_clients) \in Ids /\ IdOf(c)' = Len(mq_clients)
           /\ \A d \in Clients : IsRegistered(d) => IsRegistered(d)' /\ IdOf(d)' = IdOf(d)
           /\ \A d \in Clients : IsRegistered(d)' <=> IsRegistered(d) \/ d = c
<1>1. /\ mq_clients' \in Seq(Clients) /\ Len(mq_clients') = Len(mq_clients) + 1
      /\ mq_clients'[Len(mq_clients) + 1] = c
      /\ \A i \in 1..Len(mq_clients) : mq_clients'[i] = mq_clients[i]
  BY AppendProperties DEF TypeOK
<1>2. Len(mq_clients) \in Nat /\ Cardinality(Clients) \in Nat /\ Len(mq_clients) \in Ids
  BY TableFits DEF Ids
<1>3. \A i, j \in 1..Len(mq_clients') : mq_clients'[i] = mq_clients'[j] => i = j
  BY <1>1, <1>2 DEF Table, IsRegistered
<1>4. ASSUME NEW d, NEW i \in Ids, i < Len(mq_clients'), mq_clients'[i + 1] = d
      PROVE  IdOf(d)' = i
  <2>1. \A k \in Ids : k < Len(mq_clients') /\ mq_clients'[k + 1] = d => k = i
    <3> SUFFICES ASSUME NEW k \in Ids, k < Len(mq_clients'), mq_clients'[k + 1] = d
                 PROVE  k = i
      OBVIOUS
    <3>1. k \in Nat /\ i \in Nat /\ k + 1 \in 1..Len(mq_clients') /\ i + 1 \in 1..Len(mq_clients')
      BY <1>1, <1>2, <1>4 DEF Ids
    <3>2. k + 1 = i + 1
      BY <1>3, <1>4, <3>1
    <3> QED  BY <3>1, <3>2
  <2> QED  BY <1>4, <2>1 DEF IdOf, Ids
<1>5. IdOf(c)' = Len(mq_clients)
  BY <1>1, <1>2, <1>4
<1>6. ASSUME NEW d \in Clients, IsRegistered(d)
      PROVE  IsRegistered(d)' /\ IdOf(d)' = IdOf(d)
  <2>1. PICK i \in 1..Len(mq_clients) : mq_clients[i] = d
    BY <1>6 DEF IsRegistered
  <2>2. IdOf(d) = i - 1 /\ i - 1 \in Ids
    BY <2>1, IdKnown
  <2>3. i \in 1..Len(mq_clients') /\ mq_clients'[i] = d /\ (i - 1) + 1 = i /\ i - 1 < Len(mq_clients')
    BY <1>1, <1>2, <2>1
  <2>4. IdOf(d)' = i - 1
    BY <1>4, <2>2, <2>3
  <2> QED  BY <2>2, <2>3, <2>4 DEF IsRegistered
<1>7. \A d \in Clients : IsRegistered(d)' <=> IsRegistered(d) \/ d = c
  BY <1>1, <1>2, <1>6 DEF IsRegistered
<1> QED  BY <1>1, <1>2, <1>3, <1>5, <1>6, <1>7

\* A new client's ID is the first it is given, and nothing is owed to it yet.
LEMMA ReplyStep == ASSUME IInv, Reply PROVE IInv'
<1>1. TypeOK /\ Requests /\ Table /\ Logged /\ Exact /\ spc = "reply"
  BY DEF IInv, Reply
<1> PICK c \in Clients : c = received.from
  BY <1>1, NewClient
<1> DEFINE m == IdMsg(c, Len(mq_clients))
<1>2. /\ spc = "reply" /\ spc' = "receive" /\ Len(mq_client[c]) < QLen
      /\ mq_client' = [mq_client EXCEPT ![c] = Append(@, m)]
      /\ mq_clients' = Append(mq_clients, c)
      /\ UNCHANGED <<mq_server, received, at, restarts, log, clients>>
      /\ UNCHANGED <<cpc, id, pipe, sent, shown, dead>>
  BY DEF Reply, clients, Enqueue, clients_count
<1>3. /\ c \in Clients /\ Len(log) \in 1..Len(log) /\ log[Len(log)] = InitMsg(c)
      /\ ~IsRegistered(c) /\ Len(mq_clients) < Cardinality(Clients)
  BY <1>1, <1>2, NewClient
<1>4. /\ Len(mq_clients') = Len(mq_clients) + 1 /\ mq_clients'[Len(mq_clients) + 1] = c
      /\ \A i \in 1..Len(mq_clients) : mq_clients'[i] = mq_clients[i]
      /\ mq_clients' \in Seq(Clients) /\ Len(mq_clients) \in Ids /\ IdOf(c)' = Len(mq_clients)
      /\ \A d \in Clients : IsRegistered(d) => IsRegistered(d)' /\ IdOf(d)' = IdOf(d)
      /\ \A d \in Clients : IsRegistered(d)' <=> IsRegistered(d) \/ d = c
  BY <1>1, <1>2, <1>3, IdsStay
<1>5. m \in Msg /\ ~IsChat(m) /\ m = IdMsg(c, IdOf(c)')
  BY <1>2, <1>3, <1>4, MessageTypes DEF IsChat, IdMsg
<1> HIDE DEF m
<1>6. /\ Append(mq_client[c], m) \in Seq(Msg)
      /\ Len(mq_client[c]) \in Nat
      /\ Len(Append(mq_client[c], m)) = Len(mq_client[c]) + 1
      /\ shown[c] \o Append(mq_client[c], m) = Append(Given(c), m)
      /\ Given(c) \in Seq(Msg)
  <2> DEFINE s == shown[c]  q == mq_client[c]
  <2>1. s \in Seq(Msg) /\ q \in Seq(Msg)
    BY <1>1, <1>3, QueueFacts
  <2> HIDE DEF s, q
  <2>2. /\ Append(q, m) \in Seq(Msg) /\ Len(q) \in Nat /\ Len(Append(q, m)) = Len(q) + 1
        /\ s \o Append(q, m) = Append(s \o q, m) /\ s \o q \in Seq(Msg)
    BY <1>5, <2>1, PutBehind, LenProperties
  <2> QED  BY <2>2 DEF Given, s, q
<1>7. \A d \in Clients : Given(d)' = IF d = c THEN Append(Given(c), m) ELSE Given(d)
  BY <1>1, <1>2, <1>6 DEF Given, TypeOK
<1>8. /\ Len(mq_clients) \in Nat /\ Cardinality(Clients) \in Nat
      /\ at \in Nat /\ Len(log) \in Nat
  BY <1>1, TableFits, QueueFacts DEF TypeOK
<1>9. TypeOK'
  <2>1. Len(Append(mq_client[c], m)) <= QLen
    BY <1>2, <1>6, SizesAssumption
  <2>2. mq_client' \in [Clients -> Seq(Msg)] /\ \A d \in Clients : Len(mq_client'[d]) <= QLen
    BY <1>1, <1>2, <1>6, <2>1 DEF TypeOK
  <2> QED  BY <1>1, <1>2, <1>4, <2>2 DEF TypeOK
<1>10. All' = All /\ Requests'
  BY <1>1, <1>2, RequestsKept DEF All
<1>11. Table'
  <2>1. \A i, j \in 1..Len(mq_clients') : mq_clients'[i] = mq_clients'[j] => i = j
    BY <1>1, <1>2, <1>3, IdsStay
  <2>2. ASSUME NEW i \in 1..Len(mq_clients')
        PROVE  \E k \in 1..Len(log) : log[k] = InitMsg(mq_clients'[i])
    <3>1. CASE i = Len(mq_clients) + 1
      BY <1>3, <1>4, <3>1
    <3>2. CASE i # Len(mq_clients) + 1
      <4>1. i \in 1..Len(mq_clients) /\ mq_clients'[i] = mq_clients[i]
        BY <1>4, <1>8, <3>2
      <4> QED  BY <1>1, <4>1 DEF Table
    <3> QED  BY <3>1, <3>2
  <2>3. at' <= Len(mq_clients')
    BY <1>1, <1>2, <1>4, <1>8 DEF Table
  <2> QED  BY <1>2, <2>1, <2>2, <2>3 DEF Table, InitMsg
<1>12. Logged'
  <2>1. ASSUME NEW d \in Clients, d # c
        PROVE  /\ Rising(Given(d)')
               /\ \A i \in 1..Len(Given(d)') : IsChat(Given(d)'[i]) =>
                    \E k \in 1..Len(log) : Given(d)'[i] = log[k]
    BY <1>1, <1>7, <2>1 DEF Logged, Rising
  <2>2. /\ Len(Given(c)') = Len(Given(c)) + 1 /\ Given(c)'[Len(Given(c)) + 1] = m
        /\ Len(Given(c)) \in Nat
        /\ \A i \in 1..Len(Given(c)) : Given(c)'[i] = Given(c)[i]
    BY <1>3, <1>5, <1>6, <1>7, AppendProperties, LenProperties
  <2>3. /\ Rising(Given(c))
        /\ \A i \in 1..Len(Given(c)) : IsChat(Given(c)[i]) =>
             \E k \in 1..Len(log) : Given(c)[i] = log[k]
    BY <1>1, <1>3 DEF Logged
  <2>4. Rising(Given(c)')
    BY <1>5, <2>2, <2>3 DEF Rising
  <2>5. \A i \in 1..Len(Given(c)') : IsChat(Given(c)'[i]) =>
          \E k \in 1..Len(log) : Given(c)'[i] = log[k]
    BY <1>5, <2>2, <2>3
  <2> QED  BY <1>2, <2>1, <2>4, <2>5 DEF Logged, Rising, IsChat, Ahead
<1>13. Exact'
  <2> SUFFICES ASSUME restarts = 0 PROVE IdsAgree' /\ \A d \in Clients : GivenExactly(d)'
    BY <1>2 DEF Exact
  <2>1. IdsAgree'
    <3>1. IdsAgree
      BY <1>1 DEF Exact
    <3>2. \A i \in Ids : i < Len(mq_clients) => i < Len(mq_clients') /\ mq_clients'[i + 1] = mq_clients[i + 1]
      BY <1>4, <1>8 DEF Ids
    <3>3. \A d \in Clients, i \in Ids :
            (i \in ToSet(pipe[d]) \/ (cpc[d] = "chat" /\ id[d] = i)) =>
              i < Len(mq_clients') /\ mq_clients'[i + 1] = d
      BY <3>1, <3>2 DEF IdsAgree
    <3>4. \A i \in 1..Len(All) : All[i].id \in Ids
      <4>1. \A x \in Msg : x.id \in Ids
        BY DEF Msg
      <4> QED  BY <1>1, <4>1, QueueFacts, ElementOfSeq
    <3>5. \A i \in 1..Len(All) : IsChat(All[i]) =>
            All[i].id < Len(mq_clients') /\ mq_clients'[All[i].id + 1] = All[i].from
      BY <3>1, <3>2, <3>4 DEF IdsAgree
    <3>6. pipe' = pipe /\ cpc' = cpc /\ id' = id /\ All' = All
      BY <1>2, <1>10
    <3> QED  BY <3>3, <3>5, <3>6 DEF IdsAgree, IsChat
  <2>2. ASSUME NEW d \in Clients, d # c PROVE GivenExactly(d)'
    <3>1. GivenExactly(d) /\ (IsRegistered(d)' <=> IsRegistered(d)) /\ Given(d)' = Given(d)
      BY <1>1, <1>4, <1>7, <2>2 DEF Exact
    <3>2. CASE ~IsRegistered(d)
      BY <3>1, <3>2 DEF GivenExactly
    <3>3. CASE IsRegistered(d)
      <4>1. IdOf(d)' = IdOf(d) /\ Joined(d)' = Joined(d)
        BY <1>2, <1>4, <3>3 DEF Joined, InitMsg
      <4>2. Owed(d)' = Owed(d)
        BY <1>2, <4>1 DEF Owed, OnTheWay, IsChat
      <4>3. /\ Given(d) # <<>> /\ Head(Given(d)) = IdMsg(d, IdOf(d))
            /\ Picks(Tail(Given(d)), log, Owed(d))
        BY <3>1, <3>3 DEF GivenExactly
      <4>4. Picks(Tail(Given(d)'), log', Owed(d)')
        BY <1>2, <3>1, <4>2, <4>3
      <4> QED  BY <3>1, <3>3, <4>1, <4>3, <4>4 DEF GivenExactly, IdMsg
    <3> QED  BY <3>2, <3>3
  <2>3. GivenExactly(c)'
    <3>1. Given(c) = <<>> /\ IsRegistered(c)'
      BY <1>1, <1>3, <1>4 DEF Exact, GivenExactly
    <3>2. Given(c)' # <<>> /\ Head(Given(c)') = m /\ Tail(Given(c)') = <<>>
      <4>1. Given(c)' = Append(<<>>, m)
        BY <1>7, <3>1
      <4>2. Append(<<>>, m) = <<m>> /\ <<m>> # <<>> /\ Head(<<m>>) = m /\ Tail(<<m>>) = <<>>
        OBVIOUS
      <4> QED  BY <4>1, <4>2
    <3>3. Joined(c)' = Len(log)
      <4>1. Joined(c) = Len(log)
        BY <1>1, <1>3, JoinedKnown
      <4> QED  BY <1>2, <4>1 DEF Joined, InitMsg
    <3>4. Owed(c)' = {}
      <4>1. \A k \in Len(log)..Len(log) : ~IsChat(log[k])
        BY <1>3, <1>8, MessageTypes
      <4> QED  BY <1>2, <3>3, <4>1 DEF Owed, IsChat
    <3>5. Picks(Tail(Given(c)'), log', Owed(c)')
      BY <3>2, <3>4, PicksNothing
    <3>6. Head(Given(c)') = IdMsg(c, IdOf(c)')
      BY <1>5, <3>2
    <3> QED  BY <3>1, <3>2, <3>5, <3>6 DEF GivenExactly, IdMsg
  <2> QED  BY <2>2, <2>3, <2>1
<1> QED  BY <1>9, <1>10, <1>11, <1>12, <1>13 DEF IInv

\* A client that the loop passes over wrote the message; one that it does not is
\* given the message at last.
LEMMA RelayOneStep == ASSUME IInv, RelayOne PROVE IInv'
<1>1. TypeOK /\ Requests /\ Table /\ Logged /\ Exact /\ spc = "relay" /\ at < Len(mq_clients)
  BY DEF IInv, RelayOne
<1>2. /\ Len(mq_clients) \in Nat /\ Cardinality(Clients) \in Nat /\ at \in Nat
      /\ Len(mq_clients) <= Cardinality(Clients)
      /\ at + 1 \in 1..Len(mq_clients) /\ mq_clients[at + 1] \in Clients
  BY <1>1, TableFits DEF TypeOK
<1> PICK c \in Clients : c = mq_clients[at + 1]
  BY <1>2
<1> DEFINE m == received
<1>3. /\ IF at = m.id THEN UNCHANGED mq_client
         ELSE /\ Len(mq_client[c]) < QLen
              /\ mq_client' = [mq_client EXCEPT ![c] = Append(@, m)]
      /\ at' = at + 1
      /\ UNCHANGED <<mq_server, mq_clients, spc, received, restarts, log>>
      /\ UNCHANGED <<cpc, id, pipe, sent, shown, dead>>
  BY DEF RelayOne, SkipThis, Following, Enqueue, clients
<1>4. /\ m \in Msg /\ IsChat(m) /\ m.id \in Ids
      /\ Len(log) \in 1..Len(log) /\ log[Len(log)] = m
      /\ Len(log) \in 1..Len(All) /\ All[Len(log)] = m
  BY <1>1, AtHand
<1> HIDE DEF m
<1>5. IdOf(c) = at
  BY <1>1, <1>2, IdKnown
<1>6. \A d \in Clients : IsRegistered(d) /\ d # c => IdOf(d) \in Nat /\ IdOf(d) # at
  <2> SUFFICES ASSUME NEW d \in Clients, IsRegistered(d), d # c
               PROVE  IdOf(d) \in Nat /\ IdOf(d) # at
    OBVIOUS
  <2>1. PICK i \in 1..Len(mq_clients) : mq_clients[i] = d
    BY DEF IsRegistered
  <2> QED  BY <1>1, <1>2, <2>1, IdKnown
<1>7. \A d \in Clients : (Ahead(d)' => Ahead(d)) /\ (Ahead(c) /\ ~Ahead(c)')
  <2>1. \A i \in 1..Len(mq_clients) : mq_clients[i] = c => i = at + 1
    BY <1>1, <1>2 DEF Table
  <2> QED  BY <1>1, <1>2, <1>3, <2>1 DEF Ahead
<1>8. ASSUME restarts = 0
      PROVE  IdsAgree /\ (m.from = c <=> at = m.id)
  <2>1. IdsAgree /\ m.id < Len(mq_clients) /\ mq_clients[m.id + 1] = m.from
    BY <1>1, <1>4, <1>8 DEF Exact, IdsAgree
  <2>2. m.id + 1 \in 1..Len(mq_clients) /\ m.id \in Nat
    BY <1>2, <1>4, <2>1 DEF Ids
  <2>3. m.from = c => m.id + 1 = at + 1
    BY <1>1, <1>2, <2>1, <2>2 DEF Table
  <2> QED  BY <1>2, <2>1, <2>2, <2>3
<1>9. \A d \in Clients : IsRegistered(d) /\ d # c => (OnTheWay(d)' <=> OnTheWay(d))
  <2>1. \A d \in Clients : IdOf(d)' = IdOf(d)
    BY <1>3 DEF IdOf
  <2> QED  BY <1>1, <1>2, <1>3, <1>6, <2>1 DEF OnTheWay
<1>10. OnTheWay(c) <=> m.from # c
  BY <1>1, <1>2, <1>5 DEF OnTheWay, m
<1>11. ~OnTheWay(c)'
  <2>1. IdOf(c)' = at
    BY <1>3, <1>5 DEF IdOf
  <2> QED  BY <1>2, <1>3, <2>1 DEF OnTheWay
<1>12. All' = All /\ Requests'
  BY <1>1, <1>3, RequestsKept DEF All
<1>13. Table'
  BY <1>1, <1>2, <1>3 DEF Table, IsChat, InitMsg
<1>14. at' \in 0..Cardinality(Clients) /\ (restarts = 0 => IdsAgree')
  BY <1>2, <1>3, <1>8, <1>12, IdsKept
<1>15. CASE at = m.id
  <2>1. \A d \in Clients : Given(d)' = Given(d)
    BY <1>3, <1>15 DEF Given
  <2>2. TypeOK'
    BY <1>1, <1>3, <1>14, <1>15 DEF TypeOK
  <2>3. Logged'
    BY <1>1, <1>3, <1>7, <2>1, LoggedKept
  <2>4. Exact'
    <3> SUFFICES ASSUME restarts = 0, NEW d \in Clients PROVE GivenExactly(d)'
      BY <1>3, <1>14 DEF Exact
    <3>1. OnTheWay(c)' <=> OnTheWay(c)
      BY <1>8, <1>10, <1>11, <1>15
    <3> QED  BY <1>1, <1>3, <1>9, <2>1, <3>1, GivenKept DEF Exact
  <2> QED  BY <1>12, <1>13, <2>2, <2>3, <2>4 DEF IInv
<1>16. CASE at # m.id
  <2>1. /\ Append(mq_client[c], m) \in Seq(Msg)
        /\ Len(mq_client[c]) \in Nat
        /\ Len(Append(mq_client[c], m)) = Len(mq_client[c]) + 1
        /\ shown[c] \o Append(mq_client[c], m) = Append(Given(c), m)
        /\ Given(c) \in Seq(Msg)
    <3> DEFINE s == shown[c]  q == mq_client[c]
    <3>1. s \in Seq(Msg) /\ q \in Seq(Msg)
      BY <1>1, QueueFacts
    <3> HIDE DEF s, q
    <3>2. /\ Append(q, m) \in Seq(Msg) /\ Len(q) \in Nat /\ Len(Append(q, m)) = Len(q) + 1
          /\ s \o Append(q, m) = Append(s \o q, m) /\ s \o q \in Seq(Msg)
      BY <1>4, <3>1, PutBehind, LenProperties
    <3> QED  BY <3>2 DEF Given, s, q
  <2>2. \A d \in Clients : Given(d)' = IF d = c THEN Append(Given(c), m) ELSE Given(d)
    BY <1>1, <1>3, <1>16, <2>1 DEF Given, TypeOK
  <2>3. TypeOK'
    <3>1. Len(Append(mq_client[c], m)) <= QLen
      BY <1>3, <1>16, <2>1, SizesAssumption
    <3>2. mq_client' \in [Clients -> Seq(Msg)] /\ \A d \in Clients : Len(mq_client'[d]) <= QLen
      BY <1>1, <1>3, <1>16, <2>1, <3>1 DEF TypeOK
    <3> QED  BY <1>1, <1>3, <1>14, <3>2 DEF TypeOK
  <2>4. /\ Len(Given(c)') = Len(Given(c)) + 1 /\ Given(c)'[Len(Given(c)) + 1] = m
        /\ Len(Given(c)) \in Nat
        /\ \A i \in 1..Len(Given(c)) : Given(c)'[i] = Given(c)[i]
    BY <1>4, <2>1, <2>2, AppendProperties, LenProperties
  <2>5. Logged'
    <3>1. ASSUME NEW d \in Clients, d # c
          PROVE  /\ Rising(Given(d)')
                 /\ \A i \in 1..Len(Given(d)') : IsChat(Given(d)'[i]) =>
                      \E k \in 1..Len(log) : Given(d)'[i] = log[k] /\ (Ahead(d)' => k < Len(log))
      BY <1>1, <1>7, <2>2, <3>1 DEF Logged, Rising
    <3>2. /\ Rising(Given(c))
          /\ \A i \in 1..Len(Given(c)) : IsChat(Given(c)[i]) =>
               \E k \in 1..Len(log) : Given(c)[i] = log[k] /\ k < Len(log)
      BY <1>1, <1>7 DEF Logged
    <3>3. \A i \in 1..Len(Given(c)) : IsChat(Given(c)[i]) => Given(c)[i].n < m.n
      <4> SUFFICES ASSUME NEW i \in 1..Len(Given(c)), IsChat(Given(c)[i])
                   PROVE  Given(c)[i].n < m.n
        OBVIOUS
      <4>1. PICK k \in 1..Len(log) : Given(c)[i] = log[k] /\ k < Len(log)
        BY <3>2
      <4>2. k \in 1..Len(All) /\ All[k] = log[k]
        BY <1>1, QueueFacts
      <4> QED  BY <1>1, <1>4, <4>1, <4>2 DEF Requests, Rising
    <3>4. Rising(Given(c)')
      BY <2>4, <3>2, <3>3 DEF Rising
    <3>5. \A i \in 1..Len(Given(c)') : IsChat(Given(c)'[i]) =>
            \E k \in 1..Len(log) : Given(c)'[i] = log[k]
      BY <1>4, <2>4, <3>2
    <3> QED  BY <1>3, <1>7, <3>1, <3>4, <3>5 DEF Logged, Rising, IsChat
  <2>6. Exact'
    <3> SUFFICES ASSUME restarts = 0, NEW d \in Clients PROVE GivenExactly(d)'
      BY <1>3, <1>14 DEF Exact
    <3>1. CASE d # c
      BY <1>1, <1>3, <1>9, <2>2, <3>1, GivenKept DEF Exact
    <3>2. CASE d = c
      <4>1. IsRegistered(c) /\ IsRegistered(c)' /\ IdOf(c)' = IdOf(c) /\ Joined(c)' = Joined(c)
        BY <1>2, <1>3 DEF IsRegistered, IdOf, Joined, InitMsg
      <4>2. /\ Given(c) # <<>> /\ Head(Given(c)) = IdMsg(c, IdOf(c))
            /\ Picks(Tail(Given(c)), log, Owed(c))
        BY <1>1, <4>1 DEF Exact, GivenExactly
      <4>3. PICK k \in 1..Len(log) : log[k] = InitMsg(c)
        BY <1>1, <1>2 DEF Table
      <4>4. Joined(c) = k
        BY <1>1, <4>3, JoinedKnown
      <4>5. Owed(c) = {j \in k..Len(log) : IsChat(log[j]) /\ log[j].from # c} \ {Len(log)}
        BY <1>8, <1>10, <1>16, <4>4 DEF Owed
      <4>6. Owed(c)' = {j \in k..Len(log) : IsChat(log[j]) /\ log[j].from # c}
        BY <1>3, <1>11, <4>1, <4>4 DEF Owed, IsChat
      <4>7. Owed(c)' = Owed(c) \cup {Len(log)}
        BY <1>4, <1>8, <1>16, <4>5, <4>6
      <4>8. Owed(c) \in SUBSET Nat /\ \A p \in Owed(c) : p < Len(log)
        BY <1>4, <4>5
      <4>9. /\ Tail(Given(c)) \in Seq(Msg)
            /\ Given(c)' # <<>> /\ Head(Given(c)') = Head(Given(c))
            /\ Tail(Given(c)') = Append(Tail(Given(c)), m)
        <5> DEFINE s == Given(c)
        <5>1. s \in Seq(Msg) /\ s # <<>>
          BY <2>1, <4>2
        <5> HIDE DEF s
        <5>2. /\ Tail(s) \in Seq(Msg) /\ Append(s, m) # <<>>
              /\ Head(Append(s, m)) = Head(s) /\ Tail(Append(s, m)) = Append(Tail(s), m)
          BY <1>4, <5>1, HeadTailAppend, HeadTailProperties, AppendProperties
        <5> QED  BY <2>2, <5>2 DEF s
      <4>10. Picks(Append(Tail(Given(c)), m), log, Owed(c) \cup {Len(log)})
        <5>1. Picks(Append(Tail(Given(c)), log[Len(log)]), log, Owed(c) \cup {Len(log)})
          <6> DEFINE t == Tail(Given(c))  P == Owed(c)  last == Len(log)
          <6>1. /\ t \in Seq(Msg) /\ P \in SUBSET Nat /\ Picks(t, log, P)
                /\ last \in Nat /\ \A p \in P : p < last
                /\ log[last] \in Msg
            BY <1>1, <1>4, <4>2, <4>8, <4>9, QueueFacts
          <6> HIDE DEF t, P, last
          <6>2. Picks(Append(t, log[last]), log, P \cup {last})
            BY <6>1, PicksOneMore
          <6> QED  BY <6>2 DEF t, P, last
        <5> QED  BY <1>4, <5>1
      <4>11. Picks(Tail(Given(c)'), log', Owed(c)')
        BY <1>3, <4>7, <4>9, <4>10
      <4> QED  BY <3>2, <4>1, <4>2, <4>9, <4>11 DEF GivenExactly, IdMsg
    <3> QED  BY <3>1, <3>2
  <2> QED  BY <1>12, <1>13, <2>3, <2>5, <2>6 DEF IInv
<1> QED  BY <1>15, <1>16

\* At the end of the loop nothing is on its way any more.
LEMMA RelayDoneStep == ASSUME IInv, RelayDone PROVE IInv'
<1>1. TypeOK /\ Requests /\ Table /\ Logged /\ Exact
  BY DEF IInv
<1>2. /\ spc = "relay" /\ at = Len(mq_clients) /\ spc' = "receive" /\ at' = 0
      /\ UNCHANGED <<mq_server, mq_client, mq_clients, received, restarts, log>>
      /\ UNCHANGED <<cpc, id, pipe, sent, shown, dead>>
  BY DEF RelayDone, clients
<1>3. Len(mq_clients) \in Nat /\ Cardinality(Clients) \in Nat
  BY <1>1, TableFits
<1>4. TypeOK' /\ Table'
  BY <1>1, <1>2, <1>3 DEF TypeOK, Table, InitMsg
<1>5. All' = All /\ Requests'
  BY <1>1, <1>2, RequestsKept DEF All
<1>6. \A d \in Clients : Given(d)' = Given(d) /\ ~Ahead(d)'
  BY <1>2 DEF Given, Ahead
<1>7. Logged'
  BY <1>1, <1>2, <1>6, LoggedKept
<1>8. \A d \in Clients : IsRegistered(d) => ~OnTheWay(d) /\ ~OnTheWay(d)'
  <2> SUFFICES ASSUME NEW d \in Clients, IsRegistered(d) PROVE ~OnTheWay(d)
    BY <1>2 DEF OnTheWay
  <2>1. PICK i \in 1..Len(mq_clients) : mq_clients[i] = d
    BY DEF IsRegistered
  <2> QED  BY <1>1, <1>2, <1>3, <2>1, IdKnown DEF OnTheWay
<1>9. Exact'
  <2> SUFFICES ASSUME restarts = 0 PROVE IdsAgree' /\ \A d \in Clients : GivenExactly(d)'
    BY <1>2 DEF Exact
  <2>1. IdsAgree'
    BY <1>1, <1>2, <1>5, IdsKept DEF Exact
  <2> QED  BY <1>1, <1>2, <1>6, <1>8, <2>1, GivenKept DEF Exact
<1> QED  BY <1>4, <1>5, <1>7, <1>9 DEF IInv

\* A new server knows nobody; what is in the queues stays.
LEMMA RestartStep == ASSUME IInv, Restart PROVE IInv'
<1>1. TypeOK /\ Requests /\ Table /\ Logged
  BY DEF IInv
<1>2. /\ restarts < MaxRestarts /\ restarts' = restarts + 1 /\ mq_clients' = <<>>
      /\ spc' = "receive" /\ received' = <<>> /\ at' = 0
      /\ UNCHANGED <<mq_server, mq_client, log>>
      /\ UNCHANGED <<cpc, id, pipe, sent, shown, dead>>
  BY DEF Restart, clients
<1>3. Cardinality(Clients) \in Nat /\ restarts \in Nat /\ MaxRestarts \in Nat
  BY <1>1, TableFits, SizesAssumption DEF TypeOK
<1>4. TypeOK'
  BY <1>1, <1>2, <1>3 DEF TypeOK
<1>5. Table'
  <2>1. Len(<<>>) = 0 /\ 1..0 = {}
    OBVIOUS
  <2> QED  BY <1>2, <2>1 DEF Table
<1>6. All' = All /\ Requests'
  BY <1>1, <1>2, RequestsKept DEF All
<1>7. Logged'
  BY <1>1, <1>2, LoggedKept DEF Given, Ahead
<1>8. restarts' # 0
  BY <1>2, <1>3
<1> QED  BY <1>4, <1>5, <1>6, <1>7, <1>8 DEF IInv, Exact

\* A step that changes nothing.
LEMMA StutterStep == ASSUME IInv, UNCHANGED vars PROVE IInv'
<1>1. TypeOK /\ Requests /\ Exact
  BY DEF IInv
<1>2. /\ UNCHANGED <<mq_server, mq_client, server>>
      /\ UNCHANGED <<cpc, id, pipe, sent, shown, dead>>
      /\ UNCHANGED <<mq_clients, spc, received, at, restarts, log>>
  BY DEF vars, server, clients
<1>3. TypeOK'
  BY <1>1, <1>2 DEF TypeOK
<1>4. All' = All /\ mq_clients' = mq_clients
  BY <1>2 DEF All
<1>5. IdsAgree => IdsAgree'
  BY <1>2, <1>4, IdsKept
<1>6. \A d \in Clients : Given(d)' = Given(d)
  BY <1>2 DEF Given
<1>7. Requests'
  BY <1>1, <1>2, <1>4, RequestsKept
<1> QED  BY <1>1, <1>2, <1>3, <1>5, <1>6, <1>7, ClientKeeps DEF Exact

-----------------------------------------------------------------------------
(* The invariant holds, and what follows from it *)

LEMMA InitialInvariant == ASSUME Init PROVE IInv
<1>1. Len(<<>>) = 0 /\ 1..0 = {} /\ <<>> \o <<>> = <<>>
  OBVIOUS
<1>2. Cardinality(Clients) \in Nat \ {0} \/ Clients = {}
  BY SizesAssumption, FS_CardinalityType, FS_EmptySet
<1>3. TypeOK
  <2>1. Clients # {} => 0 \in Ids
    BY <1>2 DEF Ids
  <2>2. id \in [Clients -> Ids]
    BY <2>1 DEF Init
  <2> QED  BY <1>1, <1>2, <2>2, SizesAssumption, FS_CardinalityType DEF Init, TypeOK
<1>4. All = <<>> /\ \A c \in Clients : Given(c) = <<>>
  BY <1>1 DEF Init, All, Given
<1>5. Requests /\ Table /\ Logged
  BY <1>1, <1>4 DEF Init, Requests, Rising, Table, Logged
<1>6. IdsAgree
  <2>1. \A c \in Clients : ToSet(pipe[c]) = {} /\ cpc[c] # "chat"
    BY <1>1 DEF Init, ToSet
  <2> QED  BY <1>1, <1>4, <2>1 DEF IdsAgree
<1>7. \A c \in Clients : GivenExactly(c)
  BY <1>1, <1>4 DEF Init, GivenExactly, IsRegistered
<1> QED  BY <1>3, <1>5, <1>6, <1>7 DEF IInv, Exact

\* The inductive invariant holds in every state.
THEOREM Invariance == Spec => []IInv
<1>1. Init => IInv
  BY InitialInvariant
<1>2. IInv /\ [Next]_vars => IInv'
  <2> SUFFICES ASSUME IInv, [Next]_vars PROVE IInv'
    OBVIOUS
  <2>1. CASE Server
    BY <2>1, ReceiveStep, ReplyStep, RelayOneStep, RelayDoneStep DEF Server
  <2>2. CASE Restart
    BY <2>2, RestartStep
  <2>3. CASE \E c \in Clients :
               OpenQueue(c) \/ SendInit(c) \/ ReadId(c) \/ SendLine(c) \/ Show(c) \/ Kill(c)
    BY <2>3, OpenQueueStep, SendInitStep, ReadIdStep, SendLineStep, ShowStep, KillStep
  <2>4. CASE UNCHANGED vars
    BY <2>4, StutterStep
  <2> QED  BY <2>1, <2>2, <2>3, <2>4 DEF Next
<1> QED  BY <1>1, <1>2, PTL DEF Spec

\* The variables have the types that the queues, the table and the messages of
\* server.c and client.c give them; no queue exceeds its length and no id the
\* number of clients.
THEOREM TypeCorrect == Spec => []TypeOK
<1>1. IInv => TypeOK
  BY DEF IInv
<1> QED  BY <1>1, Invariance, PTL

\* Every registered client is given its id and then what the others have said
\* since it asked for it, as long as the server is not restarted (server.c:24-61).
THEOREM DeliveredToEach == Spec => []DeliveredExactly
<1>1. IInv => DeliveredExactly
  <2> SUFFICES ASSUME IInv, restarts = 0, NEW c \in ToSet(mq_clients)
               PROVE  /\ Given(c) # <<>> /\ Head(Given(c)) = IdMsg(c, IdOf(c))
                      /\ Picks(Tail(Given(c)), log, Owed(c))
                      /\ cpc[c] = "chat" => id[c] = IdOf(c)
    BY DEF DeliveredExactly
  <2>1. TypeOK /\ Table /\ Exact
    BY DEF IInv
  <2>2. PICK i \in 1..Len(mq_clients) : mq_clients[i] = c
    <3>1. DOMAIN mq_clients = 1..Len(mq_clients)
      BY <2>1, LenProperties DEF TypeOK
    <3> QED  BY <3>1 DEF ToSet
  <2>3. c \in Clients /\ IsRegistered(c)
    BY <2>1, <2>2, TableFits DEF IsRegistered
  <2>4. GivenExactly(c)
    BY <2>1, <2>3 DEF Exact
  <2>5. cpc[c] = "chat" => id[c] = IdOf(c)
    <3> SUFFICES ASSUME cpc[c] = "chat" PROVE id[c] = IdOf(c)
      OBVIOUS
    <3>1. id[c] \in Ids /\ id[c] < Len(mq_clients) /\ mq_clients[id[c] + 1] = c
      BY <2>1, <2>3 DEF Exact, IdsAgree, TypeOK
    <3>2. id[c] + 1 \in 1..Len(mq_clients) /\ id[c] \in Nat
      BY <2>1, <3>1, TableFits DEF Ids
    <3> QED  BY <2>1, <3>1, <3>2, IdKnown
  <2> QED  BY <2>3, <2>4, <2>5 DEF GivenExactly
<1> QED  BY <1>1, Invariance, PTL

\* Clients see the messages that they have in common in the same order, and none
\* twice, whatever dies or is restarted (server.c:45-53, client.c:53-69).
THEOREM CommonOrder == Spec => []SameOrder
<1>1. IInv => SameOrder
  <2> SUFFICES ASSUME IInv PROVE SameOrder
    OBVIOUS
  <2>1. TypeOK /\ Logged
    BY DEF IInv
  <2>2. ASSUME NEW c \in Clients
        PROVE  /\ DOMAIN shown[c] = 1..Len(shown[c]) /\ Len(shown[c]) \in Nat
               /\ \A i \in 1..Len(shown[c]) : shown[c][i].n \in Nat
               /\ \A i, j \in 1..Len(shown[c]) :
                    i < j /\ IsChat(shown[c][i]) /\ IsChat(shown[c][j]) => shown[c][i].n < shown[c][j].n
    <3> DEFINE s == shown[c]  q == mq_client[c]
    <3>1. s \in Seq(Msg) /\ q \in Seq(Msg) /\ Rising(s \o q)
      BY <2>1 DEF TypeOK, Logged, Given
    <3> HIDE DEF s, q
    <3>2. /\ DOMAIN s = 1..Len(s) /\ Len(s) \in Nat
          /\ \A i \in 1..Len(s) : i \in 1..Len(s \o q) /\ (s \o q)[i] = s[i] /\ s[i] \in Msg
      BY <3>1, InARow, LenProperties, ElementOfSeq
    <3>3. \A m \in Msg : m.n \in Nat
      BY SizesAssumption DEF Msg
    <3>4. \A i, j \in 1..Len(s) : i < j /\ IsChat(s[i]) /\ IsChat(s[j]) => s[i].n < s[j].n
      BY <3>1, <3>2 DEF Rising
    <3> QED  BY <3>2, <3>3, <3>4 DEF s
  <2>3. ASSUME NEW c \in Clients, NEW d \in Clients,
               NEW i \in DOMAIN shown[c], NEW j \in DOMAIN shown[c],
               NEW k \in DOMAIN shown[d], NEW l \in DOMAIN shown[d],
               IsChat(shown[c][i]), shown[c][i] = shown[d][k],
               IsChat(shown[c][j]), shown[c][j] = shown[d][l]
        PROVE  i < j => k < l
    <3> SUFFICES ASSUME i < j, ~(k < l) PROVE FALSE
      OBVIOUS
    <3>1. shown[c][i].n < shown[c][j].n /\ shown[c][i].n \in Nat /\ shown[c][j].n \in Nat
      BY <2>2, <2>3
    <3>2. k \in Nat /\ l \in Nat /\ (k = l \/ l < k)
      BY <2>2
    <3>3. k # l
      BY <2>3, <3>1
    <3>4. shown[d][l].n < shown[d][k].n
      BY <2>2, <2>3, <3>2, <3>3
    <3> QED  BY <2>3, <3>1, <3>4
  <2> QED  BY <2>3 DEF SameOrder
<1> QED  BY <1>1, Invariance, PTL
=============================================================================
