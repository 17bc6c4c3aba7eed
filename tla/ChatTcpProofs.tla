--------------------------- MODULE ChatTcpProofs ---------------------------
(***************************************************************************)
(* Theorems about ChatTcp for every number of clients, every size of the   *)
(* table, any number of lines and of clients that die silently, messages   *)
(* run together by recv() or not.  They are about every behaviour of the   *)
(* server, those included in which it loses one of its two races; what the *)
(* table and the messages are worth is stated up to the first race lost.   *)
(***************************************************************************)
EXTENDS ChatTcp, FiniteSetsExt, FiniteSetTheorems, SequenceTheorems, WellFoundedInduction, TLAPS

\* A non-empty set of natural numbers has a least element, Min's.
LEMMA Least ==
    ASSUME NEW S, S \subseteq Nat, S # {}
    PROVE  Min(S) \in S /\ \A x \in S: Min(S) <= x
<1>. DEFINE Below == {0..n: n \in S}
<1>1. Below \subseteq FiniteSubsetsOf(Nat) /\ Below # {}
  <2>1. ASSUME NEW n \in S PROVE 0..n \in FiniteSubsetsOf(Nat)
    <3>1. n \in Nat /\ 0..n \subseteq Nat
      OBVIOUS
    <3>2. IsFiniteSet(0..n)
      BY <3>1, FS_Interval
    <3>. QED BY <3>1, <3>2 DEF FiniteSubsetsOf
  <2>. QED BY <2>1
<1>2. PICK b \in Below: \A a \in Below: <<a, b>> \notin StrictSubsetOrdering(Nat)
    BY <1>1, FS_StrictSubsetOrderingWellFounded, WFMin
<1>3. PICK n \in S: b = 0..n
    BY <1>2
<1>4. \A m \in S: n <= m
  <2>. SUFFICES ASSUME NEW m \in S, m < n PROVE FALSE
    OBVIOUS
  <2>1. 0..m \subseteq 0..n /\ n \in 0..n /\ n \notin 0..m
    OBVIOUS
  <2>2. <<0..m, 0..n>> \in StrictSubsetOrdering(Nat)
    BY <2>1 DEF StrictSubsetOrdering
  <2>. QED BY <1>2, <1>3, <2>2
<1>. QED BY <1>4 DEF Min

LEMMA Strangers == Nobody \notin Clients /\ All \notin Clients /\ Listing \notin Clients
BY SizesAssumption DEF Nobody, All, Listing

Inboxes == [Clients -> Seq(Commands \cup {Hello})]
Points == {"none", "start", "id", "add", "recv", "act", "bcast", "close", "unlist", "end"}
States == {"off", "backlog", "open", "gone"}

\* What holds whatever is lost.
Basics == TypeOK /\ DescriptorsFaithful /\ SocketsKnown

-----------------------------------------------------------------------------
(* Helpers *)

\* What is left in an inbox after a recv() is a sequence of messages.
LEMMA InboxRest ==
    ASSUME NEW S, NEW q \in Seq(S), NEW n \in Batch(q), q # <<>>
    PROVE  SubSeq(q, n + 1, Len(q)) \in Seq(S) /\ Head(q) \in S
<1>1. Len(q) \in Nat /\ n \in Int /\ n >= 1
    BY DEF Batch
<1>2. \A i \in (n + 1)..Len(q) : q[i] \in S
    BY <1>1
<1>3. SubSeq(q, n + 1, Len(q)) \in Seq(S)
    BY <1>1, <1>2, SubSeqProperties
<1>. QED BY <1>3, HeadTailProperties

\* accept() finds a free descriptor for a client that has none yet.
LEMMA DescriptorFree ==
    ASSUME TypeOK, DescriptorsFaithful, NEW c \in Clients,
           \A f \in Fds : fdOf[f] # c
    PROVE  LowestFree \in Fds /\ fdOf[LowestFree] = Nobody
<1>. DEFINE N == Cardinality(Clients)
            Used == {f \in Fds : fdOf[f] # Nobody}
            g == [f \in Used |-> fdOf[f]]
            Frees == {f \in Fds : fdOf[f] = Nobody}
<1>1. IsFiniteSet(Clients) /\ N \in Nat
    BY SizesAssumption, FS_CardinalityType
<1>2. IsFiniteSet(Clients \ {c}) /\ Cardinality(Clients \ {c}) = N - 1
    BY <1>1, FS_RemoveElement
<1>3. IsFiniteSet(Fds) /\ Cardinality(Fds) = N
    BY <1>1, FS_Interval DEF Fds
<1>4. g \in [Used -> Clients \ {c}]
    BY DEF TypeOK
<1>5. \A f, h \in Used : g[f] = g[h] => f = h
    BY DEF DescriptorsFaithful
<1>6. g \in Injection(Used, Clients \ {c})
    BY <1>4, <1>5 DEF Injection, IsInjective
<1>7. Cardinality(Used) <= N - 1
    BY <1>2, <1>6, FS_Injection
<1>. HIDE DEF N, Used, g
<1>8. Used # Fds
    BY <1>1, <1>3, <1>7
<1>9. Frees # {} /\ Frees \subseteq Fds
    BY <1>8 DEF Used
<1>10. LowestFree = Min(Frees)
    BY DEF LowestFree
<1>. HIDE DEF Frees
<1>11. Frees \subseteq Nat
    BY <1>1, <1>9 DEF Fds, N
<1>12. Min(Frees) \in Frees
    BY <1>9, <1>11, Least
<1>. QED BY <1>10, <1>12 DEF Frees

-----------------------------------------------------------------------------
(* Steps that leave the server's bookkeeping alone *)

\* What accepted and gone connections stay.
ConnKept ==
    /\ conn' \in [Clients -> States]
    /\ \A c \in Clients :
         /\ conn[c] \in {"open", "gone"} => conn'[c] \in {"open", "gone"}
         /\ conn[c] = "gone" => conn'[c] = "gone"

LEMMA ServerKept ==
    ASSUME TypeOK, ConnKept, UNCHANGED serverVars, UNCHANGED wire
    PROVE  /\ DescriptorsFaithful => DescriptorsFaithful'
           /\ SocketsKnown => SocketsKnown'
           /\ OwnSocket => OwnSocket'
           /\ NotReused => NotReused'
           /\ EntriesOwned => EntriesOwned'
           /\ Deliveries => Deliveries'
<1>1. UNCHANGED <<fdOf, arg, pending, tpc, sock, name, cmd, entry, got>>
    BY DEF serverVars, mainVars, handlers, wire
<1>2. \A c \in Clients : Accepted(c)' = Accepted(c) /\ Removed(c)' = Removed(c)
    BY <1>1 DEF Accepted, Removed
<1>3. \A f \in Fds : fdOf[f] # Nobody => fdOf[f] \in Clients
    BY DEF TypeOK
<1>4. DescriptorsFaithful => DescriptorsFaithful'
    BY <1>1, <1>2, <1>3 DEF DescriptorsFaithful, ConnKept
<1>5. (SocketsKnown => SocketsKnown') /\ (OwnSocket => OwnSocket')
    BY <1>1 DEF SocketsKnown, OwnSocket
<1>6. (NotReused => NotReused') /\ (Deliveries => Deliveries')
    BY <1>1 DEF NotReused, Deliveries
<1>7. \A t \in Clients : Registered(t) => Registered(t)'
    BY <1>1, <1>2 DEF Registered, ConnKept
<1>8. EntriesOwned => EntriesOwned'
    BY <1>1, <1>7 DEF EntriesOwned
<1>. QED BY <1>4, <1>5, <1>6, <1>8

\* A client changes its own connection and what is on its way to the server.
LEMMA ClientStep ==
    ASSUME TypeOK, NEW c \in Clients, Client(c)
    PROVE  /\ ConnKept /\ UNCHANGED serverVars /\ UNCHANGED wire
           /\ greeted' \in SUBSET Clients /\ cmds' \in 0..MaxCmds
           /\ inbox' \in Inboxes
<1>1. /\ conn \in [Clients -> States] /\ greeted \in SUBSET Clients
      /\ inbox \in Inboxes /\ cmds \in 0..MaxCmds /\ MaxCmds \in Nat
    BY SizesAssumption DEF TypeOK, States, Inboxes
<1>2. UNCHANGED serverVars /\ UNCHANGED wire
    BY DEF Client, Connect, SendId, SendLine, Interrupt, SeeClosed, Vanish
<1>3. ConnKept
    BY <1>1 DEF Client, Connect, SendId, SendLine, Interrupt, SeeClosed, Vanish, ConnKept,
                Connected, States
<1>4. greeted' \in SUBSET Clients
    BY <1>1 DEF Client, Connect, SendId, SendLine, Interrupt, SeeClosed, Vanish
<1>5. cmds' \in 0..MaxCmds
  <2>1. cmds' = cmds \/ (cmds < MaxCmds /\ cmds' = cmds + 1)
      BY DEF Client, Connect, SendId, SendLine, Interrupt, SeeClosed, Vanish
  <2>. QED BY <1>1, <2>1
<1>6. \/ inbox' = inbox
      \/ \E line \in Commands \cup {Hello} :
           inbox' = [inbox EXCEPT ![c] = Append(@, line)]
    BY DEF Client, Connect, SendId, SendLine, Interrupt, SeeClosed, Vanish, Commands
<1>7. inbox' \in Inboxes
  <2>1. \A line \in Commands \cup {Hello} :
          Append(inbox[c], line) \in Seq(Commands \cup {Hello})
      BY <1>1, AppendProperties DEF Inboxes
  <2>. QED BY <1>1, <1>6, <2>1 DEF Inboxes
<1>. QED BY <1>2, <1>3, <1>4, <1>5, <1>7

LEMMA ClientInvariant ==
    ASSUME IInv, NEW c \in Clients, Client(c)
    PROVE  IInv'
<1>1. TypeOK
    BY DEF IInv
<1>2. /\ ConnKept /\ UNCHANGED serverVars /\ UNCHANGED wire
      /\ greeted' \in SUBSET Clients /\ cmds' \in 0..MaxCmds /\ inbox' \in Inboxes
    BY <1>1, ClientStep
<1>3. raced' = raced
    BY <1>2 DEF serverVars, mainVars
<1>4. TypeOK'
    BY <1>1, <1>2 DEF TypeOK, ConnKept, States, Inboxes, serverVars, mainVars, handlers, wire
<1>. QED BY <1>1, <1>2, <1>3, <1>4, ServerKept DEF IInv

-----------------------------------------------------------------------------
(* main *)

\* Only an accept that loses neither race leaves raced empty.
LEMMA AcceptInvariant ==
    ASSUME IInv, Accept
    PROVE  IInv'
<1>1. TypeOK /\ DescriptorsFaithful /\ SocketsKnown
    BY DEF IInv
<1>2. /\ pending = Nobody /\ raced' = raced \cup RacesLost
      /\ UNCHANGED <<greeted, inbox, cmds, wire, handlers, lock, entry>>
    BY DEF Accept
<1>3. PICK c \in Clients :
        /\ conn[c] = "backlog" \/ (conn[c] = "gone" /\ tpc[c] = "none")
        /\ conn' = [conn EXCEPT ![c] = IF @ = "backlog" THEN "open" ELSE @]
        /\ fdOf' = [fdOf EXCEPT ![LowestFree] = c]
        /\ arg' = LowestFree
        /\ pending' = c
    BY DEF Accept
<1>4. c # Nobody /\ tpc[c] = "none" /\ ~Accepted(c)
    BY <1>1, <1>2, <1>3, Strangers DEF DescriptorsFaithful, Accepted
<1>5. \A f \in Fds : fdOf[f] # c
    BY <1>1, <1>4 DEF DescriptorsFaithful
<1>6. LowestFree \in Fds /\ fdOf[LowestFree] = Nobody
    BY <1>1, <1>5, DescriptorFree
<1>. DEFINE l == LowestFree
<1>7. /\ RacesLost \subseteq {"argument", "descriptor"}
      /\ "argument" \notin RacesLost => \A t \in Clients : tpc[t] # "start"
      /\ "descriptor" \notin RacesLost => \A t \in Clients : tpc[t] = "unlist" => sock[t] # l
    BY DEF RacesLost
<1>. HIDE DEF l
<1>8. /\ conn \in [Clients -> States] /\ fdOf \in [Fds -> Clients \cup {Nobody}]
      /\ l \in Fds /\ fdOf[l] = Nobody
      /\ fdOf' = [fdOf EXCEPT ![l] = c] /\ arg' = l /\ pending' = c
    BY <1>1, <1>3, <1>6 DEF l, TypeOK, States
<1>9. \A f \in Fds : fdOf'[f] = IF f = l THEN c ELSE fdOf[f]
    BY <1>8
<1>10. /\ conn' \in [Clients -> States]
       /\ \A a \in Clients :
            conn'[a] = IF a = c THEN (IF conn[c] = "gone" THEN "gone" ELSE "open") ELSE conn[a]
    BY <1>3, <1>8 DEF States
<1>11. UNCHANGED <<tpc, sock, name, cmd, entry, got>>
    BY <1>2 DEF handlers, wire
<1>12. TypeOK'
  <2>1. raced' \in SUBSET {"argument", "descriptor"}
      BY <1>1, <1>2, <1>7 DEF TypeOK
  <2>. QED BY <1>1, <1>2, <1>8, <1>10, <2>1 DEF TypeOK, States, handlers, wire
<1>13. DescriptorsFaithful'
  <2>1. \A a \in Clients :
          (pending' = a \/ tpc'[a] # "none") <=> Accepted(a) \/ a = c
      BY <1>2, <1>4, <1>8, <1>11, Strangers DEF Accepted
  <2>2. \A f, g \in Fds : fdOf'[f] # Nobody /\ fdOf'[f] = fdOf'[g] => f = g
      BY <1>1, <1>5, <1>9 DEF DescriptorsFaithful
  <2>3. \A f \in Fds : fdOf'[f] # Nobody =>
          pending' = fdOf'[f] \/ tpc'[fdOf'[f]] # "none"
      BY <1>1, <1>8, <1>9, <2>1 DEF DescriptorsFaithful
  <2>4. \A a \in Clients :
          pending' = a \/ tpc'[a] # "none" => conn'[a] \in {"open", "gone"}
      BY <1>1, <1>10, <2>1 DEF DescriptorsFaithful
  <2>5. arg' \in Fds /\ tpc'[pending'] = "none"
      BY <1>4, <1>8, <1>11
  <2>. QED BY <2>2, <2>3, <2>4, <2>5 DEF DescriptorsFaithful, Accepted
<1>14. SocketsKnown'
    BY <1>1, <1>8, <1>11 DEF SocketsKnown
<1>15. ASSUME "argument" \notin raced' PROVE OwnSocket'
  <2>1. OwnSocket /\ \A t \in Clients : tpc[t] # "start"
      BY <1>2, <1>7, <1>15 DEF IInv
  <2>. QED BY <1>1, <1>8, <1>9, <1>11, <2>1, Strangers DEF OwnSocket, SocketsKnown
<1>16. ASSUME raced' = {} PROVE NotReused' /\ EntriesOwned' /\ Deliveries'
  <2>1. /\ NotReused /\ EntriesOwned /\ Deliveries
        /\ \A t \in Clients : tpc[t] = "unlist" => sock[t] # l
      BY <1>2, <1>7, <1>16 DEF IInv
  <2>2. NotReused'
      BY <1>1, <1>9, <1>11, <2>1 DEF NotReused, SocketsKnown
  <2>3. \A t \in Clients : Registered(t) => Registered(t)'
      BY <1>4, <1>8, <1>9, <1>10, <1>11, Strangers DEF Registered, Removed
  <2>4. EntriesOwned' /\ Deliveries'
      BY <1>11, <2>1, <2>3 DEF EntriesOwned, Deliveries
  <2>. QED BY <2>2, <2>4
<1>. QED BY <1>12, <1>13, <1>14, <1>15, <1>16 DEF IInv

LEMMA CreateThreadInvariant ==
    ASSUME IInv, CreateThread
    PROVE  IInv'
<1>1. TypeOK /\ DescriptorsFaithful /\ SocketsKnown
    BY DEF IInv
<1>2. /\ pending \in Clients /\ pending' = Nobody /\ raced' = raced
      /\ tpc \in [Clients -> Points]
      /\ tpc' = [tpc EXCEPT ![pending] = "start"]
      /\ UNCHANGED <<clientVars, wire, fdOf, arg, sock, name, cmd, k, lock, entry>>
    BY <1>1 DEF CreateThread, TypeOK, Points
<1>3. /\ tpc' \in [Clients -> Points]
      /\ \A t \in Clients : tpc'[t] = IF t = pending THEN "start" ELSE tpc[t]
    BY <1>2 DEF Points
<1>4. pending # Nobody /\ arg \in Fds /\ tpc[pending] = "none"
    BY <1>1, <1>2, Strangers DEF DescriptorsFaithful
<1>5. TypeOK'
    BY <1>1, <1>2, <1>3 DEF TypeOK, Points, clientVars, wire
<1>6. DescriptorsFaithful'
  <2>1. \A a \in Clients : Accepted(a)' <=> Accepted(a)
      BY <1>2, <1>3, <1>4, Strangers DEF Accepted
  <2>2. \A f \in Fds : fdOf[f] # Nobody => fdOf[f] \in Clients
      BY <1>1 DEF TypeOK
  <2>. QED BY <1>1, <1>2, <2>1, <2>2 DEF DescriptorsFaithful, clientVars
<1>7. SocketsKnown'
    BY <1>1, <1>2, <1>3, <1>4 DEF SocketsKnown
<1>8. OwnSocket => OwnSocket'
    BY <1>2, <1>3, <1>4, Strangers DEF OwnSocket
<1>9. NotReused /\ EntriesOwned /\ Deliveries => NotReused' /\ EntriesOwned' /\ Deliveries'
  <2>1. \A t \in Clients : Registered(t) => Registered(t)'
      BY <1>2, <1>3, <1>4 DEF Registered, Removed, clientVars
  <2>. QED BY <1>2, <1>3, <2>1 DEF NotReused, EntriesOwned, Deliveries, wire
<1>. QED BY <1>2, <1>5, <1>6, <1>7, <1>8, <1>9 DEF IInv

-----------------------------------------------------------------------------
(* The handlers: what holds whatever was lost *)

LEMMA Moved ==
    ASSUME TypeOK, NEW t \in Clients, NEW from, NEW to \in Points, Move(t, from, to)
    PROVE  /\ up /\ tpc[t] = from /\ tpc'[t] = to
           /\ tpc' \in [Clients -> Points]
           /\ \A u \in Clients \ {t} : tpc'[u] = tpc[u]
BY DEF TypeOK, Move, Points

ChatMessages == (Clients \cup {Garbled}) \X (Clients \cup {All, Listing})
Entries == [socket : Fds \cup {NoFd}, id : Clients \cup {Garbled}, active : BOOLEAN]

\* send() delivers its messages to the connection behind the descriptor only.
LEMMA SendEffect ==
    ASSUME TypeOK, up, NEW f \in Fds, NEW M \in SUBSET ChatMessages, Send(f, M)
    PROVE  /\ got' \in [Clients -> SUBSET ChatMessages]
           /\ broken' \in SUBSET Clients /\ up' \in BOOLEAN
           /\ \A c \in Clients : \A m \in got'[c] : m \in got[c] \/ (m \in M /\ fdOf[f] = c)
<1>1. /\ got \in [Clients -> SUBSET ChatMessages] /\ broken \in SUBSET Clients
      /\ fdOf[f] \in Clients \cup {Nobody}
    BY DEF TypeOK, ChatMessages
<1>2. CASE M = {}
    BY <1>1, <1>2 DEF Send, wire
<1>3. CASE M # {}
  <2>1. /\ got' = got \/ (fdOf[f] # Nobody /\ got' = [got EXCEPT ![fdOf[f]] = @ \cup M])
        /\ broken' = broken \/ (fdOf[f] # Nobody /\ broken' = broken \cup {fdOf[f]})
        /\ up' \in BOOLEAN
      BY <1>3 DEF Send
  <2>. QED BY <1>1, <2>1
<1>. QED BY <1>2, <1>3

\* A line that begins with 2ONE names a client.
LEMMA PrivateAddressee ==
    ASSUME TypeOK, NEW t \in Clients, SendPrivate(t)
    PROVE  cmd[t][2] \in Clients
<1>1. cmd[t] \in Commands \cup {Hello} /\ cmd[t][1] = "2ONE"
    BY DEF SendPrivate, TypeOK
<1>2. \/ cmd[t] \in {"2ONE"} \X Clients
      \/ cmd[t] = <<"LIST", Nobody>> \/ cmd[t] = <<"2ALL", All>>
      \/ cmd[t] = <<"STOP", Nobody>> \/ cmd[t] = <<"", Nobody>> \/ cmd[t] = <<"ID", Nobody>>
    BY <1>1 DEF Commands, Hello, Stop, Other
<1>3. /\ <<"LIST", Nobody>>[1] = "LIST" /\ <<"2ALL", All>>[1] = "2ALL"
      /\ <<"STOP", Nobody>>[1] = "STOP" /\ <<"", Nobody>>[1] = "" /\ <<"ID", Nobody>>[1] = "ID"
    OBVIOUS
<1>4. cmd[t] \in {"2ONE"} \X Clients
    BY <1>1, <1>2, <1>3
<1>. QED BY <1>4

\* What a step sends is nothing, or some messages to one descriptor.
LEMMA SendsOnce ==
    ASSUME Basics, NEW t \in Clients, SendList(t) \/ BroadcastTo(t) \/ SendPrivate(t)
    PROVE  \/ UNCHANGED wire
           \/ \E f \in Fds : \E M \in SUBSET ChatMessages : up /\ Send(f, M)
<1>1. TypeOK /\ SocketsKnown
    BY DEF Basics
<1>2. /\ up /\ name[t] \in Clients \cup {Garbled}
      /\ tpc[t] = "act" \/ (tpc[t] = "bcast" /\ k[t] <= Slots)
    BY <1>1, Moved DEF SendList, BroadcastTo, SendPrivate, Points, TypeOK
<1>3. CASE SendList(t)
  <2>. DEFINE M == {Message(entry[s].id, Listing) : s \in {u \in Table : entry[u].active}}
  <2>1. M \in SUBSET ChatMessages
      BY <1>1 DEF TypeOK, Message, ChatMessages
  <2>2. Send(sock[t], M)
      BY <1>3 DEF SendList
  <2>. HIDE DEF M
  <2>. QED BY <1>1, <1>2, <2>1, <2>2 DEF SocketsKnown
<1>4. CASE BroadcastTo(t)
  <2>1. CASE ~Recipient(t, entry[k[t]])
      BY <1>4, <2>1 DEF BroadcastTo, Send
  <2>2. CASE Recipient(t, entry[k[t]])
    <3>1. k[t] \in Table
        BY <1>1, <1>4, SizesAssumption DEF BroadcastTo, TypeOK, Table
    <3>2. entry[k[t]].socket \in Fds
        BY <1>1, <2>2, <3>1 DEF Recipient, SocketsKnown
    <3>3. {Message(name[t], All)} \in SUBSET ChatMessages
        BY <1>2 DEF Message, ChatMessages
    <3>4. Send(entry[k[t]].socket, {Message(name[t], All)})
        BY <1>4, <2>2 DEF BroadcastTo
    <3>. QED BY <1>2, <3>2, <3>3, <3>4
  <2>. QED BY <2>1, <2>2
<1>5. CASE SendPrivate(t)
  <2>. DEFINE d == cmd[t][2]
  <2>1. CASE Matching(d) = {}
      BY <1>5, <2>1 DEF SendPrivate
  <2>2. CASE Matching(d) # {}
    <3>1. Matching(d) \subseteq Nat
        BY SizesAssumption DEF Matching, Table
    <3>2. Min(Matching(d)) \in Matching(d)
        BY <2>2, <3>1, Least
    <3>3. entry[Min(Matching(d))].socket \in Fds
        BY <1>1, <3>2 DEF Matching, SocketsKnown
    <3>4. d \in Clients
        BY <1>1, <1>5, PrivateAddressee
    <3>5. {Message(name[t], d)} \in SUBSET ChatMessages
        BY <1>2, <3>4 DEF Message, ChatMessages
    <3>6. Send(entry[Min(Matching(d))].socket, {Message(name[t], d)})
        BY <1>5, <2>2 DEF SendPrivate
    <3>. QED BY <1>2, <3>3, <3>5, <3>6
  <2>. QED BY <2>1, <2>2
<1>. QED BY <1>3, <1>4, <1>5

\* The types of what the handlers share, and of what they read.
LEMMA SharedTypes ==
    ASSUME Basics, NEW t \in Clients, Handler(t)
    PROVE  /\ got' \in [Clients -> SUBSET ChatMessages]
           /\ broken' \in SUBSET Clients /\ up' \in BOOLEAN
           /\ fdOf' \in [Fds -> Clients \cup {Nobody}]
           /\ name' \in [Clients -> Clients \cup {Garbled}]
           /\ entry' \in [Table -> Entries]
<1>1. TypeOK
    BY DEF Basics
<1>2. /\ got \in [Clients -> SUBSET ChatMessages] /\ broken \in SUBSET Clients /\ up \in BOOLEAN
      /\ fdOf \in [Fds -> Clients \cup {Nobody}]
      /\ name \in [Clients -> Clients \cup {Garbled}] /\ sock \in [Clients -> Fds \cup {NoFd}]
      /\ entry \in [Table -> Entries]
    BY <1>1 DEF TypeOK, ChatMessages, Entries
<1>3. UNCHANGED wire \/ SendList(t) \/ BroadcastTo(t) \/ SendPrivate(t)
    BY DEF Handler, ReadArg, RecvId, RecvIdFails, AddClient, RecvCmd, RecvEnd, BeginBroadcast,
           EndBroadcast, Ignore, ObeyStop, CloseSocket, Unlist
<1>4. /\ got' \in [Clients -> SUBSET ChatMessages]
      /\ broken' \in SUBSET Clients /\ up' \in BOOLEAN
  <2>1. CASE UNCHANGED wire
      BY <1>2, <2>1 DEF wire
  <2>2. CASE \E f \in Fds : \E M \in SUBSET ChatMessages : up /\ Send(f, M)
      BY <1>1, <2>2, SendEffect
  <2>. QED BY <1>3, <2>1, <2>2, SendsOnce
<1>5. fdOf' = fdOf \/ fdOf' = [fdOf EXCEPT ![sock[t]] = Nobody]
    BY DEF Handler, ReadArg, RecvId, RecvIdFails, AddClient, RecvCmd, RecvEnd, SendList,
           BeginBroadcast, BroadcastTo, EndBroadcast, SendPrivate, Ignore, ObeyStop,
           CloseSocket, Unlist
<1>6. name' \in [Clients -> Clients \cup {Garbled}]
  <2>1. CASE RecvId(t)
    <3>1. name' = [name EXCEPT ![t] = Peer(t)] \/ name' = [name EXCEPT ![t] = Garbled]
        BY <2>1 DEF RecvId
    <3>2. Peer(t) \in Clients
      <4>1. tpc[t] = "id"
          BY <1>1, <2>1, Moved DEF RecvId, Points
      <4>2. sock[t] \in Fds
          BY <4>1 DEF Basics, SocketsKnown
      <4>. QED BY <1>2, <2>1, <4>2 DEF RecvId, HasData, Peer
    <3>. QED BY <1>2, <3>1, <3>2
  <2>2. CASE ~RecvId(t)
    <3>1. name' = name
        BY <2>2 DEF Handler, ReadArg, RecvIdFails, AddClient, RecvCmd, RecvEnd, SendList,
               BeginBroadcast, BroadcastTo, EndBroadcast, SendPrivate, Ignore, ObeyStop,
               CloseSocket, Unlist
    <3>. QED BY <1>2, <3>1
  <2>. QED BY <2>1, <2>2
<1>7. entry' \in [Table -> Entries]
  <2>1. CASE AddClient(t)
    <3>1. [socket |-> sock[t], id |-> name[t], active |-> TRUE] \in Entries
        BY <1>2 DEF Entries
    <3>. QED BY <1>2, <2>1, <3>1 DEF AddClient
  <2>2. CASE Unlist(t)
    <3>1. \A s : [entry EXCEPT ![s].active = FALSE] \in [Table -> Entries]
        BY <1>2 DEF Entries
    <3>. QED BY <1>2, <2>2, <3>1 DEF Unlist
  <2>3. CASE ~AddClient(t) /\ ~Unlist(t)
    <3>1. entry' = entry
        BY <2>3 DEF Handler, ReadArg, RecvId, RecvIdFails, RecvCmd, RecvEnd, SendList,
               BeginBroadcast, BroadcastTo, EndBroadcast, SendPrivate, Ignore, ObeyStop,
               CloseSocket
    <3>. QED BY <1>2, <3>1
  <2>. QED BY <2>1, <2>2, <2>3
<1>. QED BY <1>2, <1>4, <1>5, <1>6, <1>7

LEMMA InboxTypes ==
    ASSUME Basics, NEW t \in Clients, Handler(t)
    PROVE  inbox' \in Inboxes /\ cmd' \in [Clients -> Commands \cup {Hello}]
<1>1. /\ TypeOK /\ inbox \in Inboxes /\ cmd \in [Clients -> Commands \cup {Hello}]
      /\ fdOf \in [Fds -> Clients \cup {Nobody}]
    BY DEF Basics, TypeOK, Inboxes
<1>2. CASE RecvId(t) \/ RecvCmd(t)
  <2>. DEFINE c == Peer(t)
  <2>1. c \in Clients
    <3>1. tpc[t] \in {"id", "recv"}
        BY <1>1, <1>2, Moved DEF RecvId, RecvCmd, Points
    <3>2. sock[t] \in Fds
        BY <3>1 DEF Basics, SocketsKnown
    <3>. QED BY <1>1, <1>2, <3>2 DEF RecvId, RecvCmd, HasData, Peer
  <2>2. inbox[c] \in Seq(Commands \cup {Hello}) /\ inbox[c] # <<>>
      BY <1>1, <1>2, <2>1 DEF RecvId, RecvCmd, HasData, Inboxes
  <2>3. \E n \in Batch(inbox[c]) :
          inbox' = [inbox EXCEPT ![c] = SubSeq(@, n + 1, Len(@))]
      BY <1>2 DEF RecvId, RecvCmd
  <2>4. cmd' = cmd \/ cmd' = [cmd EXCEPT ![t] = Head(inbox[c])]
      BY <1>2 DEF RecvId, RecvCmd
  <2>. HIDE DEF c
  <2>5. inbox' \in Inboxes
    <3>1. \A n \in Batch(inbox[c]) :
            SubSeq(inbox[c], n + 1, Len(inbox[c])) \in Seq(Commands \cup {Hello})
        BY <2>2, InboxRest
    <3>. QED BY <1>1, <2>3, <3>1 DEF Inboxes
  <2>6. Head(inbox[c]) \in Commands \cup {Hello}
      BY <2>2, HeadTailProperties
  <2>. QED BY <1>1, <2>4, <2>5, <2>6
<1>3. CASE ~(RecvId(t) \/ RecvCmd(t))
  <2>1. UNCHANGED <<inbox, cmd>>
      BY <1>3 DEF Handler, ReadArg, RecvIdFails, AddClient, RecvEnd, SendList, BeginBroadcast,
             BroadcastTo, EndBroadcast, SendPrivate, Ignore, ObeyStop, CloseSocket, Unlist,
             clientVars
  <2>. QED BY <1>1, <2>1
<1>. QED BY <1>2, <1>3

LEMMA HandlerTypes ==
    ASSUME TypeOK, NEW t \in Clients, Handler(t)
    PROVE  /\ UNCHANGED <<conn, greeted, cmds, arg, pending, raced>>
           /\ tpc' \in [Clients -> Points]
           /\ sock' \in [Clients -> Fds \cup {NoFd}]
           /\ k' \in [Clients -> 1..(Slots + 1)] /\ lock' \in SUBSET Clients
<1>1. /\ sock \in [Clients -> Fds \cup {NoFd}] /\ arg \in Fds \cup {NoFd}
      /\ k \in [Clients -> 1..(Slots + 1)] /\ lock \in SUBSET Clients
      /\ Slots \in Nat \ {0}
    BY SizesAssumption DEF TypeOK
<1>2. UNCHANGED <<conn, greeted, cmds, arg, pending, raced>>
    BY DEF Handler, ReadArg, RecvId, RecvIdFails, AddClient, RecvCmd, RecvEnd, SendList,
           BeginBroadcast, BroadcastTo, EndBroadcast, SendPrivate, Ignore, ObeyStop,
           CloseSocket, Unlist, clientVars, mainVars
<1>3. tpc' \in [Clients -> Points]
    BY Moved DEF Handler, ReadArg, RecvId, RecvIdFails, AddClient, RecvCmd, RecvEnd, SendList,
           BeginBroadcast, BroadcastTo, EndBroadcast, SendPrivate, Ignore, ObeyStop,
           CloseSocket, Unlist, Points
<1>4. sock' = sock \/ sock' = [sock EXCEPT ![t] = arg]
    BY DEF Handler, ReadArg, RecvId, RecvIdFails, AddClient, RecvCmd, RecvEnd, SendList,
           BeginBroadcast, BroadcastTo, EndBroadcast, SendPrivate, Ignore, ObeyStop,
           CloseSocket, Unlist
<1>5. \/ k' = k \/ k' = [k EXCEPT ![t] = 1]
      \/ k[t] <= Slots /\ k' = [k EXCEPT ![t] = @ + 1]
    BY DEF Handler, ReadArg, RecvId, RecvIdFails, AddClient, RecvCmd, RecvEnd, SendList,
           BeginBroadcast, BroadcastTo, EndBroadcast, SendPrivate, Ignore, ObeyStop,
           CloseSocket, Unlist
<1>6. k' \in [Clients -> 1..(Slots + 1)]
    BY <1>1, <1>5
<1>7. lock' \in {lock, {}, {t}}
    BY DEF Handler, ReadArg, RecvId, RecvIdFails, AddClient, RecvCmd, RecvEnd, SendList,
           BeginBroadcast, BroadcastTo, EndBroadcast, SendPrivate, Ignore, ObeyStop,
           CloseSocket, Unlist
<1>. QED BY <1>1, <1>2, <1>3, <1>4, <1>6, <1>7

\* A handler moves from one of its points to another, alone.
LEMMA HandlerMoves ==
    ASSUME TypeOK, NEW t \in Clients, Handler(t)
    PROVE  /\ tpc[t] \notin {"none", "end"} /\ tpc'[t] \notin {"none", "start"}
           /\ \A u \in Clients \ {t} : tpc'[u] = tpc[u]
BY Moved DEF Handler, ReadArg, RecvId, RecvIdFails, AddClient, RecvCmd, RecvEnd, SendList,
       BeginBroadcast, BroadcastTo, EndBroadcast, SendPrivate, Ignore, ObeyStop,
       CloseSocket, Unlist, Points

\* Closing a descriptor, whosever it is, leaves the others one for each client.
LEMMA DescriptorsKept ==
    ASSUME Basics, NEW t \in Clients, Handler(t)
    PROVE  DescriptorsFaithful'
<1>1. TypeOK /\ DescriptorsFaithful
    BY DEF Basics
<1>2. /\ UNCHANGED <<conn, arg, pending>> /\ tpc[t] # "none" /\ tpc'[t] # "none"
      /\ \A u \in Clients \ {t} : tpc'[u] = tpc[u]
    BY <1>1, HandlerTypes, HandlerMoves
<1>3. fdOf' = fdOf \/ fdOf' = [fdOf EXCEPT ![sock[t]] = Nobody]
    BY DEF Handler, ReadArg, RecvId, RecvIdFails, AddClient, RecvCmd, RecvEnd, SendList,
           BeginBroadcast, BroadcastTo, EndBroadcast, SendPrivate, Ignore, ObeyStop,
           CloseSocket, Unlist
<1>4. \A f \in Fds : fdOf[f] \in Clients \cup {Nobody} /\ fdOf'[f] \in {fdOf[f], Nobody}
    BY <1>1, <1>3 DEF TypeOK
<1>5. \A a \in Clients : (pending' = a \/ tpc'[a] # "none") <=> Accepted(a)
    BY <1>2 DEF Accepted
<1>6. pending # Nobody => pending \in Clients /\ pending # t
    BY <1>1, <1>2 DEF TypeOK, DescriptorsFaithful
<1>7. \A f \in Fds : fdOf'[f] # Nobody => fdOf'[f] = fdOf[f] /\ fdOf[f] \in Clients
    BY <1>4
<1>. QED BY <1>1, <1>2, <1>5, <1>6, <1>7 DEF DescriptorsFaithful, Accepted

LEMMA SocketsKept ==
    ASSUME Basics, NEW t \in Clients, Handler(t)
    PROVE  SocketsKnown'
<1>1. TypeOK /\ SocketsKnown
    BY DEF Basics
<1>2. /\ arg' = arg /\ sock \in [Clients -> Fds \cup {NoFd}]
      /\ cmd \in [Clients -> Commands \cup {Hello}]
      /\ tpc[t] \notin {"none", "end"} /\ tpc'[t] \notin {"none", "start"}
      /\ \A u \in Clients \ {t} : tpc'[u] = tpc[u]
    BY <1>1, HandlerTypes, HandlerMoves DEF TypeOK
<1>3. \A u \in Clients : tpc'[u] = "start" => arg' \in Fds
    BY <1>1, <1>2 DEF SocketsKnown
<1>4. \A u \in Clients : tpc'[u] \notin {"none", "start", "end"} => sock'[u] \in Fds
  <2>1. CASE ReadArg(t)
    <3>1. tpc[t] = "start" /\ sock' = [sock EXCEPT ![t] = arg]
        BY <1>1, <2>1, Moved DEF ReadArg, Points
    <3>. QED BY <1>1, <1>2, <3>1 DEF SocketsKnown
  <2>2. CASE ~ReadArg(t)
    <3>1. sock' = sock /\ tpc[t] # "start"
        BY <1>1, <2>2, Moved DEF Handler, RecvId, RecvIdFails, AddClient, RecvCmd, RecvEnd,
               SendList, BeginBroadcast, BroadcastTo, EndBroadcast, SendPrivate, Ignore,
               ObeyStop, CloseSocket, Unlist, Points
    <3>. QED BY <1>1, <1>2, <3>1 DEF SocketsKnown
  <2>. QED BY <2>1, <2>2
<1>5. \A u \in Clients :
        tpc'[u] \in {"none", "start", "id", "add", "recv", "bcast"} => cmd'[u][1] # "STOP"
  <2>1. CASE RecvCmd(t)
    <3>1. tpc'[t] = "act" /\ \A u \in Clients \ {t} : cmd'[u] = cmd[u]
        BY <1>1, <1>2, <2>1, Moved DEF RecvCmd, Points
    <3>. QED BY <1>1, <1>2, <3>1 DEF SocketsKnown
  <2>2. CASE ~RecvCmd(t)
    <3>1. cmd' = cmd
        BY <2>2 DEF Handler, ReadArg, RecvId, RecvIdFails, AddClient, RecvEnd, SendList,
               BeginBroadcast, BroadcastTo, EndBroadcast, SendPrivate, Ignore, ObeyStop,
               CloseSocket, Unlist
    <3>2. \/ tpc[t] \in {"start", "id", "add", "bcast"} \/ tpc'[t] \in {"close", "unlist", "end"}
          \/ cmd[t][1] \in {"LIST", "2ALL", "2ONE"} \/ cmd[t] \in {Other, Hello}
        BY <1>1, <2>2, Moved DEF Handler, ReadArg, RecvId, RecvIdFails, AddClient, RecvEnd,
               SendList, BeginBroadcast, BroadcastTo, EndBroadcast, SendPrivate, Ignore,
               ObeyStop, CloseSocket, Unlist, Points
    <3>3. Other[1] # "STOP" /\ Hello[1] # "STOP"
        BY DEF Other, Hello
    <3>. QED BY <1>1, <1>2, <3>1, <3>2, <3>3 DEF SocketsKnown
  <2>. QED BY <2>1, <2>2
<1>6. \A s \in Table : entry'[s].active => entry'[s].socket \in Fds
  <2>1. entry \in [Table -> Entries]
      BY <1>1 DEF TypeOK, Entries
  <2>2. CASE AddClient(t)
    <3>1. sock[t] \in Fds
        BY <1>1, <2>2, Moved DEF AddClient, Points, SocketsKnown
    <3>. QED BY <1>1, <2>2, <3>1 DEF AddClient, SocketsKnown
  <2>3. CASE Unlist(t)
    <3>1. entry' = entry \/ \E s : entry' = [entry EXCEPT ![s].active = FALSE]
        BY <2>3 DEF Unlist
    <3>2. \A s \in Table : entry'[s].socket = entry[s].socket /\ (entry'[s].active => entry[s].active)
        BY <2>1, <3>1 DEF Entries
    <3>. QED BY <1>1, <3>2 DEF SocketsKnown
  <2>4. CASE ~AddClient(t) /\ ~Unlist(t)
    <3>1. entry' = entry
        BY <2>4 DEF Handler, ReadArg, RecvId, RecvIdFails, RecvCmd, RecvEnd, SendList,
               BeginBroadcast, BroadcastTo, EndBroadcast, SendPrivate, Ignore, ObeyStop,
               CloseSocket
    <3>. QED BY <1>1, <3>1 DEF SocketsKnown
  <2>. QED BY <2>2, <2>3, <2>4
<1>. QED BY <1>3, <1>4, <1>5, <1>6 DEF SocketsKnown

LEMMA HandlerBasics ==
    ASSUME Basics, NEW t \in Clients, Handler(t)
    PROVE  Basics'
<1>1. TypeOK
    BY DEF Basics
<1>2. TypeOK'
  <2>1. inbox' \in Inboxes /\ cmd' \in [Clients -> Commands \cup {Hello}]
      BY InboxTypes
  <2>2. /\ UNCHANGED <<conn, greeted, cmds, arg, pending, raced>>
        /\ tpc' \in [Clients -> Points] /\ sock' \in [Clients -> Fds \cup {NoFd}]
        /\ k' \in [Clients -> 1..(Slots + 1)] /\ lock' \in SUBSET Clients
      BY <1>1, HandlerTypes
  <2>3. /\ got' \in [Clients -> SUBSET ChatMessages]
        /\ broken' \in SUBSET Clients /\ up' \in BOOLEAN
        /\ fdOf' \in [Fds -> Clients \cup {Nobody}]
        /\ name' \in [Clients -> Clients \cup {Garbled}] /\ entry' \in [Table -> Entries]
      BY SharedTypes
  <2>. QED BY <1>1, <2>1, <2>2, <2>3 DEF TypeOK, Inboxes, Points, ChatMessages, Entries
<1>. QED BY <1>2, DescriptorsKept, SocketsKept DEF Basics

-----------------------------------------------------------------------------
(* The handlers: what holds while no argument was overwritten *)

\* The only handler that closes a connection is its own.
LEMMA CloseOwn ==
    ASSUME Basics, OwnSocket, NEW t \in Clients, tpc[t] \in {"id", "close"},
           fdOf' = [fdOf EXCEPT ![sock[t]] = Nobody]
    PROVE  \A f \in Fds : fdOf'[f] = IF fdOf[f] = t THEN Nobody ELSE fdOf[f]
<1>1. sock[t] \in Fds /\ fdOf[sock[t]] = t
    BY DEF OwnSocket
<1>2. \A f \in Fds : fdOf[f] = t <=> f = sock[t]
    BY <1>1, Strangers DEF Basics, DescriptorsFaithful
<1>3. \A f \in Fds : fdOf'[f] = IF f = sock[t] THEN Nobody ELSE fdOf[f]
    BY DEF Basics, TypeOK
<1>. QED BY <1>2, <1>3

LEMMA OwnSocketKept ==
    ASSUME Basics, OwnSocket, NEW t \in Clients, Handler(t)
    PROVE  OwnSocket'
<1>1. /\ TypeOK /\ UNCHANGED <<arg, pending>>
      /\ pending # t /\ tpc'[t] \notin {"none", "start"}
      /\ \A u \in Clients \ {t} : tpc'[u] = tpc[u]
  <2>1. TypeOK /\ DescriptorsFaithful
      BY DEF Basics
  <2>2. /\ UNCHANGED <<arg, pending>>
        /\ tpc[t] # "none" /\ tpc'[t] \notin {"none", "start"}
        /\ \A u \in Clients \ {t} : tpc'[u] = tpc[u]
      BY <2>1, HandlerTypes, HandlerMoves
  <2>3. pending # t
      BY <2>1, <2>2, Strangers DEF DescriptorsFaithful
  <2>. QED BY <2>1, <2>2, <2>3
<1>2. CASE ReadArg(t)
  <2>1. /\ tpc[t] = "start" /\ sock' = [sock EXCEPT ![t] = arg] /\ UNCHANGED <<fdOf, name>>
      BY <1>1, <1>2, Moved DEF ReadArg, Points
  <2>. QED BY <1>1, <2>1 DEF OwnSocket, TypeOK
<1>3. CASE RecvId(t)
  <2>1. /\ tpc[t] = "id" /\ UNCHANGED <<fdOf, sock>>
        /\ name' = [name EXCEPT ![t] = Peer(t)] \/ name' = [name EXCEPT ![t] = Garbled]
      BY <1>1, <1>3, Moved DEF RecvId, Points
  <2>2. Peer(t) = t
      BY <2>1 DEF Peer, OwnSocket
  <2>3. name \in [Clients -> Clients \cup {Garbled}]
      BY <1>1 DEF TypeOK
  <2>4. \A u \in Clients : name'[u] \in {u, Garbled}
    <3>1. name'[t] \in {t, Garbled} /\ \A u \in Clients \ {t} : name'[u] = name[u]
        BY <2>1, <2>2, <2>3
    <3>. QED BY <3>1 DEF OwnSocket
  <2>. QED BY <1>1, <2>1, <2>4 DEF OwnSocket
<1>4. CASE RecvIdFails(t) \/ CloseSocket(t)
  <2>1. /\ tpc[t] \in {"id", "close"} /\ tpc'[t] \in {"end", "unlist"}
        /\ fdOf' = [fdOf EXCEPT ![sock[t]] = Nobody] /\ UNCHANGED <<sock, name>>
      BY <1>1, <1>4, Moved DEF RecvIdFails, CloseSocket, Points
  <2>2. \A f \in Fds : fdOf'[f] = IF fdOf[f] = t THEN Nobody ELSE fdOf[f]
      BY <2>1, CloseOwn
  <2>3. \A u \in Clients : pending = u => arg \in Fds
      BY Strangers DEF Basics, DescriptorsFaithful
  <2>. QED BY <1>1, <2>1, <2>2, <2>3, Strangers DEF OwnSocket
<1>5. CASE ~(ReadArg(t) \/ RecvId(t) \/ RecvIdFails(t) \/ CloseSocket(t))
  <2>1. UNCHANGED <<fdOf, sock, name>>
      BY <1>5 DEF Handler, AddClient, RecvCmd, RecvEnd, SendList, BeginBroadcast,
             BroadcastTo, EndBroadcast, SendPrivate, Ignore, ObeyStop, Unlist
  <2>2. tpc[t] \in {"add", "recv", "act", "bcast"} \/ tpc'[t] = "end"
      BY <1>1, <1>5, Moved DEF Handler, AddClient, RecvCmd, RecvEnd, SendList,
             BeginBroadcast, BroadcastTo, EndBroadcast, SendPrivate, Ignore, ObeyStop,
             Unlist, Points
  <2>. QED BY <1>1, <2>1, <2>2 DEF OwnSocket
<1>. QED BY <1>2, <1>3, <1>4, <1>5

-----------------------------------------------------------------------------
(* The handlers: the table while no race was lost *)

Entered == NotReused /\ EntriesOwned

\* A step that leaves the table, the descriptors and who has which alone.
LEMMA TableKept ==
    ASSUME Entered, NEW t \in Clients,
           \A u \in Clients \ {t} : tpc'[u] = tpc[u] /\ sock'[u] = sock[u] /\ cmd'[u] = cmd[u],
           tpc'[t] # "unlist", Registered(t) => Registered(t)' /\ sock'[t] = sock[t],
           UNCHANGED <<conn, fdOf, entry>>
    PROVE  Entered'
<1>1. \A u \in Clients : Registered(u) => Registered(u)' /\ sock'[u] = sock[u]
    BY DEF Registered, Removed
<1>2. NotReused'
    BY DEF Entered, NotReused
<1>3. EntriesOwned'
    BY <1>1 DEF Entered, EntriesOwned
<1>. QED BY <1>2, <1>3 DEF Entered

LEMMA ReadArgKeeps ==
    ASSUME Basics, Entered, NEW t \in Clients, ReadArg(t)
    PROVE  Entered'
<1>1. /\ tpc[t] = "start" /\ tpc'[t] = "id"
      /\ \A u \in Clients \ {t} : tpc'[u] = tpc[u]
    BY Moved DEF Basics, ReadArg, Points
<1>2. /\ sock' = [sock EXCEPT ![t] = arg] /\ sock \in [Clients -> Fds \cup {NoFd}]
      /\ UNCHANGED <<conn, fdOf, cmd, entry>>
    BY DEF Basics, TypeOK, ReadArg, clientVars
<1>3. ~Registered(t)
    BY <1>1 DEF Registered
<1>. QED BY <1>1, <1>2, <1>3, TableKept

LEMMA RecvIdKeeps ==
    ASSUME Basics, Entered, NEW t \in Clients, RecvId(t)
    PROVE  Entered'
<1>1. /\ tpc[t] = "id" /\ tpc'[t] = "add"
      /\ \A u \in Clients \ {t} : tpc'[u] = tpc[u]
    BY Moved DEF Basics, RecvId, Points
<1>2. UNCHANGED <<conn, fdOf, sock, cmd, entry>>
    BY DEF RecvId
<1>3. ~Registered(t)
    BY <1>1 DEF Registered
<1>. QED BY <1>1, <1>2, <1>3, TableKept

\* The connection of a client that never sent an id is closed; it was not listed.
LEMMA RecvIdFailsKeeps ==
    ASSUME Basics, OwnSocket, Entered, NEW t \in Clients, RecvIdFails(t)
    PROVE  Entered'
<1>1. /\ tpc[t] = "id" /\ tpc'[t] = "end"
      /\ \A u \in Clients \ {t} : tpc'[u] = tpc[u]
    BY Moved DEF Basics, RecvIdFails, Points
<1>2. /\ fdOf' = [fdOf EXCEPT ![sock[t]] = Nobody]
      /\ UNCHANGED <<conn, sock, cmd, entry>>
    BY DEF RecvIdFails, clientVars
<1>3. \A f \in Fds : fdOf'[f] = IF fdOf[f] = t THEN Nobody ELSE fdOf[f]
    BY <1>1, <1>2, CloseOwn
<1>4. \A u \in Clients : Registered(u) => Registered(u)'
    BY <1>1, <1>2, <1>3 DEF Registered, Removed
<1>5. NotReused'
    BY <1>1, <1>2, <1>3 DEF Basics, SocketsKnown, Entered, NotReused
<1>6. EntriesOwned'
    BY <1>2, <1>4 DEF Entered, EntriesOwned
<1>. QED BY <1>5, <1>6 DEF Entered

\* The client is killed or has ended: the entry stays, and so does the descriptor.
LEMMA RecvEndKeeps ==
    ASSUME Basics, OwnSocket, Entered, NEW t \in Clients, RecvEnd(t)
    PROVE  Entered'
<1>1. /\ tpc[t] = "recv" /\ tpc'[t] = "end"
      /\ \A u \in Clients \ {t} : tpc'[u] = tpc[u]
    BY Moved DEF Basics, RecvEnd, Points
<1>2. UNCHANGED <<conn, fdOf, sock, cmd, entry>>
    BY DEF RecvEnd, clientVars
<1>3. sock[t] \in Fds /\ fdOf[sock[t]] = t /\ conn[t] = "gone"
    BY <1>1, Strangers DEF OwnSocket, RecvEnd, AtEnd, Peer
<1>4. cmd[t][1] # "STOP"
    BY <1>1 DEF Basics, SocketsKnown
<1>5. Registered(t)'
    BY <1>1, <1>2, <1>3, <1>4 DEF Registered, Removed
<1>. QED BY <1>1, <1>2, <1>5, TableKept

LEMMA CloseSocketKeeps ==
    ASSUME Basics, OwnSocket, Entered, NEW t \in Clients, CloseSocket(t)
    PROVE  Entered'
<1>1. /\ tpc[t] = "close" /\ tpc'[t] = "unlist"
      /\ \A u \in Clients \ {t} : tpc'[u] = tpc[u]
    BY Moved DEF Basics, CloseSocket, Points
<1>2. /\ fdOf' = [fdOf EXCEPT ![sock[t]] = Nobody]
      /\ UNCHANGED <<conn, sock, cmd, entry>>
    BY DEF CloseSocket, clientVars
<1>3. \A f \in Fds : fdOf'[f] = IF fdOf[f] = t THEN Nobody ELSE fdOf[f]
    BY <1>1, <1>2, CloseOwn
<1>4. sock[t] \in Fds /\ fdOf[sock[t]] = t
    BY <1>1 DEF OwnSocket
<1>5. \A u \in Clients : Registered(u) => Registered(u)'
    BY <1>1, <1>2, <1>3 DEF Registered, Removed
<1>6. NotReused'
    BY <1>1, <1>2, <1>3, <1>4 DEF Basics, SocketsKnown, Entered, NotReused
<1>7. EntriesOwned'
    BY <1>2, <1>5 DEF Entered, EntriesOwned
<1>. QED BY <1>6, <1>7 DEF Entered

\* What a handler does between registering its client and leaving the loop.
LEMMA LoopKeeps ==
    ASSUME Entered, NEW t \in Clients,
           tpc[t] \in {"recv", "act", "bcast"},
           tpc'[t] \in {"recv", "act", "bcast", "close"},
           \A u \in Clients \ {t} : tpc'[u] = tpc[u] /\ cmd'[u] = cmd[u],
           UNCHANGED <<conn, fdOf, sock, entry>>
    PROVE  Entered'
<1>1. Registered(t)'
    BY DEF Registered
<1>. QED BY <1>1, TableKept

\* A handler that registers its client finds its descriptor in no active entry.
LEMMA SocketFresh ==
    ASSUME OwnSocket, Entered, NEW t \in Clients, tpc[t] = "add",
           NEW s \in Table, entry[s].active
    PROVE  entry[s].socket # sock[t]
<1>1. sock[t] \in Fds /\ fdOf[sock[t]] = t
    BY DEF OwnSocket
<1>2. PICK u \in Clients : Registered(u) /\ entry[s].socket = sock[u]
    BY DEF Entered, EntriesOwned
<1>3. u # t
    BY <1>2 DEF Registered
<1>4. fdOf[sock[u]] \in {u, Nobody}
    BY <1>2 DEF Entered, NotReused, OwnSocket, Registered
<1>. QED BY <1>1, <1>2, <1>3, <1>4, Strangers

LEMMA AddClientKeeps ==
    ASSUME Basics, OwnSocket, Entered, NEW t \in Clients, AddClient(t)
    PROVE  Entered'
<1>1. NotReused /\ EntriesOwned
    BY DEF Entered
<1>2. /\ tpc[t] = "add" /\ tpc'[t] = "recv"
      /\ \A u \in Clients \ {t} : tpc'[u] = tpc[u]
    BY Moved DEF Basics, AddClient, Points
<1>. DEFINE new == [socket |-> sock[t], id |-> name[t], active |-> TRUE]
<1>3. /\ entry' = [s \in Table |-> IF s \in FirstFree THEN new ELSE entry[s]]
      /\ UNCHANGED <<conn, fdOf, sock, cmd>>
    BY DEF AddClient, clientVars
<1>4. sock[t] \in Fds /\ fdOf[sock[t]] = t /\ name[t] \in {t, Garbled}
    BY <1>2 DEF OwnSocket
<1>5. /\ entry \in [Table -> Entries] /\ new \in Entries
      /\ new.socket = sock[t] /\ new.id = name[t]
    BY <1>4 DEF Basics, TypeOK, Entries
<1>. HIDE DEF new
<1>6. /\ \A s \in FirstFree : s \in Table
      /\ \A s, u \in FirstFree : s = u
      /\ \A s \in FirstFree : \A u \in Table : u < s => entry[u].active
  <2>1. CASE FreeEntries = {}
      BY <2>1 DEF FirstFree
  <2>2. CASE FreeEntries # {}
    <3>. DEFINE m0 == Min(FreeEntries)
    <3>1. FreeEntries \subseteq Table /\ Table \subseteq Nat
        BY SizesAssumption DEF FreeEntries, Table
    <3>2. m0 \in FreeEntries /\ \A x \in FreeEntries : m0 <= x
        BY <2>2, <3>1, Least
    <3>3. FirstFree = {m0}
        BY <2>2 DEF FirstFree
    <3>. HIDE DEF m0
    <3>4. \A u \in Table : u < m0 => u \notin FreeEntries
        BY <3>1, <3>2
    <3>5. \A u \in Table : u \notin FreeEntries => entry[u].active
        BY DEF FreeEntries
    <3>. QED BY <3>1, <3>2, <3>3, <3>4, <3>5
  <2>. QED BY <2>1, <2>2
<1>7. NotReused'
    BY <1>1, <1>2, <1>3 DEF NotReused
<1>8. EntriesOwned'
  <2>. SUFFICES ASSUME NEW s \in Table, entry'[s].active
                PROVE  /\ \E u \in Clients :
                            /\ Registered(u)' /\ entry'[s].socket = sock'[u]
                            /\ entry'[s].id \in {u, Garbled}
                       /\ \A u \in Table : u < s => entry'[u].socket # entry'[s].socket
      BY DEF EntriesOwned
  <2>1. \A u \in Table : entry'[u] = IF u \in FirstFree THEN new ELSE entry[u]
      BY <1>3
  <2>2. CASE s \in FirstFree
    <3>1. Registered(t)'
        BY <1>2 DEF Registered
    <3>2. \A u \in Table : u < s => entry[u].socket # sock[t] /\ u \notin FirstFree
      <4>1. \A u \in Table : u < s => entry[u].active /\ u # s
          BY <1>6, <2>2 DEF Table
      <4>. QED BY <1>2, <1>6, <2>2, <4>1, SocketFresh
    <3>. QED BY <1>3, <1>4, <1>5, <2>1, <2>2, <3>1, <3>2
  <2>3. CASE s \notin FirstFree
    <3>1. entry'[s] = entry[s] /\ entry[s].active
        BY <2>1, <2>3
    <3>2. PICK u \in Clients :
            Registered(u) /\ entry[s].socket = sock[u] /\ entry[s].id \in {u, Garbled}
        BY <1>1, <3>1 DEF EntriesOwned
    <3>3. Registered(u)'
        BY <1>2, <1>3, <3>2 DEF Registered, Removed
    <3>4. entry[s].socket # sock[t]
        BY <1>2, <3>1, SocketFresh
    <3>5. \A v \in Table : v < s => entry'[v].socket # entry[s].socket
        BY <1>1, <1>5, <2>1, <3>1, <3>4 DEF EntriesOwned
    <3>. QED BY <1>3, <3>1, <3>2, <3>3, <3>5
  <2>. QED BY <2>2, <2>3
<1>. QED BY <1>7, <1>8 DEF Entered

\* The entry that is cleared is the client's, if it has one.
LEMMA UnlistKeeps ==
    ASSUME Basics, Entered, NEW t \in Clients, Unlist(t)
    PROVE  Entered'
<1>1. NotReused /\ EntriesOwned
    BY DEF Entered
<1>2. /\ tpc[t] = "unlist" /\ tpc'[t] = "end"
      /\ \A u \in Clients \ {t} : tpc'[u] = tpc[u]
    BY Moved DEF Basics, Unlist, Points
<1>. DEFINE k0 == Min(EntriesOf(t))
<1>3. /\ entry' = IF EntriesOf(t) = {} THEN entry ELSE [entry EXCEPT ![k0].active = FALSE]
      /\ UNCHANGED <<conn, fdOf, sock, cmd>>
    BY DEF Unlist, clientVars
<1>4. entry \in [Table -> Entries]
    BY DEF Basics, TypeOK, Entries
<1>5. EntriesOf(t) # {} => k0 \in EntriesOf(t) /\ \A s \in EntriesOf(t) : k0 <= s
  <2>1. EntriesOf(t) \subseteq Nat
      BY SizesAssumption DEF EntriesOf, Table
  <2>. QED BY <2>1, Least
<1>. HIDE DEF k0
<1>6. /\ entry' \in [Table -> Entries]
      /\ \A s \in Table :
           /\ entry'[s].socket = entry[s].socket
           /\ entry'[s].id = entry[s].id
           /\ entry'[s].active => entry[s].active
           /\ entry'[s].active /\ s \in EntriesOf(t) => s # k0
  <2>1. CASE EntriesOf(t) = {}
      BY <1>3, <1>4, <2>1
  <2>2. CASE EntriesOf(t) # {}
    <3>1. k0 \in Table
        BY <1>5, <2>2 DEF EntriesOf
    <3>. QED BY <1>3, <1>4, <2>2, <3>1 DEF Entries
  <2>. QED BY <2>1, <2>2
<1>7. NotReused'
    BY <1>1, <1>2, <1>3 DEF NotReused
<1>8. EntriesOwned'
  <2>. SUFFICES ASSUME NEW s \in Table, entry'[s].active
                PROVE  /\ \E u \in Clients :
                            /\ Registered(u)' /\ entry'[s].socket = sock'[u]
                            /\ entry'[s].id \in {u, Garbled}
                       /\ \A u \in Table : u < s => entry'[u].socket # entry'[s].socket
      BY DEF EntriesOwned
  <2>1. entry[s].active /\ \A u \in Table : u < s => entry[u].socket # entry[s].socket
      BY <1>1, <1>6 DEF EntriesOwned
  <2>2. PICK u \in Clients :
          Registered(u) /\ entry[s].socket = sock[u] /\ entry[s].id \in {u, Garbled}
      BY <1>1, <2>1 DEF EntriesOwned
  <2>3. u # t
    <3>. SUFFICES ASSUME u = t PROVE FALSE
        OBVIOUS
    <3>1. s \in EntriesOf(t)
        BY <2>2 DEF EntriesOf
    <3>2. k0 \in Table /\ k0 <= s /\ k0 # s /\ entry[k0].socket = sock[t]
        BY <1>5, <1>6, <3>1 DEF EntriesOf
    <3>3. k0 < s
        BY <3>2 DEF Table
    <3>. QED BY <2>1, <2>2, <3>2, <3>3
  <2>4. Registered(u)'
      BY <1>2, <1>3, <2>2, <2>3 DEF Registered, Removed
  <2>. QED BY <1>3, <1>6, <2>1, <2>2, <2>4
<1>. QED BY <1>7, <1>8 DEF Entered

LEMMA EnteredKept ==
    ASSUME Basics, OwnSocket, Entered, NEW t \in Clients, Handler(t)
    PROVE  Entered'
<1>1. CASE \/ ReadArg(t) \/ RecvId(t) \/ RecvIdFails(t) \/ AddClient(t) \/ RecvEnd(t)
           \/ CloseSocket(t) \/ Unlist(t)
    BY <1>1, ReadArgKeeps, RecvIdKeeps, RecvIdFailsKeeps, AddClientKeeps, RecvEndKeeps,
       CloseSocketKeeps, UnlistKeeps
<1>2. CASE RecvCmd(t) \/ SendList(t) \/ BeginBroadcast(t) \/ BroadcastTo(t) \/ EndBroadcast(t)
           \/ SendPrivate(t) \/ Ignore(t) \/ ObeyStop(t)
  <2>1. /\ tpc[t] \in {"recv", "act", "bcast"}
        /\ tpc'[t] \in {"recv", "act", "bcast", "close"}
        /\ \A u \in Clients \ {t} : tpc'[u] = tpc[u]
      BY <1>2, Moved DEF Basics, RecvCmd, SendList, BeginBroadcast, BroadcastTo, EndBroadcast,
             SendPrivate, Ignore, ObeyStop, Points
  <2>2. UNCHANGED <<conn, fdOf, sock, entry>>
      BY <1>2 DEF RecvCmd, SendList, BeginBroadcast, BroadcastTo, EndBroadcast, SendPrivate,
             Ignore, ObeyStop, clientVars
  <2>3. cmd' = cmd \/ cmd' = [cmd EXCEPT ![t] = Head(inbox[Peer(t)])]
      BY <1>2 DEF RecvCmd, SendList, BeginBroadcast, BroadcastTo, EndBroadcast, SendPrivate,
             Ignore, ObeyStop
  <2>4. \A u \in Clients \ {t} : cmd'[u] = cmd[u]
      BY <2>3 DEF Basics, TypeOK
  <2>. QED BY <2>1, <2>2, <2>4, LoopKeeps
<1>. QED BY <1>1, <1>2 DEF Handler

-----------------------------------------------------------------------------
(* The handlers: messages while no race was lost *)

LEMMA ListSentWell ==
    ASSUME Basics, Deliveries, NEW t \in Clients, SendList(t)
    PROVE  Deliveries'
<1>. DEFINE M == {Message(entry[s].id, Listing) : s \in {u \in Table : entry[u].active}}
<1>1. TypeOK /\ up /\ tpc[t] = "act"
    BY Moved DEF Basics, SendList, Points
<1>2. sock[t] \in Fds
    BY <1>1 DEF Basics, SocketsKnown
<1>3. M \in SUBSET ChatMessages
    BY <1>1 DEF TypeOK, Message, ChatMessages
<1>4. \A m \in M : m[2] = Listing
    BY DEF Message
<1>5. Send(sock[t], M)
    BY DEF SendList
<1>. HIDE DEF M
<1>6. \A c \in Clients : \A m \in got'[c] : m \in got[c] \/ (m \in M /\ fdOf[sock[t]] = c)
    BY <1>1, <1>2, <1>3, <1>5, SendEffect
<1>. QED BY <1>4, <1>6 DEF Deliveries, All, Listing

\* The sender is left out by its descriptor, which is no other client's.
LEMMA BroadcastSentWell ==
    ASSUME Basics, OwnSocket, Deliveries, NEW t \in Clients, BroadcastTo(t)
    PROVE  Deliveries'
<1>1. TypeOK /\ DescriptorsFaithful /\ up /\ tpc[t] = "bcast"
    BY Moved DEF Basics, BroadcastTo, Points
<1>2. sock[t] \in Fds /\ fdOf[sock[t]] = t /\ name[t] \in {t, Garbled}
    BY <1>1 DEF OwnSocket
<1>3. CASE ~Recipient(t, entry[k[t]])
  <2>1. got' = got
      BY <1>3 DEF BroadcastTo, Send, wire
  <2>. QED BY <2>1 DEF Deliveries
<1>4. CASE Recipient(t, entry[k[t]])
  <2>. DEFINE f == entry[k[t]].socket
  <2>1. k[t] \in Table
      BY <1>1, SizesAssumption DEF BroadcastTo, TypeOK, Table
  <2>2. f \in Fds /\ f # sock[t]
      BY <1>4, <2>1 DEF Recipient, Basics, SocketsKnown
  <2>3. Send(f, {Message(name[t], All)})
      BY <1>4 DEF BroadcastTo
  <2>. HIDE DEF f
  <2>4. {Message(name[t], All)} \in SUBSET ChatMessages
      BY <1>2 DEF Message, ChatMessages
  <2>5. \A c \in Clients : \A m \in got'[c] :
          m \in got[c] \/ (m \in {Message(name[t], All)} /\ fdOf[f] = c)
      BY <1>1, <2>2, <2>3, <2>4, SendEffect
  <2>6. fdOf[f] # t
      BY <1>1, <1>2, <2>2, Strangers DEF DescriptorsFaithful
  <2>7. \A c \in Clients : fdOf[f] = c => name[t] # c
      BY <1>2, <2>6, Strangers DEF Garbled
  <2>. QED BY <2>5, <2>7 DEF Deliveries, Message
<1>. QED BY <1>3, <1>4

\* The first entry with the addressee's id has its connection.
LEMMA PrivateSentWell ==
    ASSUME Basics, OwnSocket, Entered, Deliveries, NEW t \in Clients, SendPrivate(t)
    PROVE  Deliveries'
<1>. DEFINE d == cmd[t][2]
            s == Min(Matching(d))
            f == entry[s].socket
<1>1. TypeOK /\ up /\ tpc[t] = "act"
    BY Moved DEF Basics, SendPrivate, Points
<1>2. CASE Matching(d) = {}
  <2>1. got' = got
      BY <1>2 DEF SendPrivate, wire
  <2>. QED BY <2>1 DEF Deliveries
<1>3. CASE Matching(d) # {}
  <2>1. d \in Clients
      BY <1>1, PrivateAddressee
  <2>2. Send(f, {Message(name[t], d)})
      BY <1>3 DEF SendPrivate
  <2>3. s \in Matching(d)
    <3>1. Matching(d) \subseteq Nat
        BY SizesAssumption DEF Matching, Table
    <3>. QED BY <1>3, <3>1, Least
  <2>. HIDE DEF d, s
  <2>4. s \in Table /\ entry[s].active /\ entry[s].id = d
      BY <2>3 DEF Matching
  <2>5. PICK u \in Clients : Registered(u) /\ f = sock[u] /\ d \in {u, Garbled}
      BY <2>4 DEF Entered, EntriesOwned
  <2>6. u = d
      BY <2>1, <2>5, Strangers DEF Garbled
  <2>7. f \in Fds /\ fdOf[f] \in {d, Nobody}
    <3>1. f \in Fds
        BY <2>4 DEF Basics, SocketsKnown
    <3>. QED BY <2>5, <2>6, <3>1 DEF Registered, Entered, NotReused, OwnSocket
  <2>8. {Message(name[t], d)} \in SUBSET ChatMessages
      BY <1>1, <2>1 DEF TypeOK, Message, ChatMessages
  <2>. HIDE DEF f
  <2>9. \A c \in Clients : \A m \in got'[c] :
          m \in got[c] \/ (m \in {Message(name[t], d)} /\ fdOf[f] = c)
      BY <1>1, <2>2, <2>7, <2>8, SendEffect
  <2>10. \A c \in Clients : fdOf[f] = c => c = d
      BY <2>7, Strangers
  <2>11. d # All
      BY <2>1, Strangers
  <2>. QED BY <2>9, <2>10, <2>11 DEF Deliveries, Message
<1>. QED BY <1>2, <1>3

LEMMA DeliveriesKept ==
    ASSUME Basics, OwnSocket, Entered, Deliveries, NEW t \in Clients, Handler(t)
    PROVE  Deliveries'
<1>1. CASE SendList(t) \/ BroadcastTo(t) \/ SendPrivate(t)
    BY <1>1, ListSentWell, BroadcastSentWell, PrivateSentWell
<1>2. CASE ~(SendList(t) \/ BroadcastTo(t) \/ SendPrivate(t))
  <2>1. got' = got
      BY <1>2 DEF Handler, ReadArg, RecvId, RecvIdFails, AddClient, RecvCmd, RecvEnd,
             BeginBroadcast, EndBroadcast, Ignore, ObeyStop, CloseSocket, Unlist, wire
  <2>. QED BY <2>1 DEF Deliveries
<1>. QED BY <1>1, <1>2

LEMMA HandlerInvariant ==
    ASSUME IInv, NEW t \in Clients, Handler(t)
    PROVE  IInv'
<1>1. Basics
    BY DEF IInv, Basics
<1>2. raced' = raced
    BY <1>1, HandlerTypes DEF Basics
<1>3. Basics'
    BY <1>1, HandlerBasics
<1>4. ASSUME "argument" \notin raced PROVE OwnSocket'
    BY <1>1, <1>4, OwnSocketKept DEF IInv
<1>5. ASSUME raced = {} PROVE NotReused' /\ EntriesOwned' /\ Deliveries'
  <2>1. OwnSocket /\ Entered /\ Deliveries
      BY <1>5 DEF IInv, Entered
  <2>2. Entered' /\ Deliveries'
      BY <1>1, <2>1, EnteredKept, DeliveriesKept
  <2>. QED BY <2>2 DEF Entered
<1>. QED BY <1>2, <1>3, <1>4, <1>5 DEF IInv, Basics

-----------------------------------------------------------------------------
(* Theorems *)

LEMMA InitialInvariant == Init => IInv
<1>. SUFFICES ASSUME Init PROVE IInv
    OBVIOUS
<1>1. <<>> \in Seq(Commands \cup {Hello}) /\ Other \in Commands /\ Other[1] # "STOP"
    BY DEF Commands, Other
<1>2. TypeOK
    BY <1>1, SizesAssumption DEF Init, TypeOK, Unused, Garbled
<1>3. DescriptorsFaithful
    BY Strangers DEF Init, DescriptorsFaithful, Accepted
<1>4. SocketsKnown
    BY <1>1 DEF Init, SocketsKnown, Unused
<1>5. OwnSocket /\ NotReused /\ EntriesOwned /\ Deliveries
    BY Strangers DEF Init, OwnSocket, NotReused, EntriesOwned, Deliveries, Unused, Garbled
<1>. QED BY <1>2, <1>3, <1>4, <1>5 DEF IInv

LEMMA StutterInvariant ==
    ASSUME IInv, UNCHANGED vars
    PROVE  IInv'
<1>1. TypeOK
    BY DEF IInv
<1>2. UNCHANGED serverVars /\ UNCHANGED clientVars /\ UNCHANGED wire /\ raced' = raced
    BY DEF vars, serverVars, mainVars
<1>3. ConnKept
    BY <1>1, <1>2 DEF ConnKept, clientVars, TypeOK, States
<1>4. TypeOK'
    BY <1>1, <1>2 DEF TypeOK, serverVars, mainVars, handlers, clientVars, wire
<1>. QED BY <1>1, <1>2, <1>3, <1>4, ServerKept DEF IInv

\* The inductive invariant holds in every state, races lost or not.
THEOREM Invariance == Spec => []IInv
<1>1. IInv /\ [Next]_vars => IInv'
    BY ClientInvariant, AcceptInvariant, CreateThreadInvariant, HandlerInvariant,
       StutterInvariant DEF Next
<1>. QED BY InitialInvariant, <1>1, PTL DEF Spec

\* Every variable of the server, its handlers and its clients keeps its type,
\* whatever race is lost.
THEOREM TypeCorrect == Spec => []TypeOK
<1>1. IInv => TypeOK
    BY DEF IInv
<1>. QED BY Invariance, <1>1, PTL

\* Until accept() loses a race an active entry leads to the connection of the
\* client it names, or is about to be cleared by that client's handler.
THEOREM EntriesAreFaithful == Spec => []RegistryFaithful
<1>1. IInv => RegistryFaithful
  <2>. SUFFICES ASSUME OwnSocket, EntriesOwned, NEW s \in Table,
                       entry[s].active, entry[s].id # Garbled
                PROVE  \/ fdOf[entry[s].socket] = entry[s].id
                       \/ \E t \in Clients : tpc[t] = "unlist" /\ sock[t] = entry[s].socket
      BY DEF IInv, RegistryFaithful
  <2>. QED BY DEF OwnSocket, EntriesOwned, Registered
<1>. QED BY Invariance, <1>1, PTL

\* Until accept() loses a race two active entries have different descriptors
\* and different clients.
THEOREM ClientsListedOnce == Spec => []ListedOnce
<1>1. IInv => ListedOnce
  <2>. SUFFICES ASSUME EntriesOwned, NEW s \in Table, NEW u \in Table,
                       entry[s].active, entry[u].active, s # u
                PROVE  /\ entry[s].socket # entry[u].socket
                       /\ entry[s].id = entry[u].id => entry[s].id = Garbled
      BY DEF IInv, ListedOnce
  <2>1. entry[s].socket # entry[u].socket
    <3>1. s < u \/ u < s
        BY SizesAssumption DEF Table
    <3>. QED BY <3>1 DEF EntriesOwned
  <2>2. entry[s].id = entry[u].id => entry[s].id = Garbled
      BY <2>1 DEF EntriesOwned
  <2>. QED BY <2>1, <2>2
<1>. QED BY Invariance, <1>1, PTL

\* Until accept() loses a race private messages reach their addressee and
\* broadcasts everybody but their sender.
THEOREM MessagesDelivered == Spec => []DeliveredRight
<1>1. IInv => DeliveredRight
    BY DEF IInv, DeliveredRight
<1>. QED BY Invariance, <1>1, PTL

\* Until accept() loses a race a client that is listed without a handler has
\* ended, and no STOP of it was read.
THEOREM ListedHaveHandlers == Spec => []ListedAreServed
<1>1. IInv => ListedAreServed
    BY Strangers DEF IInv, ListedAreServed, EntriesOwned, Registered, Garbled
<1>. QED BY Invariance, <1>1, PTL

\* Two handlers serve one connection only after accept() has overwritten the
\* argument of a thread: the other race cannot bring that about.
THEOREM OverwrittenArgumentOnly == Spec => []("argument" \notin raced => OneHandlerEach)
<1>1. IInv => ("argument" \notin raced => OneHandlerEach)
    BY DEF IInv, OwnSocket, OneHandlerEach, Serving
<1>. QED BY Invariance, <1>1, PTL

\* A client whose STOP was read stays in the list only after accept() has lost
\* a race: remove_client() clears the right entry otherwise.
THEOREM ReusedDescriptorOnly == Spec => [](raced = {} => RemovedIsUnlisted)
<1>1. IInv => (raced = {} => RemovedIsUnlisted)
    BY Strangers DEF IInv, RemovedIsUnlisted, EntriesOwned, Registered, Removed, Garbled
<1>. QED BY Invariance, <1>1, PTL
=============================================================================
