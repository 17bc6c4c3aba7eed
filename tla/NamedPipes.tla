----------------------------- MODULE NamedPipes -----------------------------
(***************************************************************************)
(* ex6/zad2: a service that integrates (integrate.c), the managers that    *)
(* ask it (manager.c), and the two named pipes between them.               *)
(*                                                                         *)
(* A request and its result are named by the manager that asked.  open of  *)
(* one end of a named pipe waits for the other end; the process counts as  *)
(* a reader or writer as soon as it has called open.  Requests and results *)
(* are smaller than PIPE_BUF and a pipe never fills up.                    *)
(***************************************************************************)
EXTENDS Naturals, Sequences, FiniteSets

CONSTANTS
    Managers,   \* the manager processes, with one request each
    MaxKilled   \* bound: no manager is killed once that many have been

Sizes ==
    /\ IsFiniteSet(Managers) /\ {"nobody", "nothing"} \cap Managers = {}
    /\ MaxKilled \in Nat

VARIABLES
    exists,     \* TRUE while the pipes are there
    service,    \* "start", "openIn", "waitIn", "openOut", "waitOut", "read",
                \* "write" (or still in integrate), "eof", "leave" (one pipe
                \* closed), "ended",
                \* "failed" (mkfifo), "sigpipe"
    manager,    \* manager[m]: "start", "waitIn", "openOut", "waitOut",
                \* "write", "read", "done", "failed", "sigpipe", "killed"
    input,      \* the requests in the input pipe
    output,     \* the results in the output pipe
    range,      \* the request the service has read last, or nobody
    got,        \* got[m]: whose result m has read; nothing, nobody for none
    mixed,      \* history: managers whose exchange overlapped with another's
    endless     \* the managers with a width <= 0 and start < end: never changes

vars == <<exists, service, manager, input, output, range, got, mixed, endless>>

Nobody == "nobody"
Nothing == "nothing"

TypeOK ==
    /\ exists \in BOOLEAN
    /\ service \in {"start", "openIn", "waitIn", "openOut", "waitOut", "read",
                    "write", "eof", "leave", "ended", "failed", "sigpipe"}
    /\ manager \in [Managers -> {"start", "waitIn", "openOut", "waitOut", "write",
                                 "read", "done", "failed", "sigpipe", "killed"}]
    /\ input \in Seq(Managers) /\ output \in Seq(Managers)
    /\ Len(input) + Len(output) <= Cardinality(Managers)
    /\ range \in Managers \cup {Nobody}
    /\ got \in [Managers -> Managers \cup {Nobody, Nothing}]
    /\ mixed \in SUBSET Managers /\ endless \in SUBSET Managers

\* Pipes of an earlier run may be left, since nobody removes them.
Init ==
    /\ exists \in BOOLEAN
    /\ service = "start"
    /\ manager = [m \in Managers |-> "start"]
    /\ input = <<>> /\ output = <<>> /\ range = Nobody
    /\ got = [m \in Managers |-> Nothing]
    /\ mixed = {} /\ endless \in SUBSET Managers

\* Who has each end of each pipe.
InReader == service \in {"waitIn", "openOut", "waitOut", "read", "write", "eof"}
OutWriter == service \in {"waitOut", "read", "write", "eof", "leave"}
InWriters == {m \in Managers: manager[m] \in {"waitIn", "openOut", "waitOut", "write", "read"}}
OutReaders == {m \in Managers: manager[m] \in {"waitOut", "write", "read"}}

\* The managers that wait for an end which the service opens now.
Released(from, to) == [m \in Managers |-> IF manager[m] = from THEN to ELSE manager[m]]

-----------------------------------------------------------------------------
(* integrate.c                                                             *)

\* mkfifo fails when the pipes are there.
MakePipes ==
    /\ service = "start"
    /\ service' = IF exists THEN "failed" ELSE "openIn"
    /\ exists' = TRUE
    /\ UNCHANGED <<manager, input, output, range, got, mixed, endless>>

OpenInput ==
    /\ service = "openIn"
    /\ service' = IF InWriters = {} THEN "waitIn" ELSE "openOut"
    /\ manager' = Released("waitIn", "openOut")
    /\ UNCHANGED <<exists, input, output, range, got, mixed, endless>>

OpenOutput ==
    /\ service = "openOut"
    /\ service' = IF OutReaders = {} THEN "waitOut" ELSE "read"
    /\ manager' = Released("waitOut", "write")
    /\ UNCHANGED <<exists, input, output, range, got, mixed, endless>>

Request == Head(input)

ReadRequest ==
    /\ service = "read" /\ input # <<>>
    /\ range' = Request
    /\ input' = Tail(input)
    /\ service' = "write"
    /\ UNCHANGED <<exists, manager, output, got, mixed, endless>>

SeeEof ==
    /\ service = "read" /\ input = <<>> /\ InWriters = {}
    /\ service' = "eof"
    /\ UNCHANGED <<exists, manager, input, output, range, got, mixed, endless>>

\* Fault for the mutants: the result is kept and written a second time.
WrittenTwice == <<range, range>>
\* Fault for the mutants: a result is written only when the one before is gone.
AnswerIfEmpty == IF output = <<>> THEN <<range>> ELSE <<>>
Answer == <<range>>

\* start never reaches end, so that integrate does not return; manager.c has
\* only printed that the width should be positive.
Stuck == service = "write" /\ range \in endless

\* Without a reader of the pipe write raises SIGPIPE.
WriteResult ==
    /\ service = "write" /\ ~Stuck
    /\ IF OutReaders = {}
         THEN /\ service' = "sigpipe"
              /\ input' = IF InWriters = {} THEN <<>> ELSE input
              /\ output' = <<>>
         ELSE /\ service' = "read"
              /\ output' = output \o Answer
              /\ UNCHANGED input
    /\ UNCHANGED <<exists, manager, range, got, mixed, endless>>

\* What is in a pipe is gone when nobody has it open.
CloseInput ==
    /\ service = "eof"
    /\ service' = "leave"
    /\ input' = IF InWriters = {} THEN <<>> ELSE input
    /\ UNCHANGED <<exists, manager, output, range, got, mixed, endless>>

CloseOutput ==
    /\ service = "leave"
    /\ service' = "ended"
    /\ output' = IF OutReaders = {} THEN <<>> ELSE output
    /\ UNCHANGED <<exists, manager, input, range, got, mixed, endless>>

Service ==
    \/ MakePipes \/ OpenInput \/ OpenOutput \/ ReadRequest \/ SeeEof
    \/ WriteResult \/ CloseInput \/ CloseOutput

-----------------------------------------------------------------------------
(* manager.c                                                               *)

OpenRequests(m) ==
    /\ manager[m] = "start"
    /\ manager' = [manager EXCEPT ![m] =
                     IF ~exists THEN "failed" ELSE IF InReader THEN "openOut" ELSE "waitIn"]
    /\ service' = IF exists /\ service = "waitIn" THEN "openOut" ELSE service
    /\ UNCHANGED <<exists, input, output, range, got, mixed, endless>>

OpenResults(m) ==
    /\ manager[m] = "openOut"
    /\ manager' = [manager EXCEPT ![m] = IF OutWriter THEN "write" ELSE "waitOut"]
    /\ service' = IF service = "waitOut" THEN "read" ELSE service
    /\ UNCHANGED <<exists, input, output, range, got, mixed, endless>>

\* The managers whose exchange is not over: their requests or results are
\* somewhere, or they still wait for one.
InFlight ==
    {m \in Managers: manager[m] = "read"} \cup (IF service = "write" THEN {range} ELSE {})
      \cup {input[n]: n \in DOMAIN input} \cup {output[n]: n \in DOMAIN output}

\* Closing both pipes empties one that nobody else has open.
Leave(m, in, out, end) ==
    /\ manager' = [manager EXCEPT ![m] = end]
    /\ input' = IF InReader \/ InWriters # {m} THEN in ELSE <<>>
    /\ output' = IF OutWriter \/ OutReaders # {m} THEN out ELSE <<>>

WriteRequest(m) ==
    /\ manager[m] = "write"
    /\ IF InReader
         THEN /\ manager' = [manager EXCEPT ![m] = "read"]
              /\ input' = Append(input, m)
              /\ mixed' = IF InFlight = {} THEN mixed ELSE mixed \cup InFlight \cup {m}
              /\ UNCHANGED output
         ELSE Leave(m, input, output, "sigpipe") /\ UNCHANGED mixed
    /\ UNCHANGED <<exists, service, range, got, endless>>

\* Without a writer read returns 0 and result is printed uninitialised.
ReadResult(m) ==
    /\ manager[m] = "read"
    /\ \/ /\ output # <<>>
          /\ got' = [got EXCEPT ![m] = Head(output)]
          /\ Leave(m, input, Tail(output), "done")
       \/ /\ output = <<>> /\ ~OutWriter
          /\ got' = [got EXCEPT ![m] = Nobody]
          /\ Leave(m, input, output, "done")
    /\ UNCHANGED <<exists, service, range, mixed, endless>>

\* A manager may be killed at any time.
Kill(m) ==
    /\ manager[m] \in {"waitIn", "openOut", "waitOut", "write", "read"}
    /\ Cardinality({n \in Managers: manager[n] = "killed"}) < MaxKilled
    /\ Leave(m, input, output, "killed")
    /\ UNCHANGED <<exists, service, range, got, mixed, endless>>

Manager(m) == OpenRequests(m) \/ OpenResults(m) \/ WriteRequest(m) \/ ReadResult(m)

Next == Service \/ \E m \in Managers: Manager(m) \/ Kill(m)

Spec == Init /\ [][Next]_vars

-----------------------------------------------------------------------------
(* Properties.                                                             *)

\* Past the service's loop, or without it.
Gone == service \in {"eof", "leave", "ended", "failed", "sigpipe"}

\* A manager whose exchange no other manager's overlapped reads its own result;
\* whoever reads it, a result is read once; and a manager that reads none finds
\* the service gone.
ResultsDealt ==
    \A m \in Managers:
      /\ got[m] \in Managers /\ m \notin mixed => got[m] = m
      /\ got[m] \in Managers => \A n \in Managers \ {m}: got[m] # got[n]
      /\ got[m] = Nobody => Gone

\* Managers that wait for a result, or for the service to open the pipes while it
\* may still do so.
Waiting(m) ==
    \/ manager[m] = "read"
    \/ manager[m] \in {"waitIn", "openOut", "waitOut", "write"} /\ ~Gone

\* A manager that has written its request gets some result or sees the end of
\* the pipe; one that waits for the pipes to open waits in vain only if the
\* service has gone or could not start (manager.c, the opens and the read).  The
\* exception is a request whose integral does not end: then those who have asked
\* wait for ever, when the results before it have been read.  A manager waits
\* once, so that all return if over and over nobody waits.
ManagerReturns ==
    []<>(\A m \in Managers:
           Waiting(m) => Stuck /\ manager[m] = "read" /\ output = <<>>)
=============================================================================
