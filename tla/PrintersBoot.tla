---------------------------- MODULE PrintersBoot ----------------------------
(***************************************************************************)
(* The print spooler of ex8/zad1 around Printers: main() of printers.c     *)
(* from shm_open to shm_unlink, main() of users.c, Ctrl-C and a restart.   *)
(* Nothing orders the two programs, so users may open the segment at any   *)
(* moment after shm_open, and a segment that Ctrl-C has left behind is     *)
(* cleared and initialised while users of it still run.                    *)
(*                                                                         *)
(* boot is where main() of printers.c stands:                              *)
(*   "off"       not running                                               *)
(*   "truncate"  about to size the segment                                 *)
(*   "clear"     memset has cleared the printers before next               *)
(*   "number"    about to store printers_number                            *)
(*   "sem"       about to initialise the semaphore of printer next         *)
(*   "state"     about to store the state of printer next                  *)
(*   "fork"      about to fork the process of printer next                 *)
(*   "wait"      waits for the printer processes                           *)
(* One instance of printers runs at a time.                                *)
(***************************************************************************)
EXTENDS Printers

CONSTANT MaxStarts  \* bound: how often printers is started

VARIABLES
    boot,
    next,
    segment,    \* "none", "empty" (of size 0), "sized" or "unlinked"
    number,     \* printers_number
    running,    \* the printers that have a process
    opened,     \* the users that have mapped the segment
    dividing,   \* the users about to compute rand() % printers_number
    starts,     \* how often printers was started
    overtaken   \* history: the initialisation met a user at work, see below

bootVars == <<boot, next, segment, number, starts>>
bvars == <<vars, bootVars, running, opened, dividing, overtaken>>

BootTypeOK ==
    /\ sem \in [Printers -> Nat]
    /\ state \in [Printers -> {WORKING, WAITING}]
    /\ upc \in [Users -> {"scan", "wait", "copy", "size", "work"}]
    /\ boot \in {"off", "truncate", "clear", "number", "sem", "state", "fork", "wait"}
    /\ next \in 1..(N + 1) /\ (boot \in {"sem", "state", "fork"} => next \in Printers)
    /\ segment \in {"none", "empty", "sized", "unlinked"}
    /\ number \in {0, N}
    /\ running \in SUBSET Printers
    /\ opened \in SUBSET Users
    /\ dividing \in SUBSET opened
    /\ starts \in 0..MaxStarts
    /\ overtaken \in BOOLEAN

\* No segment yet; a new one is filled with zeroes, and 0 is WORKING.
BootInit ==
    /\ sem = [p \in Printers |-> 0]
    /\ state = [p \in Printers |-> WORKING]
    /\ buffer = [p \in Printers |-> [k \in Chars |-> Nobody]]
    /\ size = [p \in Printers |-> 0]
    /\ upc = [u \in Users |-> "scan"]
    /\ at = [u \in Users |-> 1]
    /\ pos = [u \in Users |-> 1]
    /\ dead = {}
    /\ ppc = [p \in Printers |-> "poll"]
    /\ head = [p \in Printers |-> 1]
    /\ paper = [p \in Printers |-> <<>>]
    /\ output = [p \in Printers |-> <<>>]
    /\ boot = "off" /\ next = 1 /\ segment = "none" /\ number = 0 /\ starts = 0
    /\ running = {} /\ opened = {} /\ dividing = {}
    /\ overtaken = FALSE

\* A user that lives and is between its sem_wait and its last store.
AtWork(u, p) == Holds(u, p) /\ u \notin dead

-----------------------------------------------------------------------------
(* printers.c *)

\* main() goes from one control point to another.
BootMove(from, to) ==
    /\ boot = from
    /\ boot' = to
    /\ UNCHANGED <<users, dead, opened, dividing>>

Kept == UNCHANGED <<shared, printers, number>>

\* shm_open(O_CREAT): an existing segment is opened as it is.  After shm_unlink
\* a new start has a new segment and is a behaviour of its own.
Open ==
    /\ BootMove("off", "truncate")
    /\ starts < MaxStarts /\ segment # "unlinked"
    /\ starts' = starts + 1
    /\ segment' = IF segment = "none" THEN "empty" ELSE segment
    /\ Kept /\ UNCHANGED <<next, running, overtaken>>

Truncate ==
    /\ BootMove("truncate", "clear")
    /\ segment' = "sized" /\ next' = 1
    /\ Kept /\ UNCHANGED <<starts, running, overtaken>>

\* memset() from the first printer to the last and on to printers_number.
ClearPrinter ==
    /\ BootMove("clear", "clear")
    /\ next \in Printers
    /\ sem' = [sem EXCEPT ![next] = 0]
    /\ state' = [state EXCEPT ![next] = WORKING]
    /\ buffer' = [buffer EXCEPT ![next] = [k \in Chars |-> Nobody]]
    /\ size' = [size EXCEPT ![next] = 0]
    /\ overtaken' = (overtaken \/ \E u \in Users : AtWork(u, next))
    /\ next' = next + 1
    /\ UNCHANGED <<printers, segment, number, starts, running>>

ClearNumber ==
    /\ BootMove("clear", "number")
    /\ next = N + 1
    /\ number' = 0
    /\ UNCHANGED <<shared, printers, next, segment, starts, running, overtaken>>

StoreNumber ==
    /\ BootMove("number", "sem")
    /\ number' = N /\ next' = 1
    /\ UNCHANGED <<shared, printers, segment, starts, running, overtaken>>

\* Fault for the mutants: the loops are one too long.
OneMore == next = N + 1
\* The end of the loops over the printers.
LastPrinter == next = N

\* initalize_printers_attributes(): the semaphore first, then the state.
InitSem ==
    /\ BootMove("sem", "state")
    /\ sem' = [sem EXCEPT ![next] = 1]
    /\ UNCHANGED <<state, buffer, size, printers, next, segment, number, starts, running, overtaken>>

\* Fault for the mutants: the state stays what memset made of it.
ZeroState == WORKING
FirstState == WAITING

InitState ==
    /\ BootMove("state", IF LastPrinter THEN "fork" ELSE "sem")
    /\ state' = [state EXCEPT ![next] = FirstState]
    /\ next' = IF LastPrinter THEN 1 ELSE next + 1
    /\ UNCHANGED <<sem, buffer, size, printers, segment, number, starts, running, overtaken>>

Fork ==
    /\ BootMove("fork", IF LastPrinter THEN "wait" ELSE "fork")
    /\ running' = running \cup {next}
    /\ ppc' = [ppc EXCEPT ![next] = "poll"]
    /\ paper' = [paper EXCEPT ![next] = <<>>]
    /\ next' = IF LastPrinter THEN 1 ELSE next + 1
    /\ UNCHANGED <<shared, head, output, segment, number, starts, overtaken>>

\* wait() has returned for every printer: sem_destroy, munmap, shm_unlink.
\* Users that have mapped the segment keep it.
Remove ==
    /\ BootMove("wait", "off")
    /\ running = {}
    /\ segment' = "unlinked"
    /\ Kept /\ UNCHANGED <<next, starts, running, overtaken>>

Main ==
    \/ Open \/ Truncate \/ ClearPrinter \/ ClearNumber \/ StoreNumber
    \/ InitSem \/ InitState \/ Fork \/ Remove

\* Ctrl-C ends main() and its printers at any point; nothing is removed.
Interrupt ==
    /\ boot # "off"
    /\ boot' = "off" /\ running' = {} /\ next' = 1
    /\ Kept
    /\ UNCHANGED <<users, dead, segment, starts, opened, dividing, overtaken>>

\* A printer process is killed alone.
KillPrinter(p) ==
    /\ p \in running
    /\ running' = running \ {p}
    /\ Kept
    /\ UNCHANGED <<users, dead, bootVars, opened, dividing, overtaken>>

BootPrinter(p) ==
    /\ p \in running
    /\ Printer(p)
    /\ UNCHANGED <<bootVars, running, opened, dividing, overtaken>>

-----------------------------------------------------------------------------
(* users.c *)

\* shm_open without O_CREAT; a user that finds no segment exits.
OpenSegment(u) ==
    /\ u \notin opened /\ segment \in {"empty", "sized"}
    /\ opened' = opened \cup {u}
    /\ UNCHANGED <<vars, bootVars, running, dividing, overtaken>>

\* A user that works on a mapped segment.
Live(u) == u \in opened \ dead /\ segment # "empty"

\* i < printers_number and sem_getvalue() are one step; the wait is for a
\* semaphore whatever its life so far.
Scan(u) ==
    /\ Live(u) /\ u \notin dividing /\ number = N
    /\ ScanFree(u) \/ ScanBusy(u)
    /\ UNCHANGED <<bootVars, running, opened, dividing, overtaken>>

\* The loop ends behind the last printer, or at once with printers_number 0.
LeaveLoop(u) ==
    /\ Live(u) /\ u \notin dividing /\ upc[u] = "scan"
    /\ number = 0 \/ (at[u] = N /\ sem[N] = 0)
    /\ dividing' = dividing \cup {u}
    /\ UNCHANGED <<vars, bootVars, running, opened, overtaken>>

\* rand() % printers_number
Divide(u) ==
    /\ u \in dividing /\ number # 0
    /\ UserMove(u, "scan", "wait")
    /\ \E p \in Printers : at' = [at EXCEPT ![u] = p]
    /\ dividing' = dividing \ {u}
    /\ UNCHANGED <<shared, pos, bootVars, running, opened, overtaken>>

\* Division by zero, or a page that ftruncate has not made yet.
Crash(u) ==
    /\ u \in opened \ dead
    /\ (u \in dividing /\ number = 0) \/ segment = "empty"
    /\ dead' = dead \cup {u}
    /\ dividing' = dividing \ {u}
    /\ UNCHANGED <<shared, users, printers, bootVars, running, opened, overtaken>>

\* A semaphore taken before the state of its printer is stored.
TakeTask(u) ==
    /\ Live(u)
    /\ Acquire(u)
    /\ overtaken' = (overtaken \/ (boot = "state" /\ next = at[u]))
    /\ UNCHANGED <<bootVars, running, opened, dividing>>

PlaceTask(u) ==
    /\ Live(u)
    /\ CopyChar(u) \/ SetSize(u) \/ SetWorking(u)
    /\ UNCHANGED <<bootVars, running, opened, dividing, overtaken>>

KillUser(u) ==
    /\ u \in opened
    /\ Kill(u)
    /\ dividing' = dividing \ {u}
    /\ UNCHANGED <<bootVars, running, opened, overtaken>>

BootNext ==
    \/ Main \/ Interrupt
    \/ \E p \in Printers : BootPrinter(p) \/ KillPrinter(p)
    \/ \E u \in Users :
         \/ OpenSegment(u) \/ Scan(u) \/ LeaveLoop(u) \/ Divide(u) \/ Crash(u)
         \/ TakeTask(u) \/ PlaceTask(u) \/ KillUser(u)

BootSpec == BootInit /\ [][BootNext]_bvars

-----------------------------------------------------------------------------
(* Properties.                                                             *)

\* However early the users come, wherever Ctrl-C finds either program and over
\* every restart: a printer that runs is free, at one user or busy, and lines
\* are whole jobs (users.c:70-79, printers.c:38-62).  The exceptions are two:
\* memset cleared the printer of a user at work, or a user took a printer
\* between sem_init and the store of its state.
OwnedUnlessOvertaken == ~overtaken =>
    /\ LineIntact
    /\ \A p \in running :
         /\ sem[p] \in {0, 1}
         /\ sem[p] = 1 => ~Busy(p) /\ \A u \in Users : ~AtWork(u, p)
         /\ Busy(p) => \A u \in Users : ~AtWork(u, p)
         /\ sem[p] = 0 => Busy(p) \/ \E u \in Users : Holds(u, p)
         /\ \A u, v \in Users : AtWork(u, p) /\ AtWork(v, p) => u = v
=============================================================================
