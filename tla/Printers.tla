------------------------------ MODULE Printers ------------------------------
(***************************************************************************)
(* The print spooler of ex8/zad1: users.c and printers.c, two programs     *)
(* that share a memory segment with, for every printer, a semaphore, a     *)
(* state, a buffer and the buffer's size.                                  *)
(*                                                                         *)
(* The model starts when the main function of printers.c has initialised   *)
(* the segment and forked the printers.  Every access to the segment is a  *)
(* step of its own.  A job is the user that wrote it: every character of   *)
(* the random string is that user's name.                                  *)
(*                                                                         *)
(* upc[u] is where user u stands in place_task():                          *)
(*   "scan"  find_free_printer looks at printer at[u]                      *)
(*   "wait"  sem_wait on printer at[u]                                     *)
(*   "copy"  strncpy has copied pos[u] - 1 characters                      *)
(*   "size"  about to store the size                                       *)
(*   "work"  about to set the state to WORKING                             *)
(* ppc[p] is where printer p stands in printer_process():                  *)
(*   "poll"  tests its state in a busy loop                                *)
(*   "print" has printed the first head[p] - 1 characters                  *)
(*   "idle"  about to set the state to WAITING                             *)
(*   "post"  about to post its semaphore                                   *)
(***************************************************************************)
EXTENDS Naturals, Sequences, FiniteSets

CONSTANTS
    Users,     \* the user processes
    N,         \* the number of printers
    JobLen,    \* the length of a job, 10 in the program
    MaxKills   \* bound: how many users may be killed

ASSUME UsersAssumption == IsFiniteSet(Users) /\ "nobody" \notin Users
ASSUME NumbersAssumption ==
    N \in Nat \ {0} /\ JobLen \in Nat \ {0} /\ MaxKills \in Nat

VARIABLES
    sem,     \* sem[p]: value of printer_sem
    state,   \* state[p]: WORKING or WAITING
    buffer,  \* buffer[p]: printer_buffer, who wrote each character
    size,    \* size[p]: printer_buffer_size
    upc,     \* upc[u]: control point of user u
    at,      \* at[u]: the printer the user looks at or uses
    pos,     \* pos[u]: the next character to copy
    dead,    \* the users that were killed
    ppc,     \* ppc[p]: control point of printer p
    head,    \* head[p]: the next character to print
    paper,   \* paper[p]: the printer's stdout buffer
    output   \* output[p]: the line flushed last

shared == <<sem, state, buffer, size>>
users == <<upc, at, pos>>
printers == <<ppc, head, paper, output>>
vars == <<shared, users, dead, printers>>

Printers == 1..N
Nobody == "nobody"
Chars == 1..JobLen
WORKING == "WORKING"
WAITING == "WAITING"

TypeOK ==
    /\ sem \in [Printers -> {0, 1}]
    /\ state \in [Printers -> {WORKING, WAITING}]
    /\ buffer \in [Printers -> [Chars -> Users \cup {Nobody}]]
    /\ size \in [Printers -> 0..JobLen]
    /\ upc \in [Users -> {"scan", "wait", "copy", "size", "work"}]
    /\ at \in [Users -> Printers]
    /\ pos \in [Users -> 1..(JobLen + 1)]
    /\ dead \in SUBSET Users
    /\ ppc \in [Printers -> {"poll", "print", "idle", "post"}]
    /\ head \in [Printers -> 1..(JobLen + 1)]
    /\ paper \in [Printers -> Seq(Users \cup {Nobody})]
    /\ output \in [Printers -> Seq(Users \cup {Nobody})]

-----------------------------------------------------------------------------
\* main() of printers.c cleared the segment and ran
\* initalize_printers_attributes().
Init ==
    /\ sem = [p \in Printers |-> 1]
    /\ state = [p \in Printers |-> WAITING]
    /\ buffer = [p \in Printers |-> [k \in Chars |-> Nobody]]
    /\ size = [p \in Printers |-> 0]
    /\ upc = [u \in Users |-> "scan"]
    /\ at = [u \in Users |-> 1]
    /\ pos = [u \in Users |-> 1]
    /\ dead = {}
    /\ ppc = [p \in Printers |-> "poll"]
    /\ head = [p \in Printers |-> 1]
    /\ paper = [p \in Printers |-> <<>>]
    /\ output = [p \in Printers |-> <<>>]

\* User u, still alive, goes from one control point to another.
UserMove(u, from, to) ==
    /\ u \notin dead
    /\ upc[u] = from
    /\ upc' = [upc EXCEPT ![u] = to]
    /\ UNCHANGED <<dead, printers>>

PrinterMove(p, from, to) ==
    /\ ppc[p] = from
    /\ ppc' = [ppc EXCEPT ![p] = to]
    /\ UNCHANGED <<users, dead>>

-----------------------------------------------------------------------------
\* find_free_printer(): one sem_getvalue per step, the first free printer wins.
ScanFree(u) ==
    /\ UserMove(u, "scan", "wait")
    /\ sem[at[u]] > 0
    /\ UNCHANGED <<shared, at, pos>>

ScanBusy(u) ==
    /\ UserMove(u, "scan", "scan")
    /\ sem[at[u]] = 0
    /\ at[u] < N
    /\ at' = [at EXCEPT ![u] = @ + 1]
    /\ UNCHANGED <<shared, pos>>

\* rand() % printers_number
ScanRandom(u) ==
    /\ UserMove(u, "scan", "wait")
    /\ sem[at[u]] = 0
    /\ at[u] = N
    /\ \E p \in Printers : at' = [at EXCEPT ![u] = p]
    /\ UNCHANGED <<shared, pos>>

\* sem_wait(&printer_sem)
Available(p) == sem[p] > 0

Acquire(u) ==
    /\ UserMove(u, "wait", "copy")
    /\ Available(at[u])
    /\ sem' = [sem EXCEPT ![at[u]] = @ - 1]
    /\ pos' = [pos EXCEPT ![u] = 1]
    /\ UNCHANGED <<state, buffer, size, at>>

\* strncpy(), a character at a time
CopyChar(u) ==
    /\ UserMove(u, "copy", IF pos[u] = JobLen THEN "size" ELSE "copy")
    /\ buffer' = [buffer EXCEPT ![at[u]][pos[u]] = u]
    /\ pos' = [pos EXCEPT ![u] = @ + 1]
    /\ UNCHANGED <<sem, state, size, at>>

SetSize(u) ==
    /\ UserMove(u, "size", "work")
    /\ size' = [size EXCEPT ![at[u]] = JobLen]
    /\ UNCHANGED <<sem, state, buffer, at, pos>>

\* state = WORKING; after a sleep the user scans again from printer 0.
SetWorking(u) ==
    /\ UserMove(u, "work", "scan")
    /\ state' = [state EXCEPT ![at[u]] = WORKING]
    /\ at' = [at EXCEPT ![u] = 1]
    /\ UNCHANGED <<sem, buffer, size, pos>>

User(u) ==
    \/ ScanFree(u) \/ ScanBusy(u) \/ ScanRandom(u) \/ Acquire(u)
    \/ CopyChar(u) \/ SetSize(u) \/ SetWorking(u)

\* A user process is killed (Ctrl-C, kill) between any two of its steps.
Kill(u) ==
    /\ u \notin dead
    /\ Cardinality(dead) < MaxKills
    /\ dead' = dead \cup {u}
    /\ UNCHANGED <<shared, users, printers>>

-----------------------------------------------------------------------------
\* Faults for the mutants: the printer starts as soon as it is reserved, its
\* state is read only once, before the loop, or is not reset after the line.
Reserved(p) == sem[p] = 0
ReadOnce(p) == FALSE
StateKept == WORKING

\* if (state == WORKING); a poll that finds WAITING changes nothing.
Ready(p) == state[p] = WORKING

StartLine(p) ==
    /\ PrinterMove(p, "poll", "print")
    /\ Ready(p)
    /\ head' = [head EXCEPT ![p] = 1]
    /\ UNCHANGED <<shared, paper, output>>

\* printf("%c"); sleep(1)
PrintChar(p) ==
    /\ PrinterMove(p, "print", "print")
    /\ head[p] <= size[p]
    /\ paper' = [paper EXCEPT ![p] = Append(@, buffer[p][head[p]])]
    /\ head' = [head EXCEPT ![p] = @ + 1]
    /\ UNCHANGED <<shared, output>>

\* printf("\n"); fflush(stdout)
EndLine(p) ==
    /\ PrinterMove(p, "print", "idle")
    /\ head[p] > size[p]
    /\ output' = [output EXCEPT ![p] = paper[p]]
    /\ paper' = [paper EXCEPT ![p] = <<>>]
    /\ UNCHANGED <<shared, head>>

IdleState == WAITING

SetWaiting(p) ==
    /\ PrinterMove(p, "idle", "post")
    /\ state' = [state EXCEPT ![p] = IdleState]
    /\ UNCHANGED <<sem, buffer, size, head, paper, output>>

Post(p) ==
    /\ PrinterMove(p, "post", "poll")
    /\ sem' = [sem EXCEPT ![p] = @ + 1]
    /\ UNCHANGED <<state, buffer, size, head, paper, output>>

Printer(p) ==
    \/ StartLine(p) \/ PrintChar(p) \/ EndLine(p) \/ SetWaiting(p) \/ Post(p)

Next ==
    \/ \E u \in Users : User(u) \/ Kill(u)
    \/ \E p \in Printers : Printer(p)

Spec == Init /\ [][Next]_vars

\* Every process keeps being scheduled.
Fairness ==
    /\ \A u \in Users : WF_vars(User(u))
    /\ \A p \in Printers : WF_vars(Printer(p))

FairSpec == Spec /\ Fairness

-----------------------------------------------------------------------------
\* User u owns printer p from its sem_wait to its last store.
Holds(u, p) == upc[u] \in {"copy", "size", "work"} /\ at[u] = p

\* Printer p works on a submitted job until it posts.
Busy(p) == state[p] = WORKING \/ ppc[p] # "poll"

\* A printer is free, owned by one user or busy, and never two of these
\* although the semaphore, the state and the processes' own positions are
\* updated separately (users.c:70-79, printers.c:49-59).
OneOwner == \A p \in Printers :
    /\ sem[p] = 1 => ~Busy(p) /\ \A u \in Users : ~Holds(u, p)
    /\ Busy(p) => \A u \in Users : ~Holds(u, p)
    /\ sem[p] = 0 => Busy(p) \/ \E u \in Users : Holds(u, p)
    /\ \A u, v \in Users : Holds(u, p) /\ Holds(v, p) => u = v

\* The owner's copy has reached pos; a submitted job is complete.
JobIntact == \A p \in Printers :
    /\ \A u \in Users : Holds(u, p) =>
         /\ \A k \in Chars : k < pos[u] => buffer[p][k] = u
         /\ upc[u] \in {"size", "work"} => pos[u] = JobLen + 1
         /\ upc[u] = "copy" => pos[u] \in Chars
         /\ upc[u] = "work" => size[p] = JobLen
    /\ Busy(p) =>
         /\ size[p] = JobLen
         /\ \E u \in Users : \A k \in Chars : buffer[p][k] = u

\* What printer p has printed of the current line.
PaperIntact == \A p \in Printers :
    /\ ppc[p] \in {"print", "idle"} => state[p] = WORKING
    /\ ppc[p] = "post" => state[p] = WAITING
    /\ ppc[p] = "print" => paper[p] = [k \in 1..(head[p] - 1) |-> buffer[p][k]]
    /\ ppc[p] # "print" => paper[p] = <<>>

\* No line mixes characters of two jobs, repeats or drops some: every flushed
\* line is the whole job of one user (users.c:74-79, printers.c:50-55).
LineIntact == \A p \in Printers :
    output[p] # <<>> => \E u \in Users : output[p] = [k \in Chars |-> u]

\* The inductive invariant behind the theorems of PrintersProofs.
IInv == TypeOK /\ OneOwner /\ JobIntact /\ PaperIntact /\ LineIntact

-----------------------------------------------------------------------------
Status == [p \in Printers |->
    CASE sem[p] = 1 -> "free"
      [] ppc[p] \in {"idle", "post"} -> "printed"
      [] sem[p] = 0 /\ ppc[p] \in {"poll", "print"} /\ state[p] = WORKING -> "queued"
      [] OTHER -> "held"]

Owner == [p \in Printers |->
    CASE Status[p] = "free" -> Nobody
      [] Status[p] = "held" -> CHOOSE u \in Users : Holds(u, p)
      [] OTHER -> buffer[p][1]]

Service == INSTANCE PrintService WITH status <- Status, owner <- Owner

\* Users and printers together are the print service, also when users are
\* killed: each job accepted is printed exactly once, whole, on the printer
\* its user owns, and a submitted job is always printed (users.c:65-82,
\* printers.c:47-64).
ImplementsService == Service!Spec
ImplementsFairService == Service!FairSpec

\* The only way to lose a printer for good is that its owner is killed before
\* it submits its job (users.c:70-79): otherwise the semaphore is posted again.
PrinterReturns == \A p \in Printers :
    sem[p] = 0 ~> sem[p] = 1 \/ \E u \in dead : Holds(u, p)
=============================================================================
