# Operating-Systems-AGH-course: verification project

The repository is a collection of small C programs written for an operating
systems course. They do not call each other: every directory `exN/zadM` or
exam task is a system of its own, with its own threads, processes, shared
segments, queues or sockets. So this project has one TLA+ specification per
program (or pair of programs that talk to each other), an abstract
specification where a program promises something that can be said without its
locks and loops, TLC runs for all of them, and TLAPS proofs of the safety
properties of all but one (`SigParent`, of which only the types are proved).

Paths below are relative to `src/`. `kol_01` and `kol_02` stand for
`05_MakowskiMaciej_kol_01_czw_0800_0930/kol_01_czw_0800_0930` and
`05_MakowskiMaciej_kol_02_czw_0800_0930`.

## 1. Inventory

### Concurrent programs that keep state

| Component | State | Operations | Interaction | What is hard | What makes it correct |
|---|---|---|---|---|---|
| **Ring buffer** `kol_02/03/main.c` | `buffer`, `in`, `out`, semaphores `empty`, `full`, `mutex` | `producer`, `consumer`, `main` (create, join) | 10 threads over shared memory | two semaphores admit threads, one mutex protects both cursors; ring full or empty | a bounded FIFO queue; no token lost; all threads joined |
| **Print spooler** `ex8/zad1` | a shared segment: per printer a semaphore, a state, a buffer, a size | `place_task`, `find_free_printer` (users); `printer_process` and the initialisation (printers) | unrelated processes over `shm_open` | scan and `sem_wait` are separate; buffer, size and state are stored one by one while the printer polls; users may be killed; users that start early, restarts over a live segment | one owner per printer; each line one whole job; submitted jobs are printed; printers become free again |
| **Santa Claus** `ex10/zad1` | `reindeers_count`, one mutex per reindeer used as a gate, a condition variable | `santa_thread`, `reindeer_thread`, `main` | 10 threads | a signal that nobody waits for; a wakeup without a signal; a gate unlocked by another thread; cancellation | deliveries with all reindeer; nobody passes a gate twice; everybody terminates |
| **TCP chat** `ex11/zad1` | `clients[]` under `clients_mutex`; descriptors; per-thread buffers | accept loop, `client_handler`, `LIST`, `2ALL`, `2ONE`, `STOP` | one thread per connection, TCP | the thread argument is shared with the next `accept`; `close` before unlisting; merged messages; clients that vanish; SIGPIPE | entries lead to the client they name; the list is the served clients; removed clients are not listed |
| **Queue chat** `ex7/zad1` | server: `mq_clients`, `clients_count`; client: parent, child and a pipe | `INIT`, `MSG` relay; client receive and send | POSIX queues with blocking `mq_send` | a full queue of a dead client; joins during a relay; restart while queues survive | every client gets exactly what came after its `INIT`, in one common order |
| **UDP chat** `ex12/zad1` | `clients[]` by address | one loop over datagrams; checksum; same four commands | UDP: loss, duplication, reordering | any datagram registers its sender; the initial message has no command, a bare `2ALL` no text; Ctrl-C sends a `STOP` without checksum and id | one entry per client, with its name; the last datagram handled decides who is listed; messages reach the right clients |
| **Game of Life** `ex9/zad1` | two grids, two pointers exchanged by `main` | `main` loop, `thread_work`, `update_grid`, `is_alive` | `SIGUSR1` to threads in `pause()`; shared pointers | lost signals; pointers exchanged without a lock; cells that belong to no thread | the screen shows one generation after the other |
| **Parallel integration** `ex6/zad1` | one pipe per child | fork, integrate, write, read | pipes | the partition rounds; a child that dies; widths that are not positive | every cell is counted once, few are left out; the parent returns |
| **Integration service** `ex6/zad2` | two named pipes | manager request, service loop | FIFO files | two managers share the result pipe; end of file; a request that never ends | every manager reads its own result |
| **Signal catcher** `ex5/zad2` | `status`, `status_changes` | handler, `switch` loop, sender | `sigqueue`, `kill` | handler against `status = 0`; pending signals merge; confirmation before `sigsuspend` | every request is accounted for and obeyed at most once; senders return |
| **Signal exam** `kol_01/zad_02` | none but the mask | parent `sigqueue`, child `pause` | one signal | signal before `pause` | the child prints the value and ends |
| **Reaper exam** `kol_01/zad_03` | `nprocs` | fork loop, SIGCHLD handler | signals | `nprocs++` against the handler's `nprocs--` | the parent ends after its children |
| **Shared memory exam** `kol_02/01` | one segment | writer, reader (which removes it) | shared memory | order of the two programs | what is read was written |

### Programs without interesting interleavings

`ex2` (Collatz library and three clients that differ in linking) and `ex3/zad1`
(file reversal by bytes and by blocks) compute functions; they are modelled as
loops whose results are compared with a definition. `ex1` (countdown), `ex3/zad2` (sum of file sizes), `ex4` (fork and exec
demonstrations), `ex5/zad1` (one `raise` per disposition), `kol_01/zad_01` (a
sum loaded with `dlopen`) and `kol_02/02` (one write and one read through a
pipe) are a single pass of library or system calls; modelling them would
restate their lines, and they stay out.

## 2. Modules

| Component | Module | Role |
|---|---|---|
| Ring buffer | `BoundedFifo` | abstract bounded queue |
| | `BoundedBuffer` | the program |
| | `BoundedBufferProofs` | theorems |
| Print spooler | `PrintService` | abstract service: take, submit, print, release |
| | `Printers` | the two programs on an initialised segment |
| | `PrintersBoot` | start-up, Ctrl-C, restart and removal around `Printers` |
| | `PrintersProofs` | theorems about both |
| Santa Claus | `Santa` | the program |
| | `SantaProofs` | theorems |
| TCP chat | `ChatTcp` | server, clients and sockets |
| | `ChatTcpProofs` | theorems |
| Queue chat | `ChatMq` | server, clients and queues |
| | `ChatMqProofs` | theorems |
| UDP chat | `Registry` | abstract: a set of members of bounded size |
| | `ChatUdp` | server, clients and network |
| | `ChatUdpProofs` | theorems |
| Game of Life | `Generations` | abstract: one generation after the other |
| | `Life` | the program |
| | `LifeProofs` | theorems |
| Signal catcher | `Catcher` | catcher and senders |
| Reaper exam | `Reaper` | the program |
| Signal exam | `SigParent` | the program |
| Parallel integration | `Integrate` | the program |
| Integration service | `NamedPipes` | service and managers |
| File reversal | `Reverse` | both variants of the program |
| Collatz library | `Collatz` | the library |
| The last seven | `ExerciseProofs` | theorems |

Every specification has an `MC...` module, which TLC runs with the `.cfg` files
beside it. `MCExercises` puts the small programs, the last seven of the table,
side by side in one run: a variable `program` says which one a behaviour is
about, and the others keep their variables. Sets that could be symmetric are
declared symmetric in `MCChatTcp`, `MCChatUdp` and `MCPrintersBoot` only, whose runs with
symmetry check no liveness.

Common conventions. A thread or process has a control point (`pc`, `upc`,
`tpc`, …) named for what it is about to do. Every access to shared memory that
another thread can see is a step, and steps are joined only where the comment
says why nobody can come between. Definitions that are named *Fault* in their
comment (`MutexIgnored`, `OneTooFar`, ...) are not used by the specification: each is
what a plausible slip in the code would make of the definition after it, and
the project's mutation list replaces the one by the other to see that the
properties notice.

### 2.1 `BoundedBuffer`

One action per statement of the two loops: `WaitEmpty`/`WaitFull` (`sem_wait`),
`Lock`, `WriteSlot`/`ReadSlot`, `AdvanceIn`/`AdvanceOut`, `Unlock`,
`PostFull`/`PostEmpty`. The slot access and the cursor update are separate, so
exclusion has to come from the mutex. The value `rand()` is a pair
`<<producer, number>>`, which makes loss, duplication and reordering visible.
`Exit` is the program after its joins.

*Refinement.* `ImplementsFifo` (proved) and `ImplementsFairFifo` (which adds the
queue's fairness and is checked): the queue is `Contents`, the items from `First` on,
where a thread that has used a slot and not moved its cursor yet is allowed
for. `WriteSlot` is the queue's `Put`, `ReadSlot` its `Get`, all else stutters.

### 2.2 `Printers`

Starts when `printers.c` has initialised the segment. `ScanFree`, `ScanBusy`
and `ScanRandom` are `find_free_printer()` with one `sem_getvalue` per step and
the random printer when none is free; note that the random printer may be taken
while another one has become free meanwhile. `Acquire`, `CopyChar`, `SetSize`,
`SetWorking` are `place_task()`; the strncpy is a step per character. The
printer polls (`StartLine`), prints a character at a time, flushes, stores
`WAITING` and posts. `Kill` removes a user between any two of its steps, and its
semaphore token with it.

The printer's state is neither `volatile` nor atomic. The Makefile's default
build has no optimisation, so the loop loads it every time; the mutant
`ReadOnce` is a build that hoists the load out of the loop.

*Refinement.* `ImplementsService` (proved) and `ImplementsFairService` (checked):
a printer's `Status` is read off the
semaphore, the state and the printer's control point, its `Owner` off the users
or, once submitted, off the buffer.

**`PrintersBoot`** extends `Printers` with main of both programs. `Open`, `Truncate`,
`ClearPrinter` and `ClearNumber` (memset, from the first printer to
`printers_number`), `StoreNumber`, `InitSem` and `InitState` (in the code's
order) and `Fork` are main of `printers.c`; `Remove` is what follows its wait
loop. Users open the segment at any moment, crash on a segment of size zero or
on `rand() % 0` (`Crash`), and otherwise take the steps of `Printers`.
`Interrupt` is Ctrl-C in the terminal of `printers`: main and all printers end,
the segment stays as it is, and a new start clears it while users of the old
one may be anywhere. `OwnedUnlessOvertaken` says that this is harmless but for
two moments, each of which TLC shows to be needed: memset that clears the
printer of a user between `sem_wait` and its last store, and a user that takes a
printer between `sem_init` and `state = WAITING`, whose job the store then
discards. What `sem_init` under a waiting user does is undefined in POSIX; with
glibc the sleeper may or may not find the new value, and the model, which
demands no progress here, has both. After `shm_unlink` a new start has a new
segment and is a behaviour of its own. Two instances of `printers` at a time
are not modelled.

### 2.3 `Santa`

Santa's mutex has no second user, so locking it and waiting is one step
(`FallAsleep`). `Release` unlocks one gate per step. `Cancel` ends a reindeer
where it stands, its mutexes locked. A reindeer's increment is a load and a
store under the counter's mutex.

Switches: with `Prompt` a holiday ends only when Santa is back in
`pthread_cond_wait` (a holiday takes at least five seconds, Santa's way back
none); without it any timing is possible. `MaxSpurious` bounds wakeups without a
signal, which POSIX allows.

### 2.4 `ChatTcp`

`main` is `Accept` and `CreateThread`; a handler is `ReadArg`, `RecvId`,
`AddClient` and the command loop; `remove_client` is `CloseSocket` and `Unlist`,
the two halves between which another thread can run. Broadcasts hold the lock
and send to one entry per step. `LIST` and `2ONE` lock, send and unlock in one
step, since the other threads that touch the table need the lock.

The sockets are external: `accept` gives the lowest free descriptor; `recv`
may return several messages of the stream at once (`Coalesce`), of which the
handler looks at the first only; it returns 0 when the peer has ended; a send
to an ended peer is lost, and a second one may raise SIGPIPE, which ends the
server (`up`).

`accept` can lose two races: it overwrites the variable to which the argument of
a thread points that has not read it yet (server.c:173 and :93), and it hands out the
descriptor of a client that `remove_client` has closed and not unlisted yet
(server.c:79 and :80). Both are in the model and nothing restricts when `accept`
runs; the history `raced` remembers which of them was lost (`RacesLost`).
What the code guarantees it guarantees up to the first race lost, and so say
the properties: `RegistryFaithful`, `ListedOnce`, `DeliveredRight`,
`ListedAreServed` and `StopUnlists` with `raced = {}`. What each race does is shown by a
run of its own (see Findings), and two theorems say that nothing else does it:
two threads serve one connection only after an argument was overwritten
(`OverwrittenArgumentOnly`), and a removed client stays listed only after one
of the races (`ReusedDescriptorOnly`).

A client that ends without STOP stays in the list for ever, since
`recv` returning 0 ends the handler without `remove_client` (server.c:110);
`ListedAreServed` says that only clients that have ended, and none whose STOP
was read and obeyed, are listed without a handler.

What the sockets of the model cannot do. `Send` never blocks, but server.c:42-43
and :52-60 send while they hold `clients_mutex`: a peer that lives and does not read would, once
its buffers are full, block the sender and with it every `Unlist`, so that
`StopUnlists` holds only while the socket buffers take everything, as they do
the few messages of two lines. `recv` at server.c:99 never returns a part of an id,
which one `send` of a few bytes wrote, and no two clients choose the same id.
Lines without an argument (`2ALL` or `2ONE` alone) are not modelled, nor the lengths of
buffers.

### 2.5 `ChatMq`

The server is `Receive`, `Reply` (INIT) and the relay loop, one `mq_send` per
step, each blocked while the queue is full. A client is a parent
(`SendInit`, `ReadId`, `SendLine`) and a child (`Show`) with a pipe between
them. `Kill` ends both; the queue stays. `Restart` clears the server's table but
not the queues. `log` is a history of what the server has taken.

The properties speak of places in the log. What a client is owed (`Owed`) are
the places of the others' lines since its `INIT`, but for the one the relay loop
has still to bring it; `DeliveredExactly` says that what it was given behind its
id picks exactly these places in their order (`Picks`). `SameOrder` compares what
any two clients have shown and needs no history, so that it can go on through
restarts.

### 2.6 `Life`

`main` is `Kill` (one `pthread_kill` per step), `GoToSleep`/`WakeUp`, `Update`
(one cell per step of `update_grid`), the two stores of the exchange and
`Draw`. A thread is `Pause`, `Compute` (`is_alive`, through the pointers it
shares with main), `Store` and `EndLoop`. A signal that finds its thread
outside `pause()` runs an empty handler and is gone. `CellsPerThread` is the
integer quotient that `ceil` receives; `FirstCell` and `LastCell` are main's
arguments to the threads. `is_alive` keeps the C code's index arithmetic and
boundary tests, and `Generations` states the rule on positions instead.

The second grid is what `malloc` returned: two contents that differ in every
cell stand for all. Switch: with `Prompt` the half second main sleeps is enough
for the threads it has woken. Without it a late thread may store through
the exchanged pointers, into the grid on screen; the mutant `NoSleep` shows
that `ThreadsAgree` and `ImplementsGenerations` depend on it. `cleanup()` is
after an endless loop and not modelled.

*Refinement.* `ImplementsGenerations`: what `Draw` shows is one generation of
`Generations` after the other.

The pointers are loaded again at every cell, as in any build whose `is_alive`
is in another translation unit (it is in `grid.c`).

### 2.7 `ChatUdp`

The server is one thread: a datagram is one action, which is the whole of
`handle_client_message` for it. `Crash` (no space to split at), `Discard`
(checksum), and the branches after registration: `SendList`, `Broadcast`,
`SendPrivate`, `ObeyStop`, `RegisterOnly`. A client is `SendInitial`,
`SetupHandler`, `SendLine`, `Interrupt`. The network is a set: any datagram may
be next, may be handled and kept (a repeated datagram), `Lose`d or `Damage`d.

Four peculiarities of the code are in the model and not idealised. Every datagram that is parsed
registers its sender, so that a STOP overtaken by a late line lists the
client again: `ListedByLast` is what remains true, the datagram *handled* last
decides. `sscanf` leaves `command` alone when a datagram ends after the id:
what the previous call left on the stack may be obeyed (`Parsed`), and a text
then appears under another name. A bare `2ALL` or `2ONE` has nearly the same effect:
`sscanf` writes the word and its terminator, and the server reads `command + 5`, behind
the terminator, where the text of the call before still is (server.c:109 and :38).
So `command` has a kind and a tail, which are overwritten separately, and a tail
knows who typed it. Every word that the server compares has four letters, so that the
tail is at the same place for all of them. If the tail has no word, `target_id` is not
initialised (`TargetIds`). `wordless` remembers the clients that sent a datagram
which ended before its tail, and `SentRight` limits texts under a wrong name to them;
that every client sends such a datagram when it starts matters only once that
datagram has arrived undamaged. And Ctrl-C sends `STOP` without an id,
behind whose missing space the server reads address 1: it crashes, as it does
at a private message without a text to a listed client (`UpUnlessUnparsed`).

`Lines` are the lines that may be typed (`LinesAssumption` says what a line
is), and `MaxEvents` bounds the lines and the faults of the network together. The tails
of words that are no command, which may be shorter or longer, are not told
apart from those behind a word of four letters.

*Refinement.* `ImplementsRegistry`: the set of addresses of active entries is the
members of a `Registry` of capacity `Slots`.

### 2.8 `Catcher`, `Reaper`, `SigParent`

`Catcher`: `Switch`, `Clear` (`status = 0`) and `Exit` are main's loop, `TakeSignal`
and `Confirm` the handler, which runs with its own signal blocked and between
any two of main's steps. A standard signal that finds one pending is dropped
with its value (`Queue`). A sender is "sent" until it calls `sigsuspend` (`Suspend`)
and "suspended" in it; only the confirmation takes it out (`Confirm`), and one that
comes before `sigsuspend` is wasted. `SenderReturns` is about both: a sender ends in either
of them for ever only if its request was merged, not heard, or confirmed too early.
`fate` is a history of what becomes of each request. `RequestsAccounted` says that
a request is in one place, that the `status` is the one request that waits for
main, and that `status = 0` erases at most one request for each that was obeyed.

`Reaper`: `nprocs++` is `Load` and `Store`; the handler (`EnterCatch`, `Reap`,
`LeaveCatch`) may run between the two, and its decrements are then lost. The
parent then sleeps for ever; `ParentKnows` says that this is the only way, and
that the count is never wrong in the dangerous direction.

`SigParent`: the child is before its mask, behind it, or in `pause()` when the
signal comes, of the three kinds that the Makefile sends.

### 2.9 `Integrate`, `NamedPipes`, `Reverse`, `Collatz`

`Integrate` abstracts the range to unit cells and a sum to how often each cell
is in it. `integrate` is the union of its rectangles, the last one cut by `min`.
Children write or die; the parent reads them in order, and a read at
end of file adds the partial result of the iteration before, or garbage. The
width is any number, as `strtod` returns it: 0 is divided by and multiplied with and leaves all
parts empty, and with a negative one a child that has a part steps away from
its end for ever (`Endless`), so that the parent, whose read waits for it, need not end;
`Termination` names just this exception. There is at least one process.

`NamedPipes` has the blocking opens of both ends, one request and one result
per exchange, end of file, SIGPIPE and killed managers. Managers whose exchanges
overlap may read each other's result; `ResultsDealt` says that nothing worse
happens. manager.c:20-22 only prints that the width should be positive and sends
the request all the same; the service then loops in integrate.c:17-21 for
ever (`Stuck`). `endless` are the managers with such a request, and
`ManagerReturns` says that otherwise everybody returns, and who waits then: managers that have
asked, once the results before are read. A positive width that is lost when it is added to a
much larger `start` has the same effect and is such a request too.

`Reverse` is one loop iteration per step; a file whose bytes all differ stands
for all files of its length.

`Collatz`: the loop continues while `input != 1 || i <= max_iter`, so it ends
only beyond the limit, never returns -1, and never returns for 0 and the
negative cycles. `LateCount` compares the result with the stopping time in
unbounded integers, for calls whose sequence does not overflow; ints wrap, as
in the `-O0` builds of the Makefile. `Half` is 2^31 there.

The programs of 2.8 and 2.9 share their modules' constants with the run, so their
assumptions are definitions named `Sizes`, which `MCExercises` assumes
and the theorems about one program name as their hypothesis.

## 3. Runs

Every number of states is that of the run as committed.

| Run | Bounds | Shows |
|---|---|---|
| `BoundedBuffer` | 2+2 threads, 3 slots, 3 items each (74 thousand states) | tokens accounted for, cursors agree, fair FIFO, termination |
| `Printers` | 2 users, 2 printers, jobs of 2 characters, 1 kill (74 thousand) | one owner, whole lines, the fair print service, printers become free |
| `Santa` | 4 reindeer, 3 deliveries, `Prompt`, 1 spurious wakeup (72 thousand) | deliveries with all reindeer unless woken spuriously, gates, counter, termination |
| `ChatTcp_orderly` | 3 clients, 2 entries, 1 line together, merged messages (2.6 million, up to symmetry) | up to the first race lost: entries lead to their clients, no client twice, messages reach the right client |
| `ChatTcp_live` | 2 clients, 2 lines together, 1 vanishing (572 thousand) | up to the first race lost: a STOP that was read ends with the client unlisted; only clients that have ended are listed without a handler |
| `ChatTcp_arg` | 2 clients, 1 line | *violation*: two handlers for one connection |
| `ChatTcp_ghost` | 2 clients, 2 lines | *violation*: a removed client is still listed, without an overwritten argument |
| `ChatMq` | 3 clients, queues of 2, 2 lines, 1 kill, 1 restart | exact delivery, common order, the server returns unless a dead client's queue is full |
| `ChatUdp` | 3 clients, 2 entries, 2 events, which are lines typed or faults of the network (2.0 million, up to symmetry) | one entry per client, the last datagram decides, texts reach the right clients, what ends the server, the registry |
| `Life` | 3x3 cells, 2 threads, 86 first generations, `Prompt` (159 thousand) | threads never meet, agree with main, all work again and again, generations |
| `PrintersBoot` | 3 users, 1 printer, jobs of 2 characters, 2 starts, 1 kill (867 thousand, up to symmetry) | loops within the table, one owner and whole lines over restarts |
| `Exercises` | 3 senders with any requests; 4 children; the 3 signals of the exam; range 10, widths -4 to 4, up to 4 processes; 3 managers, 2 killed, 1 request that never ends; files up to 8 bytes, buffers of 3; arguments from -15 to 15 (190 thousand) | requests accounted for, what the parent knows of its children, the sum, whose result a manager reads, the reversed file, what Collatz returns, who returns |

Why the bounds are enough. In the ring, 3 slots with 4 threads reach empty,
full, both at once reserved, and cursors that wrap twice; 3 items per thread
cross the end of the ring. Two characters are the least a torn line needs, two
printers the least the scan needs to go on and the random choice to differ. Four
reindeer and three deliveries let a late reindeer of one delivery meet the
early ones of the next. Three clients and two table entries give the chats a
client that is served but not listed. A queue of two is filled by an id and
one message, or by two messages. Two events of the UDP chat are a text and a bare command
behind it, a line that is lost, repeated or overtaken, or two faults that befall the
initial messages. 3x3 cells with two threads leave a cell without
a thread, and a grid whose corner, edge and centre cells are all different;
`MCLife` in addition compares `is_alive` with the rule on all 4096 grids of 4x3
cells, where rows and columns cannot be confused unnoticed. Three senders are
one in the handler, one pending and one merged. Range 10 is
a multiple of some widths and of none of their products with some numbers of processes,
and the negative widths include some with which nobody has a part. Behind a request
that never ends the service reads no other. Eight bytes
are two full buffers of three and a rest. One printer suffices for
`OwnedUnlessOvertaken`, which speaks of one printer at a time, and three users are
one at work, one that waits and one still on the old segment; the property is
proved for any number of both. With `Half` = 128 an int
has 8 bits and some sequences overflow, others do not.

### Deadlock

TLC checks for it in `BoundedBuffer`, `Santa` and `Life`, where nobody may stop
before everybody has ended (in `Life` never). Elsewhere a behaviour may really stop:
`Printers` when its bounded number of users has died with every printer taken,
the chats when nobody types any more, and the programs of `Exercises` when they
have ended or wait for a signal that was lost; there `SignalsHeard` and `CallersReturn`
say who must not be among those that wait.

### Fairness

*Threads and processes keep being scheduled* (weak fairness of each one's
steps): the operating system's scheduler, nothing else. Semaphores and mutexes
need no stronger assumption in the runs: in the ring the number of rivals is
finite and each of them stops after its items; the print service promises
nothing to a particular user, only to submitted jobs, whose printer waits for
nobody. No fairness is assumed of what may not happen: spurious wakeups,
kills, restarts, a client that types, connects or disconnects. The TCP
server's `accept` returns an established connection in the end. `Exercises`
assumes that a pending signal is delivered to a process that does not
block it, and that a child that was forked ends, unless its loop does not; a sender or a manager need not
be started. Its three conditions name the steps of all programs, of which one
program's are possible in a behaviour, and of all senders, managers or
children together: each of these takes a few steps only, so that none can be
passed over for ever. `ChatUdp` and the spooler's start promise nothing that must
happen, since no fairness holds of a network that may lose everything and of
users that may be killed, and have no fairness.

### Findings

1. `ex11` `server.c:173`: handlers get the address of main's variable, which the
   next `accept` overwrites (`ChatTcp_arg`).
2. `server.c:79`: the descriptor is closed before the entry is cleared, and the
   search looks at inactive entries too, so the wrong entry can be cleared
   (`ChatTcp_ghost`).

Weaknesses of the code that appear as exceptions of properties, or behind the switch `Prompt`,
instead of as runs of their own:

- `ex10` `santa_claus_problem.c:116`: the last reindeer signals without a flag
  and without Santa's mutex; a signal sent before Santa waits is lost. With
  `Prompt = FALSE` in `Santa.cfg` TLC reports the deadlock. The lengths of the
  sleeps hide it.
- `santa_claus_problem.c:67`: `pthread_cond_wait` is not in a loop: after a
  spurious wakeup Santa delivers with reindeer away (the premise of
  `AllBackUnlessSpurious`). The program still terminates.
- `ex11` `server.c:110`: clients that end without STOP remain listed (the
  exception of `ListedAreServed`).
- `ex11` `server.c:57`: a client that does not read can block everybody who
  needs `clients_mutex` (outside the model, see 2.4).
- `ex12`: Ctrl-C in a client ends the server, and so does a private line without
  a text; a datagram without a command repeats the command before it, and a bare `2ALL` or
  `2ONE` its text (`server.c:109`, `:38`), under another name; a late datagram lists a
  client again (2.7).
- `ex6/zad2` `manager.c:20`: a width that is not positive is reported and sent
  all the same, and the service never answers again (the exception of
  `ManagerReturns`); `ex6/zad1` takes a negative width without a word
  (that of `Termination`).
- `kol_01/zad_03` `main.c:80`: a decrement between load and store is lost (the
  exception of `ExitsUnlessLost`).
- `ex5/zad2`: requests merge, are erased by `status = 0`, or are confirmed too
  early (`RequestsAccounted`, `SenderReturns`).
- `ex8/zad1` `printers.c:40`: a user between `sem_init` and the store of the
  state loses its job; `printers.c:80`: a restart takes the printer from a user
  at work (`OwnedUnlessOvertaken`).
- `ex2` `collatz.c:10`: `||` instead of `&&`: the limit is a lower bound (`LateCount`).

## 4. Proofs

The theorems hold for every value of the constants that satisfies the modules'
assumptions or, for the small programs, the `Sizes` a theorem names: any finite
sets of threads, ring size and number of items; any finite set of users, any
positive numbers of printers and characters, any numbers of kills and starts; any grid size
and any number of threads up to the number of cells, from any first generation;
any finite sets of clients, table sizes, lengths of queues and numbers of lines, faults and
restarts; any number of reindeer, deliveries and spurious wakeups; any finite
sets of children, senders and managers; any range, width (also one that is not
positive) and number of processes; any file and buffer; any width of int.

Every safety property of a passing run is proved in this way. Each proof has the
same three parts: an inductive invariant, a lemma per action that it is kept, and
what follows from it.

**`BoundedBufferProofs`.** The invariant `IInv` is `TypeOK`, that a thread past
its loop test has iterations left (`LoopBound`), that a producer on its way
carries this iteration's item (`ItemLoaded`), that exactly the mutex's owner is
in the critical section (`OwnerOnly`), and the two properties `SlotsAccounted`
and `CursorsAgree`. Neither of the two is inductive alone: that a semaphore stays
within its range needs the count of all tokens, and that the cursors agree
needs to know that no second thread is between slot and cursor. `CountAfterMove` and `TokensAfterMove` say
how the cardinalities change when a thread moves; `FollowingSlot`,
`CursorShift` and `DistinctSlots` are the modular arithmetic. `Refinement` shows
that the program implements `BoundedFifo`: `FifoPut` and `FifoGet` for the two
slot accesses, `FifoStutter` for all other steps.

**`PrintersProofs`.** `IInv` adds to `TypeOK`, `OneOwner` and `LineIntact` how
much of the job is in the buffer (`JobIntact`) and on the paper
(`PaperIntact`). `LineIntact` needs both: the flushed line is the paper, the
paper is a prefix of the buffer, and the buffer is one user's because nobody
else owned the printer while it was written. `Refinement` shows that the
programs implement `PrintService`: `StatusKnown` reads a printer's status and
owner off the invariant, `StatusKept` says what leaves them alone, and each of
the four steps of the service has a lemma (`ServiceTake`, `ServiceSubmit`,
`ServicePrintLine`, `ServiceRelease`).

*Starts and restarts.* `BootIInv` says of every printer what main has made of it
so far: cleared by memset (`Cleared`), between `sem_init` and the store of its state
(`HalfMade`), initialised and not forked (`Prepared`), or running. `Owned` is the
ownership of `IInv` for one printer. It holds from the store of the state on, not only
once the printer runs, because users take printers and finish whole jobs before the
process is forked; and it cannot say `Busy`, since there is no process that is, but
`Engaged`. A cleared printer has value 0 and no user at it, which is what a
restart over a live segment needs: a user still at work on the old segment either
waits, and then owns nothing, or is `overtaken`. `Printing` is what the running process
has on paper. `ForkedInOrder` says that the loop that forks is ahead of the printers that
run. `OneOwnerOverRestarts` follows.

**`LifeProofs`.** `RuleFollowed`: `is_alive`, with its row and column
arithmetic, is the rule of the Game of Life on every grid. `IInv` has a part
that holds with any timing (types, threads within their own cells, where the
pointers point), from which `NeverClash` follows by the disjointness of the
parts (`PartsDisjoint`), and a part that needs `Prompt`: threads rest while main
updates and exchanges (`Quiet`), how far the next generation has been computed
by main (`Progress`) and by the threads (`Computed`). `GoodWrite` is the heart:
a thread that stores the value it has computed from the foreground never spoils
a cell of the background that is already right, so main and the threads
may write the same cells. `Refinement`: the screen shows one generation after
the other. `ThreadsAlwaysAgree` and `Refinement` assume `Prompt`, the others do
not.

**`SantaProofs`** holds with either value of `Prompt`. `GatesHeld` is not inductive: that a
reindeer finds its gate locked needs to know that those Santa has still to
release are waiting at theirs (`UnservedWait`), and that they are needs
`CountMatches`, by which a count of R means that all are back. `CountMatches` in
turn needs the counter's mutex (`CounterGuarded`): between load and store of the
increment nobody else changes the count. `CyclesLeft` bounds the deliveries.
All but the mutex are conditional on no spurious wakeup, as the properties are;
`DeliveriesComplete` then reads `AllBackUnlessSpurious` off `UnservedWait`.

**`ChatTcpProofs`.** The theorems are about all behaviours, those included in
which `accept` loses a race. `IInv` has a part that holds whatever is lost: the
types, that connections accepted have one descriptor each (`DescriptorsFaithful`),
and that descriptors in use are some descriptor (`SocketsKnown`). Up to the first
overwritten argument a handler's descriptor is that of its own client (`OwnSocket`).
Up to the first race of either kind, a descriptor is not in use again before its client
is unlisted (`NotReused`), and an
entry belongs to a handler between registration and removal, or to one whose
client vanished, whose descriptor is never closed and so never given out again
(`EntriesOwned`). The step of `accept` records the race in `raced` exactly when it
would break the one or the other (`AcceptInvariant`). The second half of `EntriesOwned` is about old entries, which
`remove_client` also looks at: none before an active entry has its descriptor.
It holds because `add_client` takes the first free entry. `RegistryFaithful`,
`ListedOnce` and `ListedAreServed` follow, and that the two findings have no other
cause (`OverwrittenArgumentOnly`, `ReusedDescriptorOnly`).

**`ChatUdpProofs`.** `IInv` is the four properties with `TypeOK` and what is true
of the datagrams on their way (`NetFaithful`): an undamaged one bears its
sender's id, what it carries its sender has typed, and Ctrl-C's is the last act of its client. The step of the server is proved
once for what all branches share (registration) and once per branch.
`Refinement`: a datagram adds one member, removes one, or leaves the
registry alone.

**`ChatMqProofs`.** `Requests` is about everything the server has taken or will
take (`log \o mq_server`), which no step but a send changes: each client asks once,
and lines are numbered in the order in which they were sent. `Table` ties the
message at hand to the end of the log and the table to the INITs in it. `Logged` is what
`SameOrder` needs and survives a restart: what a client was given rises in the
numbers of lines, and while the relay loop has still to come to it (`Ahead`) the log's last
message is not among it. `Exact` is about the time before the first restart: the ids
that clients know and send are their places in the table (`IdsAgree`), without which
the loop, which skips the sender by its id, would leave out the wrong client; and
`GivenExactly` says `DeliveredExactly` of registered clients and that others were
given nothing. `PicksOneMore` is the step of the relay, `PassedOn` that a message a client
shows is still among what it was given.

**`ExerciseProofs`** is about the small programs.

- *`Reaper`.* `CountMatches` relates `nprocs`, or the register between load and store, to
  the children counted, reaped and lost. `CountedAreForked` adds that no child is
  forked without being counted or about to be, so that at zero all are reaped
  (`ExitsLast`).
- *`Catcher`.* `Placed` says where a request is by its fate, and that
  `status_changes` counts those the handler took. `StatusTold` has at most one request
  waiting, whose value is the status. That at most one request is erased for each
  obeyed one is not inductive; `Repaid` is: between the switch and `status = 0`
  one more has been obeyed than erased.
- *`Integrate`.* The rectangles of a part cover it exactly (`Covered`), for every
  positive width. With a width of 0 all parts are empty (`NoShare`), and with a negative one
  only children without a part write. With equal shares, part j is between `Border(j)` and `Border(j + 1)`, the
  multiples of the share that the end of the range cuts. The parts then follow each
  other by definition, what has been read is in the sum up to `Border(Summed)`, and how
  much is left out is a fact on integer division (`LeftOut`).
- *`NamedPipes`.* A request is in one pipe, at the service or read (`OnePlace`), only if it
  was asked (`OnlyAsked`), and the request of a manager that met no other is the
  only one on its way (`Alone`). `Met` is why a pipe is empty when its last user leaves.
- *`Reverse`.* `Backwards` states place by place that the copy is the end of the file
  read backwards; `OneByte` and `OneBuffer` are one iteration of each variant.
- *`Collatz`.* `OnTheSequence`: up to the first 1 the loop is where the sequence is, and
  afterwards in the cycle 4, 2, 1 for as many rounds as the limit allows. The
  sequence is a recursive function, and what it computes would normally be shown
  by induction, which the prover lacks. `SequenceBuilt` argues by the shortest
  counterexample instead: a length for which there is no sequence has a least one
  (`LeastNumber`, from the library's theorem that inclusion of finite sets is
  well-founded), and the sequence before it can be extended.
- *`ExercisesSafe`* is about the specification that the run checks: by `SideBySide`
  each of its behaviours is one of every program, and so all the properties hold.

**Only model-checked.** All liveness (`Termination`, `ImplementsFairFifo`,
`ImplementsFairService`, `PrinterReturns`, `StopUnlists`, `ServerReturns`,
`EveryThreadWorks`, `SignalsHeard`, `CallersReturn`): the prover does not handle fairness and
ENABLED. `SigParent` promises nothing but that its child prints the value and ends.
The theorems about the agreement of threads in `Life` assume the timing that
the switch `Prompt` stands for; without it the properties are false.

## 5. Not modelled

- Lengths in bytes: the terminating zero behind a 32-byte id or a 1024-byte
  line in `ex11` (server.c:104), and the eleventh client of `ex7`
  (server.c:31, one entry behind `mq_clients`). Both overwrite memory next to
  the array, whose effect depends on the layout the compiler chose; the models
  have fewer clients than entries there, and messages without a length.
- Failing system calls at start-up of `ex7`, `ex9`, `ex11` and `ex12`, which print a message and
  exit.
- Two instances of `printers` on one segment.
- `kol_02/01` and `kol_02/02`: each process makes one pass from opening to
  closing, nothing waits but a blocking read; a model would restate the order
  of the calls. The Makefile runs the writer to its end before the reader.
- `ex1`, `ex3/zad2`, `ex4`, `ex5/zad1`, `kol_01/zad_01`: one pass of library or
  system calls without shared state.

- Sends of `ex11` that block, ids that `recv` splits, and clients with the same id (2.4).

What could come next: the lengths of buffers in `ex11` as a bound on names, sockets
that take a bounded number of messages, and what remains true of the TCP chat once a
race has been lost.
