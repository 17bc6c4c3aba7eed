---------------------------- MODULE MCExercises ----------------------------
(***************************************************************************)
(* The small programs in one run of TLC.  Three are about signals: the     *)
(* child reaper (kol_01/zad_03), the catcher and its senders (ex5/zad2)    *)
(* and the signal exam (kol_01/zad_02).  Four compute or pass data: the    *)
(* parallel integration (ex6/zad1), the integration service (ex6/zad2),    *)
(* the file reversal (ex3/zad1) and the Collatz library (ex2).  They share *)
(* nothing: program says which of them a behaviour is about, and the       *)
(* variables of the others keep their values.                              *)
(***************************************************************************)
EXTENDS Reaper, TLC

CONSTANTS
    Senders, s1, s2, s3,           \* three senders, which only their values tell apart
    Managers, MaxKilled,           \* of NamedPipes
    BUFFER_SIZE, MaxLength,        \* of Reverse
    Span, MaxWidth, MaxProcesses,  \* of Integrate
    Half, MaxArgument, MaxIters, MaxSteps  \* of Collatz

VARIABLES
    program,
    mainAt, handling, pending, status, status_changes, senderAt, value, fate,
    confirmed, early,
    parentAt, childAt, signal, blocked, printed, tooEarly,
    width, processes, pc, i, start, part, worker, holds, result, partial, garbage,
    exists, service, manager, input, output, range, got, mixed, endless,
    variant, text, step, pos, size, copy,
    argument, max_iter, number, iterations, returned

C == INSTANCE Catcher
E == INSTANCE SigParent
I == INSTANCE Integrate WITH child <- worker, Range <- Span
P == INSTANCE NamedPipes
F == INSTANCE Reverse
Z == INSTANCE Collatz WITH input <- number, i <- iterations

ASSUME ExerciseSizes == C!Sizes /\ I!Sizes /\ P!Sizes /\ F!Sizes /\ Z!Sizes

catcherVars == <<mainAt, handling, pending, status, status_changes, senderAt,
                 value, fate, confirmed, early>>
examVars == <<parentAt, childAt, signal, blocked, printed, tooEarly>>
signalVars == <<vars, catcherVars, examVars>>

sumVars == <<width, processes, pc, i, start, part, worker, holds, result, partial, garbage>>
pipeVars == <<exists, service, manager, input, output, range, got, mixed, endless>>
fileVars == <<variant, text, step, pos, size, copy>>
collatzVars == <<argument, max_iter, number, iterations, returned>>
dataVars == <<sumVars, pipeVars, fileVars, collatzVars>>

\* The steps of one program: the variables of the others keep their values.
Only(p) == program = p /\ program' = program

ReaperOnly == Only("reaper") /\ UNCHANGED <<catcherVars, examVars, dataVars>>
CatcherOnly == Only("catcher") /\ UNCHANGED <<vars, examVars, dataVars>>
ExamOnly == Only("exam") /\ UNCHANGED <<vars, catcherVars, dataVars>>
SumOnly == Only("sum") /\ UNCHANGED <<signalVars, pipeVars, fileVars, collatzVars>>
PipesOnly == Only("pipes") /\ UNCHANGED <<signalVars, sumVars, fileVars, collatzVars>>
ReverseOnly == Only("reverse") /\ UNCHANGED <<signalVars, sumVars, pipeVars, collatzVars>>
CollatzOnly == Only("collatz") /\ UNCHANGED <<signalVars, sumVars, pipeVars, fileVars>>

\* Where initial values matter to one program only, the others start from one.
\* Of the senders' values only the sorted ones are tried, senders being alike,
\* and 2 is left out, for which main takes the same steps as for 1.  Behind the
\* first request that does not end the service reads no other, so one is enough.
MCInit ==
    /\ program \in {"reaper", "catcher", "exam", "sum", "pipes", "reverse", "collatz"}
    /\ Init
    /\ C!Init
    /\ IF program = "catcher"
         THEN /\ \A s \in Senders: value[s] # 2
              /\ value[s1] <= value[s2] /\ value[s2] <= value[s3]
         ELSE value = [s \in Senders |-> 1]
    /\ E!Init /\ (program # "exam" => signal = E!SIGUSR1)
    /\ I!Init /\ (program # "sum" => width = 1 /\ processes = 1)
    /\ P!Init /\ Cardinality(endless) <= 1 /\ (program # "pipes" => exists /\ endless = {})
    /\ F!Init /\ (program # "reverse" => variant = "byte" /\ text = <<>>)
    /\ Z!Init /\ (program # "collatz" => argument = 1 /\ max_iter = 0)

MCNext ==
    \/ ReaperOnly /\ Next
    \/ CatcherOnly /\ C!Next
    \/ ExamOnly /\ E!Next
    \/ SumOnly /\ I!Next
    \/ PipesOnly /\ P!Next
    \/ ReverseOnly /\ F!Next
    \/ CollatzOnly /\ Z!Next

mcvars == <<program, signalVars, dataVars>>

\* The process that a program is named for, what runs beside it (a handler, the
\* exam's child, the children that integrate and write or die), and whoever
\* has been waited for or has to return.
Foreground ==
    \/ ReaperOnly /\ (Load \/ Store \/ Test \/ Sleep \/ \E c \in Children: Fork(c))
    \/ CatcherOnly /\ C!Main
    \/ ExamOnly /\ E!Parent
    \/ SumOnly /\ I!Parent
    \/ PipesOnly /\ P!Service
    \/ CollatzOnly /\ Z!Next

Aside ==
    \/ ReaperOnly /\ Catch
    \/ CatcherOnly /\ C!Handler
    \/ ExamOnly /\ E!Child
    \/ SumOnly /\ \E j \in I!Workers: I!Write(j) \/ (~I!Endless(j) /\ I!Die(j))

Others ==
    \/ ReaperOnly /\ \E c \in Children: ChildExits(c)
    \/ CatcherOnly /\ \E s \in Senders: C!Suspend(s)
    \/ PipesOnly /\ \E m \in Managers: P!OpenResults(m) \/ P!WriteRequest(m) \/ P!ReadResult(m)

\* Every process that was started keeps being scheduled, signals are delivered,
\* and a child ends or writes or dies, unless its loop does not end; each of the
\* many takes few steps, so that fairness for all together is fairness for each.
\* Nobody has to press Ctrl-C, fork does not have to fail, a sender or a manager
\* need not be started or killed.
Fairness == WF_mcvars(Foreground) /\ WF_mcvars(Aside) /\ WF_mcvars(Others)

MCSpec == MCInit /\ [][MCNext]_mcvars /\ Fairness

-----------------------------------------------------------------------------
(* The properties of the programs, each for the behaviours it is about.    *)

\* The type invariants of the programs.
TypesOK ==
    /\ TypeOK /\ C!TypeOK /\ E!TypeOK
    /\ I!TypeOK /\ P!TypeOK /\ F!TypeOK /\ Z!TypeOK

\* See Catcher: every request has one fate, obeyed at most once.
RequestsAccounted == C!RequestsAccounted

\* See Integrate: the parts and what the parent adds up (integrate.c).
SumRight == I!SumRight

\* See NamedPipes: a manager on its own reads its own result.
ResultsDealt == P!ResultsDealt

\* See Reverse: the copy is the end of the file backwards.
CopyBackwards == F!CopyBackwards

\* See Collatz: what is returned is a count beyond the limit.
LateCount == Z!LateCount

\* Senders leave sigsuspend unless merged, unheard or confirmed too early, the reaping
\* parent unless it loses a decrement, and the value sent to the exam's child is
\* printed: see the three modules.
SignalsHeard ==
    /\ program = "catcher" => C!SenderReturns
    /\ program = "reaper" => ExitsUnlessLost
    /\ program = "exam" => E!ValuePrinted

\* Managers return while the service is there and the integrating parent ends,
\* unless a width that is not positive makes integrate run for ever; a call of the
\* Collatz library whose sequence reaches 1 returns: see the modules.
CallersReturn ==
    /\ program = "pipes" => P!ManagerReturns
    /\ program = "sum" => I!Termination
    /\ program = "collatz" => Z!CallReturns
=============================================================================
