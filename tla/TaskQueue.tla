------------------------------ MODULE TaskQueue ------------------------------
(***************************************************************************)
(* ESSE::TaskQueue (moduli/Cor/Tasks/CorTasks.cxx): a queue of tasks that  *)
(* threads of the program work off, either for good (Process) or one task  *)
(* at a time (ProcessOnce).  An empty task in the queue, put there by Quit *)
(* behind the others or by Break before them, ends one call of Process.    *)
(*                                                                         *)
(* Nothing blocks while _sync is held, so what a call does under it is one *)
(* step; the unit of _task_count is taken in a step before.                *)
(***************************************************************************)
EXTENDS Integers, Sequences, FiniteSets, SequencesExt, Functions

CONSTANTS Loops,       \* threads inside Process
          Pollers,     \* threads that call ProcessOnce
          Clients,     \* threads that submit, quit and break
          Tasks, Nil,
          MaxEmpty,    \* bound on the empty tasks queued in one behaviour
          MayBreak,    \* whether Break is called
          Garbage      \* what the memory of _num_tasks may hold at first

Workers == Loops \cup Pollers
Submitters == Workers \cup Clients

ASSUME ThreadAssumption == Loops \cap Pollers = {} /\ Clients \cap Workers = {}
ASSUME QueueTaskAssumption == Nil \notin Tasks
ASSUME BoundAssumption == MaxEmpty \in Nat /\ MayBreak \in BOOLEAN /\ Garbage \subseteq Nat

VARIABLES tasks,        \* _tasks, Nil for an empty task
          taskCount,    \* _task_count
          numTasks,     \* _num_tasks
          pc, task,     \* place of each worker, the task it runs
          done, refused,\* history: tasks that ended, tasks not taken
          empties,      \* history: empty tasks queued
          stolen        \* history: those of them that ProcessOnce has taken

queue == <<tasks, taskCount, numTasks>>
history == <<done, refused, empties, stolen>>
vars == <<queue, pc, task, history>>

Queued == ToSet(tasks) \ {Nil}
Executing == {task[w] : w \in Workers} \ {Nil}
Given == Queued \cup Executing \cup done

\* The constructor leaves _num_tasks as it finds it.
Init == /\ tasks = <<>> /\ taskCount = 0 /\ numTasks \in Garbage
        /\ pc = [w \in Workers |-> IF w \in Loops THEN "loop" ELSE "user"]
        /\ task = [w \in Workers |-> Nil]
        /\ done = {} /\ refused = {} /\ empties = 0 /\ stolen = 0

\* A client calls at any time, a worker out of the task it runs.
Free(a) == a \in Workers => pc[a] = "run"

Insert(new) == /\ tasks' = new
               /\ taskCount' = taskCount + Len(new) - Len(tasks)
               /\ numTasks' = numTasks + Len(new) - Len(tasks)

Orders(S) == {s \in [1..Cardinality(S) -> S] : IsInjective(s)}

Extended_First(new) == new \o tasks                                    \* mutant

Extended(new) == tasks \o new

\* SubmitTasksE: Push may throw at any element; what was pushed stays.
Submit(a) == /\ Free(a)
             /\ \E S \in SUBSET (Tasks \ (Given \cup refused)) :
                  \E s \in Orders(S), n \in 0..Cardinality(S) :
                    /\ S # {}
                    /\ Insert(Extended(SubSeq(s, 1, n)))
                    /\ refused' = refused \cup {s[i] : i \in (n + 1)..Len(s)}
             /\ UNCHANGED <<pc, task, done, empties, stolen>>

Quit(a) == /\ Free(a)
           /\ empties < MaxEmpty
           /\ Insert(Append(tasks, Nil))
           /\ empties' = empties + 1
           /\ UNCHANGED <<pc, task, done, refused, stolen>>

Break(a) == /\ MayBreak
            /\ Free(a)
            /\ empties < MaxEmpty
            /\ Insert(<<Nil>> \o tasks)
            /\ empties' = empties + 1
            /\ UNCHANGED <<pc, task, done, refused, stolen>>

-----------------------------------------------------------------------------
\* Process waits for a unit; ProcessOnce leaves at once when there is none.
TakeToken(w) == /\ pc[w] \in {"loop", "user"}
                /\ taskCount > 0
                /\ taskCount' = taskCount - 1
                /\ pc' = [pc EXCEPT ![w] = "token"]
                /\ UNCHANGED <<tasks, numTasks, task, history>>

Pop(w) == /\ pc[w] = "token"
          /\ tasks # <<>>
          /\ numTasks' = numTasks - 1
          /\ tasks' = Tail(tasks)
          /\ task' = [task EXCEPT ![w] = Head(tasks)]
          /\ UNCHANGED <<taskCount, done, refused, empties>>

\* ProcessOnce takes an empty task for a task.
Onward(w) == IF w \in Loops THEN "loop" ELSE "user"

StartTask(w) == /\ Pop(w)
                /\ Head(tasks) # Nil
                /\ UNCHANGED stolen
                /\ pc' = [pc EXCEPT ![w] = "run"]

AfterEmpty_Ignored(w) == IF w \in Loops /\ Queued = {} THEN "left" ELSE Onward(w)   \* mutant

AfterEmpty(w) == IF w \in Loops THEN "left" ELSE "user"

TakeEmpty(w) == /\ Pop(w)
                /\ Head(tasks) = Nil
                /\ pc' = [pc EXCEPT ![w] = AfterEmpty(w)]
                /\ stolen' = IF w \in Pollers THEN stolen + 1 ELSE stolen

FinishTask(w) == /\ pc[w] = "run"
                 /\ done' = done \cup {task[w]}
                 /\ task' = [task EXCEPT ![w] = Nil]
                 /\ pc' = [pc EXCEPT ![w] = Onward(w)]
                 /\ UNCHANGED <<queue, refused, empties, stolen>>

Work(w) == TakeToken(w) \/ StartTask(w) \/ TakeEmpty(w) \/ FinishTask(w)

Next == \/ \E a \in Submitters : Submit(a) \/ Quit(a) \/ Break(a)
        \/ \E w \in Workers : Work(w)

Spec == Init /\ [][Next]_vars

\* The scheduler lets a thread that can go on go on, and the tasks end; nobody
\* has to call ProcessOnce.
FairSpec == /\ Spec
            /\ \A w \in Workers : WF_vars(StartTask(w) \/ TakeEmpty(w) \/ FinishTask(w))
            /\ \A w \in Loops : WF_vars(TakeToken(w))

-----------------------------------------------------------------------------
\* A queue without its empty tasks, in the same order: its k-th entry stands
\* where k entries that are not empty have been counted.
Positions(s) == {i \in DOMAIN s : s[i] # Nil}
Rank(s, i) == Cardinality({j \in Positions(s) : j <= i})
Filled(s) == [k \in 1..Cardinality(Positions(s)) |-> s[CHOOSE i \in Positions(s) : Rank(s, i) = k]]

\* The queue is a FIFO executor for the tasks that are not empty: each task
\* taken is started once, in order, by whichever thread pops it, and Quit,
\* Break and a failed Push neither lose nor repeat nor reorder any.
Executor == INSTANCE TaskExecutor WITH
              Workers <- Workers, Tasks <- Tasks, Nil <- Nil, queue <- Filled(tasks),
              slot <- task, done <- done, closed <- FALSE
Implements == Executor!Safety

\* An empty task for each thread inside Process, beyond those that ProcessOnce
\* takes, lets all of them leave.
LoopsLeave == <>[](empties - stolen >= Cardinality(Loops)) => <>(\A w \in Loops : pc[w] = "left")
=============================================================================
