----------------------------- MODULE LegacyPool -----------------------------
(***************************************************************************)
(* Engine::ThreadPool (moduli/EngineRuntime/Miscellaneous/ThreadPool.cpp), *)
(* the pool the constructor builds on.  It differs from the pool of Cor:   *)
(* Idle is a semaphore that a waiter takes and gives back, all threads     *)
(* count as active before they are created, the destructor ends them with  *)
(* null tasks instead of joining them, and a submission may append several *)
(* tasks between BeginSubmit and EndSubmit, each counted before it is      *)
(* pushed.                                                                 *)
(*                                                                         *)
(* A step is what a thread does between two operations on Access,          *)
(* TaskCount or Idle that another thread can tell apart.                   *)
(***************************************************************************)
EXTENDS Integers, Sequences, FiniteSets

CONSTANTS NumThreads, Clients, Owner, Tasks,
          Failures,   \* what may fail: "thread" (CreateThread), "push" (Queue::Push)
          Nil         \* the null task

Workers == 1..NumThreads
Submitters == Workers \cup Clients
Agents == Submitters \cup {Owner}

ASSUME NumThreadsAssumption == NumThreads \in Nat \ {0}
ASSUME AgentAssumption == Clients \cap Workers = {} /\ Owner \notin Submitters
ASSUME ClientsAssumption == IsFiniteSet(Clients)
ASSUME TaskAssumption == Nil \notin Tasks \cup Submitters
ASSUME FailuresAssumption == Failures \subseteq {"thread", "push"}

VARIABLES access, taskCount, idle,   \* the semaphores Access, TaskCount, Idle
          tasks,                     \* the queue Tasks, with the null tasks
          numTasks, activeThreads,   \* NumTasks, ActiveThreads
          created,                   \* Workers.Length()
          marked,                    \* the null tasks have been queued
          pc, task,                  \* place of each thread, `task` of each worker
          offer,                     \* the task each submitter is appending
          giver, done, refused       \* history: who submitted, what ended, what was not taken

counts == <<taskCount, tasks, numTasks>>
state == <<activeThreads, idle>>
setup == <<created, marked>>
work == <<task, offer, giver, done, refused>>
vars == <<access, counts, state, setup, pc, work>>

-----------------------------------------------------------------------------
LockFor == [lock_take  |-> "take",     \* a token was there
            lock_park  |-> "park",     \* no token
            lock_wake  |-> "wake",     \* a token came later
            lock_leave |-> "leave",    \* the null task
            lock_add   |-> "add",      \* BeginSubmit
            lock_check |-> "check",    \* Wait, after it has given Idle back
            lock_probe |-> "probe",    \* Active, after it has given Idle back
            lock_mark  |-> "mark"]     \* the owner queues the null tasks
LockPlaces == DOMAIN LockFor

Go(a, place) == pc' = [pc EXCEPT ![a] = place]
Unlock == access' = access + 1

Acquire(a) == /\ pc[a] \in LockPlaces
              /\ access > 0
              /\ access' = access - 1
              /\ Go(a, LockFor[pc[a]])
              /\ UNCHANGED <<counts, state, setup, work>>

Init == /\ access = 1 /\ taskCount = 0 /\ idle = 0
        /\ tasks = <<>> /\ numTasks = 0
        /\ activeThreads = NumThreads
        /\ created = 0 /\ marked = FALSE
        /\ pc = [a \in Agents |-> CASE a \in Workers -> "none"
                                    [] a \in Clients -> "user"
                                    [] a = Owner     -> "create"]
        /\ task = [w \in Workers |-> Nil]
        /\ offer = [a \in Submitters |-> Nil]
        /\ giver = [t \in Tasks |-> Nil]
        /\ done = {} /\ refused = {}

-----------------------------------------------------------------------------
(* ThreadProc.                                                             *)

TakeToken(w) == /\ pc[w] \in {"try", "parked"}
                /\ taskCount > 0
                /\ taskCount' = taskCount - 1
                /\ Go(w, IF pc[w] = "try" THEN "lock_take" ELSE "lock_wake")
                /\ UNCHANGED <<access, tasks, numTasks, state, setup, work>>

NoToken(w) == /\ pc[w] = "try"
              /\ taskCount = 0
              /\ Go(w, "lock_park")
              /\ UNCHANGED <<access, counts, state, setup, work>>

\* The last worker that becomes inactive opens Idle.
Deactivate == /\ activeThreads' = activeThreads - 1
              /\ idle' = idle + (IF activeThreads' = 0 THEN 1 ELSE 0)

Activate_NotTaken == activeThreads' = activeThreads + 1 /\ UNCHANGED idle   \* mutant

\* The first one that becomes active takes Idle, which a waiter may have for
\* a moment; it waits for it with Access closed.
Activate == /\ activeThreads' = activeThreads + 1
            /\ IF activeThreads = 0 THEN idle > 0 /\ idle' = idle - 1
                                    ELSE UNCHANGED idle

Park(w) == /\ pc[w] = "park"
           /\ Deactivate
           /\ Unlock
           /\ Go(w, "parked")
           /\ UNCHANGED <<counts, setup, work>>

\* Pop, and on to DoTask or, with the null task, to the end.
PopTask(w) == /\ tasks # <<>>
              /\ tasks' = Tail(tasks)
              /\ numTasks' = numTasks - 1
              /\ task' = [task EXCEPT ![w] = Head(tasks)]
              /\ Unlock
              /\ Go(w, IF Head(tasks) = Nil THEN "lock_leave" ELSE "run")
              /\ UNCHANGED <<taskCount, setup, offer, giver, done, refused>>

Take(w) == pc[w] = "take" /\ PopTask(w) /\ UNCHANGED state
Wake(w) == pc[w] = "wake" /\ PopTask(w) /\ Activate

FinishTask(w) == /\ pc[w] = "run"
                 /\ done' = done \cup {task[w]}
                 /\ task' = [task EXCEPT ![w] = Nil]
                 /\ Go(w, "try")
                 /\ UNCHANGED <<access, counts, state, setup, offer, giver, refused>>

Leave(w) == /\ pc[w] = "leave"
            /\ Deactivate
            /\ Unlock
            /\ Go(w, "returned")
            /\ UNCHANGED <<counts, setup, work>>

-----------------------------------------------------------------------------
(* BeginSubmit, AppendTask and EndSubmit; SubmitTask is one of each.       *)

Returned(a) == IF a \in Workers THEN "run" ELSE "user"

BeginSubmit(a) == /\ \/ a \in Workers /\ pc[a] = "run"
                     \/ a \in Clients /\ pc[a] \in {"user", "told"} /\ pc[Owner] = "own"
                  /\ Go(a, "lock_add")
                  /\ UNCHANGED <<access, counts, state, setup, work>>

\* TaskCount is opened before the task is in the queue; the worker that takes
\* the token has to wait for Access.
AppendTask(a) == /\ pc[a] = "add"
                 /\ \E t \in Tasks :
                      /\ giver[t] = Nil
                      /\ giver' = [giver EXCEPT ![t] = a]
                      /\ offer' = [offer EXCEPT ![a] = t]
                 /\ taskCount' = taskCount + 1
                 /\ Go(a, "push")
                 /\ UNCHANGED <<access, tasks, numTasks, state, setup, task, done, refused>>

PushTask_First(a) == /\ pc[a] = "push"   \* mutant: InsertFirst
                     /\ tasks' = <<offer[a]>> \o tasks
                     /\ numTasks' = numTasks + 1
                     /\ offer' = [offer EXCEPT ![a] = Nil]
                     /\ Go(a, "add")
                     /\ UNCHANGED <<access, taskCount, state, setup, task, giver, done, refused>>

PushTask(a) == /\ pc[a] = "push"
               /\ tasks' = Append(tasks, offer[a])
               /\ numTasks' = numTasks + 1
               /\ offer' = [offer EXCEPT ![a] = Nil]
               /\ Go(a, "add")
               /\ UNCHANGED <<access, taskCount, state, setup, task, giver, done, refused>>

PushFails(a) == /\ "push" \in Failures
                /\ pc[a] = "push"
                /\ refused' = refused \cup {offer[a]}
                /\ offer' = [offer EXCEPT ![a] = Nil]
                /\ Go(a, "undo")
                /\ UNCHANGED <<access, counts, state, setup, task, giver, done>>

\* TaskCount->Wait() takes the token back and EndSubmit follows, if no worker
\* was faster.
Undo(a) == /\ pc[a] = "undo"
           /\ taskCount > 0
           /\ taskCount' = taskCount - 1
           /\ Unlock
           /\ Go(a, Returned(a))
           /\ UNCHANGED <<tasks, numTasks, state, setup, work>>

EndSubmit(a) == /\ pc[a] = "add"
                /\ Unlock
                /\ Go(a, Returned(a))
                /\ UNCHANGED <<counts, state, setup, work>>

-----------------------------------------------------------------------------
(* Wait and Active.                                                        *)

\* A client calls Wait, finds Idle open in Active, or drops its reference.
Call(c) == /\ pc[c] \in {"user", "told"}
           /\ pc[Owner] = "own"
           /\ \/ Go(c, "wait") /\ UNCHANGED idle
              \/ idle > 0 /\ idle' = idle - 1 /\ Go(c, "hold_probe")
              \/ Go(c, "gone") /\ UNCHANGED idle
           /\ UNCHANGED <<access, counts, activeThreads, setup, work>>

TakeIdle(a) == /\ pc[a] = "wait"
               /\ idle > 0
               /\ idle' = idle - 1
               /\ Go(a, "hold")
               /\ UNCHANGED <<access, counts, activeThreads, setup, work>>

GiveIdle(a) == /\ pc[a] \in {"hold", "hold_probe"}
               /\ idle' = idle + 1
               /\ Go(a, IF pc[a] = "hold" THEN "lock_check" ELSE "lock_probe")
               /\ UNCHANGED <<access, counts, activeThreads, setup, work>>

Quiescent == numTasks = 0 /\ activeThreads = 0

\* The owner waits before it queues the null tasks and after.
AfterWait(a) == CASE a \in Clients -> "told"
                  [] a = Owner /\ ~marked -> "lock_mark"
                  [] a = Owner /\ marked -> IF created < NumThreads THEN "failed" ELSE "destroyed"

CheckIdle(a) == /\ pc[a] \in {"check", "probe"}
                /\ Unlock
                /\ Go(a, IF Quiescent THEN AfterWait(a) ELSE IF pc[a] = "check" THEN "wait" ELSE "user")
                /\ UNCHANGED <<counts, state, setup, work>>

-----------------------------------------------------------------------------
(* The constructor and the destructor.                                     *)

CreateWorker == /\ pc[Owner] = "create"
                /\ created < NumThreads
                /\ created' = created + 1
                /\ pc' = [pc EXCEPT ![created + 1] = "try",
                                    ![Owner] = IF created' = NumThreads THEN "own" ELSE @]
                /\ UNCHANGED <<access, counts, state, marked, work>>

\* CreateThread returned null: the workers that exist are to end, and the
\* constructor would throw after Wait; but ActiveThreads counts the others too.
CreateFails == /\ "thread" \in Failures
               /\ pc[Owner] = "create"
               /\ Go(Owner, "lock_mark")
               /\ UNCHANGED <<access, counts, state, setup, work>>

BeginDestroy == /\ pc[Owner] = "own"
                /\ \A c \in Clients : pc[c] = "gone"
                /\ Go(Owner, "wait")
                /\ UNCHANGED <<access, counts, state, setup, work>>

Markers_OneShort == created - 1   \* mutant
Markers == created

Mark == /\ pc[Owner] = "mark"
        /\ taskCount' = taskCount + Markers
        /\ tasks' = tasks \o [i \in 1..Markers |-> Nil]
        /\ numTasks' = numTasks + Markers
        /\ marked' = TRUE
        /\ Unlock
        /\ Go(Owner, "wait")
        /\ UNCHANGED <<state, created, work>>

Finished == /\ pc[Owner] \in {"failed", "destroyed"}
            /\ UNCHANGED vars

WorkerNext(w) == \/ TakeToken(w) \/ NoToken(w) \/ Park(w) \/ Take(w) \/ Wake(w)
                 \/ FinishTask(w) \/ Leave(w)
SubmitNext(a) == AppendTask(a) \/ PushTask(a) \/ PushFails(a) \/ Undo(a) \/ EndSubmit(a)
OwnerNext == CreateWorker \/ CreateFails \/ BeginDestroy \/ Mark

Next == \/ OwnerNext
        \/ \E w \in Workers : WorkerNext(w)
        \/ \E a \in Submitters : BeginSubmit(a) \/ SubmitNext(a)
        \/ \E c \in Clients : Call(c)
        \/ \E a \in Clients \cup {Owner} : TakeIdle(a) \/ GiveIdle(a) \/ CheckIdle(a)
        \/ \E a \in Agents : Acquire(a)
        \/ Finished

Spec == Init /\ [][Next]_vars

-----------------------------------------------------------------------------
(* Properties.                                                             *)

Places(S) == Cardinality({a \in Agents : pc[a] \in S})

\* Idle is open once, in the semaphore or in the hands of one waiter, exactly
\* when no thread is active: a waiter neither sleeps over an idle pool nor
\* keeps a worker that wakes from taking Idle back.
IdleExact == idle + Places({"hold", "hold_probe"}) = (IF activeThreads = 0 THEN 1 ELSE 0)

\* The threads are not joined: when the members are freed, every worker has
\* let go of Access for the last time.
FreedUnused == pc[Owner] \in {"failed", "destroyed"} =>
                 \A w \in Workers : pc[w] \in {"none", "returned"}

\* When the null tasks are queued there is no other task left.
Executor == INSTANCE TaskExecutor WITH
  queue  <- IF marked THEN <<>> ELSE tasks,
  slot   <- task,
  closed <- marked

\* The older pool implements TaskExecutor too: this is what ConstructRun
\* builds on.
Implements == Executor!Safety
=============================================================================
