----------------------------- MODULE ThreadPool -----------------------------
(***************************************************************************)
(* ESSE::ThreadPool (moduli/Cor/Tasks/CorTasks.cxx) over the semaphores,   *)
(* signals and threads of moduli/Cor-Linux/CorThreads.cxx.                 *)
(*                                                                         *)
(* The owner runs the constructor and the destructor; clients submit       *)
(* tasks, call Wait and Active, and drop their reference; workers run      *)
(* ThreadPool::_thread_proc, and the task one of them runs may submit      *)
(* further tasks to the pool it runs on.                                   *)
(*                                                                         *)
(* A step is what a thread does between two operations another thread can  *)
(* tell apart: one on _sync, one on _task_count, one on _idle.  Fields     *)
(* that are only touched under _sync move in the step that opens _sync.    *)
(***************************************************************************)
EXTENDS Integers, Sequences, FiniteSets

CONSTANTS NumThreads,   \* workers the constructor was asked for
          Clients,      \* threads that hold a reference to the pool
          Owner,        \* the thread that constructs and destroys the pool
          Tasks,        \* task objects that may be submitted, each once
          MaxBatch,     \* longest array given to one SubmitTasksE
          Spurious,     \* pthread_cond_wait may return with nobody signalling
          Nil           \* the null task

Workers == 1..NumThreads
Agents == Workers \cup Clients \cup {Owner}

ASSUME NumThreadsAssumption == NumThreads \in Nat \ {0}
ASSUME MaxBatchAssumption == MaxBatch \in Nat \ {0}
ASSUME SpuriousAssumption == Spurious \in BOOLEAN
ASSUME AgentAssumption == /\ Clients \cap Workers = {}
                          /\ Owner \notin Workers \cup Clients
ASSUME TaskAssumption == Nil \notin Tasks
ASSUME NilAssumption == Nil \notin Workers \cup Clients

VARIABLES sync,         \* value of the semaphore _sync
          taskCount,    \* value of the semaphore _task_count
          idle,         \* state of the signal _idle
          tasks,        \* the queue _tasks
          numTasks,     \* _num_tasks
          active,       \* _active_threads
          shutdown,     \* _shutdown
          created,      \* workers the constructor has created
          pc,           \* where each thread stands
          task,         \* the local `task` of each worker
          batch,        \* the array a thread is submitting
          giver,        \* history: the thread that submitted a task, or Nil
          done,         \* history: tasks whose DoTask has returned
          refused       \* history: tasks dropped when Push ran out of memory

counts == <<taskCount, numTasks>>
state == <<active, idle>>
setup == <<created, shutdown>>
locals == <<task, batch>>
history == <<giver, done, refused>>
vars == <<sync, counts, state, setup, tasks, pc, locals, history>>

-----------------------------------------------------------------------------
(* Places in the code.  LockFor maps each place that waits for _sync to    *)
(* the critical section it enters.                                         *)

LockFor == [lock_take  |-> "take",     \* a token was there: pop under lock
            lock_park  |-> "park",     \* no token: about to become inactive
            lock_wake  |-> "wake",     \* a token came: pop, become active
            lock_leave |-> "leave",    \* no task: the worker returns
            lock_push  |-> "push",     \* SubmitTasksE
            lock_check |-> "check",    \* Wait, after _idle->Wait()
            lock_probe |-> "probe",    \* Active, after _idle->WaitFor(0)
            lock_close |-> "close"]    \* ~ThreadPool, after Wait()

LockPlaces == DOMAIN LockFor
Critical == {"take", "park", "wake", "leave", "push", "check", "probe", "close"}

\* Workers inside DoTask, workers counted by _active_threads, and workers that
\* have taken a unit of _task_count and not yet decremented _num_tasks.
RunPlaces == {"run", "lock_push", "push"}
ActivePlaces == {"try", "lock_take", "take", "lock_park", "park",
                 "lock_leave", "leave"} \cup RunPlaces
TokenPlaces == {"lock_take", "take", "lock_wake", "wake"}

WorkerPlaces == ActivePlaces \cup TokenPlaces \cup {"none", "parked", "returned", "dead"}
WaitPlaces == {"wait", "blocked", "lock_check", "check"}
ClientPlaces == {"user", "told", "lock_push", "push", "lock_probe", "probe",
                 "gone"} \cup WaitPlaces
OwnerPlaces == {"create", "own", "lock_close", "close", "join", "failed",
                "destroyed"} \cup WaitPlaces

-----------------------------------------------------------------------------
(* PosixSemaphore and PosixSignal.                                         *)

Go(a, place) == pc' = [pc EXCEPT ![a] = place]
Unlock == sync' = sync + 1

\* Semaphore::Wait on _sync by a thread that stands before a critical section.
Acquire(a) == /\ pc[a] \in LockPlaces
              /\ sync > 0
              /\ sync' = sync - 1
              /\ Go(a, LockFor[pc[a]])
              /\ UNCHANGED <<counts, state, setup, tasks, locals, history>>

\* PosixSignal::Raise lets every thread blocked in Wait go: Wait leaves its
\* loop when pthread_cond_wait returns, without looking at _state again, so a
\* Reset that follows does not take the release back.
Raise(a, place) ==
  /\ idle' = TRUE
  /\ pc' = [b \in Agents |->
              IF b = a THEN place
              ELSE IF pc[b] = "blocked" THEN "lock_check" ELSE pc[b]]

-----------------------------------------------------------------------------
(* Moves of the fields, made under _sync or before the gate opens.         *)

CountTasks_NoOpen(n) == numTasks' = numTasks + n /\ UNCHANGED taskCount  \* mutant

\* _task_count->Open() and _num_tasks++, n times.
CountTasks(n) == /\ taskCount' = taskCount + n
                 /\ numTasks' = numTasks + n

Enqueue_First(s) == tasks' = s \o tasks   \* mutant: InsertFirst

\* Queue::Push of every element.
Enqueue(s) == tasks' = tasks \o s

Deactivate_TestsFirst(w, place) ==   \* mutant: compares before it decrements
  /\ active' = active - 1
  /\ IF active = 0 THEN Raise(w, place) ELSE Go(w, place) /\ UNCHANGED idle

\* The worker stops counting as active; the last one to do so raises _idle.
Deactivate(w, place) ==
  /\ active' = active - 1
  /\ IF active' = 0 THEN Raise(w, place) ELSE Go(w, place) /\ UNCHANGED idle

Activate_NotCounted == idle' = (idle /\ active # 0) /\ UNCHANGED active   \* mutant
Activate_NoReset == active' = active + 1 /\ UNCHANGED idle                \* mutant

\* The worker counts as active again; the first one to do so resets _idle.
Activate == /\ active' = active + 1
            /\ idle' = (idle /\ active # 0)

\* Pop unless the pool shuts down, and count the token off.
PopTask(w) ==
  /\ \/ /\ shutdown
        /\ UNCHANGED <<tasks, task>>
        /\ Go(w, "lock_leave")
     \/ /\ ~shutdown
        /\ task' = [task EXCEPT ![w] = Head(tasks)]
        /\ tasks' = Tail(tasks)
        /\ Go(w, "run")
  /\ numTasks' = numTasks - 1

Quiescent_CountOnly == numTasks = 0   \* mutant: running tasks are not looked at

\* What Wait and Active look at under _sync.
Quiescent == numTasks = 0 /\ active = 0

-----------------------------------------------------------------------------
(* The constructor.  _sync starts at 0 and is the gate that keeps the      *)
(* workers out of the fields until the constructor opens it.               *)

InitialSync == 0

Init == /\ sync = InitialSync
        /\ taskCount = 0 /\ numTasks = 0 /\ active = 0 /\ created = 0
        /\ idle = FALSE
        /\ shutdown = TRUE
        /\ tasks = <<>>
        /\ pc = [a \in Agents |-> CASE a \in Workers -> "none"
                                    [] a \in Clients -> "user"
                                    [] a = Owner     -> "create"]
        /\ task = [w \in Workers |-> Nil]
        /\ batch = [a \in Workers \cup Clients |-> <<>>]
        /\ giver = [t \in Tasks |-> Nil]
        /\ done = {} /\ refused = {}

CreateWorker == /\ pc[Owner] = "create"
                /\ created < NumThreads
                /\ created' = created + 1
                /\ active' = active + 1
                /\ Go(created + 1, "try")
                /\ UNCHANGED <<sync, counts, idle, shutdown, tasks, locals, history>>

\* CreateThread returned null: nothing exists yet, the constructor throws.
CreateFailsFirst == /\ pc[Owner] = "create"
                    /\ created = 0
                    /\ Go(Owner, "failed")
                    /\ UNCHANGED <<sync, counts, state, setup, tasks, locals, history>>

\* CreateThread returned null: give each worker that exists a token, open the
\* gate, and wait for them before the constructor throws.
CreateFails == /\ pc[Owner] = "create"
               /\ created \in 1..NumThreads - 1
               /\ CountTasks(created)
               /\ Unlock
               /\ Go(Owner, "join")
               /\ UNCHANGED <<state, setup, tasks, locals, history>>

OpenGate == /\ pc[Owner] = "create"
            /\ created = NumThreads
            /\ shutdown' = FALSE
            /\ Unlock
            /\ Go(Owner, "own")
            /\ UNCHANGED <<counts, state, created, tasks, locals, history>>

-----------------------------------------------------------------------------
(* The worker.                                                             *)

\* _task_count->WaitFor(0) at the head of the loop took a token.
TakeToken(w) == /\ pc[w] = "try"
                /\ taskCount > 0
                /\ taskCount' = taskCount - 1
                /\ Go(w, "lock_take")
                /\ UNCHANGED <<sync, numTasks, state, setup, tasks, locals, history>>

NoToken(w) == /\ pc[w] = "try"
              /\ taskCount = 0
              /\ Go(w, "lock_park")
              /\ UNCHANGED <<sync, counts, state, setup, tasks, locals, history>>

Park(w) == /\ pc[w] = "park"
           /\ Deactivate(w, "parked")
           /\ Unlock
           /\ UNCHANGED <<counts, setup, tasks, locals, history>>

\* _task_count->Wait() of an inactive worker.
ParkedToken(w) == /\ pc[w] = "parked"
                  /\ taskCount > 0
                  /\ taskCount' = taskCount - 1
                  /\ Go(w, "lock_wake")
                  /\ UNCHANGED <<sync, numTasks, state, setup, tasks, locals, history>>

Take(w) == /\ pc[w] = "take"
           /\ PopTask(w)
           /\ Unlock
           /\ UNCHANGED <<taskCount, state, setup, batch, history>>

Wake(w) == /\ pc[w] = "wake"
           /\ PopTask(w)
           /\ Activate
           /\ Unlock
           /\ UNCHANGED <<taskCount, setup, batch, history>>

FinishTask(w) == /\ pc[w] = "run"
                 /\ done' = done \cup {task[w]}
                 /\ task' = [task EXCEPT ![w] = Nil]
                 /\ Go(w, "try")
                 /\ UNCHANGED <<sync, counts, state, setup, tasks, batch, giver, refused>>

Leave(w) == /\ pc[w] = "leave"
            /\ Deactivate(w, "returned")
            /\ Unlock
            /\ UNCHANGED <<counts, setup, tasks, locals, history>>

\* PosixThread::_thread_proc raises _wait_sync.
ThreadExit(w) == /\ pc[w] = "returned"
                 /\ Go(w, "dead")
                 /\ UNCHANGED <<sync, counts, state, setup, tasks, locals, history>>

-----------------------------------------------------------------------------
(* SubmitTasksE, called by a client or from inside DoTask.                 *)

Fresh == {t \in Tasks : giver[t] = Nil}
Injective(s) == \A i, j \in DOMAIN s : s[i] = s[j] => i = j

\* Arrays of distinct tasks nobody has submitted before; the null entries an
\* array may also hold are skipped by the loop.
Batches == {s \in UNION {[1..n -> Fresh] : n \in 1..MaxBatch} : Injective(s)}

MaySubmit(a) == \/ a \in Workers /\ pc[a] = "run"
                \/ a \in Clients /\ pc[a] \in {"user", "told"} /\ pc[Owner] = "own"

BeginSubmit(a) ==
  /\ MaySubmit(a)
  /\ \E s \in Batches :
       /\ batch' = [batch EXCEPT ![a] = s]
       /\ giver' = [t \in Tasks |-> IF \E i \in DOMAIN s : s[i] = t THEN a ELSE giver[t]]
  /\ Go(a, "lock_push")
  /\ UNCHANGED <<sync, counts, state, setup, tasks, task, done, refused>>

Accepted(a, n) == SubSeq(batch[a], 1, n)
Rejected(a, n) == {batch[a][i] : i \in n + 1 .. Len(batch[a])}

Submit_CountsAll(a) ==   \* mutant: the counters move before Push is tried
  /\ pc[a] = "push"
  /\ \E n \in 0..Len(batch[a]) :
       /\ Enqueue(Accepted(a, n))
       /\ refused' = refused \cup Rejected(a, n)
  /\ CountTasks(Len(batch[a]))
  /\ batch' = [batch EXCEPT ![a] = <<>>]
  /\ Unlock
  /\ Go(a, IF a \in Workers THEN "run" ELSE "user")
  /\ UNCHANGED <<state, setup, task, giver, done>>

\* The loop of SubmitTasksE.  When Push throws after n tasks, the rest is not
\* submitted and the caller gets ErrorOutOfMemory.
Submit(a) ==
  /\ pc[a] = "push"
  /\ \E n \in 0..Len(batch[a]) :
       /\ Enqueue(Accepted(a, n))
       /\ CountTasks(n)
       /\ refused' = refused \cup Rejected(a, n)
  /\ batch' = [batch EXCEPT ![a] = <<>>]
  /\ Unlock
  /\ Go(a, IF a \in Workers THEN "run" ELSE "user")
  /\ UNCHANGED <<state, setup, task, giver, done>>

-----------------------------------------------------------------------------
(* Wait, called by a client and by the destructor, and Active.             *)

\* A client that holds its reference calls Wait, finds _idle raised in Active
\* (which answers TRUE without more ado when it is not), or lets go.
Call(c) == /\ c \in Clients
           /\ pc[c] \in {"user", "told"}
           /\ pc[Owner] = "own"
           /\ \/ Go(c, "wait")
              \/ idle /\ Go(c, "lock_probe")
              \/ Go(c, "gone")
           /\ UNCHANGED <<sync, counts, state, setup, tasks, locals, history>>

\* _idle->Wait(): passes at once, or blocks until Raise.
WaitIdle(a) == /\ pc[a] = "wait"
               /\ Go(a, IF idle THEN "lock_check" ELSE "blocked")
               /\ UNCHANGED <<sync, counts, state, setup, tasks, locals, history>>

SpuriousWake(a) == /\ Spurious
                   /\ pc[a] = "blocked"
                   /\ Go(a, "lock_check")
                   /\ UNCHANGED <<sync, counts, state, setup, tasks, locals, history>>

\* "told" is where a client goes that was told the pool is idle.
AfterWait(a) == IF a = Owner THEN "lock_close" ELSE "told"

CheckIdle(a) == /\ pc[a] = "check"
                /\ Unlock
                /\ Go(a, IF Quiescent THEN AfterWait(a) ELSE "wait")
                /\ UNCHANGED <<counts, state, setup, tasks, locals, history>>

ProbeIdle(c) == /\ pc[c] = "probe"
                /\ Unlock
                /\ Go(c, IF Quiescent THEN "told" ELSE "user")
                /\ UNCHANGED <<counts, state, setup, tasks, locals, history>>

-----------------------------------------------------------------------------
(* The destructor runs when the last reference is dropped.                 *)

BeginDestroy == /\ pc[Owner] = "own"
                /\ \A c \in Clients : pc[c] = "gone"
                /\ Go(Owner, "wait")
                /\ UNCHANGED <<sync, counts, state, setup, tasks, locals, history>>

StopTokens_OneShort == created - 1   \* mutant: one worker gets no token
StopTokens == created

Close == /\ pc[Owner] = "close"
         /\ shutdown' = TRUE
         /\ CountTasks(StopTokens)
         /\ Unlock
         /\ Go(Owner, "join")
         /\ UNCHANGED <<state, created, tasks, locals, history>>

\* Thread::Wait has returned for every worker; _wait_sync is a PosixSignal too
\* and stays raised once it is raised.
Joined == Spurious \/ \A w \in 1..created : pc[w] = "dead"

\* The members of the pool are destroyed: after a failed construction by the
\* exception, otherwise by the destructor.
Destroy == /\ pc[Owner] = "join"
           /\ Joined
           /\ Go(Owner, IF created < NumThreads THEN "failed" ELSE "destroyed")
           /\ UNCHANGED <<sync, counts, state, setup, tasks, locals, history>>

-----------------------------------------------------------------------------
Finished == /\ pc[Owner] \in {"failed", "destroyed"}
            /\ \A w \in Workers : pc[w] \in {"none", "dead"}
            /\ UNCHANGED vars

OwnerNext == \/ CreateWorker \/ CreateFailsFirst \/ CreateFails \/ OpenGate
             \/ BeginDestroy \/ Close \/ Destroy

WorkerNext(w) == \/ TakeToken(w) \/ NoToken(w) \/ Park(w) \/ ParkedToken(w)
                 \/ Take(w) \/ Wake(w) \/ FinishTask(w) \/ Leave(w) \/ ThreadExit(w)

Next == \/ OwnerNext
        \/ \E w \in Workers : WorkerNext(w)
        \/ \E c \in Clients : Call(c) \/ ProbeIdle(c)
        \/ \E a \in Workers \cup Clients : BeginSubmit(a) \/ Submit(a)
        \/ \E a \in Clients \cup {Owner} : WaitIdle(a) \/ SpuriousWake(a) \/ CheckIdle(a)
        \/ \E a \in Agents : Acquire(a)
        \/ Finished

Spec == Init /\ [][Next]_vars

\* A started thread is scheduled.  sem_wait on _sync needs the strong form:
\* other threads close and open it in between, and only the kernel's wake-up
\* of the waiter keeps one of them from winning forever.  Nothing is assumed
\* of SpuriousWake, of failures, or that a client submits or waits; a client
\* that keeps getting the chance drops its reference in the end.
Fairness ==
  /\ WF_vars(OwnerNext)
  /\ \A w \in Workers : WF_vars(WorkerNext(w))
  /\ \A a \in Workers \cup Clients : WF_vars(Submit(a))
  /\ \A a \in Clients \cup {Owner} : WF_vars(WaitIdle(a) \/ CheckIdle(a))
  /\ \A c \in Clients : WF_vars(ProbeIdle(c)) /\ SF_vars(Call(c) /\ pc'[c] = "gone")
  /\ \A a \in Agents : SF_vars(Acquire(a))

FairSpec == Spec /\ Fairness

-----------------------------------------------------------------------------
(* Properties.                                                             *)

PlacesOK == /\ pc \in [Agents -> WorkerPlaces \cup ClientPlaces \cup OwnerPlaces]
            /\ \A w \in Workers : pc[w] \in WorkerPlaces
            /\ \A c \in Clients : pc[c] \in ClientPlaces
            /\ pc[Owner] \in OwnerPlaces

TypeOK == /\ sync \in Nat /\ taskCount \in Nat
          /\ numTasks \in Int /\ active \in Int
          /\ idle \in BOOLEAN /\ shutdown \in BOOLEAN
          /\ created \in 0..NumThreads
          /\ tasks \in Seq(Tasks)
          /\ PlacesOK
          /\ task \in [Workers -> Tasks \cup {Nil}]
          /\ batch \in [Workers \cup Clients -> Seq(Tasks)]
          /\ giver \in [Tasks -> Workers \cup Clients \cup {Nil}]
          /\ done \subseteq Tasks /\ refused \subseteq Tasks

In(places) == {w \in Workers : pc[w] \in places}
Tokens == Cardinality(In(TokenPlaces))
Actives == Cardinality(In(ActivePlaces))
GateOpen == created > 0 /\ pc[Owner] # "create"
NobodyInside == \A a \in Agents : pc[a] \notin Critical
Entries(s) == {s[i] : i \in DOMAIN s}

\* _sync is held by at most one thread, by nobody before the constructor has
\* opened the gate, and is never opened twice.
MutualExclusion ==
  /\ sync \in {0, 1}
  /\ \A a, b \in Agents : pc[a] \in Critical /\ pc[b] \in Critical => a = b
  /\ GateOpen => (sync = 1 <=> NobodyInside)
  /\ ~GateOpen => sync = 0 /\ NobodyInside

\* _num_tasks, _task_count, _tasks and _active_threads agree although the
\* semaphore is taken outside the lock that guards the counters: a token a
\* worker has taken and not yet accounted for is the only difference.
CountsAgree ==
  /\ numTasks = taskCount + Tokens
  /\ active = Actives
  /\ ~shutdown => Len(tasks) = numTasks

\* A worker about to call Pop outside a shutdown finds a task: Queue::Pop
\* throws on an empty queue, and inside the noexcept thread routine that
\* ends the process.
PopFindsTask ==
  \A w \in Workers : pc[w] \in {"take", "wake"} /\ ~shutdown => tasks # <<>>

\* _idle is raised exactly when no worker is active, so Wait neither sleeps
\* over an idle pool nor spins over one where every worker is busy.
IdleExact == created > 0 => (idle <=> active = 0)

\* A client that Wait or Active told the pool is idle finds all the tasks it
\* has submitted so far finished or refused, whatever other clients submit.
WaitFlushes ==
  \A c \in Clients : pc[c] = "told" =>
    \A t \in Tasks : giver[t] = c => t \in done \cup refused

\* Wait returns: Raise is never missed and a spinning waiter does not starve
\* the worker it waits for.
WaitReturns == \A c \in Clients : (pc[c] = "wait") ~> (pc[c] = "told")

\* Construction ends, and once the clients are gone so does destruction,
\* with every worker joined, whichever CreateThread fails.
PoolEnds == <>(pc[Owner] \in {"failed", "destroyed"})

-----------------------------------------------------------------------------
Executor == INSTANCE TaskExecutor WITH
  queue  <- tasks,
  slot   <- task,
  closed <- pc[Owner] \in {"join", "failed", "destroyed"}

\* The pool implements TaskExecutor: tasks start in the order they were
\* accepted, at most one per worker, nothing is accepted after the destructor
\* has closed the pool, and it does not close it while a task is left.
Implements == Executor!Safety

\* And it starts and finishes every accepted task, although workers fall
\* asleep and wake on counters that other threads move.
ImplementsFair == Executor!Spec
=============================================================================
