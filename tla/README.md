# ESSE: formal models of the concurrent core

ESSE is a portable runtime (`src/moduli`) and the program that builds software
with it, the constructor (`src/constructor`). This directory holds TLA+ models
of its concurrent and stateful parts, TLC configurations that check them on
small instances, and proofs that TLAPS checks for instances of every size.

Contents: [parts of the system](#the-parts-of-the-system),
[modules](#the-modules), [runs](#the-runs), [fairness](#fairness),
[proofs](#the-proofs), [disagreements found](#disagreements-found),
[what is not modelled](#what-is-not-modelled), [plan](#plan).

## The parts of the system

| Part | State | Operations | Talks to |
|---|---|---|---|
| Thread primitives, `Cor-Linux/CorThreads.cxx` | semaphore value; signal state, mutex and condition variable; exit signal of a thread | `Wait`, `WaitFor`, `Open`; `Raise`, `Reset`; `CreateThread` | the kernel; everything below |
| Thread pool and task queue, `Cor/Tasks/CorTasks.cxx` | queue, `_num_tasks`, `_active_threads`, `_shutdown`, `_sync`, `_task_count`, `_idle` | construct, `SubmitTasksE`, `Wait`, `Active`, destroy; `Process`, `ProcessOnce`, `Quit`, `Break` | callers' tasks, which may submit again |
| Older pool, `EngineRuntime/Miscellaneous/ThreadPool.cpp` | `Tasks`, `NumTasks`, `ActiveThreads`, `Access`, `TaskCount`, `Idle` | `BeginSubmit`, `AppendTask`, `EndSubmit`, `Wait`, `Active` | the constructor |
| Scheduler, same file | array of records with a flag and a time; a semaphore that wakes the thread inside `Process` | `Schedule`, `Interrupt`, `CancelAll`, `Break`, `Process` | the media player and other users of the older runtime |
| Media player, `EngineRuntime/Media/MediaRoutines.cpp` | `_state`, `_streams_active`, the streams' tasks | `Play`, `Pause`, `Seek`, destructor | a scheduler and its thread |
| Child processes, `Cor-Linux/CorProcesses.cxx` | list of the children by pid, one waiter thread, the handles' `_exited` and `_exit_code` | `CreateProcess`, `Wait`, `Exited`, `Terminate` | the kernel; every part that runs programs |
| Network channels, `Communicatio-Linux/CommUnix.cxx` | request queues of a socket, control pipe, reference counts, dispatch thread | enqueue, cancel, shut down, dispatch | poll, pipes, the callers' handlers |
| Block-chain compression, `Compressio/ChainCompression.cxx` | ring of semaphores, shared error, two streams | `ChainCompress`, `ChainDecompress`, `DecompressionStream` | a thread pool |
| Constructor: choice of modules, `kernel.cxx` 600-746 | manifests, modules to build, layers announced, codec lists | `load_module`, recursively | the manifests of `src/moduli` |
| Constructor: the build, `kernel.cxx` 905-1081, `esse_cc.cxx`, `esse_scaenaria.cxx` | lists of sources, objects, definitions, include paths; `alive`; working directory of the process | `construct`, `commit_compile_tasks`, compiler, script interpreter, linker | the older pool; child processes |
| TLS channels, `CommOpenSSL.cxx` | requests, state of the session | connect, send, receive | a network channel, OpenSSL |
| Inter-process objects, `Cor-Linux/CorIPC.cxx` | shared memory, named locks, listeners | create, open, purge | other processes |
| D-Bus, `DBus-Linux/DBus.cxx` | shared connection, message under construction | `BeginInvocation`, `Add...`, `EndInvocation...` | libdbus |
| Containers, strings, formats, images, windows, graphics, printing | sequential data | | |

What is hard, and what makes each part correct:

* **Pools and queue.** Two semaphores, a lock and a "nobody is active" flag are
  moved by different threads at different moments. Correct means: every accepted
  task runs once and in order, `Wait` returns, and not before the caller's tasks
  are done, nothing pops an empty queue, the destructor drops no task and no
  thread touches a pool that is gone, also when a thread cannot be created or
  memory runs out half-way through a submission.
* **Scheduler.** Whether the sleeping thread has to be woken is decided in one
  critical section and done in another, while the thread decides in a third how
  long to sleep. Correct means: no interrupt stays unheard, nobody oversleeps a
  task, everything accepted is run or cancelled.
* **Media player.** Interrupts, stream tasks and the destructor follow each other
  in any order; a stream must not be queued twice and the end of the last one
  must be told.
* **Child processes.** `wait()` returns whichever child ended, also one that
  another thread is still creating, and the pid means something only until the
  child is reaped. Correct means: a handle tells the truth about its own child,
  hears of its end, and there is one waiter while there are children.
* **Network dispatch.** References travel through a pipe between threads, a
  request can be completed by an event, a cancellation or a destructor, the
  last reference may die on the dispatch thread, which may die itself. Correct
  means: a queue is not used after it is freed, is freed in the end, and every
  request ends once, in order and for a cause.
* **Block pipeline.** Blocks are converted in any order and must be written in
  theirs; the streams have no lock of their own; an error in one task must free
  all others without letting any of them write behind a torn block.
* **Choice of modules.** A recursion over a graph with cycles, whose choices
  depend on what is loaded already. Correct means: the result is complete, has
  one implementation per layer and lists the codecs linked in, and a project is
  refused only for a cause.
* **The build.** Tasks submit tasks, scripts change the inputs of compilers that
  run beside them, and the working directory belongs to everybody. Correct
  means: nothing asked for is forgotten, a failure is never overlooked, a script
  works in its own directory, the build ends.

`PROJECT.json` lists every component with its files and, under `hazards`, the
places where the code can go wrong in a way a test would hardly reach, each with
the properties that watch it or the reason why none does.

## The modules

```
TaskExecutor   <--implements--  ThreadPool      <-- ThreadPoolProofs     (Cor)
               <--implements--  TaskQueue       <-- ThreadPoolProofs     (Cor)
               <--implements--  LegacyPool      <-- LegacyPoolProofs     (EngineRuntime)
               <--used by-----  ConstructRun    <-- ConstructRunProofs   (constructor)
BlockCopy      <--implements--  ChainPipeline   <-- ChainPipelineProofs  (Compressio)
RequestService <--implements--  NetworkDispatch <-- NetworkDispatchProofs (Communicatio)
Scheduler      <--extended by-  Playback        <-- SchedulerProofs, on both (EngineRuntime)
ProcessTable                                    <-- ProcessTableProofs   (Cor)
ModuleLoader   <--extended by-  MCRepository    <-- ModuleLoaderProofs   (constructor)
```

Every `MC...` module extends one of these and gives the constants of a run.

### TaskExecutor

What a pool promises, in four actions: `Accept` (new tasks go to the end of the
queue), `Start` (a free worker takes the oldest), `Finish`, `Close` (only when
nothing is queued or running). It has no locks and no counters. The pools and
the task queue implement it and the build is checked to use no more than it
offers.

### ThreadPool

`ESSE::ThreadPool`. One thread constructs and destroys the pool, clients submit,
wait, ask `Active` and let go, workers run `_thread_proc`, and a running task may
submit to its own pool. `pc` says where each thread stands; the names of the
places are the critical sections (`take`, `park`, `wake`, `leave`, `push`,
`check`, `probe`, `close`) and `lock_x` is the wait for `_sync` before section
`x`. A section is one step, the one that opens `_sync`: its fields are touched by
nobody else. Operations on `_task_count` and `_idle` outside a section are steps
of their own, because that is where threads interleave.

| Code (`CorTasks.cxx`) | Model |
|---|---|
| constructor 151-176, with `_sync` closed as a gate | `CreateWorker`, `OpenGate`, `CreateFailsFirst`, `CreateFails` |
| `_thread_proc` 113-148 | `TakeToken`, `NoToken`, `Take`, `Park`, `ParkedToken`, `Wake`, `FinishTask`, `Leave`, `ThreadExit` |
| `SubmitTasksE` 195-210, `Push` failing after any number of tasks | `BeginSubmit`, `Submit` |
| `Wait`, `Active` 214-232 | `Call`, `WaitIdle`, `SpuriousWake`, `CheckIdle`, `ProbeIdle` |
| destructor 177-194 | `BeginDestroy`, `Close`, `Destroy` |
| `PosixSignal` | `idle`, `Raise`, `SpuriousWake`: `Raise` releases every blocked thread at once, since `Wait` does not test the state again after `pthread_cond_wait` |

`giver`, `done` and `refused` are history variables that only properties read.

### TaskQueue

`ESSE::TaskQueue`, of the same file: `Loops` are threads inside `Process`,
`Pollers` call `ProcessOnce`, `Clients` submit, quit and break; a running task may
do the same. An empty task (`Nil` in the queue) ends one call of `Process`.
`TakeToken` is the wait for `_task_count`, `StartTask` and `TakeEmpty` the critical
section behind it. `Garbage` is what `_num_tasks`, which the constructor does not
set, may hold: nothing but its getter reads it. As a queue of the executor it counts
without the empty tasks: `Filled` leaves them out, by positions and counts so that it
can be proved about; `MCTaskQueue` has TLC compare it with `SelectSeq` on every queue
of up to five entries.

### LegacyPool

`Engine::ThreadPool`, in the style of ThreadPool. Its differences are the point:
`Idle` is a semaphore a waiter takes and gives back (`TakeIdle`, `GiveIdle`) and a
waking worker takes with `Access` closed (`Activate`), a submission opens
`TaskCount` before it pushes (`AppendTask`, `PushTask`, `PushFails`, `Undo`),
threads count as active before they exist (`Init`), and the destructor ends them
with null tasks (`Mark`) and a second `Wait` instead of joining them.

### Scheduler

`Engine::Scheduler`. `slots` is the array of records; a cleared record stays as a
free slot. `Schedule` is two critical sections, as in the code: the record goes in
and the need for a wake-up is decided (`MustWake`), then `WakeProcess` interrupts
with the void task; between the two the thread is in `wakes`. A call of `Process`
goes round `Scan` (compute the sleep), `Sleep` (start the timed wait), `TakeToken`
or `TimeOut`, then `Serve` (one interrupt or Break) or `RunNearest`. `now` is the
clock; times are small numbers, `Never` stands for no time at all.

### Playback

`PlaybackRoutine` on top of Scheduler, which it extends: one user's thread, one
dispatch thread. `script` is what the task that runs has still to do (`Seek` is
`SeekInterrupt::DoTask`: cancel all, reset the count, open each stream), `call` the
method the user's thread is in; a method reads `_state` in one step and queues its
interrupt in another.

### ProcessTable

`PosixProcess`, `CreateProcess` and the waiter thread, with the kernel's side:
children are born, executed or refused, end, are reaped; pids are given out.
`Fork`, `Read`, `Reap`, `Enter` and `EnterFails` are one call of `CreateProcess`
under the root lock; `Catch` is `wait()`, which takes any zombie with no lock held;
`Record` is what follows under the lock; `Abandon` is the branch for a `wait()` that
fails. `Faults` says what may go wrong: the image cannot be executed, memory or the
thread is refused, a signal interrupts `read`, SIGCHLD is ignored.

### NetworkDispatch and RequestService

`RequestService` is what a channel promises about its requests. `NetworkDispatch` is
`NetworkRequestQueue` with its dispatch thread: `line` are the two lists of requests
of a queue, `clients` the table of polled sockets, `pipe` the control pipe, `refs`
the reference counts, one by one.

| Code (`CommUnix.cxx`) | Model |
|---|---|
| `CreateDispatch`, `StopDispatch`, `NetworkEngineInit`, `NetworkEngineStop` | `CreateQueue`, `EngineInit`, `CreatePipe`; `Leave`, `EngineStop`, `ClosePipe`, `AwaitDispatch` |
| `EnqueueRequest`, `EnqueueConnectRequest` under `_local_sync` | `BeginEnqueue`, `PushRequest`, `ConnectAtOnce` |
| `CancelRequests`, `Shutdown`, destructor of the channel | `Cancel`, `Release`, `DropChannel` |
| `_control_send`, under the root lock, write first and retain after | `AcquireRoot`, `WriteCommand`, `Retain`, `SendFails` |
| `_dispatch` | `Poll`, `Visit`, `HandlerReturns`, `ReviseClient`, `Sweep`, `ReadCommand`, `PeekRead`, `PeekWrite`, `UpdateClient`, `RemoveClient`, `Drain`, `DispatchEnds` |
| destructor of the queue | `Destroy` |

The dispatch thread is an agent like the users while a handler runs, and may make
any of their calls.

The code has two races that it may lose, and after which it uses memory or
descriptors that are gone or not yet there: the last reference to a queue goes while
the sender of a command about it has still to count the command (`Snatched`), and the
dispatch is in use while another thread is starting or stopping it (`Hurried`). Both
are in the model. The history variable `races` records which has been lost, by the
step that loses it, and the model ends there, because what the program does afterwards
is undefined. Properties speak of the states and steps before that, and
`UpdateCounted` says which commands cannot lose the first race at all.

The destructor of a queue calls the handlers of the requests that still wait, one by
one; `Destroy` ends all of them in one step. A handler that runs there and calls into
another queue is not seen.

### ChainPipeline and BlockCopy

`BlockCopy` is the call without a pool: read, convert, write, block after block;
the first error ends it. `ChainPipeline` is the call on a pool: `turn[i]` is the
semaphore `sync[i]`, the tasks go through `first`, `top`, `read`, `convert`,
`second`, `write`, and `Catch` / `OpenRing` are the exception handlers, which set
the error before they open the ring. Compression and decompression have the same
control and differ in which step can fail; `Fail` allows it everywhere. A block
is its number in the source.

### ModuleLoader

`load_module` as a machine with a stack: a frame is an activation with the stage
it is in (`special` and `ordinary` requirements, `layer`, `codecs`) and the names
it has still to visit, in the order of the dictionaries (`Rank`). `Announce` is
line 654, where a module's own layer is entered; `ImplementLayer` is the choice
of an implementation; `Return` fills the codec lists. Manifests are a variable
that never changes, so one run covers many graphs; `MCRepository` is the graph of
the `.esse` files under `src/moduli`.

### ConstructRun

`construct`, with the tasks of the compiler and of the script interpreter on a
pool. `lock` is the semaphore `construct` makes (`enter_state_critical_section`),
`scriptLock` is `script_compiler::sync`. The loops of the compiler over include
paths and definitions take no lock. `defines_list` is a red-black tree whose
insertions rotate (`kernel.h:144`, `Volumes.h:434-535`), and `GetNext` looks at a child
and then at the parent (369-386): a loop that overlaps an insertion may miss what was
there before it began. So `EndGather` takes every definition when none was inserted
since `BeginGather`, and otherwise any part of them. A script is
the sequence of commands it executes; only those that touch shared state are
distinguished. `cwd` is the working directory of the process. `Fresh` are the
sources whose object is newer than they are.

Objects go by their source: the code names an object file by the base name of its
source (`esse_cc.cxx:26`), so two sources without a prefix that have one base name share
an object, which `linkList` does not show.

Sequences and sets stand for the lists of `CorVolume.hxx` and `Volumes.h`.

## The runs

| Run | Instance | Shows |
|---|---|---|
| `pool_safe` | 2 workers, 2 clients, 3 tasks, arrays up to 2, every failure, spurious wake-ups; symmetry of tasks and clients | the counters agree, `Pop` finds a task, `_idle` and `Wait` are exact, and the pool is a `TaskExecutor` |
| `pool_join` | 2 workers, 1 client, 2 tasks, fairness, no spurious wake-ups | `Wait` returns, construction and destruction end, the fair executor |
| `queue` | 2 threads in `Process`, 1 in `ProcessOnce`, 1 client, 3 tasks, 3 empty tasks, `Push` failing anywhere | the queue is a `TaskExecutor`; enough empty tasks end every thread |
| `legacy_safe` | 2 workers, 2 clients, 3 tasks, every failure; symmetry | the older pool is a `TaskExecutor`, `Idle` is exact, nobody uses freed members |
| `sched` | 1 thread in `Process`, 2 others, 2 requests, times 1 and 2, one `CancelAll`, one `Break`; tasks call too | no interrupt unheard, no task overslept, everything accepted is run or cancelled |
| `playback_safe` | 2 streams; a start, a seek, a pause, a restart and the destructor in any order, each stream queued twice | no stream is queued twice, `_streams_active` is exact |
| `playback_eos` | the same | the end of the stream is told too early (violation) |
| `process` | 2 callers, 3 children, 3 pids, 2 exit codes, every fault | handles tell the truth, one waiter, every end is seen |
| `network` | 1 queue with 3 requests on both sides, 2 users, the dispatch thread with its handlers, which may die; fairness | up to a lost race: nothing freed is used, none is leaked, no request overlooked, each ends once, in order and for a cause, a channel that goes takes its queue with it; and the sender of an update always counts it in time |
| `pipeline` | 4 tasks, 6 blocks, a failure in any step, fairness | exclusion on the streams, nothing behind a torn block, termination, and by refinement of `BlockCopy` that blocks arrive in order and a call that returns has written all of them |
| `loader` | all graphs over 3 modules and a missing one, 1 layer, 1 codec domain; the modules of `src/moduli` with projects of one or two modules | completeness, exact codec lists, refusal only for a cause; of two implementations of a layer one was required directly, and with the repository's modules that happens only to a project that names `fenestrae-nullae` |
| `construct` | 3 workers, 1 source, 2 scripts adding a source each, any failure, fairness | nothing forgotten and no failure overlooked, the scripts' directory, their definitions (one of them made while another script's source may be compiled), termination, use of the pool |

Why the bounds are enough. Two workers give every race of `_idle` (the last one
parks while the first one wakes) and of tokens; a third adds no new pair of
sections, and counters and flags are proved for any number. Two clients let one
submit between another's signal and its look at the counters. Three tasks and
arrays of two let one task be queued, one running and one be refused. In `queue`
three empty tasks against two threads in `Process` let one be stolen by
`ProcessOnce`. In `sched` two times are enough to schedule an earlier task while
the thread sleeps to a later one, with a third thread between the two critical
sections of another call; in `playback_*` each stream can be queued, seeked and
queued again. In `process` the third child is born while one of the others is
being reaped by either thread. In `network` one queue suffices because queues share
only the pipe, the table and the service count, and the pipe has room for every
command that the instance can send; two requests on one side show order, one on
the other the two sides of a poll. Four pipeline tasks and six blocks let the turn
go round and meet tasks that are still converting; the theorem covers any number.
Three modules make every cycle shape that matters to a stack (self-requirements
are excluded, as no manifest has one). In `construct` a third worker lets a
compiler run beside two scripts.

Bounds in the models: `MaxBatch` and finite `Tasks` (each submitted once) in the
pools; `MaxEmpty` empty tasks in TaskQueue; `MaxTime`, `MaxCancel` and `MaxBreak`
in Scheduler, and the finite `Requests` of Playback, one set for each kind;
`MaxWaiters`, a bound on waiter threads at a time, in ProcessTable; `PipeSize` and
one cancellation of each queue in NetworkDispatch; `NumBlocks`; the sets of
manifests; the fixed `Program` of each script. Nothing else is capped.

What runs assume, besides bounds:

* `pool_join`: no spurious wake-ups (`Spurious = FALSE`).
* `network`: `NetworkEngineInit` is called before any queue is made (`EngineFirst`);
  this keeps the run small, the safety properties hold without it too and the theorems
  do not assume it. The pipe never fills: where it does the code goes wrong, see below.
* `process`: no pid comes twice (`Reuse = FALSE`); `Truthful` and `OneWaiter` speak
  of programs that do not ignore SIGCHLD.
* `sched`: one thread inside `Process`, as the program has.
* Deadlock is not checked in `legacy_safe`, which has two (below), nor where the
  system may come to rest: `queue`, `sched`, `playback_*`, `process`, `network`.

Every property of a passing run has a mutant: a variant of a definition, marked
`mutant` in a comment and named `<definition>_<Change>`, that makes a plausible
mistake and violates the property under the run's own configuration.

## Fairness

* *Pools.* A thread that can run does (weak fairness of each worker, each
  submission, the owner). `sem_wait` is given strong fairness: the semaphore is
  closed and opened by others in between, and the kernel wakes a waiter in the
  end. Clients are only assumed to let go of the pool some time. Spurious
  wake-ups, failures and submissions are free.
* *Task queue.* Tasks end, a thread that has taken a unit goes on, a thread inside
  `Process` takes a unit that stays. Nobody has to call `ProcessOnce`, `Quit` or
  `Break`.
* *Scheduler.* The clock runs, threads inside a call go on, tasks end. `_access` is
  never held across a wait, so weak fairness is enough.
* *Child processes.* A child comes to its `execve` and one that could not execute
  exits; callers inside `CreateProcess` and the waiter go on. A child that runs need
  never end.
* *Network.* Threads inside a call go on (weak fairness), a thread that waits for
  `_local_sync` or the root lock gets it (strong: others take them meanwhile, for a
  few steps), handlers return. Nobody has to make a request and no socket has to
  become ready.
* *Pipeline.* The caller runs, the pool starts a queued task (`ImplementsFair`
  of ThreadPool; there are as many threads as tasks), a started task goes on. Only
  one thread waits on each semaphore, so weak fairness is enough.
* *Build.* Some thread that can run does, and child processes end. No thread
  repeats itself, so this is enough.

## The proofs

Eight modules hold theorems, all for every value of the constants that the named
assumptions of the modules allow.

| Theorem | Says |
|---|---|
| `ThreadPoolProofs` `TypeCorrect` | every field and local keeps its type |
| `Exclusion` | `_sync` is a lock, and a gate before the constructor has opened it |
| `CountsCorrect` | `_num_tasks`, `_task_count`, the queue and `_active_threads` agree |
| `PopCorrect` | `Pop` never meets an empty queue, hence never throws in the noexcept thread routine |
| `IdleCorrect` | `_idle` is raised exactly when no worker is active |
| `WaitCorrect` | a client told "idle" finds its own tasks finished or refused |
| `PoolImplements` | the pool implements `TaskExecutor`, safety part |
| `QueueImplements` | the task queue implements `TaskExecutor`, safety part, empty tasks left out |
| `LegacyPoolProofs` `TypeCorrect` | types; `NumTasks` is the length of the queue |
| `IdleCorrect` | `Idle` is open once, in the semaphore or with one waiter, exactly when no thread is active |
| `FreedCorrect` | when destructor or failed constructor end, no thread can touch the members again |
| `PoolImplements` | the older pool implements `TaskExecutor`, safety part, null tasks and failures included |
| `SchedulerProofs` `TypeCorrect` | types |
| `UnheardCorrect` | each pending interrupt has a wake-up of its own |
| `OversleepCorrect` | one thread inside `Process` never sleeps past a task |
| `PlaybackSchedules` | every step of the media player is a step of the scheduler |
| `StreamOnceCorrect` | a stream is never queued twice, nor queued while its task runs |
| `ActiveCorrect` | while streams are queued, `_streams_active` is their number |
| `ProcessTableProofs` `TypeCorrect` | types |
| `TruthfulCorrect` | a handle that says "ended" is right, with the right exit code |
| `WaiterCorrect` | one waiter while a child is listed, none otherwise |
| `NetworkDispatchProofs` `TypeCorrect` | types, while no sender of a command has lost its race |
| `FreedCorrect` | nobody refers to a queue object after its destruction, while no sender of a command has lost its race |
| `RequestsServed` | the dispatch protocol implements `RequestService`, up to the step by which a sender loses its race |
| `UpdateCorrect` | the sender of an update never loses it: the command is counted before the last reference can go |
| `RegisteredCorrect` | no request is forgotten while the dispatch runs and no race is lost: it polls for it, is told of it, or is about to look |
| `LeakedCorrect` | no queue object is leaked while no race is lost: the count of a queue is exact, and at zero somebody destroys it |
| `ChainPipelineProofs` `TypeCorrect` | types |
| `ExclusiveCorrect` | one task at a time at each stream |
| `TornCorrect` | nothing is written behind a torn block |
| `PipelineImplements` | the pooled call implements `BlockCopy` |
| `ModuleLoaderProofs` `TypeCorrect` | types |
| `ClosedCorrect` | a choice that succeeds is complete |
| `CodecsCorrect` | its codec lists name the codecs of exactly the chosen modules |
| `RefusalCorrect` | a project is refused only for a cause |
| `AskedCorrect` | nothing is linked that another module of the build has not asked for |
| `ChosenCorrect` | of two implementations of a layer that are linked, one was required by its name or for its codecs |
| `LinkedCorrect` | with the modules of this repository, two are linked only of `fenestrae`, for a project that names `fenestrae-nullae` |
| `ConstructRunProofs` `TypeCorrect` | types |
| `ForgottenCorrect` | behind the compilation everything asked for is built, or a failure is known |
| `DirectoryCorrect` | a running script finds the process in its own directory |
| `DefinesCorrect` | a definition made before a source was asked for reaches its compiler, unless one is inserted just while that compiler reads them |
| `PoolUsed` | the build uses its pool in no way that `TaskExecutor` does not offer |

*ThreadPool.* The inductive invariant `IInv` joins the five statements with
`Staging`, which says what the stages of the owner mean for everybody else: before
the gate opens the counters are zero and no worker is past its first look at the
tokens; the pool is shut down exactly outside the stages `Opened`; a worker has a
task exactly where it runs one. Without `Staging` the counts are not inductive:
`OpenGate` clears `_shutdown`, and only because nothing was queued before does the
length of the queue equal `_num_tasks` then. `OneMoved` and `CountMove` reduce the
cardinalities to the one worker that moves; `PopLemma` gets the existence of a task
from a worker that holds a token.

*ThreadPool, what it promises.* Two more invariants go with `IInv`. `Ending`: the
destructor runs after the last client has gone, and the idle pool it finds stays
idle, since only clients and running tasks submit (`QuietLemma`: no token, no active
worker, nothing queued); so nothing is left when it closes. `Whereabouts`: a
submitted task is either still in the batch of the thread that gave it or has left
it for the queue, a worker, the finished or the refused. `ToldLemma` reads
`WaitFlushes` off both: the client that was told has no batch, and queue and workers
are empty. `StepLemma` divides the steps into those that move tasks and bystanders;
the refinement maps `Submit` to `Accept`, `Take` and `Wake` of an open pool to
`Start`, `FinishTask` to `Finish`, `Close` and both failures of the constructor to
`Close`, and everything else to a stutter. Beside the assumptions on workers and
clients it uses `NilAssumption`: the null value is no thread.

*LegacyPool.* `IdleExact` needs `ActiveExact`: `ActiveThreads` is the number of
workers that are not parked, waking or returned, those included that do not exist
yet. `FreedUnused` needs `Stages`: nobody submits once the owner is about to queue
the null tasks, and from then on the null tasks in the queue and the threads that
have seen one (`Left`) add up to the threads created. `AllReturned` then counts: if
`NumTasks` and `ActiveThreads` are zero, all `NumThreads` threads were created and
have all returned. This is why the constructor that failed never gets past its
second `Wait`: the threads it did not create stay active.

*LegacyPool, what it promises.* `Where` says of each task where it is: with nobody
when nobody submitted it; with one submitter while it is being appended, and then
neither queued, running nor ended; with a worker exactly between `Pop` and the end of
`DoTask`, submissions of the task included. The refinement maps `PushTask` to
`Accept`, `Take` and `Wake` to `Start`, `FinishTask` to `Finish` and `Mark` to
`Close`; a worker that pops a null task does nothing that the executor sees. The
executor's queue is empty once the null tasks are queued: `CloseLemma` shows that it
was empty before, so no task is lost in that definition.

*Scheduler.* `NothingUnheard` and `NoOversleep` are inductive beside the types. A
record is placed or cleared one at a time, or all are cleared together with all
units of the semaphore (`CancelAll`); `NoOversleep` is assumed one thread in
`Process` (`OneProcess`): with two the wake-up may be taken by the other.

*TaskQueue.* `ThreadPoolProofs` instantiates the queue, whose fields have the names of
those of the pool; of the pool's behaviour nothing is used. The invariant is short
(`Hands`: a worker has a task exactly while it runs one), the work is in `Filled`. An
increasing enumeration of the positions of a queue that are not empty determines
`Filled` (`FilledIs`), and there is one (`FilledFound`: the rank of a position maps
them one to one to 1, 2, ..., and it is its inverse); so each operation only has to
give the enumeration that follows it: an array moves to the end (`FilledAppend`), an
empty task at either end changes nothing (`FilledQuit`, `FilledBreak`), and a pop takes
the first filled entry or none (`FilledTail`). The theorem assumes that the tasks are
finitely many, as an array of tasks is; that `Push` stops at any element, that workers
submit, and any number of calls of `Quit` and `Break` are covered.

*Playback.* The scripts that a thread can be in have a shape that survives its steps
(`Shape`: a seek cancels, then resets, then opens each stream once; a stream's task
stands alone). With it go `Sorted` (streams are timed records, everything else
interrupts), `Cleared` (what a seek has still to open is not queued) and `Exact`,
which is stronger than `ActiveExact`: while a seek opens, the count is right also
when nothing is queued yet, and that is what carries it from the reset to the first
stream. `Player` names what the constants of the player are: one user's thread, one
thread inside `Process`, distinct streams. It is a hypothesis of the theorems on the
player and of no other; `MCPlayback` has TLC evaluate it. `PlaybackSchedules` gives
the player what is proved of the scheduler. A player may have any number of streams.

*ProcessTable.* The invariant says, for programs that do not ignore SIGCHLD and
when no pid comes twice (`OncePid`): a call holds the root lock and a child without
a handle (`Calling`), the list has exactly the children whose handle is open
(`Entries`), a child that is gone while its handle does not say so is in the hands of
the waiter (`Caught`), and the waiter lives exactly while the list has an entry
(`Waiting`). `Caught` carries the argument for the child the waiter reaps before
`CreateProcess` has entered it.

*NetworkDispatch.* The count of a queue is at least the number of its holders
(`Counted`): its channel, the command the dispatch has in its hands, its element of
`clients`, and the commands in the pipe, of which one may lack its reference while
its sender stands between the write and `Retain` (`Owed`). There is at most one such
sender, for it has the root lock (`Places`). The dispatch may read its command at once
and let go of the reference that is owed; then the count is lower than that of the
holders, and either another reference is left and `Retain` restores the count, or none
is and the step is one that `races` records. `Unsnatched` states the invariant up to
that step. `Users` says who may speak of a queue: the creator alone before it lives, any caller while the channel is held, the
destructor of the channel alone afterwards, and the destroyer alone, at count zero.
Nothing is assumed of the size of the pipe, the number of queues, the way the
dispatch ends or whether the engine was initialised first. A count that is too high
would satisfy all this; that it is not is the subject of `LeakedCorrect`, below.

*NetworkDispatch, the requests.* `Served` joins to the invariant: only a queue that
is alive has requests in its lines (`Owned`); a request is in one caller's hands, and
new until it is pushed (`FreshAt`); a caller between its push and its command has its
request last in the line and holds the queue's lock, so that nothing is appended in
between (`PushedAt`), and can therefore take the right one back when the command
cannot be sent; and a cancellation or release under way is one the users have asked
for (`Asks`, `AsksAt`). The steps then map to those of `RequestService`: a push to
`Make`, or to `MakeAndEnd` for a connection decided at once; an end at the
socket to `Finish` or `Cancel`; a command that cannot be sent to `Refuse`; the
destruction of a queue to `Abandon`; a user's cancellation or release to `Ask`; the
dispatch coming up or going down to `StartOrStop`; the rest to a stutter.

*NetworkDispatch, the race over a command.* `UpdateCorrect` is about what saves the
commonest command. Its sender holds `_local_sync` of the queue from the push to behind
`Retain`, and the root lock besides, so nobody writes a command meanwhile. Hence
(`Telling`) its command is the last in the pipe, or the dispatch has read it and stands
before its look at the queue, for which it must take `_local_sync`. In the first case
the commands before it in the pipe take their own references only, in the second the
dispatch has taken none; so the reference of the channel and the command's own, counted
or owed, are more than what is owed, and the count is not zero. Senders of "cancel" and
"shutdown" hold no lock of the queue, and the code does lose the race for them.

`Registered` is not inductive, for three reasons, each with a part of `KInv`.
`Started`: the service count is the number of queues alive plus the program's own
reference, or a thread is at the pipe and the only one, so the dispatch is neither
stopped nor made again while a queue lives and the pipe cannot be refused; this holds
until `Hurried`, the race it excludes. `Phases`: what `poll`
has reported stays in the table until it has been visited, and so does the element
being revised. `Watch`: an element of
`clients` that the dispatch has in hand does not yet count as watching, since it may be
about to be removed or to clear the side; the dispatch that looks at the queue again
counts instead. A command is written behind a push and read after it, so a read that
finds nothing on a side finds it before the push, whose own command is still to come.

*NetworkDispatch, leaks.* `NoneLeaked` needs the other half of the count: it is at
most the number of holders (`KeptAt`), and a queue whose count has come to zero is in
the hands of a thread that is about to destroy it (`DyingAt`). The second is where the
code could fail silently. When the dispatch sweeps `clients`, drops the surplus
reference of a command, or ends, the model's `DropClients` lowers counts and destroys
nothing, because in those places the count never reaches zero; this is now a fact
that is proved (`NotDying`) and not a choice of the model. Its reason is the order of
the commands. The shutdown of a channel is the last command about its queue and is
sent once (`LastWord`, `SaidOnce`). So as long as the dispatch has anything of a queue
(`Spoken`: an element, a command in hand or in the pipe), either the channel has not yet
said its last word and holds the queue itself, or that word is still in the pipe and its
reference is the later one (`Backed`); only the command that carries it may bring the
count to zero, and `RemoveClient` destroys then. `Started` is needed here too, since a
command that is refused because the pipe is closed would leave an element behind; a
dispatch that has died has no elements left. References of commands that a dead dispatch leaves
in the pipe are counted as held there: that loss is the code's, and `Released` excepts
it too.

*ChainPipeline.* Until an error is set there is one turn (`OneTurn`), in a semaphore
or with a task; the blocks read and not yet written are each in the hands of one
task, and the tasks come to their turn in the order of their blocks (`Ring`, over
`Before`, the cyclic order from the task that has the turn). After an error the
only thing left is `Writer`: a task that was about to write has the next block, also
when another has failed meanwhile, and behind a torn block nobody is. The refinement
maps `written` and the outcome of the call; `BlockCopy` steps when a block is
written, when an error ends the call and when the caller returns.

*ModuleLoader.* `Progress` says of each activation on the stack what it has already
seen to, by its stage: the requirements it has left behind are loaded or on the
stack, its layer is announced, its codecs are registered. `Settled`: a module no
activation is busy with is complete, and its codecs are listed. A cycle returns to a
module that is on the stack and not yet complete, which is why completeness must be
stated of what has left the stack and closed only when the stack is empty. Nothing is
assumed of the manifests: they may be cyclic, require what is missing or themselves.
`OnlyAsked` follows the other way: what an activation has still to visit is asked for by
its module, by name or for codecs, so a step adds only what the module on top of the
stack asks for. For `ChosenCorrect`, an implementation that nothing requires
otherwise is the one its layer's search chooses (`UnrequiredLemma`), and the search has
one answer (`ChosenLemma`).
`LinkedCorrect` adds the table of `MCRepository`: each layer has one default
implementation, and the only other one, `fenestrae-nullae`, is asked for by no module of
this repository. Its assumption `Repository` says that among the manifests those with
the modules of the repository differ in what the project names and in nothing else: the
project may name any of them. `MCModuleLoader` has TLC evaluate it.
`ListsExact` says what the lists stand for. `RefusedForCause` is inductive given the
rest, since what an activation refuses stays missing.

*ConstructRun.* `Whereabouts`: each source asked for is in `compileList` or has a task,
and a task is queued, with a worker or done. `Results`: a task that has ended has left
its object in the list of the linker, unless it was a script or broke; `Failures`: what
broke is in `alive` or a worker is about to report it. `Stages` says what the place of
the main thread means for the others: beyond the pool's `Wait` nothing is queued and
nobody works, beyond compilation nothing has failed, and `compileList` holds something
only while somebody is still to commit it. `Directory` follows `cwd` through
`scriptLock`: the holder alone is in its own script's directory, and gives back the one
it found unless it fails. `Known`: definitions are never taken back, and a compiler that
nobody disturbed while it gathered its definitions saw those made before its source was
asked for. `PoolUsed`
maps the build to the executor it runs on, step by step.

Model-checked only:

* all liveness properties, which need fairness and `ENABLED` (`WaitReturns`,
  `PoolEnds`, `ImplementsFair`, `LoopsLeave`, `Served` of Scheduler, `ExitSeen`,
  `Released`, `Terminates`);
* what a fold or a sequence function returns for every input: that takes induction over
  data, which the installed provers cannot instantiate.

## Disagreements found

With a run:

* `playback_eos`: a seek resets `_streams_active` and lets the streams seek one after
  the other; when the first one is over at the new time, the count falls to zero
  before the second one has counted itself, and the state says end of stream while
  the second one plays (`MediaRoutines.cpp:28`).

Read in the code while modelling, excluded from the runs by a constant or a bound,
and without a run of their own. None is contradicted by a statement of the
repository so plain that a run could quote it:

* *Pool.* `PosixSignal::Wait` leaves its loop after any return of
  `pthread_cond_wait` (`CorThreads.cxx:28`): a spurious wake-up lets `Thread::Wait`
  return before the thread has ended and the destructor of a pool free it early.
  `pool_safe` shows that nothing else depends on it.
* *Task queue.* `ProcessOnce` takes the empty task that `Quit` or `Break` queued and
  returns true (`CorTasks.cxx:83`), so that a thread inside `Process` does not leave.
  The constructor (32-37) does not set `_num_tasks`, which `GetTaskQueueLength` reports
  (62).
* *Older pool.* A failed `Push` waits for the token back that a worker has taken,
  with `Access` closed, while that worker waits for `Access` (`ThreadPool.cpp:99`).
  The constructor hangs when a thread cannot be created, because `ActiveThreads`
  counts it (22).
* *Scheduler.* `nearest` starts at 0x7FFFFFFF and the nearest task is run whether
  or not it is due: when the timed wait ends for any task that a cancellation has
  removed meanwhile, a later task runs early (`ThreadPool.cpp:418`).
* *Player.* The destructor cancels everything and interrupts with objects of the
  routine; a task that is running on the dispatch thread goes on with the freed
  routine (`MediaRoutines.cpp:723`), and a seek in it cancels the shutdown interrupt,
  so that the dispatch thread never ends (724).
* *Child processes* (`CorProcesses.cxx`). A pid may come again between `wait()` (50)
  and the lock (68); a `read` interrupted by a signal counts as success (165);
  `Exited` of a process opened by its pid is inverted (299); where SIGCHLD is
  ignored, the branch 52-64 marks a child created meanwhile as ended and goes on
  spinning, and the next `CreateProcess` makes a second waiter; when memory or the
  waiter thread is refused the call reports an error although the program runs
  (182-197).
* *Network* (`CommUnix.cxx`). A full control pipe blocks the sender with the root
  lock held, which the dispatch thread may need (476); the last queue that goes on
  the dispatch thread joins that thread with itself (639); `CreateDispatch` and
  `StopDispatch` race on `_service_refcnt` and the pipe (644), which the model has as
  `Hurried`; a cancellation or a shutdown may be handled, and the last reference go,
  before its sender has retained the queue (485), which the model has as `Snatched`. An
  update cannot (`UpdateCounted`).
* *Choice of modules.* A project that names `fenestrae-nullae` also gets the default
  implementation of windows, because a module's layer is announced only after its
  requirements are loaded (`kernel.cxx:654`).
* *Build.* The compiler walks `defines_list`, a tree that a script in another thread
  may be rotating, without the state lock (`esse_cc.cxx:46`), and may lose definitions
  that were there all the time: an insertion that rotates the parent of the element the
  loop stands on, between the two looks of `GetNext`, lets it skip that parent and its
  right subtree. `DefinesReach` speaks of the loops that no insertion overlaps. Two scripts that add the same source get it compiled and linked twice
  when the first entry has been submitted (`esse_scaenaria.cxx:146`).

## What is not modelled

* Pure transformations of data: compression methods, encodings, images, fonts,
  formats, printing. There is no interleaving in them and their state is bytes.
* Wrappers of one system call, the X11 and Vulkan front ends, the user
  interface of the older runtime, vendored code (giflib, headers). Of the half
  million lines of the repository more than four fifths are vendored Vulkan headers
  and generated tables; the share of lines that the models map is small for that
  reason and cannot become large.
* In the modelled parts: destruction by reference counting outside NetworkDispatch
  (a thread that calls an operation is taken to hold a reference, as in the code),
  the counters' getters, memory exhaustion outside the places where the code handles
  it, labels and variables of scripts, the redirection of the standard streams
  beyond the lock it is made under, `idle_mode`; in Scheduler the wrap of the clock
  and failures of array growth; in Playback decoders, devices, their errors and the
  reset and volume interrupts; in NetworkDispatch the TLS requests, failures inside
  `CreateDispatch`, more than one dispatch thread at a time and the calls that only
  pass an address to the socket; in ProcessTable processes opened by pid, and the
  set-up of the child's streams and arguments between `fork` and `execve`.
* The task queue of the older runtime has the operations of the one in Cor and no
  module of its own.

## Plan

What could still be added, in this order:

1. `IncrementalBuild`: files, dates, edits and a crash between two runs of the
   constructor; failures of `SubmitTask`; the redirected streams.
2. `SharedMemory`: creation, opening and purge of named objects by several
   processes. `SecureChannel`: the requests of a TLS session over a network channel.
   `DBusShared`: the shared connection.
3. `PosixSignal`: the condition variable refined to the signal of ThreadPool.
4. `MethodChain` and `DecompressionStream`: the choice of methods per quality and
   positions in an archive; two pipelines on one pool.

Every safety property of the passing runs has its theorem; new modules should come
with theirs.
