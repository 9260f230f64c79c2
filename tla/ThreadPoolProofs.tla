-------------------------- MODULE ThreadPoolProofs --------------------------
(***************************************************************************)
(* Theorems about ThreadPool, for every number of workers and clients and  *)
(* every set of tasks: its invariants, then that it implements             *)
(* TaskExecutor and that Wait and the destructor keep their promises.  The *)
(* second part rests on two more invariants: what the end of the pool      *)
(* means for the others (Ending) and where each task is (Whereabouts).     *)
(* The last part is about TaskQueue, which promises the same executor.     *)
(***************************************************************************)
EXTENDS ThreadPool, FiniteSetTheorems, FunctionTheorems, TLAPS

\* The owner has a pool that works.
Opened == {"own", "lock_close", "close"} \cup WaitPlaces

\* What the stages of the owner mean for everybody else, and where a worker's
\* task is.
Staging ==
  /\ \A w \in Workers : pc[w] = "none" <=> w > created
  /\ \A w \in Workers : task[w] # Nil <=> pc[w] \in RunPlaces
  /\ created = 0 => ~idle
  /\ shutdown <=> pc[Owner] \notin Opened
  /\ pc[Owner] \in Opened => created = NumThreads
  /\ pc[Owner] = "create" =>
       /\ numTasks = 0 /\ taskCount = 0 /\ tasks = <<>> /\ ~idle
       /\ \A w \in Workers : pc[w] \in {"none", "try", "lock_park"}
       /\ \A c \in Clients : pc[c] = "user"

\* The inductive invariant.
IInv == TypeOK /\ MutualExclusion /\ CountsAgree /\ IdleExact /\ Staging

\* A token in a worker's hand stands for a task in the queue.
LEMMA PopLemma ==
  ASSUME TypeOK, CountsAgree PROVE PopFindsTask
<1> SUFFICES ASSUME NEW w \in Workers, pc[w] \in {"take", "wake"}, ~shutdown
             PROVE  tasks # <<>>
  BY DEF PopFindsTask
<1>1. IsFiniteSet(Workers)
  BY NumThreadsAssumption, FS_Interval DEF Workers
<1>2. IsFiniteSet(In(TokenPlaces)) /\ w \in In(TokenPlaces)
  BY <1>1, FS_Subset DEF In, TokenPlaces
<1>3. Cardinality(In(TokenPlaces)) \in Nat \ {0}
  BY <1>2, FS_CardinalityType, FS_EmptySet
<1>4. Len(tasks) # 0
  BY <1>3 DEF TypeOK, CountsAgree, Tokens
<1>5. QED
  BY <1>4

LEMMA HeadLemma ==
  ASSUME TypeOK, CountsAgree, NEW w \in Workers, pc[w] \in {"take", "wake"}, ~shutdown
  PROVE  Head(tasks) \in Tasks /\ Tail(tasks) \in Seq(Tasks)
BY PopLemma DEF PopFindsTask, TypeOK

\* _active_threads is never negative, and positive while a worker is active.
LEMMA ActiveLemma ==
  ASSUME TypeOK, CountsAgree
  PROVE  /\ active \in Nat
         /\ \A w \in Workers : pc[w] \in ActivePlaces => active > 0
<1>1. IsFiniteSet(Workers)
  BY NumThreadsAssumption, FS_Interval DEF Workers
<1>2. IsFiniteSet(In(ActivePlaces))
  BY <1>1, FS_Subset DEF In
<1>3. active \in Nat
  BY <1>2, FS_CardinalityType DEF CountsAgree, Actives
<1>4. ASSUME NEW w \in Workers, pc[w] \in ActivePlaces PROVE active > 0
  <2>1. w \in In(ActivePlaces)
    BY <1>4 DEF In
  <2>2. active # 0
    BY <1>2, <2>1, FS_EmptySet DEF CountsAgree, Actives
  <2>3. QED
    BY <1>3, <2>2
<1>5. QED
  BY <1>3, <1>4

\* Opening _sync on the way out of a critical section keeps it a lock.
LEMMA OpeningLemma ==
  ASSUME MutualExclusion, GateOpen => GateOpen',
         NEW a \in Agents, pc[a] \in Critical, sync' = sync + 1,
         \A b \in Agents : pc'[b] \in Critical => b # a /\ pc[b] \in Critical
  PROVE  MutualExclusion'
<1>1. GateOpen /\ sync = 0
  BY DEF MutualExclusion, NobodyInside
<1>2. \A b \in Agents : pc[b] \in Critical => b = a
  BY DEF MutualExclusion
<1>3. NobodyInside'
  BY <1>2 DEF NobodyInside
<1>4. QED
  BY <1>1, <1>3 DEF MutualExclusion, NobodyInside

\* What Deactivate does, without the case distinction.
LEMMA DeactivateLemma ==
  ASSUME TypeOK, NEW w \in Workers, NEW place, Deactivate(w, place)
  PROVE  /\ active' = active - 1
         /\ idle' <=> idle \/ active' = 0
         /\ pc'[w] = place
         /\ \A b \in Agents \ {w} :
              pc'[b] = IF active' = 0 /\ pc[b] = "blocked" THEN "lock_check" ELSE pc[b]
<1>1. active' = active - 1
  BY DEF Deactivate
<1>2. CASE active' = 0
  BY <1>1, <1>2 DEF Deactivate, Raise, Agents
<1>3. CASE active' # 0
  <2>1. idle' = idle /\ pc' = [pc EXCEPT ![w] = place]
    BY <1>3 DEF Deactivate, Go
  <2>2. QED
    BY <1>1, <1>3, <2>1 DEF TypeOK, PlacesOK, Agents
<1>4. QED
  BY <1>2, <1>3

\* The sets of places, spelt out.
LEMMA PlaceSets ==
  /\ WorkerPlaces = {"none", "try", "lock_take", "take", "lock_park", "park",
                     "parked", "lock_wake", "wake", "run", "lock_push", "push",
                     "lock_leave", "leave", "returned", "dead"}
  /\ ClientPlaces = {"user", "told", "lock_push", "push", "wait", "blocked",
                     "lock_check", "check", "lock_probe", "probe", "gone"}
  /\ OwnerPlaces = {"create", "own", "wait", "blocked", "lock_check", "check",
                    "lock_close", "close", "join", "failed", "destroyed"}
BY DEF WorkerPlaces, ClientPlaces, OwnerPlaces, ActivePlaces, TokenPlaces,
       RunPlaces, WaitPlaces

LEMMA LockForPlaces ==
  \A p \in LockPlaces : /\ p \in WorkerPlaces => LockFor[p] \in WorkerPlaces
                        /\ p \in ClientPlaces => LockFor[p] \in ClientPlaces
                        /\ p \in OwnerPlaces => LockFor[p] \in OwnerPlaces
BY PlaceSets DEF LockPlaces, LockFor

LEMMA GoPlaces ==
  ASSUME TypeOK, NEW a \in Agents, NEW place, Go(a, place),
         a \in Workers => place \in WorkerPlaces,
         a \in Clients => place \in ClientPlaces,
         a = Owner => place \in OwnerPlaces
  PROVE  PlacesOK'
BY AgentAssumption DEF TypeOK, PlacesOK, Go, Agents

LEMMA DeactivateType ==
  ASSUME TypeOK, NEW w \in Workers, NEW place \in WorkerPlaces, Deactivate(w, place)
  PROVE  PlacesOK' /\ idle' \in BOOLEAN /\ active' \in Int
<1>1. CASE active - 1 = 0
  <2>1. /\ idle' = TRUE
        /\ pc' = [b \in Agents |-> IF b = w THEN place
                    ELSE IF pc[b] = "blocked" THEN "lock_check" ELSE pc[b]]
    BY <1>1 DEF Deactivate, Raise
  <2>2. "lock_check" \in ClientPlaces /\ "lock_check" \in OwnerPlaces /\ "blocked" \notin WorkerPlaces
    BY PlaceSets
  <2>3. QED
    BY <2>1, <2>2, AgentAssumption DEF TypeOK, PlacesOK, Agents, Deactivate
<1>2. CASE active - 1 # 0
  <2>1. idle' = idle /\ Go(w, place)
    BY <1>2 DEF Deactivate
  <2>2. PlacesOK'
    BY <2>1, GoPlaces, AgentAssumption DEF Agents
  <2>3. QED
    BY <2>1, <2>2 DEF TypeOK, Deactivate
<1>3. QED
  BY <1>1, <1>2

-----------------------------------------------------------------------------
(* Every action preserves every part of the invariant.                     *)

LEMMA TypeStep ==
  ASSUME IInv, [Next]_vars
  PROVE  TypeOK'
<1> USE NumThreadsAssumption, AgentAssumption, TaskAssumption
       DEF IInv, TypeOK, Agents, Workers, Go, counts, state, setup, locals, history
<1>1. ASSUME CreateWorker PROVE TypeOK'
  BY <1>1, PlaceSets DEF CreateWorker, PlacesOK
<1>2. ASSUME CreateFailsFirst PROVE TypeOK'
  BY <1>2, PlaceSets DEF CreateFailsFirst, PlacesOK
<1>3. ASSUME CreateFails PROVE TypeOK'
  BY <1>3, PlaceSets DEF CreateFails, CountTasks, Unlock, PlacesOK
<1>4. ASSUME OpenGate PROVE TypeOK'
  <2>1. shutdown' \in BOOLEAN
    BY <1>4 DEF OpenGate
  <2>2. QED
    BY <1>4, <2>1, PlaceSets DEF OpenGate, Unlock, PlacesOK
<1>5. ASSUME BeginDestroy PROVE TypeOK'
  BY <1>5, PlaceSets DEF BeginDestroy, PlacesOK
<1>6. ASSUME Close PROVE TypeOK'
  BY <1>6, PlaceSets DEF Close, CountTasks, StopTokens, Unlock, PlacesOK
<1>7. ASSUME Destroy PROVE TypeOK'
  BY <1>7, PlaceSets DEF Destroy, PlacesOK
<1>8. ASSUME NEW w \in Workers, TakeToken(w) PROVE TypeOK'
  BY <1>8, PlaceSets DEF TakeToken, PlacesOK
<1>9. ASSUME NEW w \in Workers, NoToken(w) PROVE TypeOK'
  BY <1>9, PlaceSets DEF NoToken, PlacesOK
<1>10. ASSUME NEW w \in Workers, Park(w) PROVE TypeOK'
  <2>1. Deactivate(w, "parked") /\ "parked" \in WorkerPlaces
    BY <1>10, PlaceSets DEF Park, Unlock
  <2>2. PlacesOK' /\ idle' \in BOOLEAN /\ active' \in Int
    BY <2>1, DeactivateType
  <2>3. QED
    BY <1>10, <2>2 DEF Park, Unlock
<1>11. ASSUME NEW w \in Workers, ParkedToken(w) PROVE TypeOK'
  BY <1>11, PlaceSets DEF ParkedToken, PlacesOK
<1>12. ASSUME NEW w \in Workers, Take(w) PROVE TypeOK'
  <2>1. {"run", "lock_leave"} \subseteq WorkerPlaces
    BY PlaceSets
  <2>2. PlacesOK'
    BY <1>12, <2>1, GoPlaces DEF Take, PopTask
  <2>3. tasks' \in Seq(Tasks) /\ task' \in [Workers -> Tasks \cup {Nil}]
    BY <1>12, HeadLemma DEF Take, PopTask
  <2>4. numTasks' \in Int
    BY <1>12 DEF Take, PopTask
  <2>5. active' \in Int /\ idle' \in BOOLEAN
    BY <1>12 DEF Take, Activate
  <2>6. QED
    BY <1>12, <2>2, <2>3, <2>4, <2>5 DEF Take, Unlock
<1>13. ASSUME NEW w \in Workers, Wake(w) PROVE TypeOK'
  <2>1. {"run", "lock_leave"} \subseteq WorkerPlaces
    BY PlaceSets
  <2>2. PlacesOK'
    BY <1>13, <2>1, GoPlaces DEF Wake, PopTask
  <2>3. tasks' \in Seq(Tasks) /\ task' \in [Workers -> Tasks \cup {Nil}]
    BY <1>13, HeadLemma DEF Wake, PopTask
  <2>4. numTasks' \in Int
    BY <1>13 DEF Wake, PopTask
  <2>5. active' \in Int /\ idle' \in BOOLEAN
    BY <1>13 DEF Wake, Activate
  <2>6. QED
    BY <1>13, <2>2, <2>3, <2>4, <2>5 DEF Wake, Unlock
<1>14. ASSUME NEW w \in Workers, FinishTask(w) PROVE TypeOK'
  <2>1. task[w] \in Tasks
    BY <1>14 DEF FinishTask, Staging, RunPlaces
  <2>2. QED
    BY <1>14, <2>1, PlaceSets DEF FinishTask, PlacesOK
<1>15. ASSUME NEW w \in Workers, Leave(w) PROVE TypeOK'
  <2>1. Deactivate(w, "returned") /\ "returned" \in WorkerPlaces
    BY <1>15, PlaceSets DEF Leave, Unlock
  <2>2. PlacesOK' /\ idle' \in BOOLEAN /\ active' \in Int
    BY <2>1, DeactivateType
  <2>3. QED
    BY <1>15, <2>2 DEF Leave, Unlock
<1>16. ASSUME NEW w \in Workers, ThreadExit(w) PROVE TypeOK'
  BY <1>16, PlaceSets DEF ThreadExit, PlacesOK
<1>17. ASSUME NEW c \in Clients, Call(c) PROVE TypeOK'
  <2>1. {"wait", "lock_probe", "gone"} \subseteq ClientPlaces
    BY PlaceSets
  <2>2. PlacesOK'
    BY <1>17, <2>1, GoPlaces DEF Call
  <2>3. QED
    BY <1>17, <2>2 DEF Call
<1>18. ASSUME NEW c \in Clients, ProbeIdle(c) PROVE TypeOK'
  BY <1>18, PlaceSets DEF ProbeIdle, Unlock, PlacesOK
<1>19. ASSUME NEW a \in Workers \cup Clients, BeginSubmit(a) PROVE TypeOK'
  <2>1. PICK s \in Batches :
          /\ batch' = [batch EXCEPT ![a] = s]
          /\ giver' = [t \in Tasks |-> IF \E i \in DOMAIN s : s[i] = t THEN a ELSE giver[t]]
    BY <1>19 DEF BeginSubmit
  <2>2. s \in Seq(Tasks)
    BY MaxBatchAssumption DEF Batches, Fresh
  <2>3. batch' \in [Workers \cup Clients -> Seq(Tasks)]
    BY <2>1, <2>2
  <2>4. QED
    BY <1>19, <2>1, <2>3, PlaceSets DEF BeginSubmit, MaySubmit, PlacesOK
<1>20. ASSUME NEW a \in Workers \cup Clients, Submit(a) PROVE TypeOK'
  <2>1. PICK n \in 0..Len(batch[a]) :
          /\ tasks' = tasks \o Accepted(a, n)
          /\ taskCount' = taskCount + n /\ numTasks' = numTasks + n
          /\ refused' = refused \cup Rejected(a, n)
    BY <1>20 DEF Submit, Enqueue, CountTasks
  <2>2. Accepted(a, n) \in Seq(Tasks) /\ Rejected(a, n) \subseteq Tasks /\ n \in Nat
    BY DEF Accepted, Rejected
  <2>3. tasks' \in Seq(Tasks) /\ refused' \subseteq Tasks
    BY <2>1, <2>2
  <2>4. QED
    BY <1>20, <2>1, <2>2, <2>3, PlaceSets DEF Submit, Unlock, PlacesOK
<1>21. ASSUME NEW a \in Clients \cup {Owner}, WaitIdle(a) PROVE TypeOK'
  BY <1>21, PlaceSets DEF WaitIdle, PlacesOK
<1>22. ASSUME NEW a \in Clients \cup {Owner}, SpuriousWake(a) PROVE TypeOK'
  BY <1>22, PlaceSets DEF SpuriousWake, PlacesOK
<1>23. ASSUME NEW a \in Clients \cup {Owner}, CheckIdle(a) PROVE TypeOK'
  BY <1>23, PlaceSets DEF CheckIdle, AfterWait, Unlock, PlacesOK
<1>24. ASSUME NEW a \in Agents, Acquire(a) PROVE TypeOK'
  <2>1. /\ a \in Workers => LockFor[pc[a]] \in WorkerPlaces
        /\ a \in Clients => LockFor[pc[a]] \in ClientPlaces
        /\ a = Owner => LockFor[pc[a]] \in OwnerPlaces
    BY <1>24, LockForPlaces DEF Acquire, PlacesOK
  <2>2. PlacesOK'
    BY <1>24, <2>1, GoPlaces DEF Acquire
  <2>3. QED
    BY <1>24, <2>2 DEF Acquire
<1>25. CASE UNCHANGED vars
  BY <1>25 DEF vars, PlacesOK
<1>26. QED
  BY <1>1, <1>2, <1>3, <1>4, <1>5, <1>6, <1>7, <1>8, <1>9, <1>10, <1>11, <1>12,
     <1>13, <1>14, <1>15, <1>16, <1>17, <1>18, <1>19, <1>20, <1>21, <1>22, <1>23, <1>24, <1>25
     DEF Next, OwnerNext, WorkerNext, Finished

LEMMA MutexStep ==
  ASSUME IInv, [Next]_vars
  PROVE  MutualExclusion'
<1> USE NumThreadsAssumption, AgentAssumption
       DEF IInv, TypeOK, Agents, Workers, Go, counts, state, setup, locals, history,
           PlacesOK, MutualExclusion, NobodyInside, GateOpen, Critical, Staging, Opened, WaitPlaces
<1>1. ASSUME CreateWorker PROVE MutualExclusion'
  BY <1>1 DEF CreateWorker
<1>2. ASSUME CreateFailsFirst PROVE MutualExclusion'
  BY <1>2 DEF CreateFailsFirst
<1>3. ASSUME CreateFails PROVE MutualExclusion'
  BY <1>3 DEF CreateFails, CountTasks, Unlock
<1>4. ASSUME OpenGate PROVE MutualExclusion'
  BY <1>4 DEF OpenGate, Unlock
<1>5. ASSUME BeginDestroy PROVE MutualExclusion'
  BY <1>5 DEF BeginDestroy
<1>6. ASSUME Close PROVE MutualExclusion'
  <2>1. Owner \in Agents /\ pc[Owner] \in Critical /\ sync' = sync + 1
    BY <1>6 DEF Close, CountTasks, StopTokens, Unlock
  <2>2. \A b \in Agents : pc'[b] \in Critical => b # Owner /\ pc[b] \in Critical
    BY <1>6 DEF Close, CountTasks, StopTokens, Unlock
  <2>3. GateOpen => GateOpen'
    BY <1>6 DEF Close, CountTasks, StopTokens, Unlock
  <2>4. QED
    BY <2>1, <2>2, <2>3, OpeningLemma
<1>7. ASSUME Destroy PROVE MutualExclusion'
  BY <1>7 DEF Destroy
<1>8. ASSUME NEW w \in Workers, TakeToken(w) PROVE MutualExclusion'
  BY <1>8 DEF TakeToken
<1>9. ASSUME NEW w \in Workers, NoToken(w) PROVE MutualExclusion'
  BY <1>9 DEF NoToken
<1>10. ASSUME NEW w \in Workers, Park(w) PROVE MutualExclusion'
  <2>1. w \in Agents /\ pc[w] \in Critical /\ sync' = sync + 1
    BY <1>10 DEF Park, Unlock
  <2>2. \A b \in Agents : pc'[b] \in Critical => b # w /\ pc[b] \in Critical
    BY <1>10, DeactivateLemma DEF Park, Unlock
  <2>3. GateOpen => GateOpen'
    BY <1>10, DeactivateLemma DEF Park, Unlock
  <2>4. QED
    BY <2>1, <2>2, <2>3, OpeningLemma
<1>11. ASSUME NEW w \in Workers, ParkedToken(w) PROVE MutualExclusion'
  BY <1>11 DEF ParkedToken
<1>12. ASSUME NEW w \in Workers, Take(w) PROVE MutualExclusion'
  <2>1. w \in Agents /\ pc[w] \in Critical /\ sync' = sync + 1
    BY <1>12 DEF Take, PopTask, Unlock
  <2>2. \A b \in Agents : pc'[b] \in Critical => b # w /\ pc[b] \in Critical
    BY <1>12 DEF Take, PopTask, Unlock
  <2>3. GateOpen => GateOpen'
    BY <1>12 DEF Take, PopTask, Unlock
  <2>4. QED
    BY <2>1, <2>2, <2>3, OpeningLemma
<1>13. ASSUME NEW w \in Workers, Wake(w) PROVE MutualExclusion'
  <2>1. w \in Agents /\ pc[w] \in Critical /\ sync' = sync + 1
    BY <1>13 DEF Wake, PopTask, Activate, Unlock
  <2>2. \A b \in Agents : pc'[b] \in Critical => b # w /\ pc[b] \in Critical
    BY <1>13 DEF Wake, PopTask, Activate, Unlock
  <2>3. GateOpen => GateOpen'
    BY <1>13 DEF Wake, PopTask, Activate, Unlock
  <2>4. QED
    BY <2>1, <2>2, <2>3, OpeningLemma
<1>14. ASSUME NEW w \in Workers, FinishTask(w) PROVE MutualExclusion'
  BY <1>14 DEF FinishTask
<1>15. ASSUME NEW w \in Workers, Leave(w) PROVE MutualExclusion'
  <2>1. w \in Agents /\ pc[w] \in Critical /\ sync' = sync + 1
    BY <1>15 DEF Leave, Unlock
  <2>2. \A b \in Agents : pc'[b] \in Critical => b # w /\ pc[b] \in Critical
    BY <1>15, DeactivateLemma DEF Leave, Unlock
  <2>3. GateOpen => GateOpen'
    BY <1>15, DeactivateLemma DEF Leave, Unlock
  <2>4. QED
    BY <2>1, <2>2, <2>3, OpeningLemma
<1>16. ASSUME NEW w \in Workers, ThreadExit(w) PROVE MutualExclusion'
  BY <1>16 DEF ThreadExit
<1>17. ASSUME NEW c \in Clients, Call(c) PROVE MutualExclusion'
  <2>1. c \in Agents /\ c # Owner /\ UNCHANGED <<sync, shutdown, created>>
    BY <1>17 DEF Call
  <2>2. \A b \in Agents \ {c} : pc'[b] = pc[b]
    BY <1>17 DEF Call
  <2>3. pc[c] \notin Critical /\ pc'[c] \notin Critical
    BY <1>17 DEF Call
  <2>4. GateOpen' = GateOpen
    BY <2>1, <2>2
  <2>5. QED
    BY <2>1, <2>2, <2>3, <2>4
<1>18. ASSUME NEW c \in Clients, ProbeIdle(c) PROVE MutualExclusion'
  <2>1. c \in Agents /\ pc[c] \in Critical /\ sync' = sync + 1
    BY <1>18 DEF ProbeIdle, Unlock
  <2>2. \A b \in Agents : pc'[b] \in Critical => b # c /\ pc[b] \in Critical
    BY <1>18 DEF ProbeIdle, Unlock
  <2>3. GateOpen => GateOpen'
    BY <1>18 DEF ProbeIdle, Unlock
  <2>4. QED
    BY <2>1, <2>2, <2>3, OpeningLemma
<1>19. ASSUME NEW a \in Workers \cup Clients, BeginSubmit(a) PROVE MutualExclusion'
  BY <1>19 DEF BeginSubmit, MaySubmit
<1>20. ASSUME NEW a \in Workers \cup Clients, Submit(a) PROVE MutualExclusion'
  <2>1. a \in Agents /\ pc[a] \in Critical /\ sync' = sync + 1
    BY <1>20 DEF Submit, Enqueue, CountTasks, Unlock
  <2>2. \A b \in Agents : pc'[b] \in Critical => b # a /\ pc[b] \in Critical
    BY <1>20 DEF Submit, Enqueue, CountTasks, Unlock
  <2>3. GateOpen => GateOpen'
    BY <1>20 DEF Submit, Enqueue, CountTasks, Unlock
  <2>4. QED
    BY <2>1, <2>2, <2>3, OpeningLemma
<1>21. ASSUME NEW a \in Clients \cup {Owner}, WaitIdle(a) PROVE MutualExclusion'
  BY <1>21 DEF WaitIdle
<1>22. ASSUME NEW a \in Clients \cup {Owner}, SpuriousWake(a) PROVE MutualExclusion'
  BY <1>22 DEF SpuriousWake
<1>23. ASSUME NEW a \in Clients \cup {Owner}, CheckIdle(a) PROVE MutualExclusion'
  <2>1. a \in Agents /\ pc[a] \in Critical /\ sync' = sync + 1
    BY <1>23 DEF CheckIdle, AfterWait, Unlock
  <2>2. \A b \in Agents : pc'[b] \in Critical => b # a /\ pc[b] \in Critical
    BY <1>23 DEF CheckIdle, AfterWait, Unlock
  <2>3. GateOpen => GateOpen'
    BY <1>23 DEF CheckIdle, AfterWait, Unlock
  <2>4. QED
    BY <2>1, <2>2, <2>3, OpeningLemma
<1>24. ASSUME NEW a \in Agents, Acquire(a) PROVE MutualExclusion'
  BY <1>24 DEF Acquire, LockPlaces, LockFor
<1>25. CASE UNCHANGED vars
  BY <1>25 DEF vars
<1>26. QED
  BY <1>1, <1>2, <1>3, <1>4, <1>5, <1>6, <1>7, <1>8, <1>9, <1>10, <1>11, <1>12,
     <1>13, <1>14, <1>15, <1>16, <1>17, <1>18, <1>19, <1>20, <1>21, <1>22, <1>23, <1>24, <1>25
     DEF Next, OwnerNext, WorkerNext, Finished

LEMMA IdleStep ==
  ASSUME IInv, [Next]_vars
  PROVE  IdleExact'
<1> USE NumThreadsAssumption, AgentAssumption, ActiveLemma
       DEF IInv, TypeOK, Agents, Workers, Go, counts, state, setup, locals, history,
           PlacesOK, IdleExact, ActivePlaces, RunPlaces, Staging
<1>1. ASSUME CreateWorker PROVE IdleExact'
  <2>1. ~idle' /\ active' > 0
    BY <1>1 DEF CreateWorker
  <2>2. QED
    BY <2>1
<1>2. ASSUME CreateFailsFirst PROVE IdleExact'
  BY <1>2 DEF CreateFailsFirst
<1>3. ASSUME CreateFails PROVE IdleExact'
  BY <1>3 DEF CreateFails, CountTasks, Unlock
<1>4. ASSUME OpenGate PROVE IdleExact'
  BY <1>4 DEF OpenGate, Unlock
<1>5. ASSUME BeginDestroy PROVE IdleExact'
  BY <1>5 DEF BeginDestroy
<1>6. ASSUME Close PROVE IdleExact'
  BY <1>6 DEF Close, CountTasks, StopTokens, Unlock
<1>7. ASSUME Destroy PROVE IdleExact'
  BY <1>7 DEF Destroy
<1>8. ASSUME NEW w \in Workers, TakeToken(w) PROVE IdleExact'
  BY <1>8 DEF TakeToken
<1>9. ASSUME NEW w \in Workers, NoToken(w) PROVE IdleExact'
  BY <1>9 DEF NoToken
<1>10. ASSUME NEW w \in Workers, Park(w) PROVE IdleExact'
  BY <1>10, DeactivateLemma DEF Park, Unlock
<1>11. ASSUME NEW w \in Workers, ParkedToken(w) PROVE IdleExact'
  BY <1>11 DEF ParkedToken
<1>12. ASSUME NEW w \in Workers, Take(w) PROVE IdleExact'
  BY <1>12 DEF Take, PopTask, Unlock
<1>13. ASSUME NEW w \in Workers, Wake(w) PROVE IdleExact'
  <2>1. created > 0
    BY <1>13 DEF Wake
  <2>2. active' > 0
    BY <1>13 DEF Wake, Activate
  <2>3. ~idle'
    BY <1>13, <2>1 DEF Wake, Activate
  <2>4. QED
    BY <2>2, <2>3
<1>14. ASSUME NEW w \in Workers, FinishTask(w) PROVE IdleExact'
  BY <1>14 DEF FinishTask
<1>15. ASSUME NEW w \in Workers, Leave(w) PROVE IdleExact'
  BY <1>15, DeactivateLemma DEF Leave, Unlock
<1>16. ASSUME NEW w \in Workers, ThreadExit(w) PROVE IdleExact'
  BY <1>16 DEF ThreadExit
<1>17. ASSUME NEW c \in Clients, Call(c) PROVE IdleExact'
  BY <1>17 DEF Call
<1>18. ASSUME NEW c \in Clients, ProbeIdle(c) PROVE IdleExact'
  BY <1>18 DEF ProbeIdle, Unlock
<1>19. ASSUME NEW a \in Workers \cup Clients, BeginSubmit(a) PROVE IdleExact'
  BY <1>19 DEF BeginSubmit, MaySubmit
<1>20. ASSUME NEW a \in Workers \cup Clients, Submit(a) PROVE IdleExact'
  BY <1>20 DEF Submit, Enqueue, CountTasks, Unlock
<1>21. ASSUME NEW a \in Clients \cup {Owner}, WaitIdle(a) PROVE IdleExact'
  BY <1>21 DEF WaitIdle
<1>22. ASSUME NEW a \in Clients \cup {Owner}, SpuriousWake(a) PROVE IdleExact'
  BY <1>22 DEF SpuriousWake
<1>23. ASSUME NEW a \in Clients \cup {Owner}, CheckIdle(a) PROVE IdleExact'
  BY <1>23 DEF CheckIdle, AfterWait, Unlock
<1>24. ASSUME NEW a \in Agents, Acquire(a) PROVE IdleExact'
  BY <1>24 DEF Acquire, LockPlaces, LockFor
<1>25. CASE UNCHANGED vars
  BY <1>25 DEF vars
<1>26. QED
  BY <1>1, <1>2, <1>3, <1>4, <1>5, <1>6, <1>7, <1>8, <1>9, <1>10, <1>11, <1>12,
     <1>13, <1>14, <1>15, <1>16, <1>17, <1>18, <1>19, <1>20, <1>21, <1>22, <1>23, <1>24, <1>25
     DEF Next, OwnerNext, WorkerNext, Finished

LEMMA StagingStep ==
  ASSUME IInv, [Next]_vars
  PROVE  Staging'
<1> USE NumThreadsAssumption, AgentAssumption, TaskAssumption
       DEF IInv, TypeOK, Agents, Workers, Go, counts, state, setup, locals, history,
           PlacesOK, Staging, Opened, WaitPlaces, RunPlaces, MutualExclusion, GateOpen, NobodyInside,
           Critical
<1>1. ASSUME CreateWorker PROVE Staging'
  BY <1>1 DEF CreateWorker
<1>2. ASSUME CreateFailsFirst PROVE Staging'
  BY <1>2 DEF CreateFailsFirst
<1>3. ASSUME CreateFails PROVE Staging'
  BY <1>3 DEF CreateFails, CountTasks, Unlock
<1>4. ASSUME OpenGate PROVE Staging'
  BY <1>4 DEF OpenGate, Unlock
<1>5. ASSUME BeginDestroy PROVE Staging'
  BY <1>5 DEF BeginDestroy
<1>6. ASSUME Close PROVE Staging'
  BY <1>6 DEF Close, CountTasks, StopTokens, Unlock
<1>7. ASSUME Destroy PROVE Staging'
  BY <1>7 DEF Destroy
<1>8. ASSUME NEW w \in Workers, TakeToken(w) PROVE Staging'
  BY <1>8 DEF TakeToken
<1>9. ASSUME NEW w \in Workers, NoToken(w) PROVE Staging'
  BY <1>9 DEF NoToken
<1>10. ASSUME NEW w \in Workers, Park(w) PROVE Staging'
  <2>1. pc[Owner] # "create" /\ created > 0 /\ UNCHANGED <<shutdown, created>>
    BY <1>10 DEF Park, Unlock
  <2>2. \A v \in Workers : pc'[v] = "none" <=> v > created'
    BY <1>10, DeactivateLemma DEF Park, Unlock
  <2>3. \A v \in Workers : task'[v] # Nil <=> pc'[v] \in RunPlaces
    BY <1>10, DeactivateLemma DEF Park, Unlock
  <2>4. pc'[Owner] = pc[Owner] \/ (pc[Owner] \in Opened /\ pc'[Owner] \in Opened)
    <3>1. Deactivate(w, "parked") /\ Owner \in Agents \ {w}
      BY <1>10 DEF Park
    <3>2. pc'[Owner] = IF active' = 0 /\ pc[Owner] = "blocked" THEN "lock_check" ELSE pc[Owner]
      BY <3>1, DeactivateLemma
    <3>3. QED
      BY <3>2
  <2>5. QED
    BY <2>1, <2>2, <2>3, <2>4
<1>11. ASSUME NEW w \in Workers, ParkedToken(w) PROVE Staging'
  BY <1>11 DEF ParkedToken
<1>12. ASSUME NEW w \in Workers, Take(w) PROVE Staging'
  <2>1. pc[Owner] # "create" /\ created > 0 /\ UNCHANGED <<shutdown, created>>
    BY <1>12 DEF Take, PopTask, Unlock
  <2>2. \A v \in Workers : pc'[v] = "none" <=> v > created'
    BY <1>12 DEF Take, PopTask, Unlock
  <2>3. \A v \in Workers : task'[v] # Nil <=> pc'[v] \in RunPlaces
    BY <1>12, HeadLemma DEF Take, PopTask, Unlock
  <2>4. pc'[Owner] = pc[Owner] \/ (pc[Owner] \in Opened /\ pc'[Owner] \in Opened)
    BY <1>12, <2>1 DEF Take, PopTask, Unlock
  <2>5. QED
    BY <2>1, <2>2, <2>3, <2>4
<1>13. ASSUME NEW w \in Workers, Wake(w) PROVE Staging'
  <2>1. pc[Owner] # "create" /\ created > 0 /\ UNCHANGED <<shutdown, created>>
    BY <1>13 DEF Wake, PopTask, Activate, Unlock
  <2>2. \A v \in Workers : pc'[v] = "none" <=> v > created'
    BY <1>13 DEF Wake, PopTask, Activate, Unlock
  <2>3. \A v \in Workers : task'[v] # Nil <=> pc'[v] \in RunPlaces
    BY <1>13, HeadLemma DEF Wake, PopTask, Activate, Unlock
  <2>4. pc'[Owner] = pc[Owner] \/ (pc[Owner] \in Opened /\ pc'[Owner] \in Opened)
    BY <1>13, <2>1 DEF Wake, PopTask, Activate, Unlock
  <2>5. QED
    BY <2>1, <2>2, <2>3, <2>4
<1>14. ASSUME NEW w \in Workers, FinishTask(w) PROVE Staging'
  BY <1>14 DEF FinishTask
<1>15. ASSUME NEW w \in Workers, Leave(w) PROVE Staging'
  <2>1. pc[Owner] # "create" /\ created > 0 /\ UNCHANGED <<shutdown, created>>
    BY <1>15 DEF Leave, Unlock
  <2>2. \A v \in Workers : pc'[v] = "none" <=> v > created'
    BY <1>15, DeactivateLemma DEF Leave, Unlock
  <2>3. \A v \in Workers : task'[v] # Nil <=> pc'[v] \in RunPlaces
    BY <1>15, DeactivateLemma DEF Leave, Unlock
  <2>4. pc'[Owner] = pc[Owner] \/ (pc[Owner] \in Opened /\ pc'[Owner] \in Opened)
    <3>1. pc'[Owner] = IF active' = 0 /\ pc[Owner] = "blocked" THEN "lock_check" ELSE pc[Owner]
      BY <1>15, DeactivateLemma DEF Leave, Unlock
    <3>2. QED
      BY <3>1
  <2>5. QED
    BY <2>1, <2>2, <2>3, <2>4
<1>16. ASSUME NEW w \in Workers, ThreadExit(w) PROVE Staging'
  BY <1>16 DEF ThreadExit
<1>17. ASSUME NEW c \in Clients, Call(c) PROVE Staging'
  BY <1>17 DEF Call
<1>18. ASSUME NEW c \in Clients, ProbeIdle(c) PROVE Staging'
  <2>1. pc[Owner] # "create" /\ created > 0 /\ UNCHANGED <<shutdown, created>>
    BY <1>18 DEF ProbeIdle, Unlock
  <2>2. \A v \in Workers : pc'[v] = "none" <=> v > created'
    BY <1>18 DEF ProbeIdle, Unlock
  <2>3. \A v \in Workers : task'[v] # Nil <=> pc'[v] \in RunPlaces
    BY <1>18 DEF ProbeIdle, Unlock
  <2>4. pc'[Owner] = pc[Owner] \/ (pc[Owner] \in Opened /\ pc'[Owner] \in Opened)
    BY <1>18, <2>1 DEF ProbeIdle, Unlock
  <2>5. QED
    BY <2>1, <2>2, <2>3, <2>4
<1>19. ASSUME NEW a \in Workers \cup Clients, BeginSubmit(a) PROVE Staging'
  BY <1>19 DEF BeginSubmit, MaySubmit
<1>20. ASSUME NEW a \in Workers \cup Clients, Submit(a) PROVE Staging'
  BY <1>20 DEF Submit, Enqueue, CountTasks, Unlock
<1>21. ASSUME NEW a \in Clients \cup {Owner}, WaitIdle(a) PROVE Staging'
  BY <1>21 DEF WaitIdle
<1>22. ASSUME NEW a \in Clients \cup {Owner}, SpuriousWake(a) PROVE Staging'
  BY <1>22 DEF SpuriousWake
<1>23. ASSUME NEW a \in Clients \cup {Owner}, CheckIdle(a) PROVE Staging'
  <2>1. pc[Owner] # "create" /\ created > 0 /\ UNCHANGED <<shutdown, created>>
    BY <1>23 DEF CheckIdle, AfterWait, Unlock
  <2>2. \A v \in Workers : pc'[v] = "none" <=> v > created'
    BY <1>23 DEF CheckIdle, AfterWait, Unlock
  <2>3. \A v \in Workers : task'[v] # Nil <=> pc'[v] \in RunPlaces
    BY <1>23 DEF CheckIdle, AfterWait, Unlock
  <2>4. pc'[Owner] = pc[Owner] \/ (pc[Owner] \in Opened /\ pc'[Owner] \in Opened)
    BY <1>23, <2>1 DEF CheckIdle, AfterWait, Unlock
  <2>5. QED
    BY <2>1, <2>2, <2>3, <2>4
<1>24. ASSUME NEW a \in Agents, Acquire(a) PROVE Staging'
  BY <1>24 DEF Acquire, LockPlaces, LockFor
<1>25. CASE UNCHANGED vars
  BY <1>25 DEF vars
<1>26. QED
  BY <1>1, <1>2, <1>3, <1>4, <1>5, <1>6, <1>7, <1>8, <1>9, <1>10, <1>11, <1>12,
     <1>13, <1>14, <1>15, <1>16, <1>17, <1>18, <1>19, <1>20, <1>21, <1>22, <1>23, <1>24, <1>25
     DEF Next, OwnerNext, WorkerNext, Finished

-----------------------------------------------------------------------------
(* Counting workers by the place they stand at.                            *)

\* How a count changes when only worker w may enter or leave a set of places.
LEMMA OneMoved ==
  ASSUME NEW w \in Workers, NEW A \in SUBSET Workers, NEW B \in SUBSET Workers,
         A \ {w} = B \ {w}
  PROVE  /\ Cardinality(A) \in Nat
         /\ (w \in A <=> w \in B) => Cardinality(B) = Cardinality(A)
         /\ w \in B \ A => Cardinality(B) = Cardinality(A) + 1
         /\ w \in A \ B => Cardinality(B) = Cardinality(A) - 1
<1>1. IsFiniteSet(Workers)
  BY NumThreadsAssumption, FS_Interval DEF Workers
<1>2. /\ IsFiniteSet(A) /\ IsFiniteSet(B)
      /\ Cardinality(A) \in Nat /\ Cardinality(B) \in Nat
  BY <1>1, FS_Subset, FS_CardinalityType
<1>3. (w \in A <=> w \in B) => A = B
  OBVIOUS
<1>4. ASSUME w \in B \ A PROVE Cardinality(B) = Cardinality(A) + 1
  <2>1. B = A \cup {w}
    BY <1>4
  <2>2. QED
    BY <1>2, <1>4, <2>1, FS_AddElement
<1>5. ASSUME w \in A \ B PROVE Cardinality(B) = Cardinality(A) - 1
  <2>1. A = B \cup {w}
    BY <1>5
  <2>2. Cardinality(A) = Cardinality(B) + 1
    BY <1>2, <1>5, <2>1, FS_AddElement
  <2>3. QED
    BY <1>2, <2>2
<1>6. QED
  BY <1>2, <1>3, <1>4, <1>5

LEMMA CountTypes == Tokens \in Nat /\ Actives \in Nat
<1>1. IsFiniteSet(Workers)
  BY NumThreadsAssumption, FS_Interval DEF Workers
<1>2. QED
  BY <1>1, FS_Subset, FS_CardinalityType DEF Tokens, Actives, In

OthersStay(w) ==
  \A v \in Workers \ {w} : /\ pc'[v] \in TokenPlaces <=> pc[v] \in TokenPlaces
                           /\ pc'[v] \in ActivePlaces <=> pc[v] \in ActivePlaces

\* The two counts after a step in which worker w, and no other, moves.
LEMMA CountMove ==
  ASSUME NEW w \in Workers,
         OthersStay(w)
  PROVE  /\ (pc'[w] \in TokenPlaces <=> pc[w] \in TokenPlaces) => Tokens' = Tokens
         /\ pc'[w] \in TokenPlaces /\ pc[w] \notin TokenPlaces => Tokens' = Tokens + 1
         /\ pc'[w] \notin TokenPlaces /\ pc[w] \in TokenPlaces => Tokens' = Tokens - 1
         /\ (pc'[w] \in ActivePlaces <=> pc[w] \in ActivePlaces) => Actives' = Actives
         /\ pc'[w] \in ActivePlaces /\ pc[w] \notin ActivePlaces => Actives' = Actives + 1
         /\ pc'[w] \notin ActivePlaces /\ pc[w] \in ActivePlaces => Actives' = Actives - 1
<1>1. /\ In(TokenPlaces) \in SUBSET Workers /\ In(TokenPlaces)' \in SUBSET Workers
      /\ In(TokenPlaces) \ {w} = In(TokenPlaces)' \ {w}
      /\ w \in In(TokenPlaces) <=> pc[w] \in TokenPlaces
      /\ w \in In(TokenPlaces)' <=> pc'[w] \in TokenPlaces
  BY DEF In, OthersStay
<1>2. /\ In(ActivePlaces) \in SUBSET Workers /\ In(ActivePlaces)' \in SUBSET Workers
      /\ In(ActivePlaces) \ {w} = In(ActivePlaces)' \ {w}
      /\ w \in In(ActivePlaces) <=> pc[w] \in ActivePlaces
      /\ w \in In(ActivePlaces)' <=> pc'[w] \in ActivePlaces
  BY DEF In, OthersStay
<1>3. QED
  BY <1>1, <1>2, OneMoved DEF Tokens, Actives

\* ... and after one that moves nobody in or out of either set.
LEMMA CountFrame ==
  ASSUME \A v \in Workers : /\ pc'[v] \in TokenPlaces <=> pc[v] \in TokenPlaces
                            /\ pc'[v] \in ActivePlaces <=> pc[v] \in ActivePlaces
  PROVE  Tokens' = Tokens /\ Actives' = Actives
<1>1. In(TokenPlaces)' = In(TokenPlaces) /\ In(ActivePlaces)' = In(ActivePlaces)
  BY DEF In
<1>2. QED
  BY <1>1 DEF Tokens, Actives

LEMMA CountStep ==
  ASSUME IInv, [Next]_vars
  PROVE  CountsAgree'
<1> USE NumThreadsAssumption, AgentAssumption, CountTypes
       DEF Go, counts, state, setup, locals, history
<1>1. ASSUME CreateWorker PROVE CountsAgree'
  <2>1. OthersStay(created + 1)
    BY <1>1 DEF CreateWorker, IInv, TypeOK, PlacesOK, Agents, Workers, Staging, OthersStay, TokenPlaces, ActivePlaces, RunPlaces
  <2>2. /\ created + 1 \in Workers
        /\ pc[created + 1] \notin TokenPlaces /\ pc'[created + 1] \notin TokenPlaces
        /\ pc[created + 1] \notin ActivePlaces /\ pc'[created + 1] \in ActivePlaces
    BY <1>1 DEF CreateWorker, IInv, TypeOK, PlacesOK, Agents, Workers, Staging, TokenPlaces, ActivePlaces, RunPlaces
  <2>3. Tokens' = Tokens /\ Actives' = Actives + 1
    BY <2>1, <2>2, CountMove
  <2>4. QED
    BY <1>1, <2>3 DEF CreateWorker, IInv, TypeOK, PlacesOK, Agents, Workers, Staging, CountsAgree, Opened, WaitPlaces
<1>2. ASSUME CreateFailsFirst PROVE CountsAgree'
  <2>1. Tokens' = Tokens /\ Actives' = Actives
    BY <1>2, CountFrame DEF CreateFailsFirst, IInv, TypeOK, PlacesOK, Agents, Workers, Staging, TokenPlaces, ActivePlaces, RunPlaces
  <2>2. QED
    BY <1>2, <2>1 DEF CreateFailsFirst, IInv, TypeOK, PlacesOK, Agents, Workers, Staging, CountsAgree, Opened, WaitPlaces
<1>3. ASSUME CreateFails PROVE CountsAgree'
  <2>1. Tokens' = Tokens /\ Actives' = Actives
    BY <1>3, CountFrame DEF CreateFails, CountTasks, Unlock, IInv, TypeOK, PlacesOK, Agents, Workers, Staging, TokenPlaces, ActivePlaces, RunPlaces
  <2>2. QED
    BY <1>3, <2>1 DEF CreateFails, CountTasks, Unlock, IInv, TypeOK, PlacesOK, Agents, Workers, Staging, CountsAgree, Opened, WaitPlaces
<1>4. ASSUME OpenGate PROVE CountsAgree'
  <2>1. Tokens' = Tokens /\ Actives' = Actives
    BY <1>4, CountFrame DEF OpenGate, IInv, TypeOK, PlacesOK, Agents, Workers, TokenPlaces, ActivePlaces
  <2>2. Len(tasks) = 0 /\ numTasks = 0
    BY <1>4 DEF OpenGate, IInv, Staging
  <2>3. QED
    BY <1>4, <2>1, <2>2 DEF OpenGate, IInv, CountsAgree
<1>5. ASSUME BeginDestroy PROVE CountsAgree'
  <2>1. Tokens' = Tokens /\ Actives' = Actives
    BY <1>5, CountFrame DEF BeginDestroy, IInv, TypeOK, PlacesOK, Agents, Workers, Staging, TokenPlaces, ActivePlaces, RunPlaces
  <2>2. QED
    BY <1>5, <2>1 DEF BeginDestroy, IInv, TypeOK, PlacesOK, Agents, Workers, Staging, CountsAgree, Opened, WaitPlaces
<1>6. ASSUME Close PROVE CountsAgree'
  <2>1. Tokens' = Tokens /\ Actives' = Actives
    BY <1>6, CountFrame DEF Close, CountTasks, StopTokens, Unlock, IInv, TypeOK, PlacesOK, Agents, Workers, Staging, TokenPlaces, ActivePlaces, RunPlaces
  <2>2. QED
    BY <1>6, <2>1 DEF Close, CountTasks, StopTokens, Unlock, IInv, TypeOK, PlacesOK, Agents, Workers, Staging, CountsAgree, Opened, WaitPlaces
<1>7. ASSUME Destroy PROVE CountsAgree'
  <2>1. Tokens' = Tokens /\ Actives' = Actives
    BY <1>7, CountFrame DEF Destroy, IInv, TypeOK, PlacesOK, Agents, Workers, Staging, TokenPlaces, ActivePlaces, RunPlaces
  <2>2. QED
    BY <1>7, <2>1 DEF Destroy, IInv, TypeOK, PlacesOK, Agents, Workers, Staging, CountsAgree, Opened, WaitPlaces
<1>8. ASSUME NEW w \in Workers, TakeToken(w) PROVE CountsAgree'
  <2>1. OthersStay(w)
    BY <1>8 DEF TakeToken, IInv, TypeOK, PlacesOK, Agents, Workers, Staging, OthersStay, TokenPlaces, ActivePlaces, RunPlaces
  <2>2. /\ w \in Workers
        /\ pc[w] \notin TokenPlaces /\ pc'[w] \in TokenPlaces
        /\ pc[w] \in ActivePlaces /\ pc'[w] \in ActivePlaces
    BY <1>8 DEF TakeToken, IInv, TypeOK, PlacesOK, Agents, Workers, Staging, TokenPlaces, ActivePlaces, RunPlaces
  <2>3. Tokens' = Tokens + 1 /\ Actives' = Actives
    BY <2>1, <2>2, CountMove
  <2>4. QED
    BY <1>8, <2>3 DEF TakeToken, IInv, TypeOK, PlacesOK, Agents, Workers, Staging, CountsAgree, Opened, WaitPlaces
<1>9. ASSUME NEW w \in Workers, NoToken(w) PROVE CountsAgree'
  <2>1. Tokens' = Tokens /\ Actives' = Actives
    BY <1>9, CountFrame DEF NoToken, IInv, TypeOK, PlacesOK, Agents, Workers, Staging, TokenPlaces, ActivePlaces, RunPlaces
  <2>2. QED
    BY <1>9, <2>1 DEF NoToken, IInv, TypeOK, PlacesOK, Agents, Workers, Staging, CountsAgree, Opened, WaitPlaces
<1>10. ASSUME NEW w \in Workers, Park(w) PROVE CountsAgree'
  <2>1. OthersStay(w)
    BY <1>10, DeactivateLemma DEF Park, Unlock, IInv, TypeOK, PlacesOK, Agents, Workers, Staging, OthersStay, TokenPlaces, ActivePlaces, RunPlaces
  <2>2. /\ w \in Workers
        /\ pc[w] \notin TokenPlaces /\ pc'[w] \notin TokenPlaces
        /\ pc[w] \in ActivePlaces /\ pc'[w] \notin ActivePlaces
    BY <1>10, DeactivateLemma DEF Park, Unlock, IInv, TypeOK, PlacesOK, Agents, Workers, Staging, TokenPlaces, ActivePlaces, RunPlaces
  <2>3. Tokens' = Tokens /\ Actives' = Actives - 1
    BY <2>1, <2>2, CountMove
  <2>4. QED
    BY <1>10, <2>3, DeactivateLemma DEF Park, Unlock, IInv, TypeOK, PlacesOK, Agents, Workers, Staging, CountsAgree, Opened, WaitPlaces
<1>11. ASSUME NEW w \in Workers, ParkedToken(w) PROVE CountsAgree'
  <2>1. OthersStay(w)
    BY <1>11 DEF ParkedToken, IInv, TypeOK, PlacesOK, Agents, Workers, Staging, OthersStay, TokenPlaces, ActivePlaces, RunPlaces
  <2>2. /\ w \in Workers
        /\ pc[w] \notin TokenPlaces /\ pc'[w] \in TokenPlaces
        /\ pc[w] \notin ActivePlaces /\ pc'[w] \notin ActivePlaces
    BY <1>11 DEF ParkedToken, IInv, TypeOK, PlacesOK, Agents, Workers, Staging, TokenPlaces, ActivePlaces, RunPlaces
  <2>3. Tokens' = Tokens + 1 /\ Actives' = Actives
    BY <2>1, <2>2, CountMove
  <2>4. QED
    BY <1>11, <2>3 DEF ParkedToken, IInv, TypeOK, PlacesOK, Agents, Workers, Staging, CountsAgree, Opened, WaitPlaces
<1>12. ASSUME NEW w \in Workers, Take(w) PROVE CountsAgree'
  <2>1. OthersStay(w)
    BY <1>12 DEF Take, PopTask, Unlock, IInv, TypeOK, PlacesOK, Agents, Workers, Staging, OthersStay, TokenPlaces, ActivePlaces, RunPlaces
  <2>2. /\ w \in Workers
        /\ pc[w] \in TokenPlaces /\ pc'[w] \notin TokenPlaces
        /\ pc[w] \in ActivePlaces /\ pc'[w] \in ActivePlaces
    BY <1>12 DEF Take, PopTask, Unlock, IInv, TypeOK, PlacesOK, Agents, Workers, Staging, TokenPlaces, ActivePlaces, RunPlaces
  <2>3. Tokens' = Tokens - 1 /\ Actives' = Actives
    BY <2>1, <2>2, CountMove
  <2>4. numTasks' = numTasks - 1 /\ UNCHANGED <<taskCount, shutdown>>
    BY <1>12 DEF Take, PopTask, Unlock, setup
  <2>5. CASE shutdown
    BY <1>12, <2>3, <2>4, <2>5 DEF Take, PopTask, Unlock, IInv, TypeOK, CountsAgree
  <2>6. CASE ~shutdown
    <3>1. tasks \in Seq(Tasks) /\ tasks # <<>>
      BY <1>12, <2>6, PopLemma DEF PopFindsTask, Take, IInv, TypeOK
    <3>2. Len(tasks') = Len(tasks) - 1
      BY <1>12, <2>6, <3>1 DEF Take, PopTask
    <3>3. QED
      BY <1>12, <2>3, <2>4, <3>2 DEF Take, PopTask, Unlock, IInv, TypeOK, CountsAgree
  <2>7. QED
    BY <2>5, <2>6
<1>13. ASSUME NEW w \in Workers, Wake(w) PROVE CountsAgree'
  <2>1. OthersStay(w)
    BY <1>13 DEF Wake, PopTask, Activate, Unlock, IInv, TypeOK, PlacesOK, Agents, Workers, Staging, OthersStay, TokenPlaces, ActivePlaces, RunPlaces
  <2>2. /\ w \in Workers
        /\ pc[w] \in TokenPlaces /\ pc'[w] \notin TokenPlaces
        /\ pc[w] \notin ActivePlaces /\ pc'[w] \in ActivePlaces
    BY <1>13 DEF Wake, PopTask, Activate, Unlock, IInv, TypeOK, PlacesOK, Agents, Workers, Staging, TokenPlaces, ActivePlaces, RunPlaces
  <2>3. Tokens' = Tokens - 1 /\ Actives' = Actives + 1
    BY <2>1, <2>2, CountMove
  <2>4. numTasks' = numTasks - 1 /\ UNCHANGED <<taskCount, shutdown>>
    BY <1>13 DEF Wake, PopTask, Activate, Unlock, setup
  <2>5. CASE shutdown
    BY <1>13, <2>3, <2>4, <2>5 DEF Wake, PopTask, Activate, Unlock, IInv, TypeOK, CountsAgree
  <2>6. CASE ~shutdown
    <3>1. tasks \in Seq(Tasks) /\ tasks # <<>>
      BY <1>13, <2>6, PopLemma DEF PopFindsTask, Wake, IInv, TypeOK
    <3>2. Len(tasks') = Len(tasks) - 1
      BY <1>13, <2>6, <3>1 DEF Wake, PopTask
    <3>3. QED
      BY <1>13, <2>3, <2>4, <3>2 DEF Wake, PopTask, Activate, Unlock, IInv, TypeOK, CountsAgree
  <2>7. QED
    BY <2>5, <2>6
<1>14. ASSUME NEW w \in Workers, FinishTask(w) PROVE CountsAgree'
  <2>1. Tokens' = Tokens /\ Actives' = Actives
    BY <1>14, CountFrame DEF FinishTask, IInv, TypeOK, PlacesOK, Agents, Workers, Staging, TokenPlaces, ActivePlaces, RunPlaces
  <2>2. QED
    BY <1>14, <2>1 DEF FinishTask, IInv, TypeOK, PlacesOK, Agents, Workers, Staging, CountsAgree, Opened, WaitPlaces
<1>15. ASSUME NEW w \in Workers, Leave(w) PROVE CountsAgree'
  <2>1. OthersStay(w)
    BY <1>15, DeactivateLemma DEF Leave, Unlock, IInv, TypeOK, PlacesOK, Agents, Workers, Staging, OthersStay, TokenPlaces, ActivePlaces, RunPlaces
  <2>2. /\ w \in Workers
        /\ pc[w] \notin TokenPlaces /\ pc'[w] \notin TokenPlaces
        /\ pc[w] \in ActivePlaces /\ pc'[w] \notin ActivePlaces
    BY <1>15, DeactivateLemma DEF Leave, Unlock, IInv, TypeOK, PlacesOK, Agents, Workers, Staging, TokenPlaces, ActivePlaces, RunPlaces
  <2>3. Tokens' = Tokens /\ Actives' = Actives - 1
    BY <2>1, <2>2, CountMove
  <2>4. QED
    BY <1>15, <2>3, DeactivateLemma DEF Leave, Unlock, IInv, TypeOK, PlacesOK, Agents, Workers, Staging, CountsAgree, Opened, WaitPlaces
<1>16. ASSUME NEW w \in Workers, ThreadExit(w) PROVE CountsAgree'
  <2>1. Tokens' = Tokens /\ Actives' = Actives
    BY <1>16, CountFrame DEF ThreadExit, IInv, TypeOK, PlacesOK, Agents, Workers, Staging, TokenPlaces, ActivePlaces, RunPlaces
  <2>2. QED
    BY <1>16, <2>1 DEF ThreadExit, IInv, TypeOK, PlacesOK, Agents, Workers, Staging, CountsAgree, Opened, WaitPlaces
<1>17. ASSUME NEW c \in Clients, Call(c) PROVE CountsAgree'
  <2>1. Tokens' = Tokens /\ Actives' = Actives
    BY <1>17, CountFrame DEF Call, IInv, TypeOK, PlacesOK, Agents, Workers, Staging, TokenPlaces, ActivePlaces, RunPlaces
  <2>2. QED
    BY <1>17, <2>1 DEF Call, IInv, TypeOK, PlacesOK, Agents, Workers, Staging, CountsAgree, Opened, WaitPlaces
<1>18. ASSUME NEW c \in Clients, ProbeIdle(c) PROVE CountsAgree'
  <2>1. Tokens' = Tokens /\ Actives' = Actives
    BY <1>18, CountFrame DEF ProbeIdle, Unlock, IInv, TypeOK, PlacesOK, Agents, Workers, Staging, TokenPlaces, ActivePlaces, RunPlaces
  <2>2. QED
    BY <1>18, <2>1 DEF ProbeIdle, Unlock, IInv, TypeOK, PlacesOK, Agents, Workers, Staging, CountsAgree, Opened, WaitPlaces
<1>19. ASSUME NEW a \in Workers \cup Clients, BeginSubmit(a) PROVE CountsAgree'
  <2>1. Tokens' = Tokens /\ Actives' = Actives
    BY <1>19, CountFrame DEF BeginSubmit, MaySubmit, IInv, TypeOK, PlacesOK, Agents, Workers, Staging, TokenPlaces, ActivePlaces, RunPlaces
  <2>2. QED
    BY <1>19, <2>1 DEF BeginSubmit, MaySubmit, IInv, TypeOK, PlacesOK, Agents, Workers, Staging, CountsAgree, Opened, WaitPlaces
<1>20. ASSUME NEW a \in Workers \cup Clients, Submit(a) PROVE CountsAgree'
  <2>1. Tokens' = Tokens /\ Actives' = Actives
    BY <1>20, CountFrame DEF Submit, Enqueue, CountTasks, Unlock, IInv, TypeOK, PlacesOK, Agents, Workers, TokenPlaces, ActivePlaces, RunPlaces
  <2>2. PICK n \in 0..Len(batch[a]) :
          /\ tasks' = tasks \o Accepted(a, n)
          /\ taskCount' = taskCount + n /\ numTasks' = numTasks + n
    BY <1>20 DEF Submit, Enqueue, CountTasks
  <2>3. Len(tasks') = Len(tasks) + n
    <3>1. /\ batch[a] \in Seq(Tasks) /\ tasks \in Seq(Tasks) /\ n \in Nat
          /\ Accepted(a, n) \in Seq(Tasks) /\ Len(Accepted(a, n)) = n
      BY DEF Accepted, IInv, TypeOK
    <3>2. Len(tasks \o Accepted(a, n)) = Len(tasks) + Len(Accepted(a, n))
      BY <3>1
    <3>3. QED
      BY <2>2, <3>1, <3>2
  <2>4. taskCount \in Nat /\ numTasks \in Int /\ Len(tasks) \in Nat /\ n \in Nat
    BY DEF IInv, TypeOK
  <2>5. UNCHANGED <<active, shutdown>>
    BY <1>20 DEF Submit, state, setup
  <2>6. QED
    BY <2>1, <2>2, <2>3, <2>4, <2>5 DEF IInv, CountsAgree
<1>21. ASSUME NEW a \in Clients \cup {Owner}, WaitIdle(a) PROVE CountsAgree'
  <2>1. Tokens' = Tokens /\ Actives' = Actives
    BY <1>21, CountFrame DEF WaitIdle, IInv, TypeOK, PlacesOK, Agents, Workers, Staging, TokenPlaces, ActivePlaces, RunPlaces
  <2>2. QED
    BY <1>21, <2>1 DEF WaitIdle, IInv, TypeOK, PlacesOK, Agents, Workers, Staging, CountsAgree, Opened, WaitPlaces
<1>22. ASSUME NEW a \in Clients \cup {Owner}, SpuriousWake(a) PROVE CountsAgree'
  <2>1. Tokens' = Tokens /\ Actives' = Actives
    BY <1>22, CountFrame DEF SpuriousWake, IInv, TypeOK, PlacesOK, Agents, Workers, Staging, TokenPlaces, ActivePlaces, RunPlaces
  <2>2. QED
    BY <1>22, <2>1 DEF SpuriousWake, IInv, TypeOK, PlacesOK, Agents, Workers, Staging, CountsAgree, Opened, WaitPlaces
<1>23. ASSUME NEW a \in Clients \cup {Owner}, CheckIdle(a) PROVE CountsAgree'
  <2>1. Tokens' = Tokens /\ Actives' = Actives
    BY <1>23, CountFrame DEF CheckIdle, AfterWait, Unlock, IInv, TypeOK, PlacesOK, Agents, Workers, Staging, TokenPlaces, ActivePlaces, RunPlaces
  <2>2. QED
    BY <1>23, <2>1 DEF CheckIdle, AfterWait, Unlock, IInv, TypeOK, PlacesOK, Agents, Workers, Staging, CountsAgree, Opened, WaitPlaces
<1>24. ASSUME NEW a \in Agents, Acquire(a) PROVE CountsAgree'
  <2>1. Tokens' = Tokens /\ Actives' = Actives
    BY <1>24, CountFrame DEF Acquire, LockPlaces, LockFor, IInv, TypeOK, PlacesOK, Agents, Workers, Staging, TokenPlaces, ActivePlaces, RunPlaces
  <2>2. QED
    BY <1>24, <2>1 DEF Acquire, LockPlaces, LockFor, IInv, TypeOK, PlacesOK, Agents, Workers, Staging, CountsAgree, Opened, WaitPlaces
<1>25. CASE UNCHANGED vars
  BY <1>25 DEF vars, IInv, CountsAgree, Tokens, Actives, In
<1>26. QED
  BY <1>1, <1>2, <1>3, <1>4, <1>5, <1>6, <1>7, <1>8, <1>9, <1>10, <1>11, <1>12,
     <1>13, <1>14, <1>15, <1>16, <1>17, <1>18, <1>19, <1>20, <1>21, <1>22, <1>23, <1>24, <1>25
     DEF Next, OwnerNext, WorkerNext, Finished

-----------------------------------------------------------------------------
LEMMA InitInv == Init => IInv
<1> SUFFICES ASSUME Init PROVE IInv
  OBVIOUS
<1> USE NumThreadsAssumption, AgentAssumption DEF Init, InitialSync, Agents, Workers
<1>1. /\ \A w \in Workers : pc[w] = "none"
      /\ \A c \in Clients : pc[c] = "user"
      /\ pc[Owner] = "create"
  OBVIOUS
<1>2. TypeOK
  <2>1. pc \in [Agents -> WorkerPlaces \cup ClientPlaces \cup OwnerPlaces]
    BY PlaceSets
  <2>2. PlacesOK
    BY <1>1, <2>1, PlaceSets DEF PlacesOK
  <2>3. /\ tasks \in Seq(Tasks) /\ task \in [Workers -> Tasks \cup {Nil}]
        /\ batch \in [Workers \cup Clients -> Seq(Tasks)]
        /\ giver \in [Tasks -> Workers \cup Clients \cup {Nil}]
    OBVIOUS
  <2>4. idle \in BOOLEAN /\ shutdown \in BOOLEAN
    OBVIOUS
  <2>5. QED
    BY <2>2, <2>3, <2>4 DEF TypeOK
<1>3. MutualExclusion
  BY <1>1 DEF MutualExclusion, NobodyInside, GateOpen, Critical
<1>4. In(TokenPlaces) = {} /\ In(ActivePlaces) = {}
  BY <1>1 DEF In, TokenPlaces, ActivePlaces, RunPlaces
<1>5. CountsAgree
  BY <1>4, FS_EmptySet DEF CountsAgree, Tokens, Actives
<1>6. IdleExact
  BY DEF IdleExact
<1>7. Staging
  BY <1>1 DEF Staging, Opened, WaitPlaces, RunPlaces
<1>8. QED
  BY <1>2, <1>3, <1>5, <1>6, <1>7 DEF IInv

LEMMA NextInv == IInv /\ [Next]_vars => IInv'
BY TypeStep, MutexStep, CountStep, IdleStep, StagingStep DEF IInv

\* IInv holds in every reachable state of a pool of any size.
THEOREM Invariance == Spec => []IInv
<1>1. Init => IInv
  BY InitInv
<1>2. IInv /\ [Next]_vars => IInv'
  BY NextInv
<1>3. QED
  BY <1>1, <1>2, PTL DEF Spec

\* Every field and every local keeps its type; in particular the queue of a
\* running pool never yields the null task to a worker.
THEOREM TypeCorrect == Spec => []TypeOK
<1>1. IInv => TypeOK
  BY DEF IInv
<1>2. QED
  BY <1>1, Invariance, PTL

\* _sync is a lock: SubmitTasksE, Wait, Active, the destructor and the workers
\* never change the fields of the pool at the same time, and nobody does
\* before the constructor has opened the gate.
THEOREM Exclusion == Spec => []MutualExclusion
<1>1. IInv => MutualExclusion
  BY DEF IInv
<1>2. QED
  BY <1>1, Invariance, PTL

\* _num_tasks, _task_count, _tasks and _active_threads agree in every state.
THEOREM CountsCorrect == Spec => []CountsAgree
<1>1. IInv => CountsAgree
  BY DEF IInv
<1>2. QED
  BY <1>1, Invariance, PTL

\* Queue::Pop is never called on an empty queue, so it never throws inside
\* the noexcept thread routine.
THEOREM PopCorrect == Spec => []PopFindsTask
<1>1. IInv => PopFindsTask
  BY PopLemma DEF IInv
<1>2. QED
  BY <1>1, Invariance, PTL

\* _idle tells exactly whether a worker is active: Raise and Reset, made by
\* different threads, never cross each other.
THEOREM IdleCorrect == Spec => []IdleExact
<1>1. IInv => IdleExact
  BY DEF IInv
<1>2. QED
  BY <1>1, Invariance, PTL
-----------------------------------------------------------------------------
Submitting == {"lock_push", "push"}
Closed == pc[Owner] \in {"join", "failed", "destroyed"}

\* The destructor starts after the last client has gone, and once it has found
\* the pool idle nothing can wake it: only a client or a running task submits.
Ending ==
  /\ pc[Owner] \in WaitPlaces \cup {"lock_close", "close"} => \A c \in Clients : pc[c] = "gone"
  /\ pc[Owner] \in {"lock_close", "close"} => Quiescent
  /\ Closed => /\ tasks = <<>>
               /\ \A w \in Workers : pc[w] \notin RunPlaces
               /\ \A c \in Clients : pc[c] \in {"user", "gone"}

Running == {task[w] : w \in Workers} \ {Nil}
Settled == Entries(tasks) \cup Running \cup done \cup refused

\* A task that was submitted is in the batch of the thread that gave it, or
\* has left that batch for the queue, a worker, the finished or the refused;
\* never both.
Whereabouts ==
  /\ \A a \in Workers \cup Clients :
       /\ pc[a] \notin Submitting => batch[a] = <<>>
       /\ Injective(batch[a])
       /\ \A t \in Entries(batch[a]) : giver[t] = a /\ t \notin Settled
  /\ \A t \in Settled : giver[t] # Nil
  /\ \A t \in Tasks : giver[t] # Nil => t \in Settled \cup Entries(batch[giver[t]])

-----------------------------------------------------------------------------
(* The end of the pool.                                                    *)

\* A pool found idle holds no task, no token and no active worker.
LEMMA QuietLemma ==
  ASSUME IInv, Quiescent
  PROVE  /\ taskCount = 0
         /\ \A w \in Workers : pc[w] \notin TokenPlaces \cup ActivePlaces
         /\ Running = {}
         /\ ~shutdown => tasks = <<>>
<1>1. IsFiniteSet(Workers)
  BY NumThreadsAssumption, FS_Interval DEF Workers
<1>2. IsFiniteSet(In(TokenPlaces)) /\ Tokens \in Nat
  BY <1>1, FS_Subset, FS_CardinalityType DEF In, Tokens
<1>3. taskCount = 0 /\ Tokens = 0
  BY <1>2 DEF IInv, TypeOK, CountsAgree, Quiescent
<1>4. In(TokenPlaces) = {}
  BY <1>2, <1>3, FS_EmptySet DEF Tokens
<1>5. \A w \in Workers : pc[w] \notin TokenPlaces
  BY <1>4 DEF In
<1>6. \A w \in Workers : pc[w] \notin ActivePlaces
  BY ActiveLemma DEF IInv, Quiescent
<1>7. \A w \in Workers : task[w] = Nil
  BY <1>6 DEF IInv, Staging, ActivePlaces
<1>8. Running = {}
  BY <1>7 DEF Running
<1>9. ~shutdown => tasks = <<>>
  BY DEF IInv, TypeOK, CountsAgree, Quiescent
<1>10. QED
  BY <1>3, <1>5, <1>6, <1>8, <1>9

\* A client that does anything with the pool finds it open.
LEMMA ClientLemma ==
  ASSUME IInv, Ending, NEW c \in Clients, pc[c] \notin {"user", "gone"}
  PROVE  pc[Owner] = "own"
BY PlaceSets DEF IInv, TypeOK, PlacesOK, Ending, Closed, Staging, WaitPlaces

\* A worker that stops counting as active moves itself, and maybe waiters.
LEMMA MovedLemma ==
  ASSUME TypeOK, NEW w \in Workers, NEW place, Deactivate(w, place)
  PROVE  /\ pc'[w] = place
         /\ \A b \in Agents \ {w} :
              pc'[b] = pc[b] \/ (pc[b] = "blocked" /\ pc'[b] = "lock_check")
BY DeactivateLemma

LEMMA EndingStep ==
  ASSUME IInv, Ending, [Next]_vars
  PROVE  Ending'
<1> USE NumThreadsAssumption, AgentAssumption
       DEF IInv, TypeOK, PlacesOK, Agents, Workers, Go, counts, state, setup, locals, history,
           Staging, Ending, Closed, Quiescent, WaitPlaces, RunPlaces
<1>1. ASSUME CreateWorker PROVE Ending'
  BY <1>1 DEF CreateWorker
<1>2. ASSUME CreateFailsFirst PROVE Ending'
  BY <1>2 DEF CreateFailsFirst
<1>3. ASSUME CreateFails PROVE Ending'
  BY <1>3 DEF CreateFails, CountTasks, Unlock
<1>4. ASSUME OpenGate PROVE Ending'
  BY <1>4 DEF OpenGate, Unlock
<1>5. ASSUME BeginDestroy PROVE Ending'
  BY <1>5 DEF BeginDestroy
<1>6. ASSUME Close PROVE Ending'
  <2>1. /\ pc[Owner] = "close" /\ pc' = [pc EXCEPT ![Owner] = "join"] /\ tasks' = tasks
    BY <1>6 DEF Close, CountTasks, StopTokens, Unlock
  <2>2. ~shutdown /\ Quiescent /\ \A c \in Clients : pc[c] = "gone"
    BY <2>1 DEF Opened
  <2>3. tasks = <<>> /\ \A w \in Workers : pc[w] \notin RunPlaces
    BY <2>2, QuietLemma DEF ActivePlaces
  <2>4. QED
    BY <2>1, <2>2, <2>3
<1>7. ASSUME Destroy PROVE Ending'
  BY <1>7 DEF Destroy
<1>8. ASSUME NEW w \in Workers, TakeToken(w) PROVE Ending'
  BY <1>8 DEF TakeToken
<1>9. ASSUME NEW w \in Workers, NoToken(w) PROVE Ending'
  BY <1>9 DEF NoToken
<1>10. ASSUME NEW w \in Workers, NEW place \in {"parked", "returned"},
              pc[w] \in ActivePlaces, Deactivate(w, place), UNCHANGED <<numTasks, tasks>>
       PROVE  Ending'
  <2>1. active # 0
    BY <1>10, ActiveLemma
  <2>2. /\ pc'[w] = place
        /\ \A b \in Agents \ {w} :
             pc'[b] = pc[b] \/ (pc[b] = "blocked" /\ pc'[b] = "lock_check")
    BY <1>10, MovedLemma
  <2>3. QED
    BY <1>10, <2>1, <2>2
<1>11. ASSUME NEW w \in Workers, ParkedToken(w) PROVE Ending'
  BY <1>11 DEF ParkedToken
<1>12. ASSUME NEW w \in Workers, Take(w) \/ Wake(w) PROVE Ending'
  <2>1. pc[Owner] \notin {"lock_close", "close"}
    BY <1>12, QuietLemma DEF Take, Wake, TokenPlaces
  <2>2. /\ UNCHANGED pc[Owner]
        /\ \A c \in Clients : pc'[c] = pc[c]
    BY <1>12 DEF Take, Wake, PopTask
  <2>3. Closed => shutdown
    BY DEF Opened
  <2>4. shutdown => tasks' = tasks /\ \A v \in Workers : pc'[v] \in RunPlaces => pc[v] \in RunPlaces
    BY <1>12 DEF Take, Wake, PopTask
  <2>5. QED
    BY <2>1, <2>2, <2>3, <2>4
<1>14. ASSUME NEW w \in Workers, FinishTask(w) PROVE Ending'
  BY <1>14 DEF FinishTask
<1>16. ASSUME NEW w \in Workers, ThreadExit(w) PROVE Ending'
  BY <1>16 DEF ThreadExit
<1>17. ASSUME NEW c \in Clients, Call(c) PROVE Ending'
  BY <1>17 DEF Call
<1>18. ASSUME NEW c \in Clients, ProbeIdle(c) PROVE Ending'
  BY <1>18, ClientLemma DEF ProbeIdle, Unlock
<1>19. ASSUME NEW a \in Workers \cup Clients, BeginSubmit(a) PROVE Ending'
  BY <1>19 DEF BeginSubmit, MaySubmit
<1>20. ASSUME NEW a \in Workers \cup Clients, Submit(a) PROVE Ending'
  <2>1. pc[a] = "push" /\ pc' = [pc EXCEPT ![a] = IF a \in Workers THEN "run" ELSE "user"]
    BY <1>20 DEF Submit
  <2>2. ~Closed
    BY <2>1, ClientLemma
  <2>3. pc[Owner] \notin {"lock_close", "close"}
    <3>1. CASE a \in Clients
      BY <2>1, <3>1, ClientLemma
    <3>2. CASE a \in Workers
      BY <2>1, <3>2, QuietLemma DEF ActivePlaces
    <3>3. QED
      BY <3>1, <3>2
  <2>4. a \in Clients => pc[Owner] = "own"
    BY <2>1, ClientLemma
  <2>5. pc'[Owner] = pc[Owner]
    BY <2>1
  <2>6. QED
    BY <2>1, <2>2, <2>3, <2>4, <2>5
<1>21. ASSUME NEW a \in Clients \cup {Owner}, WaitIdle(a) PROVE Ending'
  BY <1>21 DEF WaitIdle
<1>22. ASSUME NEW a \in Clients \cup {Owner}, SpuriousWake(a) PROVE Ending'
  BY <1>22 DEF SpuriousWake
<1>23. ASSUME NEW a \in Clients \cup {Owner}, CheckIdle(a) PROVE Ending'
  <2>1. CASE a = Owner
    BY <1>23, <2>1 DEF CheckIdle, AfterWait, Unlock
  <2>2. CASE a \in Clients
    <3>1. pc[Owner] = "own"
      BY <1>23, <2>2, ClientLemma DEF CheckIdle
    <3>2. pc'[Owner] = "own"
      BY <1>23, <2>2, <3>1 DEF CheckIdle
    <3>3. QED
      BY <3>2
  <2>3. QED
    BY <2>1, <2>2
<1>24. ASSUME NEW a \in Agents, Acquire(a) PROVE Ending'
  BY <1>24 DEF Acquire, LockPlaces, LockFor
<1>25. CASE UNCHANGED vars
  BY <1>25 DEF vars
<1>26. ASSUME NEW w \in Workers, Park(w) \/ Leave(w) PROVE Ending'
  <2>1. PICK place \in {"parked", "returned"} : Deactivate(w, place)
    BY <1>26 DEF Park, Leave
  <2>2. pc[w] \in ActivePlaces /\ UNCHANGED <<numTasks, tasks>>
    BY <1>26 DEF Park, Leave, ActivePlaces
  <2>3. QED
    BY <1>10, <2>1, <2>2
<1>27. QED
  BY <1>1, <1>2, <1>3, <1>4, <1>5, <1>6, <1>7, <1>8, <1>9, <1>11, <1>12,
     <1>14, <1>16, <1>17, <1>18, <1>19, <1>20, <1>21, <1>22, <1>23, <1>24, <1>25, <1>26
     DEF Next, OwnerNext, WorkerNext, Finished

-----------------------------------------------------------------------------
(* Where each task is.                                                     *)

LEMMA SettledFrame ==
  ASSUME Whereabouts, Settled' = Settled, UNCHANGED <<batch, giver>>,
         \A a \in Workers \cup Clients : pc[a] \in Submitting => pc'[a] \in Submitting
  PROVE  Whereabouts'
BY DEF Whereabouts, Injective, Entries

LEMMA QueueFrame ==
  ASSUME UNCHANGED <<tasks, task, done, refused>>
  PROVE  Settled' = Settled
BY DEF Settled, Running, Entries

\* Taking the head of a sequence leaves the rest.
LEMMA EntriesHead ==
  ASSUME NEW s \in Seq(Tasks), s # <<>>
  PROVE  Entries(s) = {Head(s)} \cup Entries(Tail(s))
<1>1. /\ Head(s) = s[1] /\ Len(s) \in Nat \ {0} /\ DOMAIN s = 1..Len(s)
      /\ DOMAIN Tail(s) = 1..Len(s) - 1
      /\ \A i \in 1..Len(s) - 1 : Tail(s)[i] = s[i + 1]
  OBVIOUS
<1>2. ASSUME NEW i \in 1..Len(s), i # 1 PROVE s[i] \in Entries(Tail(s))
  <2>1. i - 1 \in 1..Len(s) - 1 /\ Tail(s)[i - 1] = s[i]
    BY <1>1, <1>2
  <2>2. QED
    BY <1>1, <2>1 DEF Entries
<1>3. QED
  BY <1>1, <1>2 DEF Entries

\* What Submit does with a batch of which Push takes the first n.
LEMMA EntriesSubmit ==
  ASSUME NEW q \in Seq(Tasks), NEW a, batch[a] \in Seq(Tasks), NEW n \in 0..Len(batch[a])
  PROVE  /\ Entries(q \o Accepted(a, n)) = Entries(q) \cup Entries(Accepted(a, n))
         /\ Entries(Accepted(a, n)) \cup Rejected(a, n) = Entries(batch[a])
<1> DEFINE s == batch[a]
           u == Accepted(a, n)
<1>1. /\ u \in Seq(Tasks) /\ Len(u) = n /\ DOMAIN u = 1..n /\ n \in Nat
      /\ \A i \in 1..n : u[i] = s[i]
  BY DEF Accepted
<1>2. DOMAIN s = 1..Len(s) /\ Len(s) \in Nat
  OBVIOUS
<1>3. Entries(u) \cup Rejected(a, n) = Entries(s)
  <2>1. \A i \in 1..Len(s) : i \in 1..n \/ i \in n + 1..Len(s)
    BY <1>1, <1>2
  <2>2. 1..n \subseteq 1..Len(s) /\ n + 1..Len(s) \subseteq 1..Len(s)
    BY <1>1, <1>2
  <2>3. QED
    BY <1>1, <1>2, <2>1, <2>2 DEF Rejected, Entries
<1>4. Entries(q \o u) = Entries(q) \cup Entries(u)
  <2>1. /\ DOMAIN q = 1..Len(q) /\ Len(q) \in Nat
        /\ DOMAIN (q \o u) = 1..Len(q) + n
        /\ \A i \in 1..Len(q) : (q \o u)[i] = q[i]
        /\ \A i \in 1..n : (q \o u)[Len(q) + i] = u[i]
    BY <1>1
  <2>2. ASSUME NEW i \in 1..Len(q) + n PROVE (q \o u)[i] \in Entries(q) \cup Entries(u)
    <3>1. CASE i <= Len(q)
      BY <2>1, <3>1 DEF Entries
    <3>2. CASE i > Len(q)
      <4>1. i - Len(q) \in 1..n /\ Len(q) + (i - Len(q)) = i
        BY <1>1, <2>1, <3>2
      <4>2. QED
        BY <1>1, <2>1, <4>1 DEF Entries
    <3>3. QED
      BY <2>1, <3>1, <3>2
  <2>3. ASSUME NEW i \in 1..Len(q) PROVE q[i] \in Entries(q \o u)
    BY <1>1, <2>1 DEF Entries
  <2>4. ASSUME NEW i \in 1..n PROVE u[i] \in Entries(q \o u)
    <3>1. Len(q) + i \in 1..Len(q) + n
      BY <1>1, <2>1
    <3>2. QED
      BY <2>1, <3>1 DEF Entries
  <2>5. Entries(q \o u) \subseteq Entries(q) \cup Entries(u)
    <3>1. \A x \in Entries(q \o u) : \E i \in 1..Len(q) + n : x = (q \o u)[i]
      BY <2>1 DEF Entries
    <3>2. QED
      BY <2>2, <3>1
  <2>6. Entries(q) \subseteq Entries(q \o u)
    <3>1. \A x \in Entries(q) : \E i \in 1..Len(q) : x = q[i]
      BY <2>1 DEF Entries
    <3>2. QED
      BY <2>3, <3>1
  <2>7. Entries(u) \subseteq Entries(q \o u)
    <3>1. \A x \in Entries(u) : \E i \in 1..n : x = u[i]
      BY <1>1 DEF Entries
    <3>2. QED
      BY <2>4, <3>1
  <2>8. QED
    BY <2>5, <2>6, <2>7
<1>5. QED
  BY <1>3, <1>4

\* What PopTask does to the tasks while the pool is open.
LEMMA StartLemma ==
  ASSUME IInv, NEW w \in Workers, pc[w] \in {"take", "wake"}, ~shutdown, PopTask(w)
  PROVE  /\ tasks # <<>> /\ task[w] = Nil
         /\ task' = [task EXCEPT ![w] = Head(tasks)]
         /\ tasks' = Tail(tasks)
         /\ Entries(tasks) \cup Running = Entries(tasks') \cup Running'
<1>1. tasks # <<>> /\ tasks \in Seq(Tasks) /\ Head(tasks) \in Tasks
  BY PopLemma, HeadLemma DEF PopFindsTask, IInv, TypeOK
<1>2. task' = [task EXCEPT ![w] = Head(tasks)] /\ tasks' = Tail(tasks)
  BY DEF PopTask
<1>3. task[w] = Nil
  BY DEF IInv, Staging, RunPlaces
<1>4. Entries(tasks) = {Head(tasks)} \cup Entries(tasks')
  BY <1>1, <1>2, EntriesHead
<1>5. Running' = Running \cup {Head(tasks)}
  BY <1>1, <1>2, <1>3, TaskAssumption DEF Running, IInv, TypeOK
<1>6. QED
  BY <1>1, <1>2, <1>3, <1>4, <1>5

LEMMA FinishLemma ==
  ASSUME IInv, NEW w \in Workers, FinishTask(w)
  PROVE  /\ task[w] # Nil /\ Settled' = Settled
<1>1. /\ task[w] # Nil /\ done' = done \cup {task[w]} /\ UNCHANGED <<tasks, refused>>
      /\ task' = [task EXCEPT ![w] = Nil] /\ task \in [Workers -> Tasks \cup {Nil}]
  BY DEF FinishTask, IInv, TypeOK, Staging, RunPlaces
<1>2. Running = Running' \cup {task[w]}
  BY <1>1 DEF Running
<1>3. Entries(tasks') = Entries(tasks)
  BY <1>1
<1>4. QED
  BY <1>1, <1>2, <1>3 DEF Settled

LEMMA SubmitLemma ==
  ASSUME IInv, Whereabouts, NEW a \in Workers \cup Clients, Submit(a)
  PROVE  /\ Settled' = Settled \cup Entries(batch[a])
         /\ Whereabouts'
<1>1. PICK n \in 0..Len(batch[a]) :
        tasks' = tasks \o Accepted(a, n) /\ refused' = refused \cup Rejected(a, n)
  BY DEF Submit, Enqueue
<1>2. /\ pc[a] = "push" /\ pc' = [pc EXCEPT ![a] = IF a \in Workers THEN "run" ELSE "user"]
      /\ batch' = [batch EXCEPT ![a] = <<>>] /\ UNCHANGED <<task, giver, done>>
  BY DEF Submit, Go
<1>3. /\ tasks \in Seq(Tasks) /\ batch[a] \in Seq(Tasks)
      /\ batch \in [Workers \cup Clients -> Seq(Tasks)] /\ a \in Agents
      /\ \A b \in Workers \cup Clients : b \in DOMAIN pc
  BY DEF IInv, TypeOK, PlacesOK, Agents
<1>4. Entries(tasks') = Entries(tasks) \cup Entries(Accepted(a, n))
  BY <1>1, <1>3, EntriesSubmit
<1>5. Entries(Accepted(a, n)) \cup Rejected(a, n) = Entries(batch[a])
  BY <1>1, <1>3, EntriesSubmit
<1>6. Running' = Running
  BY <1>2 DEF Running
<1>7. Settled' = Settled \cup Entries(batch[a])
  BY <1>1, <1>2, <1>4, <1>5, <1>6 DEF Settled
<1>8. batch'[a] = <<>> /\ Entries(batch'[a]) = {} /\ Injective(batch'[a])
  <2>1. batch'[a] = <<>> /\ DOMAIN batch'[a] = {}
    BY <1>2, <1>3
  <2>2. QED
    BY <2>1 DEF Entries, Injective
<1>9. \A b \in Workers \cup Clients : b # a => batch'[b] = batch[b] /\ pc'[b] = pc[b]
  BY <1>2, <1>3
<1>10. ASSUME NEW b \in Workers \cup Clients
       PROVE  /\ pc'[b] \notin Submitting => batch'[b] = <<>>
              /\ Injective(batch'[b])
              /\ \A t \in Entries(batch'[b]) : giver'[t] = b /\ t \notin Settled'
  <2>1. CASE b = a
    BY <2>1, <1>8
  <2>2. CASE b # a
    <3>1. batch'[b] = batch[b] /\ pc'[b] = pc[b]
      BY <1>9, <2>2
    <3>2. /\ pc[b] \notin Submitting => batch[b] = <<>>
          /\ Injective(batch[b])
          /\ \A t \in Entries(batch[b]) : giver[t] = b /\ t \notin Settled
      BY DEF Whereabouts
    <3>3. \A t \in Entries(batch[b]) : t \notin Entries(batch[a])
      BY <3>2, <2>2 DEF Whereabouts
    <3>4. giver' = giver
      BY <1>2
    <3>5. QED
      BY <3>1, <3>2, <3>3, <3>4, <1>7
  <2>3. QED
    BY <2>1, <2>2
<1>11. \A t \in Settled' : giver'[t] # Nil
  <2>1. a # Nil /\ giver' = giver
    BY <1>2, NilAssumption
  <2>2. QED
    BY <1>7, <2>1 DEF Whereabouts
<1>12. ASSUME NEW t \in Tasks, giver'[t] # Nil
       PROVE  t \in Settled' \cup Entries(batch'[giver'[t]])
  <2>1. giver' = giver /\ giver[t] \in Workers \cup Clients
    BY <1>2, <1>12 DEF IInv, TypeOK
  <2>2. t \in Settled \cup Entries(batch[giver[t]])
    BY <1>12, <2>1 DEF Whereabouts
  <2>3. giver[t] # a => batch'[giver[t]] = batch[giver[t]]
    BY <1>9, <2>1
  <2>4. QED
    BY <1>7, <2>1, <2>2, <2>3
<1>13. Whereabouts'
  BY <1>10, <1>11, <1>12 DEF Whereabouts
<1>14. QED
  BY <1>7, <1>13

LEMMA BeginLemma ==
  ASSUME IInv, Whereabouts, NEW a \in Workers \cup Clients, BeginSubmit(a)
  PROVE  Whereabouts'
<1>1. PICK s \in Batches :
        /\ batch' = [batch EXCEPT ![a] = s]
        /\ giver' = [t \in Tasks |-> IF \E i \in DOMAIN s : s[i] = t THEN a ELSE giver[t]]
  BY DEF BeginSubmit
<1>2. /\ pc[a] \in {"run", "user", "told"} /\ pc' = [pc EXCEPT ![a] = "lock_push"]
      /\ UNCHANGED <<tasks, task, done, refused>>
  BY DEF BeginSubmit, MaySubmit, Go, locals
<1>3. /\ Injective(s)
      /\ \A t \in Entries(s) : t \in Tasks /\ giver[t] = Nil
  BY DEF Batches, Fresh, Entries
<1>4. Settled' = Settled
  BY <1>2, QueueFrame
<1>5. /\ \A t \in Tasks : t \in Entries(s) => giver'[t] = a
      /\ \A t \in Tasks : t \notin Entries(s) => giver'[t] = giver[t]
  BY <1>1 DEF Entries
<1>6. /\ batch'[a] = s /\ pc'[a] = "lock_push"
      /\ \A b \in Workers \cup Clients : b # a => batch'[b] = batch[b] /\ pc'[b] = pc[b]
  BY <1>1, <1>2 DEF IInv, TypeOK, PlacesOK, Agents
<1>7. batch[a] = <<>> /\ Entries(batch[a]) = {}
  <2>1. batch[a] = <<>>
    BY <1>2 DEF Whereabouts, Submitting
  <2>2. QED
    BY <2>1 DEF Entries
<1>8. a # Nil /\ \A b \in Workers \cup Clients : b # Nil
  BY NilAssumption
<1>9. \A b \in Workers \cup Clients : Entries(batch[b]) \subseteq Tasks
  BY DEF IInv, TypeOK, Entries
<1>10. Settled \subseteq Tasks
  BY DEF Settled, Running, Entries, IInv, TypeOK
<1>11. ASSUME NEW b \in Workers \cup Clients
       PROVE  /\ pc'[b] \notin Submitting => batch'[b] = <<>>
              /\ Injective(batch'[b])
              /\ \A t \in Entries(batch'[b]) : giver'[t] = b /\ t \notin Settled'
  <2>1. CASE b = a
    <3>1. \A t \in Entries(s) : giver'[t] = a /\ t \notin Settled
      BY <1>3, <1>5 DEF Whereabouts
    <3>2. QED
      BY <2>1, <3>1, <1>3, <1>4, <1>6 DEF Submitting
  <2>2. CASE b # a
    <3>1. /\ pc[b] \notin Submitting => batch[b] = <<>>
          /\ Injective(batch[b])
          /\ \A t \in Entries(batch[b]) : giver[t] = b /\ t \notin Settled
      BY DEF Whereabouts
    <3>2. \A t \in Entries(batch[b]) : giver'[t] = b
      BY <3>1, <1>3, <1>5, <1>8, <1>9
    <3>3. QED
      BY <2>2, <3>1, <3>2, <1>4, <1>6
  <2>3. QED
    BY <2>1, <2>2
<1>12. \A t \in Settled' : giver'[t] # Nil
  BY <1>4, <1>5, <1>8, <1>10 DEF Whereabouts
<1>13. ASSUME NEW t \in Tasks, giver'[t] # Nil
       PROVE  t \in Settled' \cup Entries(batch'[giver'[t]])
  <2>1. CASE t \in Entries(s)
    BY <2>1, <1>5, <1>6
  <2>2. CASE t \notin Entries(s)
    <3>1. giver'[t] = giver[t] /\ giver[t] \in Workers \cup Clients
      BY <2>2, <1>5, <1>13 DEF IInv, TypeOK
    <3>2. t \in Settled \cup Entries(batch[giver[t]])
      BY <3>1, <1>13 DEF Whereabouts
    <3>3. QED
      BY <3>1, <3>2, <1>4, <1>6, <1>7
  <2>3. QED
    BY <2>1, <2>2
<1>14. QED
  BY <1>11, <1>12, <1>13 DEF Whereabouts

\* Nothing a submission or the queue is made of changes.
Bystander == /\ UNCHANGED <<tasks, task, batch, giver, done, refused>>
             /\ \A a \in Workers \cup Clients : pc[a] \in Submitting => pc'[a] \in Submitting

\* The steps that move tasks, and the rest.
Moving == \/ \E w \in Workers : ~shutdown /\ (Take(w) \/ Wake(w))
          \/ \E w \in Workers : FinishTask(w)
          \/ \E a \in Workers \cup Clients : BeginSubmit(a) \/ Submit(a)

LEMMA StepLemma ==
  ASSUME IInv, [Next]_vars
  PROVE  Moving \/ Bystander
<1> USE AgentAssumption
       DEF IInv, TypeOK, PlacesOK, Agents, Go, counts, state, setup, locals, history,
           Bystander, Submitting
<1>1. ASSUME OwnerNext PROVE Bystander
  BY <1>1, PlaceSets, NumThreadsAssumption DEF OwnerNext, CreateWorker, CreateFailsFirst,
     CreateFails, OpenGate, BeginDestroy, Close, Destroy, Staging, Workers, Opened
<1>2. ASSUME NEW w \in Workers,
             TakeToken(w) \/ NoToken(w) \/ ParkedToken(w) \/ ThreadExit(w)
      PROVE  Bystander
  BY <1>2 DEF TakeToken, NoToken, ParkedToken, ThreadExit
<1>3. ASSUME NEW w \in Workers, Park(w) \/ Leave(w) PROVE Bystander
  <2>1. PICK place : Deactivate(w, place)
    BY <1>3 DEF Park, Leave
  <2>2. \A b \in Agents \ {w} :
          pc'[b] = pc[b] \/ (pc[b] = "blocked" /\ pc'[b] = "lock_check")
    BY <2>1, MovedLemma
  <2>3. pc[w] \in {"park", "leave"} /\ UNCHANGED <<tasks, task, batch, giver, done, refused>>
    BY <1>3 DEF Park, Leave
  <2>4. QED
    BY <2>2, <2>3
<1>4. ASSUME NEW w \in Workers, Take(w) \/ Wake(w) PROVE Moving \/ Bystander
  <2>1. CASE ~shutdown
    BY <1>4, <2>1 DEF Moving
  <2>2. CASE shutdown
    BY <1>4, <2>2 DEF Take, Wake, PopTask
  <2>3. QED
    BY <2>1, <2>2
<1>5. ASSUME NEW c \in Clients, Call(c) \/ ProbeIdle(c) PROVE Bystander
  BY <1>5 DEF Call, ProbeIdle
<1>6. ASSUME NEW a \in Clients \cup {Owner}, WaitIdle(a) \/ SpuriousWake(a) \/ CheckIdle(a)
      PROVE  Bystander
  BY <1>6 DEF WaitIdle, SpuriousWake, CheckIdle
<1>7. ASSUME NEW a \in Agents, Acquire(a) PROVE Bystander
  BY <1>7 DEF Acquire, LockPlaces, LockFor
<1>8. CASE UNCHANGED vars
  BY <1>8 DEF vars
<1>9. ASSUME \E w \in Workers : FinishTask(w) PROVE Moving
  BY <1>9 DEF Moving
<1>10. ASSUME \E a \in Workers \cup Clients : BeginSubmit(a) \/ Submit(a) PROVE Moving
  BY <1>10 DEF Moving
<1>11. QED
  BY <1>1, <1>2, <1>3, <1>4, <1>5, <1>6, <1>7, <1>8, <1>9, <1>10
     DEF Next, WorkerNext, Finished

LEMMA WhereStep ==
  ASSUME IInv, Whereabouts, [Next]_vars
  PROVE  Whereabouts'
<1>1. ASSUME NEW w \in Workers, ~shutdown, Take(w) \/ Wake(w) PROVE Whereabouts'
  <2>1. /\ pc[w] \in {"take", "wake"} /\ PopTask(w)
        /\ UNCHANGED <<batch, giver, done, refused>>
    BY <1>1 DEF Take, Wake, history
  <2>2. Entries(tasks) \cup Running = Entries(tasks') \cup Running'
    BY <1>1, <2>1, StartLemma
  <2>3. Settled' = Settled
    BY <2>1, <2>2 DEF Settled
  <2>4. \A a \in Workers \cup Clients : pc[a] \in Submitting => pc'[a] \in Submitting
    BY <1>1, <2>1 DEF PopTask, Go, Submitting, IInv, TypeOK, PlacesOK, Agents
  <2>5. QED
    BY <2>1, <2>3, <2>4, SettledFrame
<1>2. ASSUME NEW w \in Workers, FinishTask(w) PROVE Whereabouts'
  <2>1. Settled' = Settled /\ UNCHANGED <<batch, giver>>
    BY <1>2, FinishLemma DEF FinishTask
  <2>2. \A a \in Workers \cup Clients : pc[a] \in Submitting => pc'[a] \in Submitting
    BY <1>2 DEF FinishTask, Go, Submitting, IInv, TypeOK, PlacesOK, Agents
  <2>3. QED
    BY <2>1, <2>2, SettledFrame
<1>3. ASSUME Bystander PROVE Whereabouts'
  BY <1>3, QueueFrame, SettledFrame DEF Bystander
<1>4. QED
  BY <1>1, <1>2, <1>3, BeginLemma, SubmitLemma, StepLemma DEF Moving

-----------------------------------------------------------------------------
(* The theorems.                                                           *)

\* The inductive invariant.
RInv == IInv /\ Ending /\ Whereabouts

LEMMA InitRefined == Init => RInv
<1> SUFFICES ASSUME Init PROVE RInv
  OBVIOUS
<1>1. IInv
  BY InitInv
<1>2. pc[Owner] = "create"
  BY AgentAssumption DEF Init, Agents
<1>3. Ending
  BY <1>2 DEF Ending, Closed, WaitPlaces
<1>4. /\ tasks = <<>> /\ Running = {} /\ done = {} /\ refused = {}
      /\ batch = [a \in Workers \cup Clients |-> <<>>] /\ giver = [t \in Tasks |-> Nil]
  BY DEF Init, Running
<1>5. Settled = {}
  BY <1>4 DEF Settled, Entries
<1>6. Whereabouts
  BY <1>4, <1>5 DEF Whereabouts, Injective, Entries
<1>7. QED
  BY <1>1, <1>3, <1>6 DEF RInv

LEMMA NextRefined == RInv /\ [Next]_vars => RInv'
BY NextInv, EndingStep, WhereStep DEF RInv

LEMMA RefinedInvariance == Spec => []RInv
<1>1. Init => RInv
  BY InitRefined
<1>2. RInv /\ [Next]_vars => RInv'
  BY NextRefined
<1>3. QED
  BY <1>1, <1>2, PTL DEF Spec

\* A client that has just been told finds its tasks done.
LEMMA ToldLemma ==
  ASSUME RInv, Quiescent, NEW c \in Clients, pc[c] \in {"check", "probe"},
         NEW t \in Tasks, giver[t] = c
  PROVE  t \in done \cup refused
<1>1. ~shutdown
  BY ClientLemma DEF RInv, IInv, Staging, Opened
<1>2. tasks = <<>> /\ Running = {}
  BY <1>1, QuietLemma DEF RInv
<1>3. batch[c] = <<>> /\ giver[t] # Nil
  BY NilAssumption DEF RInv, Whereabouts, Submitting
<1>4. t \in Settled \cup Entries(batch[c])
  BY <1>3 DEF RInv, Whereabouts
<1>5. QED
  BY <1>2, <1>3, <1>4 DEF Settled, Entries

LEMMA WaitStep ==
  ASSUME RInv, WaitFlushes, [Next]_vars
  PROVE  WaitFlushes'
<1>1. done \subseteq done' /\ refused \subseteq refused'
  <2>1. ASSUME Bystander PROVE done \subseteq done' /\ refused \subseteq refused'
    BY <2>1 DEF Bystander
  <2>2. ASSUME Moving PROVE done \subseteq done' /\ refused \subseteq refused'
    BY <2>2 DEF Moving, Take, Wake, FinishTask, BeginSubmit, Submit, history
  <2>3. QED
    BY <2>1, <2>2, StepLemma DEF RInv
<1>2. ASSUME NEW c \in Clients, NEW t \in Tasks, pc'[c] = "told", giver'[t] = c
      PROVE  giver[t] = c
  <2>1. CASE giver' = giver
    BY <1>2, <2>1
  <2>2. CASE giver' # giver
    <3>1. PICK a \in Workers \cup Clients : BeginSubmit(a)
      BY <2>2, StepLemma DEF RInv, Moving, Bystander, Take, Wake, FinishTask, Submit, history
    <3>2. pc'[a] = "lock_push"
      BY <3>1 DEF BeginSubmit, Go, RInv, IInv, TypeOK, PlacesOK, Agents
    <3>3. giver'[t] = a \/ giver'[t] = giver[t]
      BY <3>1 DEF BeginSubmit
    <3>4. QED
      BY <1>2, <3>2, <3>3
  <2>3. QED
    BY <2>1, <2>2
<1>3. ASSUME NEW c \in Clients, pc'[c] = "told", pc[c] # "told"
      PROVE  pc[c] \in {"check", "probe"} /\ Quiescent
  <2> USE AgentAssumption
         DEF RInv, IInv, TypeOK, PlacesOK, Agents, Go, counts, state, setup, locals, history
  <2>1. ASSUME OwnerNext PROVE FALSE
    BY <1>3, <2>1, NumThreadsAssumption DEF OwnerNext, CreateWorker, CreateFailsFirst,
       CreateFails, OpenGate, BeginDestroy, Close, Destroy, Workers
  <2>2. ASSUME NEW w \in Workers,
               TakeToken(w) \/ NoToken(w) \/ ParkedToken(w) \/ ThreadExit(w) \/ FinishTask(w)
               \/ Take(w) \/ Wake(w)
        PROVE  FALSE
    BY <1>3, <2>2 DEF TakeToken, NoToken, ParkedToken, ThreadExit, FinishTask, Take, Wake, PopTask
  <2>3. ASSUME NEW w \in Workers, Park(w) \/ Leave(w) PROVE FALSE
    <3>1. PICK place : Deactivate(w, place)
      BY <2>3 DEF Park, Leave
    <3>2. \A b \in Agents \ {w} :
            pc'[b] = pc[b] \/ (pc[b] = "blocked" /\ pc'[b] = "lock_check")
      BY <3>1, MovedLemma
    <3>3. QED
      BY <1>3, <3>2
  <2>4. ASSUME NEW b \in Clients, Call(b) \/ ProbeIdle(b)
        PROVE  pc[c] \in {"check", "probe"} /\ Quiescent
    BY <1>3, <2>4 DEF Call, ProbeIdle
  <2>5. ASSUME NEW a \in Clients \cup {Owner}, WaitIdle(a) \/ SpuriousWake(a) \/ CheckIdle(a)
        PROVE  pc[c] \in {"check", "probe"} /\ Quiescent
    BY <1>3, <2>5 DEF WaitIdle, SpuriousWake, CheckIdle, AfterWait
  <2>6. ASSUME NEW a \in Workers \cup Clients, BeginSubmit(a) \/ Submit(a) PROVE FALSE
    BY <1>3, <2>6 DEF BeginSubmit, Submit
  <2>7. ASSUME NEW a \in Agents, Acquire(a) PROVE FALSE
    BY <1>3, <2>7 DEF Acquire, LockPlaces, LockFor
  <2>8. ASSUME UNCHANGED vars PROVE FALSE
    BY <1>3, <2>8 DEF vars
  <2>9. QED
    BY <2>1, <2>2, <2>3, <2>4, <2>5, <2>6, <2>7, <2>8 DEF Next, WorkerNext, Finished
<1>4. QED
  BY <1>1, <1>2, <1>3, ToldLemma DEF WaitFlushes

\* A client that Wait or Active told the pool is idle finds all its tasks
\* finished or refused: no worker holds one between the queue and the counters
\* Wait looks at.
THEOREM WaitCorrect == Spec => []WaitFlushes
<1>1. Init => WaitFlushes
  BY AgentAssumption DEF Init, WaitFlushes, Agents
<1>2. RInv /\ WaitFlushes /\ [Next]_vars => WaitFlushes'
  BY WaitStep
<1>3. QED
  BY <1>1, <1>2, RefinedInvariance, PTL DEF Spec

-----------------------------------------------------------------------------
(* The refinement.                                                         *)

\* Submit is Accept: the queue grows by new tasks, each once, while it is open.
LEMMA AcceptLemma ==
  ASSUME RInv, NEW a \in Workers \cup Clients, Submit(a)
  PROVE  Executor!Accept
<1>1. PICK n \in 0..Len(batch[a]) : tasks' = tasks \o Accepted(a, n)
  BY DEF Submit, Enqueue
<1>2. /\ pc[a] = "push" /\ UNCHANGED <<task, done>>
      /\ pc' = [pc EXCEPT ![a] = IF a \in Workers THEN "run" ELSE "user"]
  BY DEF Submit, Go
<1>3. pc'[Owner] = pc[Owner]
  BY <1>2, AgentAssumption DEF RInv, IInv, TypeOK, PlacesOK, Agents
<1>4. ~Closed
  BY <1>2 DEF RInv, Ending, RunPlaces
<1>5. tasks \in Seq(Tasks) /\ batch[a] \in Seq(Tasks)
  BY DEF RInv, IInv, TypeOK
<1> DEFINE u == Accepted(a, n)
<1>6. /\ u \in Seq(Tasks) /\ Len(u) = n /\ n \in Nat
      /\ DOMAIN u = 1..n /\ DOMAIN batch[a] = 1..Len(batch[a])
      /\ \A i \in 1..n : u[i] = batch[a][i] /\ i \in DOMAIN batch[a]
  BY <1>5 DEF Accepted
<1>7. Entries(u) \subseteq Entries(batch[a])
  BY <1>6 DEF Entries
<1>8. Injective(u)
  BY <1>6 DEF RInv, Whereabouts, Injective
<1>9. Entries(u) \subseteq Tasks /\ \A t \in Entries(u) : t \notin Settled
  <2>1. Entries(batch[a]) \subseteq Tasks
    BY <1>5 DEF Entries
  <2>2. \A t \in Entries(batch[a]) : t \notin Settled
    BY DEF RInv, Whereabouts
  <2>3. QED
    BY <1>7, <2>1, <2>2
<1>0. tasks' = tasks \o u
  BY <1>1
<1> HIDE DEF u
<1>10. /\ Len(tasks') = Len(tasks) + n /\ Len(tasks) \in Nat
       /\ tasks' \in Seq(Tasks)
       /\ \A i \in 1..Len(tasks) : tasks'[i] = tasks[i]
       /\ \A i \in 1..n : tasks'[Len(tasks) + i] = u[i]
  <2>1. tasks \o u \in Seq(Tasks) /\ Len(tasks \o u) = Len(tasks) + n
    <3>1. \A x, y \in Seq(Tasks) : x \o y \in Seq(Tasks) /\ Len(x \o y) = Len(x) + Len(y)
      OBVIOUS
    <3>2. QED
      BY <1>5, <1>6, <3>1
  <2>2. /\ \A i \in 1..Len(tasks) : (tasks \o u)[i] = tasks[i]
        /\ \A i \in 1..n : (tasks \o u)[Len(tasks) + i] = u[i]
    BY <1>5, <1>6
  <2>3. QED
    BY <1>0, <1>5, <2>1, <2>2
<1>11. SubSeq(tasks', 1, Len(tasks)) = tasks
  BY <1>5, <1>6, <1>10
<1>12. SubSeq(tasks', Len(tasks) + 1, Len(tasks')) = u
  BY <1>5, <1>6, <1>10
<1>13. Executor!Known \subseteq Settled
  BY DEF Executor!Known, Executor!Entries, Executor!Running, Settled, Entries, Running
<1>14. Executor!Entries(u) = Entries(u)
  BY DEF Executor!Entries, Entries
<1>15. Len(tasks') >= Len(tasks)
  BY <1>6, <1>10
<1>16. QED
  BY <1>2, <1>3, <1>4, <1>8, <1>9, <1>11, <1>12, <1>13, <1>14, <1>15
     DEF Executor!Accept, Injective, Closed

\* The owner of a pool that is about to close, or that could not be built,
\* leaves nothing behind.
LEMMA CloseLemma ==
  ASSUME RInv, \/ pc[Owner] = "close"
               \/ pc[Owner] = "create"
  PROVE  tasks = <<>> /\ Executor!Running = {}
<1>1. CASE pc[Owner] = "close"
  BY <1>1, QuietLemma DEF RInv, Ending, IInv, Staging, Opened, Executor!Running, Running
<1>2. CASE pc[Owner] = "create"
  <2>1. tasks = <<>> /\ \A w \in Workers : pc[w] \notin RunPlaces
    BY <1>2 DEF RInv, IInv, Staging, RunPlaces
  <2>2. \A w \in Workers : task[w] = Nil
    BY <2>1 DEF RInv, IInv, Staging
  <2>3. QED
    BY <2>1, <2>2 DEF Executor!Running
<1>3. QED
  BY <1>1, <1>2

\* Whatever leaves the tasks alone closes the executor or changes nothing in it.
LEMMA OwnerLemma ==
  ASSUME RInv, [Next]_vars
  PROVE  \/ /\ ~Closed /\ Closed'
            /\ pc[Owner] \in {"close", "create"}
            /\ UNCHANGED <<tasks, task, done>>
         \/ Closed' <=> Closed
<1> USE AgentAssumption
       DEF RInv, IInv, TypeOK, PlacesOK, Agents, Go, counts, state, setup, locals, history, Closed
<1> DEFINE Goal == \/ /\ ~Closed /\ Closed'
                      /\ pc[Owner] \in {"close", "create"}
                      /\ UNCHANGED <<tasks, task, done>>
                   \/ Closed' <=> Closed
<1>1. ASSUME OwnerNext PROVE Goal
  BY <1>1, NumThreadsAssumption DEF OwnerNext, CreateWorker, CreateFailsFirst, CreateFails,
     OpenGate, BeginDestroy, Close, Destroy, Workers
<1>2. ASSUME pc'[Owner] = pc[Owner] PROVE Goal
  BY <1>2
<1>3. ASSUME NEW w \in Workers, WorkerNext(w) PROVE Goal
  <2>1. CASE Park(w) \/ Leave(w)
    <3>1. PICK place : Deactivate(w, place)
      BY <2>1 DEF Park, Leave
    <3>2. pc'[Owner] = pc[Owner] \/ (pc[Owner] = "blocked" /\ pc'[Owner] = "lock_check")
      BY <3>1, MovedLemma
    <3>3. QED
      BY <3>2
  <2>2. CASE ~(Park(w) \/ Leave(w))
    <3>1. pc'[Owner] = pc[Owner]
      BY <1>3, <2>2 DEF WorkerNext, TakeToken, NoToken, ParkedToken, Take, Wake, PopTask,
         FinishTask, ThreadExit
    <3>2. QED
      BY <1>2, <3>1
  <2>3. QED
    BY <2>1, <2>2
<1>4. ASSUME NEW c \in Clients, Call(c) \/ ProbeIdle(c) PROVE Goal
  BY <1>4 DEF Call, ProbeIdle
<1>5. ASSUME NEW a \in Clients \cup {Owner}, WaitIdle(a) \/ SpuriousWake(a) \/ CheckIdle(a)
      PROVE  Goal
  BY <1>5 DEF WaitIdle, SpuriousWake, CheckIdle, AfterWait
<1>6. ASSUME NEW a \in Workers \cup Clients, BeginSubmit(a) \/ Submit(a) PROVE Goal
  BY <1>6 DEF BeginSubmit, Submit
<1>7. ASSUME NEW a \in Agents, Acquire(a) PROVE Goal
  BY <1>7 DEF Acquire, LockPlaces, LockFor
<1>8. CASE UNCHANGED vars
  BY <1>8 DEF vars
<1>9. QED
  BY <1>1, <1>3, <1>4, <1>5, <1>6, <1>7, <1>8 DEF Next, Finished

\* The pool implements the executor: what TaskExecutor promises of order, of
\* one task per worker, and of closing, holds of the pool of any size.
THEOREM PoolImplements == Spec => Implements
<1>1. ASSUME Init PROVE Executor!Init
  <2>1. pc[Owner] = "create"
    BY <1>1, AgentAssumption DEF Init, Agents
  <2>2. (pc[Owner] \in {"join", "failed", "destroyed"}) = FALSE
    BY <2>1
  <2>3. QED
    BY <1>1, <2>2 DEF Init, Executor!Init
<1>2. ASSUME RInv, [Next]_vars PROVE [Executor!Next]_(Executor!vars)
  <2>1. CASE Closed' <=> Closed
    <3>1. (pc[Owner] \in {"join", "failed", "destroyed"})'
            = (pc[Owner] \in {"join", "failed", "destroyed"})
      BY <2>1 DEF Closed
    <3>2. CASE Bystander
      BY <3>1, <3>2 DEF Bystander, Executor!vars
    <3>3. ASSUME NEW w \in Workers, ~shutdown, Take(w) \/ Wake(w) PROVE Executor!Next
      <4>1. /\ pc[w] \in {"take", "wake"} /\ PopTask(w) /\ done' = done
        BY <3>3 DEF Take, Wake, history
      <4>2. /\ tasks # <<>> /\ task[w] = Nil
            /\ task' = [task EXCEPT ![w] = Head(tasks)]
            /\ tasks' = Tail(tasks)
        BY <1>2, <3>3, <4>1, StartLemma DEF RInv
      <4>3. Executor!Start(w)
        BY <3>1, <4>1, <4>2 DEF Executor!Start
      <4>4. QED
        BY <4>3 DEF Executor!Next
    <3>4. ASSUME NEW w \in Workers, FinishTask(w) PROVE Executor!Next
      <4>1. Executor!Finish(w)
        BY <1>2, <3>1, <3>4, FinishLemma DEF FinishTask, Executor!Finish, RInv
      <4>2. QED
        BY <4>1 DEF Executor!Next
    <3>5. ASSUME NEW a \in Workers \cup Clients, Submit(a) PROVE Executor!Next
      BY <1>2, <3>5, AcceptLemma DEF Executor!Next
    <3>6. ASSUME NEW a \in Workers \cup Clients, BeginSubmit(a) PROVE UNCHANGED Executor!vars
      BY <3>1, <3>6 DEF BeginSubmit, Executor!vars
    <3>7. QED
      BY <1>2, <3>2, <3>3, <3>4, <3>5, <3>6, StepLemma DEF RInv, Moving
  <2>2. CASE ~Closed /\ Closed' /\ pc[Owner] \in {"close", "create"} /\ UNCHANGED <<tasks, task, done>>
    <3>1. tasks = <<>> /\ Executor!Running = {}
      BY <1>2, <2>2, CloseLemma
    <3>2. ~(pc[Owner] \in {"join", "failed", "destroyed"})
      BY <2>2 DEF Closed
    <3>3. (pc[Owner] \in {"join", "failed", "destroyed"})' = TRUE
      BY <2>2 DEF Closed
    <3>4. QED
      BY <2>2, <3>1, <3>2, <3>3 DEF Executor!Close, Executor!Next
  <2>3. QED
    BY <1>2, <2>1, <2>2, OwnerLemma
<1>3. QED
  BY <1>1, <1>2, RefinedInvariance, PTL DEF Spec, Implements, Executor!Safety

-----------------------------------------------------------------------------
(* TaskQueue.  Its fields have the names of the pool's and stand here for  *)
(* the queue's own: nothing below uses a step or an invariant of the pool. *)

CONSTANTS Loops, Pollers, MaxEmpty, MayBreak, Garbage
VARIABLES empties, stolen
Queue == INSTANCE TaskQueue

\* The operators of the library that the queue uses.
LEMMA SameCount == \A S : Queue!Cardinality(S) = Cardinality(S)
BY DEF Queue!Cardinality, Cardinality

LEMMA SameSet == \A S : Queue!ToSet(S) = {S[i] : i \in DOMAIN S}
BY DEF Queue!ToSet, Queue!Range

\* f finds the entries of s that are not empty, in their order.
Finds(f, n, s) == /\ f \in [1..n -> DOMAIN s]
                  /\ \A k, l \in 1..n : k < l => f[k] < f[l]
                  /\ \A i \in DOMAIN s : s[i] # Nil <=> \E k \in 1..n : f[k] = i

\* An increasing enumeration of a set of numbers counts it.
LEMMA IncreasingBijection ==
  ASSUME NEW n \in Nat, NEW f, NEW P \in SUBSET Nat, f \in [1..n -> P],
         \A k, l \in 1..n : k < l => f[k] < f[l],
         \A i \in P : \E k \in 1..n : f[k] = i
  PROVE  IsFiniteSet(P) /\ Cardinality(P) = n
<1>1. \A k, l \in 1..n : f[k] = f[l] => k = l
  <2> SUFFICES ASSUME NEW k \in 1..n, NEW l \in 1..n, f[k] = f[l], k # l PROVE FALSE
    OBVIOUS
  <2>1. f[k] \in Nat /\ f[l] \in Nat
    OBVIOUS
  <2>2. k < l \/ l < k
    OBVIOUS
  <2>3. QED
    BY <2>1, <2>2
<1>2. f \in Bijection(1..n, P)
  BY <1>1, Fun_IsBij
<1>3. ExistsBijection(1..n, P)
  BY <1>2 DEF ExistsBijection
<1>4. IsFiniteSet(P)
  BY <1>3, FS_NatBijection
<1>5. QED
  BY <1>3, <1>4, FS_CountingElements

\* Whatever finds the entries that are not empty gives Filled.
LEMMA FilledIs ==
  ASSUME NEW s \in Seq(Tasks \cup {Nil}), NEW n \in Nat, NEW f, Finds(f, n, s)
  PROVE  /\ Queue!Filled(s) = [k \in 1..n |-> s[f[k]]]
         /\ Queue!Filled(s) \in Seq(Tasks)
         /\ Len(Queue!Filled(s)) = n
<1> DEFINE P == Queue!Positions(s)
<1>1. /\ DOMAIN s = 1..Len(s) /\ Len(s) \in Nat /\ P \subseteq Nat
      /\ f \in [1..n -> P]
      /\ \A i \in P : \E k \in 1..n : f[k] = i
      /\ \A k, l \in 1..n : k < l => f[k] < f[l]
  BY DEF Finds, Queue!Positions
<1>2. Cardinality(P) = n
  BY <1>1, IncreasingBijection
<1>3. ASSUME NEW k \in 1..n PROVE Queue!Rank(s, f[k]) = k
  <2> DEFINE B == {j \in P : j <= f[k]}
             g == [l \in 1..k |-> f[l]]
  <2>1. k \in Nat /\ 1..k \subseteq 1..n /\ B \in SUBSET Nat
    BY <1>1
  <2>2. \A l \in 1..k : g[l] = f[l] /\ f[l] \in P
    BY <1>1, <2>1
  <2>3. \A l \in 1..k : l = k \/ l < k
    BY <2>1
  <2>4. \A l \in 1..k : f[l] <= f[k]
    BY <1>1, <2>1, <2>3
  <2>5. g \in [1..k -> B]
    BY <2>2, <2>4
  <2>6. \A l, m \in 1..k : l < m => g[l] < g[m]
    BY <1>1, <2>1, <2>2
  <2>7. ASSUME NEW i \in B PROVE \E l \in 1..k : g[l] = i
    <3>1. PICK l \in 1..n : f[l] = i
      BY <1>1
    <3>2. ~(k < l)
      BY <1>1, <2>1, <3>1
    <3>3. l \in 1..k
      BY <2>1, <3>2
    <3>4. QED
      BY <2>2, <3>1, <3>3
  <2> HIDE DEF g
  <2>8. Cardinality(B) = k
    BY <2>1, <2>5, <2>6, <2>7, IncreasingBijection
  <2>9. QED
    BY <2>8, SameCount DEF Queue!Rank
<1>4. ASSUME NEW k \in 1..n PROVE (CHOOSE i \in P : Queue!Rank(s, i) = k) = f[k]
  <2>1. f[k] \in P /\ Queue!Rank(s, f[k]) = k
    BY <1>1, <1>3
  <2>2. \A i \in P : Queue!Rank(s, i) = k => i = f[k]
    BY <1>1, <1>3
  <2>3. QED
    BY <2>1, <2>2
<1>5. Queue!Filled(s) = [k \in 1..n |-> s[f[k]]]
  <2>1. Queue!Cardinality(P) = n
    BY <1>2, SameCount
  <2>2. Queue!Filled(s)
          = [k \in 1..Queue!Cardinality(P) |-> s[CHOOSE i \in P : Queue!Rank(s, i) = k]]
    BY DEF Queue!Filled
  <2>3. QED
    BY <1>4, <2>1, <2>2
<1>6. \A k \in 1..n : s[f[k]] \in Tasks
  BY <1>1 DEF Finds
<1>7. QED
  BY <1>5, <1>6

\* Something finds them: the inverse of Rank.
LEMMA FilledFound ==
  ASSUME NEW s \in Seq(Tasks \cup {Nil})
  PROVE  \E n \in Nat : \E f : Finds(f, n, s)
<1> DEFINE P == Queue!Positions(s)
           n == Cardinality(P)
           B(i) == {j \in P : j <= i}
           c == [i \in P |-> Cardinality(B(i))]
<1>1. DOMAIN s = 1..Len(s) /\ Len(s) \in Nat /\ P \in SUBSET (1..Len(s))
  BY DEF Queue!Positions
<1>2. IsFiniteSet(P) /\ n \in Nat
  <2>1. IsFiniteSet(1..Len(s))
    BY <1>1, FS_Interval
  <2>2. IsFiniteSet(P)
    BY <1>1, <2>1, FS_Subset
  <2>3. QED
    BY <2>2, FS_CardinalityType
<1>3. \A i \in P : IsFiniteSet(B(i)) /\ Cardinality(B(i)) \in Nat
  BY <1>2, FS_Subset, FS_CardinalityType
<1>4. ASSUME NEW i \in P, NEW j \in P, i < j PROVE Cardinality(B(i)) < Cardinality(B(j))
  <2>1. B(i) \in SUBSET B(j) /\ B(i) # B(j)
    <3>1. i \in Nat /\ j \in Nat /\ P \subseteq Nat
      BY <1>1
    <3>2. \A k \in P : k <= i => k <= j
      BY <1>4, <3>1
    <3>3. j \in B(j) /\ j \notin B(i)
      BY <1>4, <3>1
    <3>4. QED
      BY <3>2, <3>3
  <2>2. Cardinality(B(i)) <= Cardinality(B(j)) /\ Cardinality(B(j)) # Cardinality(B(i))
    <3>1. IsFiniteSet(B(j)) /\ B(i) \in SUBSET B(j) /\ B(i) # B(j)
      BY <1>3, <2>1
    <3> HIDE DEF B
    <3>2. QED
      BY <3>1, FS_Subset
  <2>3. Cardinality(B(i)) \in Nat /\ Cardinality(B(j)) \in Nat
    BY <1>3
  <2> HIDE DEF B
  <2>4. QED
    BY <2>2, <2>3
<1>5. \A i \in P : c[i] \in 1..n
  <2> TAKE i \in P
  <2>1. B(i) \in SUBSET P /\ i \in B(i)
    BY <1>1
  <2>2. IsFiniteSet(B(i)) /\ Cardinality(B(i)) \in Nat
    BY <1>3
  <2> HIDE DEF B
  <2>3. Cardinality(B(i)) <= n
    BY <1>2, <2>1, FS_Subset
  <2>4. Cardinality(B(i)) # 0
    BY <2>1, <2>2, FS_EmptySet
  <2>5. QED
    BY <1>2, <2>2, <2>3, <2>4
<1>6. c \in [P -> 1..n] /\ \A i, j \in P : i < j => c[i] < c[j]
  BY <1>4, <1>5
<1>7. \A i, j \in P : c[i] = c[j] => i = j
  <2> SUFFICES ASSUME NEW i \in P, NEW j \in P, c[i] = c[j], i # j PROVE FALSE
    OBVIOUS
  <2>1. i < j \/ j < i
    BY <1>1
  <2> HIDE DEF c, n
  <2>2. c[i] \in Nat /\ c[j] \in Nat
    BY <1>2, <1>5
  <2>3. QED
    BY <1>6, <2>1, <2>2
<1> HIDE DEF c
<1>8. c \in Injection(P, 1..n)
  BY <1>6, <1>7, Fun_IsInj
<1>9. c \in Surjection(P, 1..n)
  BY <1>2, <1>8, FS_Interval, FS_Injection
<1>10. \A k \in 1..n : \E i \in P : c[i] = k
  BY <1>9 DEF Surjection
<1> DEFINE f == [k \in 1..n |-> CHOOSE i \in P : c[i] = k]
<1>11. \A k \in 1..n : f[k] \in P /\ c[f[k]] = k
  BY <1>10
<1>12. f \in [1..n -> DOMAIN s]
  BY <1>1, <1>11
<1> HIDE DEF f
<1>13. ASSUME NEW k \in 1..n, NEW l \in 1..n, k < l PROVE f[k] < f[l]
  <2>1. f[k] \in P /\ f[l] \in P /\ c[f[k]] = k /\ c[f[l]] = l
    BY <1>11
  <2>2. f[k] # f[l] /\ ~(f[l] < f[k])
    BY <1>2, <1>6, <1>13, <2>1
  <2>3. QED
    BY <1>1, <2>1, <2>2
<1>14. ASSUME NEW i \in DOMAIN s PROVE s[i] # Nil <=> \E k \in 1..n : f[k] = i
  <2>1. s[i] # Nil <=> i \in P
    BY DEF Queue!Positions
  <2>2. i \in P => c[i] \in 1..n /\ f[c[i]] = i
    BY <1>5, <1>7, <1>11
  <2>3. QED
    BY <1>11, <2>1, <2>2
<1>15. Finds(f, n, s)
  BY <1>12, <1>13, <1>14 DEF Finds
<1>16. QED
  BY <1>2, <1>15

\* How Filled follows the operations of the queue.
LEMMA FilledAppend ==
  ASSUME NEW s \in Seq(Tasks \cup {Nil}), NEW t \in Seq(Tasks)
  PROVE  Queue!Filled(s \o t) = Queue!Filled(s) \o t
<1>1. PICK n \in Nat : \E f : Finds(f, n, s)
  BY FilledFound
<1>2. PICK f : Finds(f, n, s)
  BY <1>1
<1>3. Len(t) \in Nat
  OBVIOUS
<1>4. PICK m \in Nat : m = n + Len(t)
  BY <1>3
<1> DEFINE g == [k \in 1..m |-> IF k <= n THEN f[k] ELSE Len(s) + (k - n)]
           u == s \o t
<1>5. /\ u \in Seq(Tasks \cup {Nil}) /\ Len(u) = Len(s) + Len(t) /\ DOMAIN u = 1..Len(u)
      /\ \A i \in 1..Len(s) : u[i] = s[i]
      /\ \A i \in 1..Len(t) : u[Len(s) + i] = t[i]
      /\ Len(s) \in Nat /\ Len(t) \in Nat /\ DOMAIN s = 1..Len(s)
  OBVIOUS
<1>6. /\ \A k \in 1..n : k \in 1..m /\ g[k] = f[k] /\ f[k] \in 1..Len(s)
      /\ \A k \in n + 1..m : k \in 1..m /\ g[k] = Len(s) + (k - n) /\ k - n \in 1..Len(t)
      /\ 1..m = (1..n) \cup (n + 1..m)
  BY <1>4, <1>2, <1>5 DEF Finds
<1> HIDE DEF g, u
<1>7. Finds(g, m, u)
  <2>1. g \in [1..m -> DOMAIN u]
    <3>1. g = [k \in 1..m |-> g[k]]
      BY DEF g
    <3>2. /\ \A k \in 1..n : g[k] \in 1..Len(u)
          /\ \A k \in n + 1..m : g[k] \in 1..Len(u)
      BY <1>5, <1>6
    <3>3. QED
      BY <1>5, <1>6, <3>1, <3>2
  <2>2. ASSUME NEW k \in 1..m, NEW l \in 1..m, k < l PROVE g[k] < g[l]
    <3>1. CASE l \in 1..n
      <4>1. k \in 1..n
        BY <2>2, <3>1
      <4>2. f[k] < f[l]
        BY <1>2, <2>2, <3>1, <4>1 DEF Finds
      <4>3. QED
        BY <1>6, <3>1, <4>1, <4>2
    <3>2. CASE l \in n + 1..m
      <4>1. g[l] = Len(s) + (l - n) /\ l \in Nat /\ l - n >= 1
        BY <1>6, <3>2
      <4>2. CASE k \in 1..n
        <5>1. g[k] \in 1..Len(s)
          BY <1>6, <4>2
        <5>2. QED
          BY <1>5, <4>1, <5>1
      <4>3. CASE k \in n + 1..m
        <5>1. g[k] = Len(s) + (k - n)
          BY <1>6, <4>3
        <5>2. QED
          BY <1>5, <2>2, <4>1, <5>1
      <4>4. QED
        BY <1>6, <4>2, <4>3
    <3>3. QED
      BY <1>6, <3>1, <3>2
  <2>3. ASSUME NEW i \in DOMAIN u PROVE u[i] # Nil <=> \E k \in 1..m : g[k] = i
    <3>1. CASE i \in 1..Len(s)
      <4>1. u[i] # Nil <=> \E k \in 1..n : f[k] = i
        BY <1>2, <1>5, <3>1 DEF Finds
      <4>2. \A k \in n + 1..m : g[k] # i
        BY <1>5, <1>6, <3>1
      <4>3. QED
        BY <1>6, <4>1, <4>2
    <3>2. CASE i \in Len(s) + 1..Len(s) + Len(t)
      <4> DEFINE j == i - Len(s)
      <4>1. j \in 1..Len(t) /\ i = Len(s) + j /\ n + j \in n + 1..m /\ (n + j) - n = j
        BY <1>4, <1>5, <3>2
      <4> HIDE DEF j
      <4>2. u[i] = t[j] /\ t[j] \in Tasks /\ g[n + j] = i /\ n + j \in 1..m
        BY <1>5, <1>6, <4>1
      <4>3. u[i] # Nil
        BY <4>2, TaskAssumption
      <4>4. QED
        BY <4>2, <4>3
    <3>3. QED
      BY <1>5, <3>1, <3>2
  <2>4. QED
    BY <2>1, <2>2, <2>3 DEF Finds
<1>8. Queue!Filled(u) = [k \in 1..m |-> u[g[k]]]
  <2>1. m \in Nat /\ u \in Seq(Tasks \cup {Nil})
    BY <1>4, <1>5
  <2>2. QED
    BY <1>7, <2>1, FilledIs
<1>9. /\ Queue!Filled(s) = [k \in 1..n |-> s[f[k]]] /\ Queue!Filled(s) \in Seq(Tasks)
      /\ Len(Queue!Filled(s)) = n
  BY <1>2, FilledIs
<1> DEFINE v == Queue!Filled(s) \o t
<1>10. /\ v \in Seq(Tasks) /\ Len(v) = m
       /\ \A k \in 1..n : v[k] = s[f[k]]
       /\ \A k \in n + 1..m : v[k] = t[k - n]
  <2> DEFINE r == Queue!Filled(s)
  <2> HIDE DEF r
  <2>1. /\ r \o t \in Seq(Tasks) /\ Len(r \o t) = m
        /\ \A k \in 1..n : (r \o t)[k] = r[k]
        /\ \A k \in n + 1..m : (r \o t)[k] = t[k - n]
    BY <1>4, <1>5, <1>9 DEF r
  <2>2. \A k \in 1..n : r[k] = s[f[k]]
    BY <1>9 DEF r
  <2>3. QED
    BY <2>1, <2>2 DEF r
<1> HIDE DEF v
<1>11. \A k \in 1..m : u[g[k]] = v[k]
  <2>1. \A k \in 1..n : u[g[k]] = s[f[k]]
    BY <1>5, <1>6
  <2>2. \A k \in n + 1..m : u[g[k]] = t[k - n]
    BY <1>5, <1>6
  <2>3. ASSUME NEW k \in 1..m PROVE u[g[k]] = v[k]
    <3>1. CASE k \in 1..n
      BY <1>10, <2>1, <3>1
    <3>2. CASE k \in n + 1..m
      BY <1>10, <2>2, <3>2
    <3>3. QED
      BY <1>6, <3>1, <3>2
  <2>4. QED
    BY <2>3
<1>12. Queue!Filled(u) = v
  <2>1. v = [k \in 1..m |-> v[k]]
    BY <1>4, <1>10
  <2>2. QED
    BY <1>8, <1>11, <2>1
<1>13. QED
  BY <1>12 DEF u, v

LEMMA FilledQuit ==
  ASSUME NEW s \in Seq(Tasks \cup {Nil})
  PROVE  Queue!Filled(Append(s, Nil)) = Queue!Filled(s)
<1>1. PICK n \in Nat : \E f : Finds(f, n, s)
  BY FilledFound
<1>2. PICK f : Finds(f, n, s)
  BY <1>1
<1> DEFINE u == Append(s, Nil)
<1>3. /\ u \in Seq(Tasks \cup {Nil}) /\ DOMAIN u = DOMAIN s \cup {Len(s) + 1}
      /\ \A i \in DOMAIN s : u[i] = s[i]
      /\ u[Len(s) + 1] = Nil /\ Len(s) + 1 \notin DOMAIN s
  OBVIOUS
<1> HIDE DEF u
<1>4. Finds(f, n, u)
  BY <1>2, <1>3 DEF Finds
<1>5. \A k \in 1..n : u[f[k]] = s[f[k]]
  BY <1>2, <1>3 DEF Finds
<1>6. Queue!Filled(u) = [k \in 1..n |-> u[f[k]]] /\ Queue!Filled(s) = [k \in 1..n |-> s[f[k]]]
  BY <1>2, <1>3, <1>4, FilledIs
<1>7. QED
  BY <1>5, <1>6 DEF u

LEMMA FilledTail ==
  ASSUME NEW s \in Seq(Tasks \cup {Nil}), s # <<>>
  PROVE  /\ Head(s) = Nil => Queue!Filled(Tail(s)) = Queue!Filled(s)
         /\ Head(s) # Nil => /\ Queue!Filled(s) # <<>>
                             /\ Head(Queue!Filled(s)) = Head(s)
                             /\ Tail(Queue!Filled(s)) = Queue!Filled(Tail(s))
<1>1. PICK n \in Nat : \E f : Finds(f, n, s)
  BY FilledFound
<1>2. PICK f : Finds(f, n, s)
  BY <1>1
<1> DEFINE u == Tail(s)
<1>3. /\ u \in Seq(Tasks \cup {Nil}) /\ Len(u) = Len(s) - 1 /\ DOMAIN u = 1..Len(u)
      /\ \A i \in 1..Len(u) : u[i] = s[i + 1]
      /\ Len(s) \in Nat \ {0} /\ Len(u) \in Nat /\ DOMAIN s = 1..Len(s) /\ Head(s) = s[1]
  OBVIOUS
<1>4. /\ \A k \in 1..n : f[k] \in 1..Len(s) /\ s[f[k]] # Nil
      /\ \A k, l \in 1..n : k < l => f[k] < f[l]
      /\ \A i \in 1..Len(s) : s[i] # Nil => \E k \in 1..n : f[k] = i
  BY <1>2, <1>3 DEF Finds
<1>5. /\ Queue!Filled(s) = [k \in 1..n |-> s[f[k]]] /\ Queue!Filled(s) \in Seq(Tasks)
      /\ Len(Queue!Filled(s)) = n
  BY <1>2, FilledIs
<1> HIDE DEF u
<1>6. CASE Head(s) = Nil
  <2> DEFINE g == [k \in 1..n |-> f[k] - 1]
  <2>1. \A k \in 1..n : f[k] \in 2..Len(s) /\ g[k] \in 1..Len(u) /\ g[k] + 1 = f[k]
    BY <1>3, <1>4, <1>6
  <2>2. Finds(g, n, u)
    <3>1. g \in [1..n -> DOMAIN u]
      BY <1>3, <2>1
    <3>2. \A k, l \in 1..n : k < l => g[k] < g[l]
      BY <1>4, <2>1
    <3>3. ASSUME NEW i \in DOMAIN u PROVE u[i] # Nil <=> \E k \in 1..n : g[k] = i
      <4>1. i + 1 \in 1..Len(s) /\ u[i] = s[i + 1]
        BY <1>3
      <4>2. \A k \in 1..n : f[k] = i + 1 <=> g[k] = i
        BY <1>3, <2>1
      <4>3. QED
        BY <1>4, <4>1, <4>2
    <3>4. QED
      BY <3>1, <3>2, <3>3 DEF Finds
  <2>3. Queue!Filled(u) = [k \in 1..n |-> u[g[k]]]
    BY <1>3, <2>2, FilledIs
  <2>4. \A k \in 1..n : u[g[k]] = s[f[k]]
    BY <1>3, <2>1
  <2>5. Queue!Filled(u) = Queue!Filled(s)
    BY <1>5, <2>3, <2>4
  <2>6. QED
    BY <1>6, <2>5 DEF u
<1>7. CASE Head(s) # Nil
  <2>1. PICK h \in 1..n : f[h] = 1
    BY <1>3, <1>4, <1>7
  <2>2. n >= 1 /\ 1 \in 1..n /\ f[1] = 1
    BY <1>4, <2>1
  <2>3. PICK m \in Nat : m = n - 1
    BY <2>2
  <2> DEFINE g == [k \in 1..m |-> f[k + 1] - 1]
  <2>4. /\ \A k \in 1..m : k + 1 \in 1..n /\ 1 < k + 1
        /\ \A k \in 1..m : f[k + 1] \in 2..Len(s) /\ g[k] \in 1..Len(u) /\ g[k] + 1 = f[k + 1]
    <3>1. \A k \in 1..m : k + 1 \in 1..n /\ 1 < k + 1
      BY <2>3, <2>2
    <3>2. \A k \in 1..m : f[k + 1] \in 1..Len(s) /\ 1 < f[k + 1]
      BY <1>4, <2>2, <3>1
    <3>3. QED
      BY <1>3, <3>1, <3>2
  <2>5. Finds(g, m, u)
    <3>1. g \in [1..m -> DOMAIN u]
      BY <1>3, <2>4
    <3>2. ASSUME NEW k \in 1..m, NEW l \in 1..m, k < l PROVE g[k] < g[l]
      <4>1. k + 1 \in 1..n /\ l + 1 \in 1..n /\ k + 1 < l + 1
        BY <2>4, <3>2
      <4>2. f[k + 1] < f[l + 1]
        BY <1>4, <4>1
      <4>3. QED
        BY <2>4, <4>2
    <3>3. ASSUME NEW i \in DOMAIN u PROVE u[i] # Nil <=> \E k \in 1..m : g[k] = i
      <4>1. i \in Nat \ {0} /\ i + 1 \in 1..Len(s) /\ u[i] = s[i + 1]
        BY <1>3
      <4>2. ASSUME u[i] # Nil PROVE \E k \in 1..m : g[k] = i
        <5>1. PICK l \in 1..n : f[l] = i + 1
          BY <1>4, <4>1, <4>2
        <5>2. l # 1
          BY <2>2, <4>1, <5>1
        <5>3. l - 1 \in 1..m /\ (l - 1) + 1 = l
          BY <2>3, <2>2, <5>2
        <5>4. g[l - 1] = i
          BY <4>1, <5>1, <5>3
        <5>5. QED
          BY <5>3, <5>4
      <4>3. ASSUME NEW k \in 1..m, g[k] = i PROVE u[i] # Nil
        BY <1>4, <2>4, <4>1, <4>3
      <4>4. QED
        BY <4>2, <4>3
    <3>4. QED
      BY <3>1, <3>2, <3>3 DEF Finds
  <2>6. Queue!Filled(u) = [k \in 1..m |-> u[g[k]]]
    BY <1>3, <2>3, <2>5, FilledIs
  <2>7. \A k \in 1..m : u[g[k]] = s[f[k + 1]]
    BY <1>3, <2>4
  <2> HIDE DEF g
  <2> DEFINE r == Queue!Filled(s)
  <2>8. /\ r \in Seq(Tasks) /\ Len(r) = n /\ \A k \in 1..n : r[k] = s[f[k]]
    BY <1>5
  <2> HIDE DEF r
  <2>9. r # <<>> /\ Head(r) = s[1]
    BY <2>2, <2>8
  <2>10. Tail(r) = [k \in 1..m |-> r[k + 1]]
    <3>1. Tail(r) \in Seq(Tasks) /\ Len(Tail(r)) = m /\ \A k \in 1..m : Tail(r)[k] = r[k + 1]
      BY <2>3, <2>8, <2>9
    <3> DEFINE w == Tail(r)
    <3> HIDE DEF w
    <3>2. w \in Seq(Tasks) /\ Len(w) = m /\ \A k \in 1..m : w[k] = r[k + 1]
      BY <3>1 DEF w
    <3>3. w = [k \in 1..m |-> r[k + 1]]
      BY <2>3, <3>2
    <3>4. QED
      BY <3>3 DEF w
  <2>11. \A k \in 1..m : r[k + 1] = u[g[k]]
    BY <2>4, <2>7, <2>8
  <2>12. Tail(r) = Queue!Filled(u)
    BY <2>6, <2>10, <2>11
  <2>13. QED
    BY <1>3, <1>7, <2>9, <2>12 DEF r, u
<1>8. QED
  BY <1>6, <1>7

LEMMA FilledBreak ==
  ASSUME NEW s \in Seq(Tasks \cup {Nil})
  PROVE  Queue!Filled(<<Nil>> \o s) = Queue!Filled(s)
<1> DEFINE u == <<Nil>> \o s
<1>1. u \in Seq(Tasks \cup {Nil}) /\ u # <<>> /\ Head(u) = Nil /\ Tail(u) = s
  OBVIOUS
<1> HIDE DEF u
<1>2. Queue!Filled(Tail(u)) = Queue!Filled(u)
  BY <1>1, FilledTail
<1>3. QED
  BY <1>1, <1>2 DEF u

LEMMA FilledEntries ==
  ASSUME NEW s \in Seq(Tasks \cup {Nil})
  PROVE  /\ Queue!Filled(s) \in Seq(Tasks)
         /\ {Queue!Filled(s)[k] : k \in DOMAIN Queue!Filled(s)}
              = {s[i] : i \in DOMAIN s} \ {Nil}
<1>1. PICK n \in Nat : \E f : Finds(f, n, s)
  BY FilledFound
<1>2. PICK f : Finds(f, n, s)
  BY <1>1
<1>3. Queue!Filled(s) = [k \in 1..n |-> s[f[k]]] /\ Queue!Filled(s) \in Seq(Tasks)
  BY <1>2, FilledIs
<1>4. /\ \A k \in 1..n : f[k] \in DOMAIN s /\ s[f[k]] # Nil
      /\ \A i \in DOMAIN s : s[i] # Nil => \E k \in 1..n : f[k] = i
  BY <1>2 DEF Finds
<1>5. {Queue!Filled(s)[k] : k \in DOMAIN Queue!Filled(s)} = {s[f[k]] : k \in 1..n}
  BY <1>3
<1>6. {s[f[k]] : k \in 1..n} = {s[i] : i \in DOMAIN s} \ {Nil}
  BY <1>4
<1>7. QED
  BY <1>3, <1>5, <1>6

\* A worker has a task exactly while it runs one.
Hands == /\ tasks \in Seq(Tasks \cup {Nil})
         /\ pc \in [Queue!Workers -> {"loop", "user", "token", "run", "left"}]
         /\ task \in [Queue!Workers -> Tasks \cup {Nil}]
         /\ \A w \in Queue!Workers : task[w] # Nil <=> pc[w] = "run"

\* What the executor knows is what the queue has been given.
LEMMA KnownLemma ==
  ASSUME Hands PROVE Queue!Executor!Known = Queue!Given
<1>1. {Queue!Filled(tasks)[k] : k \in DOMAIN Queue!Filled(tasks)} = Queue!Queued
  BY FilledEntries, SameSet DEF Hands, Queue!Queued
<1>2. QED
  BY <1>1 DEF Queue!Executor!Known, Queue!Executor!Entries, Queue!Executor!Running,
     Queue!Given, Queue!Executing

\* A call of SubmitTasksE accepts the tasks it has pushed.
LEMMA SubmitAccepts ==
  ASSUME Hands, IsFiniteSet(Tasks), NEW a, Queue!Submit(a)
  PROVE  Queue!Executor!Accept /\ Hands'
<1>1. PICK S \in SUBSET (Tasks \ (Queue!Given \cup refused)) :
        \E s \in Queue!Orders(S), n \in 0..Queue!Cardinality(S) :
          Queue!Insert(Queue!Extended(SubSeq(s, 1, n)))
  BY DEF Queue!Submit
<1>2. PICK s \in Queue!Orders(S), n \in 0..Cardinality(S) :
        Queue!Insert(Queue!Extended(SubSeq(s, 1, n)))
  BY <1>1, SameCount
<1>3. Cardinality(S) \in Nat
  BY <1>1, FS_Subset, FS_CardinalityType
<1>4. s \in [1..Cardinality(S) -> S] /\ \A i, j \in 1..Cardinality(S) : s[i] = s[j] => i = j
  BY <1>2, SameCount DEF Queue!Orders, Queue!IsInjective
<1> DEFINE t == SubSeq(s, 1, n)
           q == Queue!Filled(tasks)
<1>5. n \in Nat /\ s \in Seq(Tasks) /\ Len(s) = Cardinality(S) /\ n <= Len(s)
  BY <1>1, <1>2, <1>3, <1>4
<1>6. /\ t \in Seq(Tasks) /\ Len(t) = n /\ DOMAIN t = 1..n
      /\ \A i \in 1..n : t[i] = s[i] /\ i \in 1..Cardinality(S)
  BY <1>5
<1> HIDE DEF t
<1>7. tasks' = tasks \o t /\ UNCHANGED <<pc, task, done>>
  BY <1>2 DEF Queue!Insert, Queue!Extended, Queue!Submit, t
<1>8. q \in Seq(Tasks) /\ q' = q \o t
  BY <1>6, <1>7, FilledAppend, FilledEntries DEF Hands
<1>9. /\ Len(q') >= Len(q) /\ SubSeq(q', 1, Len(q)) = q
      /\ SubSeq(q', Len(q) + 1, Len(q')) = t
  <2> HIDE DEF q
  <2>1. /\ q \o t \in Seq(Tasks) /\ Len(q \o t) = Len(q) + n /\ Len(q) \in Nat
        /\ \A i \in 1..Len(q) : (q \o t)[i] = q[i]
        /\ \A i \in 1..n : (q \o t)[Len(q) + i] = t[i]
    <3>1. q \in Seq(Tasks) /\ t \in Seq(Tasks) /\ Len(t) = n
      BY <1>6, <1>8
    <3> HIDE DEF q
    <3>2. QED
      BY <3>1
  <2> DEFINE u == q \o t
             v == SubSeq(u, 1, Len(q))
             w == SubSeq(u, Len(q) + 1, Len(q) + n)
  <2> HIDE DEF u
  <2>2. v \in Seq(Tasks) /\ Len(v) = Len(q) /\ \A i \in 1..Len(q) : v[i] = q[i]
    BY <2>1, <1>5 DEF u
  <2>3. w \in Seq(Tasks) /\ Len(w) = n /\ \A i \in 1..n : w[i] = t[i]
    BY <2>1, <1>5 DEF u
  <2> HIDE DEF v, w
  <2>4. v = q
    <3>1. q \in Seq(Tasks)
      BY <1>8
    <3>2. QED
      BY <2>2, <3>1
  <2>5. w = t
    BY <1>5, <1>6, <2>3
  <2>6. QED
    BY <1>5, <1>8, <2>1, <2>4, <2>5 DEF u, v, w
<1>10. {t[i] : i \in DOMAIN t} \subseteq Tasks \ Queue!Executor!Known
  BY <1>1, <1>4, <1>6, KnownLemma
<1>11. \A i, j \in DOMAIN t : t[i] = t[j] => i = j
  BY <1>4, <1>6
<1>12. Queue!Executor!Accept
  <2>1. /\ Queue!Executor!Entries(t) \subseteq Tasks \ Queue!Executor!Known
        /\ \A i, j \in DOMAIN t : t[i] = t[j] => i = j
    BY <1>10, <1>11 DEF Queue!Executor!Entries
  <2>2. LET new == SubSeq(q', Len(q) + 1, Len(q')) IN
          /\ Queue!Executor!Entries(new) \subseteq Tasks \ Queue!Executor!Known
          /\ \A i, j \in DOMAIN new : new[i] = new[j] => i = j
    BY <1>9, <2>1
  <2>3. UNCHANGED <<task, done, FALSE>>
    BY <1>7
  <2>4. QED
    BY <1>9, <2>2, <2>3 DEF Queue!Executor!Accept
<1>13. Hands'
  BY <1>6, <1>7 DEF Hands
<1>14. QED
  BY <1>12, <1>13

\* Taking an empty task is no step of the executor, taking another starts it.
LEMMA QueuePop ==
  ASSUME Hands, NEW w \in Queue!Workers, Queue!Pop(w)
  PROVE  /\ tasks # <<>> /\ tasks \in Seq(Tasks \cup {Nil}) /\ task[w] = Nil
         /\ Tail(tasks) \in Seq(Tasks \cup {Nil}) /\ Head(tasks) \in Tasks \cup {Nil}
         /\ task' = [task EXCEPT ![w] = Head(tasks)] /\ tasks' = Tail(tasks)
         /\ done' = done
BY DEF Hands, Queue!Pop

LEMMA HandsInit == Queue!Init => Hands
BY DEF Hands, Queue!Init, Queue!Workers

LEMMA QueueStep ==
  ASSUME Hands, IsFiniteSet(Tasks), [Queue!Next]_(Queue!vars)
  PROVE  [Queue!Executor!Next]_(Queue!Executor!vars) /\ Hands'
<1>1. ASSUME NEW a, Queue!Submit(a)
      PROVE  Queue!Executor!Next /\ Hands'
  BY <1>1, SubmitAccepts DEF Queue!Executor!Next
<1>2. ASSUME NEW a, Queue!Quit(a) \/ Queue!Break(a)
      PROVE  UNCHANGED Queue!Executor!vars /\ Hands'
  <2>1. /\ tasks \in Seq(Tasks \cup {Nil})
        /\ tasks' = Append(tasks, Nil) \/ tasks' = <<Nil>> \o tasks
        /\ UNCHANGED <<pc, task, done>>
    BY <1>2 DEF Hands, Queue!Quit, Queue!Break, Queue!Insert
  <2>2. Queue!Filled(tasks') = Queue!Filled(tasks)
    BY <2>1, FilledQuit, FilledBreak
  <2>3. Append(tasks, Nil) \in Seq(Tasks \cup {Nil}) /\ <<Nil>> \o tasks \in Seq(Tasks \cup {Nil})
    BY <2>1
  <2>4. Hands'
    BY <2>1, <2>3 DEF Hands
  <2>5. QED
    BY <2>1, <2>2, <2>4 DEF Queue!Executor!vars
<1>3. ASSUME NEW w \in Queue!Workers, Queue!StartTask(w)
      PROVE  Queue!Executor!Next /\ Hands'
  <2>1. Queue!Pop(w) /\ Head(tasks) # Nil /\ pc' = [pc EXCEPT ![w] = "run"]
    BY <1>3 DEF Queue!StartTask
  <2>2. /\ Queue!Filled(tasks) # <<>>
        /\ task' = [task EXCEPT ![w] = Head(Queue!Filled(tasks))]
        /\ Queue!Filled(tasks') = Tail(Queue!Filled(tasks))
    BY <2>1, QueuePop, FilledTail
  <2>3. Queue!Executor!Start(w)
    BY <2>1, <2>2, QueuePop DEF Queue!Executor!Start
  <2>4. Hands'
    BY <2>1, QueuePop, TaskAssumption DEF Hands
  <2>5. QED
    BY <2>3, <2>4 DEF Queue!Executor!Next
<1>4. ASSUME NEW w \in Queue!Workers, Queue!TakeEmpty(w)
      PROVE  UNCHANGED Queue!Executor!vars /\ Hands'
  <2>1. /\ Queue!Pop(w) /\ Head(tasks) = Nil
        /\ \E place \in {"left", "loop", "user"} : pc' = [pc EXCEPT ![w] = place]
    BY <1>4 DEF Queue!TakeEmpty, Queue!AfterEmpty
  <2>2. Queue!Filled(tasks') = Queue!Filled(tasks) /\ task' = task
    <3>1. task' = [task EXCEPT ![w] = Nil] /\ task[w] = Nil
      BY <2>1, QueuePop
    <3>2. task' = task
      BY <3>1 DEF Hands
    <3>3. QED
      BY <2>1, <3>2, QueuePop, FilledTail
  <2>3. Hands'
    BY <2>1, <2>2, QueuePop DEF Hands, Queue!Pop
  <2>4. QED
    BY <2>1, <2>2, <2>3, QueuePop DEF Queue!Executor!vars
<1>5. ASSUME NEW w \in Queue!Workers, Queue!FinishTask(w)
      PROVE  Queue!Executor!Next /\ Hands'
  <2>1. /\ task[w] # Nil /\ done' = done \cup {task[w]} /\ UNCHANGED tasks
        /\ task' = [task EXCEPT ![w] = Nil]
        /\ \E place \in {"loop", "user"} : pc' = [pc EXCEPT ![w] = place]
    BY <1>5 DEF Hands, Queue!FinishTask, Queue!Onward, Queue!queue
  <2>2. Queue!Executor!Finish(w)
    BY <2>1 DEF Queue!Executor!Finish
  <2>3. Hands'
    BY <2>1 DEF Hands
  <2>4. QED
    BY <2>2, <2>3 DEF Queue!Executor!Next
<1>6. ASSUME NEW w \in Queue!Workers, Queue!TakeToken(w)
      PROVE  UNCHANGED Queue!Executor!vars /\ Hands'
  <2>1. UNCHANGED <<tasks, task, done>> /\ pc' = [pc EXCEPT ![w] = "token"] /\ pc[w] # "run"
    BY <1>6 DEF Queue!TakeToken, Queue!history
  <2>2. Hands'
    BY <2>1 DEF Hands
  <2>3. QED
    BY <2>1, <2>2 DEF Queue!Executor!vars
<1>7. ASSUME UNCHANGED Queue!vars
      PROVE  UNCHANGED Queue!Executor!vars /\ Hands'
  BY <1>7 DEF Queue!vars, Queue!queue, Queue!history, Queue!Executor!vars, Hands
<1>8. QED
  BY <1>1, <1>2, <1>3, <1>4, <1>5, <1>6, <1>7 DEF Queue!Next, Queue!Work

\* The queue implements the executor, whatever the number of threads that
\* process it and wherever Quit and Break put their empty tasks: they make the
\* others neither late in the order, nor lost, nor run twice.
THEOREM QueueImplements ==
  ASSUME IsFiniteSet(Tasks)
  PROVE  Queue!Spec => Queue!Implements
<1>1. ASSUME Queue!Init PROVE Queue!Executor!Init /\ Hands
  <2>1. Hands /\ tasks = <<>>
    BY <1>1, HandsInit DEF Queue!Init
  <2>2. Finds(<<>>, 0, <<>>)
    BY DEF Finds
  <2>3. Queue!Filled(<<>>) \in Seq(Tasks) /\ Len(Queue!Filled(<<>>)) = 0
    <3>1. <<>> \in Seq(Tasks \cup {Nil}) /\ 0 \in Nat
      OBVIOUS
    <3>2. QED
      BY <2>2, <3>1, FilledIs
  <2>4. Queue!Filled(tasks) = <<>>
    BY <2>1, <2>3
  <2>5. QED
    BY <1>1, <2>1, <2>4 DEF Queue!Init, Queue!Executor!Init
<1>2. QED
  BY <1>1, QueueStep, PTL DEF Queue!Spec, Queue!Implements, Queue!Executor!Safety
=============================================================================
