--------------------------- MODULE LegacyPoolProofs -------------------------
(***************************************************************************)
(* Theorems about LegacyPool, for any number of threads, clients and tasks *)
(* and with every failure.                                                 *)
(***************************************************************************)
EXTENDS LegacyPool, FiniteSetTheorems, SequenceTheorems, TLAPS

Submitting == {"lock_add", "add", "push", "undo"}
Waiting == {"wait", "hold", "lock_check", "check"}
Inactive == {"parked", "lock_wake", "wake", "returned"}
Holding == {"hold", "hold_probe"}

WorkerPlaces == {"none", "try", "lock_take", "take", "run", "lock_park", "park",
                 "lock_leave", "leave"} \cup Inactive \cup Submitting
ClientPlaces == {"user", "told", "hold_probe", "lock_probe", "probe", "gone"}
                  \cup Waiting \cup Submitting
OwnerPlaces == {"create", "own", "lock_mark", "mark", "failed", "destroyed"} \cup Waiting

\* Only the constructor moves a worker from "none", in the order of creation.
TypeOK == /\ idle \in Nat /\ activeThreads \in Int /\ created \in 0..NumThreads
          /\ tasks \in Seq(Tasks \cup {Nil}) /\ numTasks = Len(tasks)
          /\ offer \in [Submitters -> Tasks \cup {Nil}]
          /\ \A a \in Submitters : pc[a] = "push" => offer[a] \in Tasks
          /\ pc \in [Agents -> WorkerPlaces \cup ClientPlaces \cup OwnerPlaces]
          /\ \A w \in Workers : pc[w] \in WorkerPlaces /\ (pc[w] = "none" <=> created < w)
          /\ \A c \in Clients : pc[c] \in ClientPlaces
          /\ pc[Owner] \in OwnerPlaces

Actives == Cardinality({w \in Workers : pc[w] \notin Inactive})
Holders == Cardinality({a \in Agents : pc[a] \in Holding})

\* ActiveThreads counts the threads that may run a task, those too that are not
\* created yet.
ActiveExact == activeThreads = Actives

LeftPlaces == {"lock_leave", "leave", "returned"}
Left == {w \in Workers : pc[w] \in LeftPlaces}
Closing == marked \/ pc[Owner] \in {"lock_mark", "mark"}

\* Before the owner queues the null tasks nobody works or submits any more, and a
\* null task stands for each thread that has not seen one.
Stages ==
  /\ pc[Owner] = "create" => tasks = <<>> /\ \A c \in Clients : pc[c] = "user"
  /\ pc[Owner] \in Waiting => marked \/ \A c \in Clients : pc[c] = "gone"
  /\ pc[Owner] \in {"create", "own", "lock_mark", "mark"} => ~marked
  /\ pc[Owner] = "create" \/ Closing =>
       /\ \A w \in Workers : pc[w] # "run" /\ pc[w] \notin Submitting
       /\ \A c \in Clients : pc[c] \notin Submitting
  /\ Closing => \A i \in 1..Len(tasks) : tasks[i] = Nil
  /\ ~marked => Left = {} /\ \A i \in 1..Len(tasks) : tasks[i] # Nil
  /\ marked => Len(tasks) + Cardinality(Left) = created

IInv == TypeOK /\ ActiveExact /\ IdleExact /\ Stages /\ FreedUnused

-----------------------------------------------------------------------------
\* How the size of a set changes when only x may enter or leave it.
LEMMA MovedLemma ==
  ASSUME NEW S, IsFiniteSet(S), NEW A \in SUBSET S, NEW B \in SUBSET S,
         NEW x, A \ {x} = B \ {x}
  PROVE  /\ Cardinality(A) \in Nat
         /\ (x \in A <=> x \in B) => Cardinality(B) = Cardinality(A)
         /\ x \in B \ A => Cardinality(B) = Cardinality(A) + 1
         /\ x \in A \ B => Cardinality(B) = Cardinality(A) - 1
<1>1. /\ IsFiniteSet(A) /\ IsFiniteSet(B)
      /\ Cardinality(A) \in Nat /\ Cardinality(B) \in Nat
  BY FS_Subset, FS_CardinalityType
<1>2. (x \in A <=> x \in B) => A = B
  OBVIOUS
<1>3. ASSUME x \in B \ A PROVE Cardinality(B) = Cardinality(A) + 1
  <2>1. B = A \cup {x}
    BY <1>3
  <2>2. QED
    BY <1>1, <1>3, <2>1, FS_AddElement
<1>4. ASSUME x \in A \ B PROVE Cardinality(B) = Cardinality(A) - 1
  <2>1. A = B \cup {x}
    BY <1>4
  <2>2. Cardinality(A) = Cardinality(B) + 1
    BY <1>1, <1>4, <2>1, FS_AddElement
  <2>3. QED
    BY <1>1, <2>2
<1>5. QED
  BY <1>1, <1>2, <1>3, <1>4

LEMMA AgentsFinite == IsFiniteSet(Agents) /\ IsFiniteSet(Workers)
<1>1. IsFiniteSet(Workers)
  BY NumThreadsAssumption, FS_Interval DEF Workers
<1>2. IsFiniteSet({Owner})
  BY FS_Singleton
<1>3. IsFiniteSet(Submitters)
  BY <1>1, ClientsAssumption, FS_Union DEF Submitters
<1>4. QED
  BY <1>1, <1>2, <1>3, FS_Union DEF Agents

\* How the two counts change with the place of one thread.
LEMMA Moves ==
  ASSUME TypeOK, NEW a \in Agents, NEW p, pc' = [pc EXCEPT ![a] = p]
  PROVE  /\ Actives \in Nat /\ Holders \in Nat
         /\ (pc[a] \in Holding <=> p \in Holding) => Holders' = Holders
         /\ pc[a] \notin Holding /\ p \in Holding => Holders' = Holders + 1
         /\ pc[a] \in Holding /\ p \notin Holding => Holders' = Holders - 1
         /\ a \notin Workers \/ (pc[a] \in Inactive <=> p \in Inactive) => Actives' = Actives
         /\ a \in Workers /\ pc[a] \in Inactive /\ p \notin Inactive => Actives' = Actives + 1
         /\ a \in Workers /\ pc[a] \notin Inactive /\ p \in Inactive => Actives' = Actives - 1
<1> DEFINE A == {w \in Workers : pc[w] \notin Inactive}
           H == {b \in Agents : pc[b] \in Holding}
<1>1. \A b \in Agents : pc'[b] = IF b = a THEN p ELSE pc[b]
  BY DEF TypeOK
<1>2. Workers \subseteq Agents
  BY DEF Agents, Submitters
<1>3. /\ A \in SUBSET Workers /\ A' \in SUBSET Workers /\ A \ {a} = A' \ {a}
      /\ a \in A <=> a \in Workers /\ pc[a] \notin Inactive
      /\ a \in A' <=> a \in Workers /\ p \notin Inactive
  BY <1>1, <1>2
<1>4. /\ H \in SUBSET Agents /\ H' \in SUBSET Agents /\ H \ {a} = H' \ {a}
      /\ a \in H <=> pc[a] \in Holding
      /\ a \in H' <=> p \in Holding
  BY <1>1
<1>5. /\ Cardinality(A) \in Nat
      /\ (a \in A <=> a \in A') => Cardinality(A') = Cardinality(A)
      /\ a \in A' \ A => Cardinality(A') = Cardinality(A) + 1
      /\ a \in A \ A' => Cardinality(A') = Cardinality(A) - 1
  <2> HIDE DEF A
  <2>1. QED
    BY <1>3, AgentsFinite, MovedLemma
<1>6. /\ Cardinality(H) \in Nat
      /\ (a \in H <=> a \in H') => Cardinality(H') = Cardinality(H)
      /\ a \in H' \ H => Cardinality(H') = Cardinality(H) + 1
      /\ a \in H \ H' => Cardinality(H') = Cardinality(H) - 1
  <2> HIDE DEF H
  <2>1. QED
    BY <1>4, AgentsFinite, MovedLemma
<1>7. Actives = Cardinality(A) /\ Holders = Cardinality(H)
  BY DEF Actives, Holders
<1>8. Actives' = Cardinality(A') /\ Holders' = Cardinality(H')
  BY DEF Actives, Holders
<1> HIDE DEF A, H
<1>9. QED
  BY <1>3, <1>4, <1>5, <1>6, <1>7, <1>8

-----------------------------------------------------------------------------
LEMMA InitInv == Init => IInv
<1> SUFFICES ASSUME Init PROVE IInv
  OBVIOUS
<1> USE NumThreadsAssumption, AgentAssumption
<1>1. \A w \in Workers : pc[w] = "none"
  BY DEF Init, Agents, Submitters
<1>2. \A c \in Clients : pc[c] = "user"
  BY DEF Init, Agents, Submitters
<1>3. pc[Owner] = "create"
  BY DEF Init, Agents, Submitters
<1>4. /\ pc \in [Agents -> WorkerPlaces \cup ClientPlaces \cup OwnerPlaces]
      /\ \A a \in Agents : pc[a] \in {"none", "user", "create"}
  BY DEF Init, Agents, Submitters, WorkerPlaces, ClientPlaces, OwnerPlaces
<1>5. tasks = <<>> /\ tasks \in Seq(Tasks \cup {Nil}) /\ Len(tasks) = 0
  BY DEF Init
<1>6. TypeOK
  BY <1>1, <1>2, <1>3, <1>4, <1>5
  DEF Init, TypeOK, Agents, Submitters, Workers, WorkerPlaces, ClientPlaces, OwnerPlaces
<1>7. Actives = NumThreads /\ Holders = 0
  <2>1. {w \in Workers : pc[w] \notin Inactive} = 1..NumThreads
    BY <1>1 DEF Inactive, Workers
  <2>2. {a \in Agents : pc[a] \in Holding} = {}
    BY <1>4 DEF Holding
  <2>3. Cardinality(1..NumThreads) = NumThreads
    BY FS_Interval
  <2>4. Cardinality({}) = 0
    BY FS_EmptySet
  <2>5. QED
    BY <2>1, <2>2, <2>3, <2>4 DEF Actives, Holders
<1>8. ActiveExact /\ IdleExact
  <2>1. activeThreads = NumThreads /\ idle = 0 /\ activeThreads # 0
    BY DEF Init
  <2>2. Places({"hold", "hold_probe"}) = 0
    BY <1>7 DEF Holders, Places, Holding
  <2>3. QED
    BY <1>7, <2>1, <2>2 DEF ActiveExact, IdleExact
<1>9. Left = {} /\ ~marked
  BY <1>1 DEF Init, Left, LeftPlaces
<1>10. Stages /\ FreedUnused
  BY <1>1, <1>2, <1>3, <1>5, <1>9 DEF Stages, FreedUnused, Closing, Waiting, Submitting
<1>11. QED
  BY <1>6, <1>8, <1>10 DEF IInv

\* What PopTask does to the queue.
LEMMA PopLemma ==
  ASSUME TypeOK, NEW w \in Workers, PopTask(w)
  PROVE  /\ tasks' \in Seq(Tasks \cup {Nil}) /\ Len(tasks) \in Nat /\ Len(tasks) > 0
         /\ Len(tasks') = Len(tasks) - 1 /\ numTasks' = Len(tasks')
         /\ \A i \in 1..Len(tasks') : tasks'[i] = tasks[i + 1]
         /\ Head(tasks) = tasks[1]
<1>1. tasks \in Seq(Tasks \cup {Nil}) /\ tasks # <<>> /\ tasks' = Tail(tasks)
        /\ numTasks' = numTasks - 1 /\ numTasks = Len(tasks)
  BY DEF TypeOK, PopTask
<1>2. Len(tasks) \in Nat /\ Len(tasks) > 0
  BY <1>1, LenProperties, EmptySeq
<1>3. QED
  BY <1>1, <1>2, HeadTailProperties

\* The null tasks of the destructor.
LEMMA MarkLemma ==
  ASSUME TypeOK, Mark
  PROVE  /\ tasks' \in Seq(Tasks \cup {Nil}) /\ Len(tasks) \in Nat
         /\ Len(tasks') = Len(tasks) + created /\ numTasks' = Len(tasks')
         /\ \A i \in 1..Len(tasks') : tasks'[i] = IF i <= Len(tasks) THEN tasks[i] ELSE Nil
<1> DEFINE N == [i \in 1..created |-> Nil]
<1>1. created \in Nat /\ tasks \in Seq(Tasks \cup {Nil}) /\ Len(tasks) \in Nat
  BY LenProperties, NumThreadsAssumption DEF TypeOK
<1>2. N \in Seq(Tasks \cup {Nil}) /\ Len(N) = created /\ \A i \in 1..created : N[i] = Nil
  <2>1. \A i \in 1..created : N[i] \in Tasks \cup {Nil}
    OBVIOUS
  <2>2. N \in Seq(Tasks \cup {Nil})
    BY <1>1, <2>1, IsASeq
  <2>3. DOMAIN N = 1..created
    OBVIOUS
  <2>4. Len(N) = created
    BY <1>1, <2>2, <2>3, LenProperties
  <2>5. QED
    BY <2>2, <2>4
<1>3. tasks' = tasks \o N /\ numTasks' = numTasks + created
  BY DEF Mark, Markers
<1> HIDE DEF N
<1>4. /\ tasks' \in Seq(Tasks \cup {Nil})
      /\ Len(tasks') = Len(tasks) + Len(N)
      /\ \A i \in 1 .. Len(tasks) + Len(N) :
            tasks'[i] = IF i <= Len(tasks) THEN tasks[i] ELSE N[i - Len(tasks)]
  BY <1>1, <1>2, <1>3, ConcatProperties
<1>5. Len(tasks') = Len(tasks) + created /\ numTasks' = Len(tasks')
  BY <1>1, <1>2, <1>3, <1>4 DEF TypeOK
<1>6. ASSUME NEW i \in 1..Len(tasks')
      PROVE  tasks'[i] = IF i <= Len(tasks) THEN tasks[i] ELSE Nil
  <2>1. CASE i <= Len(tasks)
    BY <1>1, <1>2, <1>4, <2>1
  <2>2. CASE ~(i <= Len(tasks))
    <3>1. i \in 1..Len(tasks) + created /\ i \in Int
      BY <1>5
    <3>2. i - Len(tasks) \in 1..created
      BY <1>1, <2>2, <3>1
    <3>3. tasks'[i] = N[i - Len(tasks)]
      BY <1>2, <1>4, <2>2, <3>1
    <3>4. QED
      BY <1>2, <2>2, <3>2, <3>3
  <2>3. QED
    BY <2>1, <2>2
<1>7. QED
  BY <1>1, <1>4, <1>5, <1>6

-----------------------------------------------------------------------------
\* Workers, clients and the owner are different threads.
LEMMA Kinds == /\ \A w \in Workers : w \in Agents /\ w \in Submitters /\ w # Owner /\ w \notin Clients
               /\ \A c \in Clients : c \in Agents /\ c \in Submitters /\ c # Owner /\ c \notin Workers
               /\ Owner \in Agents /\ Owner \notin Workers /\ Owner \notin Clients
               /\ Agents = Workers \cup Clients \cup {Owner} /\ Submitters = Workers \cup Clients
BY AgentAssumption DEF Agents, Submitters

\* Every thread keeps to the places of its kind.
LEMMA PlacesStep ==
  ASSUME TypeOK, NEW a \in Agents, NEW p, pc' = [pc EXCEPT ![a] = p],
         a \in Workers => p \in WorkerPlaces /\ p # "none" /\ pc[a] # "none",
         a \in Clients => p \in ClientPlaces,
         a = Owner => p \in OwnerPlaces,
         UNCHANGED created
  PROVE  /\ pc' \in [Agents -> WorkerPlaces \cup ClientPlaces \cup OwnerPlaces]
         /\ \A w \in Workers : pc'[w] \in WorkerPlaces /\ (pc'[w] = "none" <=> created' < w)
         /\ \A c \in Clients : pc'[c] \in ClientPlaces
         /\ pc'[Owner] \in OwnerPlaces
<1> USE Kinds
<1>1. \A b \in Agents : pc'[b] = IF b = a THEN p ELSE pc[b]
  BY DEF TypeOK
<1>2. p \in WorkerPlaces \cup ClientPlaces \cup OwnerPlaces
  OBVIOUS
<1>3. pc' \in [Agents -> WorkerPlaces \cup ClientPlaces \cup OwnerPlaces]
  BY <1>2 DEF TypeOK
<1>4. ASSUME NEW w \in Workers
      PROVE  pc'[w] \in WorkerPlaces /\ (pc'[w] = "none" <=> created' < w)
  BY <1>1 DEF TypeOK
<1>5. ASSUME NEW c \in Clients PROVE pc'[c] \in ClientPlaces
  BY <1>1 DEF TypeOK
<1>6. pc'[Owner] \in OwnerPlaces
  BY <1>1 DEF TypeOK
<1>7. QED
  BY <1>3, <1>4, <1>5, <1>6

LEMMA TypeFrame ==
  ASSUME TypeOK, NEW a \in Agents, NEW p, pc' = [pc EXCEPT ![a] = p],
         a \in Workers => p \in WorkerPlaces /\ p # "none" /\ pc[a] # "none",
         a \in Clients => p \in ClientPlaces,
         a = Owner => p \in OwnerPlaces,
         p # "push", UNCHANGED <<created, tasks, numTasks, offer>>,
         idle' \in Nat, activeThreads' \in Int
  PROVE  TypeOK'
<1>1. \A b \in Agents : pc'[b] = IF b = a THEN p ELSE pc[b]
  BY DEF TypeOK
<1>2. \A b \in Submitters : pc'[b] = "push" => offer'[b] \in Tasks
  BY <1>1, Kinds DEF TypeOK
<1>3. QED
  BY <1>2, PlacesStep DEF TypeOK

LEMMA TypeStep == TypeOK /\ [Next]_vars => TypeOK'
<1> SUFFICES ASSUME TypeOK, [Next]_vars PROVE TypeOK'
  OBVIOUS
<1> USE Kinds DEF counts, state, setup, work, Go
<1>1. idle \in Nat /\ activeThreads \in Int
  BY DEF TypeOK
<1> DEFINE P == WorkerPlaces \cup ClientPlaces \cup OwnerPlaces
<1>2. \A a \in Agents :
        /\ a \in Workers => pc[a] \in WorkerPlaces
        /\ a \in Clients => pc[a] \in ClientPlaces
        /\ a = Owner => pc[a] \in OwnerPlaces
  BY DEF TypeOK
<1> USE DEF WorkerPlaces, ClientPlaces, OwnerPlaces, Inactive, Submitting, Waiting
<1>3. ASSUME NEW w \in Workers, WorkerNext(w) PROVE TypeOK'
  <2>1. CASE TakeToken(w)
    BY <1>1, <2>1, TypeFrame DEF TakeToken
  <2>2. CASE NoToken(w)
    BY <1>1, <2>2, TypeFrame DEF NoToken
  <2>3. CASE Park(w) \/ Leave(w)
    <3>1. idle' \in Nat /\ activeThreads' \in Int
      BY <1>1, <2>3 DEF Park, Leave, Deactivate
    <3>2. \E p \in {"parked", "returned"} : pc' = [pc EXCEPT ![w] = p]
      BY <2>3 DEF Park, Leave
    <3>3. pc[w] # "none" /\ UNCHANGED <<created, tasks, numTasks, offer>>
      BY <2>3 DEF Park, Leave
    <3>4. QED
      BY <3>1, <3>2, <3>3, TypeFrame
  <2>4. CASE FinishTask(w)
    BY <1>1, <2>4, TypeFrame DEF FinishTask
  <2>5. CASE Take(w) \/ Wake(w)
    <3>1. PopTask(w) /\ pc[w] \in {"take", "wake"}
      BY <2>5 DEF Take, Wake
    <3>2. idle' \in Nat /\ activeThreads' \in Int
      BY <1>1, <2>5 DEF Take, Wake, Activate
    <3>3. PICK p \in {"lock_leave", "run"} : pc' = [pc EXCEPT ![w] = p]
      BY <3>1 DEF PopTask
    <3>4. UNCHANGED <<offer, created>>
      BY <3>1 DEF PopTask
    <3>5. \A b \in Submitters : pc'[b] = "push" => pc[b] = "push"
      BY <3>3 DEF TypeOK
    <3>6. QED
      BY <3>1, <3>2, <3>3, <3>4, <3>5, PopLemma, PlacesStep DEF TypeOK
  <2>6. QED
    BY <1>3, <2>1, <2>2, <2>3, <2>4, <2>5 DEF WorkerNext
<1>4. ASSUME NEW a \in Submitters, BeginSubmit(a) \/ SubmitNext(a) PROVE TypeOK'
  <2>1. CASE BeginSubmit(a)
    BY <1>1, <2>1, TypeFrame DEF BeginSubmit
  <2>2. CASE AppendTask(a)
    <3>1. pc[a] = "add" /\ pc' = [pc EXCEPT ![a] = "push"]
            /\ UNCHANGED <<tasks, numTasks, idle, activeThreads, created>>
      BY <2>2 DEF AppendTask
    <3>2. PICK t \in Tasks : offer' = [offer EXCEPT ![a] = t]
      BY <2>2 DEF AppendTask
    <3>3. /\ offer' \in [Submitters -> Tasks \cup {Nil}]
          /\ \A b \in Submitters : pc'[b] = "push" => offer'[b] \in Tasks
      BY <3>1, <3>2 DEF TypeOK
    <3>4. QED
      BY <3>1, <3>3, PlacesStep DEF TypeOK
  <2>3. CASE PushTask(a) \/ PushFails(a)
    <3>1. PICK p \in {"add", "undo"} : pc[a] = "push" /\ pc' = [pc EXCEPT ![a] = p]
      BY <2>3 DEF PushTask, PushFails
    <3>2. UNCHANGED <<idle, activeThreads, created>> /\ offer' = [offer EXCEPT ![a] = Nil]
      BY <2>3 DEF PushTask, PushFails
    <3>3. /\ offer' \in [Submitters -> Tasks \cup {Nil}]
          /\ \A b \in Submitters : pc'[b] = "push" => offer'[b] \in Tasks
      BY <3>1, <3>2 DEF TypeOK
    <3>4. tasks' \in Seq(Tasks \cup {Nil}) /\ numTasks' = Len(tasks')
      <4>1. offer[a] \in Tasks \cup {Nil} /\ tasks \in Seq(Tasks \cup {Nil})
        BY DEF TypeOK
      <4>2. CASE PushTask(a)
        BY <4>1, <4>2, AppendProperties DEF PushTask, TypeOK
      <4>3. CASE PushFails(a)
        BY <4>3 DEF PushFails, TypeOK
      <4>4. QED
        BY <2>3, <4>2, <4>3
    <3>5. QED
      BY <3>1, <3>2, <3>3, <3>4, PlacesStep DEF TypeOK
  <2>4. CASE Undo(a) \/ EndSubmit(a)
    <3>1. Returned(a) \in {"run", "user"} /\ (a \in Workers => Returned(a) = "run")
            /\ (a \in Clients => Returned(a) = "user")
      BY DEF Returned
    <3>2. pc' = [pc EXCEPT ![a] = Returned(a)] /\ pc[a] \in {"undo", "add"}
            /\ UNCHANGED <<created, tasks, numTasks, offer, idle, activeThreads>>
      BY <2>4 DEF Undo, EndSubmit
    <3>3. QED
      BY <1>1, <3>1, <3>2, TypeFrame
  <2>5. QED
    BY <1>4, <2>1, <2>2, <2>3, <2>4 DEF SubmitNext
<1>5. ASSUME NEW c \in Clients, Call(c) PROVE TypeOK'
  <2>1. idle' \in Nat /\ \E p \in {"wait", "hold_probe", "gone"} : pc' = [pc EXCEPT ![c] = p]
    BY <1>1, <1>5 DEF Call
  <2>2. QED
    BY <1>1, <1>5, <2>1, TypeFrame DEF Call
<1>6. ASSUME NEW a \in Clients \cup {Owner}, TakeIdle(a) \/ GiveIdle(a) \/ CheckIdle(a)
      PROVE  TypeOK'
  <2>1. CASE TakeIdle(a)
    <3>1. idle' \in Nat /\ pc' = [pc EXCEPT ![a] = "hold"]
      BY <1>1, <2>1 DEF TakeIdle
    <3>2. UNCHANGED <<created, tasks, numTasks, offer, activeThreads>>
      BY <2>1 DEF TakeIdle
    <3>3. QED
      BY <1>1, <3>1, <3>2, TypeFrame
  <2>2. CASE GiveIdle(a)
    <3>1. idle' \in Nat /\ UNCHANGED <<created, tasks, numTasks, offer, activeThreads>>
      BY <1>1, <2>2 DEF GiveIdle
    <3>2. pc' = [pc EXCEPT ![a] = IF pc[a] = "hold" THEN "lock_check" ELSE "lock_probe"]
      BY <2>2 DEF GiveIdle
    <3>3. a = Owner => pc[a] = "hold"
      BY <1>2, <2>2 DEF GiveIdle
    <3>4. QED
      BY <1>1, <3>1, <3>2, <3>3, TypeFrame
  <2>3. CASE CheckIdle(a)
    <3>1. /\ a \in Clients => AfterWait(a) = "told"
          /\ a = Owner => AfterWait(a) \in {"lock_mark", "failed", "destroyed"}
      BY DEF AfterWait
    <3>2. PICK p : pc' = [pc EXCEPT ![a] = p] /\
            p \in {AfterWait(a), IF pc[a] = "check" THEN "wait" ELSE "user"}
      BY <2>3 DEF CheckIdle
    <3>3. pc[a] \in {"check", "probe"} /\ UNCHANGED <<created, tasks, numTasks, offer, idle, activeThreads>>
      BY <2>3 DEF CheckIdle
    <3>4. a = Owner => pc[a] = "check"
      BY <1>2, <3>3
    <3>5. QED
      BY <1>1, <3>1, <3>2, <3>3, <3>4, TypeFrame
  <2>4. QED
    BY <1>6, <2>1, <2>2, <2>3
<1>7. ASSUME NEW a \in Agents, Acquire(a) PROVE TypeOK'
  <2>1. UNCHANGED <<created, tasks, numTasks, offer, idle, activeThreads>>
    BY <1>7 DEF Acquire
  <2>2. pc' = [pc EXCEPT ![a] = LockFor[pc[a]]] /\ pc[a] \in LockPlaces
    BY <1>7 DEF Acquire
  <2>3. LockPlaces = {"lock_take", "lock_park", "lock_wake", "lock_leave", "lock_add",
                      "lock_check", "lock_probe", "lock_mark"}
    BY DEF LockPlaces, LockFor
  <2>4. /\ a \in Workers => LockFor[pc[a]] \in WorkerPlaces
        /\ a \in Clients => LockFor[pc[a]] \in ClientPlaces
        /\ a = Owner => LockFor[pc[a]] \in OwnerPlaces
        /\ LockFor[pc[a]] \notin {"none", "push"}
    BY <1>2, <2>2, <2>3 DEF LockFor
  <2>5. QED
    BY <1>1, <2>1, <2>2, <2>3, <2>4, TypeFrame
<1>8. CASE OwnerNext
  <2>1. CASE CreateWorker
    <3>1. created < NumThreads /\ created' = created + 1 /\ created' \in Workers
            /\ UNCHANGED <<tasks, numTasks, offer, idle, activeThreads>>
      BY <2>1, NumThreadsAssumption DEF CreateWorker, TypeOK, Workers
    <3>2. PICK p \in {"create", "own"} : pc' = [pc EXCEPT ![created + 1] = "try", ![Owner] = p]
      BY <2>1 DEF CreateWorker
    <3>3. \A b \in Agents : pc'[b] = IF b = Owner THEN p ELSE IF b = created + 1 THEN "try" ELSE pc[b]
      BY <3>1, <3>2 DEF TypeOK
    <3>4. \A w \in Workers : pc'[w] \in WorkerPlaces /\ (pc'[w] = "none" <=> created' < w)
      BY <3>1, <3>3, NumThreadsAssumption DEF TypeOK, Workers
    <3>5. \A c \in Clients : pc'[c] \in ClientPlaces
      BY <3>1, <3>3 DEF TypeOK
    <3>6. pc' \in [Agents -> P] /\ pc'[Owner] \in OwnerPlaces
      BY <3>1, <3>2, <3>3 DEF TypeOK
    <3>7. \A b \in Submitters : pc'[b] = "push" => offer'[b] \in Tasks
      BY <3>1, <3>3 DEF TypeOK
    <3>8. created' \in 0..NumThreads
      BY <3>1 DEF Workers
    <3>9. QED
      BY <3>1, <3>4, <3>5, <3>6, <3>7, <3>8 DEF TypeOK
  <2>2. CASE CreateFails
    BY <1>1, <2>2, TypeFrame DEF CreateFails
  <2>3. CASE BeginDestroy
    BY <1>1, <2>3, TypeFrame DEF BeginDestroy
  <2>4. CASE Mark
    <3>1. UNCHANGED <<idle, activeThreads, created, offer>> /\ pc' = [pc EXCEPT ![Owner] = "wait"]
      BY <2>4 DEF Mark
    <3>2. \A b \in Submitters : pc'[b] = "push" => pc[b] = "push"
      BY <3>1 DEF TypeOK
    <3>3. QED
      BY <2>4, <3>1, <3>2, MarkLemma, PlacesStep DEF TypeOK
  <2>5. QED
    BY <1>8, <2>1, <2>2, <2>3, <2>4 DEF OwnerNext
<1>9. CASE Finished \/ UNCHANGED vars
  BY <1>9 DEF Finished, vars, TypeOK
<1>10. QED
  BY <1>3, <1>4, <1>5, <1>6, <1>7, <1>8, <1>9 DEF Next

-----------------------------------------------------------------------------
(* ActiveThreads and Idle.                                                 *)

IdleCount == idle + Holders = IF activeThreads = 0 THEN 1 ELSE 0

\* A step that changes neither the number of active threads nor of those that
\* hold Idle.
LEMMA CountFrame ==
  ASSUME TypeOK, ActiveExact, IdleCount, NEW a \in Agents, NEW p,
         pc' = [pc EXCEPT ![a] = p], UNCHANGED <<idle, activeThreads>>,
         pc[a] \in Holding <=> p \in Holding,
         a \notin Workers \/ (pc[a] \in Inactive <=> p \in Inactive)
  PROVE  ActiveExact' /\ IdleCount'
BY Moves DEF ActiveExact, IdleCount

LEMMA CountStep ==
  TypeOK /\ ActiveExact /\ IdleCount /\ [Next]_vars => ActiveExact' /\ IdleCount'
<1> SUFFICES ASSUME TypeOK, ActiveExact, IdleCount, [Next]_vars PROVE ActiveExact' /\ IdleCount'
  OBVIOUS
<1> USE Kinds DEF counts, state, setup, work, Go, Holding, Inactive
<1>1. \A w \in Workers : pc[w] \notin Holding
  BY DEF TypeOK, WorkerPlaces, Submitting
<1>2. idle \in Nat /\ activeThreads \in Nat /\ Holders \in Nat /\ Actives \in Nat
  <2>1. Actives \in Nat /\ Holders \in Nat
    BY AgentsFinite, FS_Subset, FS_CardinalityType DEF Actives, Holders
  <2>2. QED
    BY <2>1 DEF TypeOK, ActiveExact
<1>3. ASSUME NEW w \in Workers, NEW p \in {"parked", "returned"}, Deactivate,
             pc' = [pc EXCEPT ![w] = p], pc[w] \notin Inactive
      PROVE  ActiveExact' /\ IdleCount'
  <2>1. Actives' = Actives - 1 /\ Holders' = Holders /\ Actives' \in Nat
    <3>1. Actives' = Actives - 1 /\ Holders' = Holders
      BY <1>1, <1>3, Moves
    <3>2. {v \in Workers : pc'[v] \notin Inactive} \subseteq Workers
      OBVIOUS
    <3>3. Actives' \in Nat
      BY <3>2, AgentsFinite, FS_Subset, FS_CardinalityType DEF Actives
    <3>4. QED
      BY <3>1, <3>3
  <2>2. activeThreads' = activeThreads - 1
          /\ idle' = idle + (IF activeThreads' = 0 THEN 1 ELSE 0)
    BY <1>3 DEF Deactivate
  <2>3. activeThreads # 0 /\ ActiveExact'
    BY <1>2, <2>1, <2>2 DEF ActiveExact
  <2>4. idle + Holders = 0
    BY <1>2, <2>3 DEF IdleCount
  <2>5. QED
    BY <1>2, <2>1, <2>2, <2>3, <2>4 DEF IdleCount
<1>4. ASSUME NEW w \in Workers, WorkerNext(w) PROVE ActiveExact' /\ IdleCount'
  <2>1. CASE TakeToken(w)
    BY <2>1, CountFrame DEF TakeToken
  <2>2. CASE NoToken(w)
    BY <2>2, CountFrame DEF NoToken
  <2>3. CASE Park(w) \/ Leave(w)
    BY <1>3, <2>3 DEF Park, Leave
  <2>4. CASE FinishTask(w)
    BY <2>4, CountFrame DEF FinishTask
  <2>5. CASE Take(w)
    <3>1. PICK p \in {"lock_leave", "run"} : pc' = [pc EXCEPT ![w] = p]
      BY <2>5 DEF Take, PopTask
    <3>2. QED
      BY <2>5, <3>1, CountFrame DEF Take
  <2>6. CASE Wake(w)
    <3>1. PICK p \in {"lock_leave", "run"} : pc' = [pc EXCEPT ![w] = p]
      BY <2>6 DEF Wake, PopTask
    <3>2. Actives' = Actives + 1 /\ Holders' = Holders
      BY <2>6, <3>1, Moves DEF Wake
    <3>3. activeThreads' = activeThreads + 1
            /\ IF activeThreads = 0 THEN idle > 0 /\ idle' = idle - 1 ELSE UNCHANGED idle
      BY <2>6 DEF Wake, Activate
    <3>4. ActiveExact'
      BY <3>2, <3>3 DEF ActiveExact
    <3>5. IdleCount'
      BY <1>2, <3>2, <3>3 DEF IdleCount
    <3>6. QED
      BY <3>4, <3>5
  <2>7. QED
    BY <1>4, <2>1, <2>2, <2>3, <2>4, <2>5, <2>6 DEF WorkerNext
<1>5. ASSUME NEW a \in Submitters, BeginSubmit(a) \/ SubmitNext(a) PROVE ActiveExact' /\ IdleCount'
  <2>1. pc[a] \in {"run", "user", "told", "add", "push", "undo"} /\ UNCHANGED <<idle, activeThreads>>
    BY <1>5 DEF BeginSubmit, SubmitNext, AppendTask, PushTask, PushFails, Undo, EndSubmit
  <2>2. PICK p \in {"lock_add", "add", "push", "undo", "run", "user"} : pc' = [pc EXCEPT ![a] = p]
    BY <1>5 DEF BeginSubmit, SubmitNext, AppendTask, PushTask, PushFails, Undo, EndSubmit, Returned
  <2>3. QED
    BY <2>1, <2>2, CountFrame
<1>6. ASSUME NEW a \in Agents, a \notin Workers, idle' = idle - 1, UNCHANGED activeThreads,
             pc[a] \notin Holding, NEW p \in Holding, pc' = [pc EXCEPT ![a] = p]
      PROVE  ActiveExact' /\ IdleCount'
  <2>1. Actives' = Actives /\ Holders' = Holders + 1
    BY <1>6, Moves
  <2>2. QED
    BY <1>2, <1>6, <2>1 DEF ActiveExact, IdleCount
<1>7. ASSUME NEW c \in Clients, Call(c) PROVE ActiveExact' /\ IdleCount'
  <2>1. pc[c] \in {"user", "told"} /\ UNCHANGED activeThreads
    BY <1>7 DEF Call
  <2>2. \/ idle' = idle - 1 /\ pc' = [pc EXCEPT ![c] = "hold_probe"]
        \/ UNCHANGED idle /\ \E p \in {"wait", "gone"} : pc' = [pc EXCEPT ![c] = p]
    BY <1>7 DEF Call
  <2>3. QED
    BY <1>6, <2>1, <2>2, CountFrame
<1>8. ASSUME NEW a \in Clients \cup {Owner}, TakeIdle(a) \/ GiveIdle(a) \/ CheckIdle(a)
      PROVE  ActiveExact' /\ IdleCount'
  <2>1. CASE TakeIdle(a)
    BY <1>6, <2>1 DEF TakeIdle
  <2>2. CASE GiveIdle(a)
    <3>1. PICK p \in {"lock_check", "lock_probe"} : pc' = [pc EXCEPT ![a] = p]
      BY <2>2 DEF GiveIdle
    <3>2. pc[a] \in Holding /\ idle' = idle + 1 /\ UNCHANGED activeThreads
      BY <2>2 DEF GiveIdle
    <3>3. Actives' = Actives /\ Holders' = Holders - 1
      BY <3>1, <3>2, Moves
    <3>4. QED
      BY <1>2, <3>2, <3>3 DEF ActiveExact, IdleCount
  <2>3. CASE CheckIdle(a)
    <3>1. AfterWait(a) \in {"told", "lock_mark", "failed", "destroyed"}
      BY DEF AfterWait
    <3>2. PICK p : pc' = [pc EXCEPT ![a] = p] /\ p \in {AfterWait(a), "wait", "user"}
      BY <2>3 DEF CheckIdle
    <3>3. p \notin Holding
      BY <3>1, <3>2
    <3>4. pc[a] \in {"check", "probe"} /\ UNCHANGED <<idle, activeThreads>>
      BY <2>3 DEF CheckIdle
    <3>5. QED
      BY <3>2, <3>3, <3>4, CountFrame
  <2>4. QED
    BY <1>8, <2>1, <2>2, <2>3
<1>9. ASSUME NEW a \in Agents, Acquire(a) PROVE ActiveExact' /\ IdleCount'
  <2>1. UNCHANGED <<idle, activeThreads>>
    BY <1>9 DEF Acquire
  <2>2. pc' = [pc EXCEPT ![a] = LockFor[pc[a]]] /\ pc[a] \in LockPlaces
    BY <1>9 DEF Acquire
  <2>3. LockPlaces = {"lock_take", "lock_park", "lock_wake", "lock_leave", "lock_add",
                      "lock_check", "lock_probe", "lock_mark"}
    BY DEF LockPlaces, LockFor
  <2>4. /\ pc[a] \notin Holding /\ LockFor[pc[a]] \notin Holding
        /\ pc[a] \in Inactive <=> LockFor[pc[a]] \in Inactive
    BY <2>2, <2>3 DEF LockFor
  <2>5. QED
    BY <2>1, <2>2, <2>4, CountFrame
<1>10. CASE OwnerNext
  <2>1. CASE CreateWorker
    <3>1. created < NumThreads /\ created + 1 \in Workers /\ UNCHANGED <<idle, activeThreads>>
      BY <2>1, NumThreadsAssumption DEF CreateWorker, TypeOK, Workers
    <3>2. PICK p \in {"create", "own"} : pc' = [pc EXCEPT ![created + 1] = "try", ![Owner] = p]
      BY <2>1 DEF CreateWorker
    <3>3. \A b \in Agents : pc'[b] = IF b = Owner THEN p ELSE IF b = created + 1 THEN "try" ELSE pc[b]
      BY <3>1, <3>2 DEF TypeOK
    <3>4. pc[created + 1] = "none" /\ pc[Owner] = "create"
      BY <2>1, <3>1 DEF CreateWorker, TypeOK
    <3>5. /\ {w \in Workers : pc'[w] \notin Inactive} = {w \in Workers : pc[w] \notin Inactive}
          /\ {a \in Agents : pc'[a] \in Holding} = {a \in Agents : pc[a] \in Holding}
      BY <3>3, <3>4
    <3>6. QED
      BY <3>1, <3>5 DEF ActiveExact, IdleCount, Actives, Holders
  <2>2. CASE CreateFails
    BY <2>2, CountFrame DEF CreateFails
  <2>3. CASE BeginDestroy
    BY <2>3, CountFrame DEF BeginDestroy
  <2>4. CASE Mark
    BY <2>4, CountFrame DEF Mark
  <2>5. QED
    BY <1>10, <2>1, <2>2, <2>3, <2>4 DEF OwnerNext
<1>11. CASE Finished \/ UNCHANGED vars
  BY <1>11 DEF Finished, vars, ActiveExact, IdleCount, Actives, Holders
<1>12. QED
  BY <1>4, <1>5, <1>7, <1>8, <1>9, <1>10, <1>11 DEF Next

-----------------------------------------------------------------------------
(* The end of the threads.                                                 *)

Busy == {"run"} \cup Submitting

\* A step of a worker or a client that does not touch the queue.
LEMMA StagesFrame ==
  ASSUME TypeOK, Stages, NEW a \in Submitters, NEW p, pc' = [pc EXCEPT ![a] = p],
         UNCHANGED <<tasks, created, marked>>,
         p \in Busy => pc[a] \in Busy,
         a \in Workers => (pc[a] \in LeftPlaces <=> p \in LeftPlaces),
         a \in Clients => pc[a] # "gone" /\ pc[Owner] # "create" /\ p # "run"
  PROVE  Stages'
<1> USE Kinds
<1>1. \A b \in Agents : pc'[b] = IF b = a THEN p ELSE pc[b]
  BY DEF TypeOK
<1>2. pc'[Owner] = pc[Owner] /\ Closing' = Closing
  BY <1>1 DEF Closing
<1>3. Left' = Left
  BY <1>1 DEF Left
<1>4. pc'[Owner] = "create" => \A c \in Clients : pc'[c] = "user"
  BY <1>1, <1>2 DEF Stages
<1>5. pc'[Owner] \in Waiting => marked' \/ \A c \in Clients : pc'[c] = "gone"
  BY <1>1, <1>2 DEF Stages
<1>6. pc[Owner] = "create" \/ Closing => p \notin Busy
  BY DEF Stages, Busy, TypeOK, ClientPlaces, Waiting, Submitting
<1>7. pc'[Owner] = "create" \/ Closing' =>
       /\ \A w \in Workers : pc'[w] # "run" /\ pc'[w] \notin Submitting
       /\ \A c \in Clients : pc'[c] \notin Submitting
  BY <1>1, <1>2, <1>6 DEF Stages, Busy
<1>8. QED
  BY <1>2, <1>3, <1>4, <1>5, <1>7 DEF Stages

\* A step of the owner that does not touch the queue.
LEMMA OwnerFrame ==
  ASSUME TypeOK, Stages, NEW p, pc' = [pc EXCEPT ![Owner] = p], p # "create",
         UNCHANGED <<tasks, created, marked>>,
         p \in Waiting => marked \/ \A c \in Clients : pc[c] = "gone",
         p \in {"own", "lock_mark", "mark"} => ~marked,
         Closing' => Closing
  PROVE  Stages'
<1> USE Kinds
<1>1. \A b \in Agents : pc'[b] = IF b = Owner THEN p ELSE pc[b]
  BY DEF TypeOK
<1>2. Left' = Left
  BY <1>1 DEF Left
<1>3. QED
  BY <1>1, <1>2 DEF Stages

\* The end of all threads that are active is the end of all that were created,
\* when the null tasks are gone.
LEMMA AllReturned ==
  ASSUME TypeOK, ActiveExact, Stages, marked, Quiescent
  PROVE  \A w \in Workers : pc[w] = "returned"
<1>1. {w \in Workers : pc[w] \notin Inactive} = {}
  <2>1. {w \in Workers : pc[w] \notin Inactive} \subseteq Workers
    OBVIOUS
  <2>2. IsFiniteSet({w \in Workers : pc[w] \notin Inactive})
    BY <2>1, AgentsFinite, FS_Subset
  <2>3. QED
    BY <2>2, FS_EmptySet DEF ActiveExact, Actives, Quiescent
<1>2. created = NumThreads
  <2>1. NumThreads \in Workers /\ pc[NumThreads] # "none"
    BY <1>1, NumThreadsAssumption DEF Workers, Inactive
  <2>2. QED
    BY <2>1, NumThreadsAssumption DEF TypeOK, Workers
<1>3. Cardinality(Left) = NumThreads
  <2>1. Left \subseteq Workers
    BY DEF Left
  <2>2. Cardinality(Left) \in Nat
    BY <2>1, AgentsFinite, FS_Subset, FS_CardinalityType
  <2>3. Len(tasks) = 0
    BY DEF TypeOK, Quiescent
  <2>4. QED
    BY <1>2, <2>2, <2>3 DEF Stages
<1>4. Cardinality(Workers) = NumThreads
  BY NumThreadsAssumption, FS_Interval DEF Workers
<1>5. Left = Workers
  BY <1>3, <1>4, AgentsFinite, FS_Subset DEF Left
<1>6. QED
  BY <1>1, <1>5 DEF Left, LeftPlaces, Inactive

LEMMA StagesStep == TypeOK /\ ActiveExact /\ Stages /\ [Next]_vars => Stages'
<1> SUFFICES ASSUME TypeOK, ActiveExact, Stages, [Next]_vars PROVE Stages'
  OBVIOUS
<1> USE Kinds DEF counts, state, setup, work, Go
<1>1. \A c \in Clients : pc[c] # "user" => pc[Owner] # "create"
  BY DEF Stages
<1>2. ASSUME NEW w \in Workers, WorkerNext(w) PROVE Stages'
  <2>1. CASE TakeToken(w)
    BY <2>1, StagesFrame DEF TakeToken, Busy, Submitting, LeftPlaces
  <2>2. CASE NoToken(w)
    BY <2>2, StagesFrame DEF NoToken, Busy, Submitting, LeftPlaces
  <2>3. CASE Park(w)
    BY <2>3, StagesFrame DEF Park, Busy, Submitting, LeftPlaces
  <2>4. CASE Leave(w)
    BY <2>4, StagesFrame DEF Leave, Busy, Submitting, LeftPlaces
  <2>5. CASE FinishTask(w)
    BY <2>5, StagesFrame DEF FinishTask, Busy, Submitting, LeftPlaces
  <2>6. CASE Take(w) \/ Wake(w)
    <3>1. /\ PopTask(w) /\ pc[w] \in {"take", "wake"} /\ UNCHANGED <<created, marked>>
          /\ pc' = [pc EXCEPT ![w] = IF Head(tasks) = Nil THEN "lock_leave" ELSE "run"]
      BY <2>6 DEF Take, Wake, PopTask
    <3>2. /\ Len(tasks) \in Nat /\ Len(tasks) > 0 /\ Len(tasks') = Len(tasks) - 1
          /\ \A i \in 1..Len(tasks') : tasks'[i] = tasks[i + 1] /\ i + 1 \in 1..Len(tasks)
          /\ Head(tasks) = tasks[1] /\ 1 \in 1..Len(tasks)
      BY <3>1, PopLemma
    <3>3. tasks # <<>> /\ pc[Owner] # "create"
      BY <3>1 DEF PopTask, Stages
    <3>4. CASE Head(tasks) = Nil
      <4>1. marked /\ marked'
        BY <3>1, <3>2, <3>4 DEF Stages
      <4>2. pc' = [pc EXCEPT ![w] = "lock_leave"]
        BY <3>1, <3>4
      <4>3. Left' = Left \cup {w} /\ w \notin Left
        BY <3>1, <4>2 DEF Left, LeftPlaces, TypeOK
      <4>4. Cardinality(Left') = Cardinality(Left) + 1 /\ Cardinality(Left) \in Nat
        BY <4>3, AgentsFinite, FS_Subset, FS_AddElement, FS_CardinalityType DEF Left
      <4>5. Len(tasks') + Cardinality(Left') = created'
        BY <3>1, <3>2, <4>1, <4>4 DEF Stages
      <4>6. /\ \A v \in Workers : pc'[v] # "run" /\ pc'[v] \notin Submitting
            /\ \A c \in Clients : pc'[c] \notin Submitting
        BY <4>1, <4>2 DEF Stages, Closing, Submitting, TypeOK
      <4>7. \A i \in 1..Len(tasks') : tasks'[i] = Nil
        BY <3>2, <4>1 DEF Stages, Closing
      <4>8. pc'[Owner] = pc[Owner]
        BY <4>2
      <4>9. QED
        BY <3>3, <4>1, <4>5, <4>6, <4>7, <4>8 DEF Stages
    <3>5. CASE Head(tasks) # Nil
      <4>1. ~Closing /\ ~marked /\ ~marked'
        BY <3>1, <3>2, <3>5 DEF Stages, Closing
      <4>2. pc' = [pc EXCEPT ![w] = "run"]
        BY <3>1, <3>5
      <4>3. pc'[Owner] = pc[Owner] /\ ~Closing' /\ \A c \in Clients : pc'[c] = pc[c]
        BY <4>1, <4>2 DEF Closing, TypeOK
      <4>4. Left' = Left
        BY <3>1, <4>2 DEF Left, LeftPlaces, TypeOK
      <4>5. \A i \in 1..Len(tasks') : tasks'[i] # Nil
        BY <3>2, <4>1 DEF Stages
      <4>6. QED
        BY <3>3, <4>1, <4>3, <4>4, <4>5 DEF Stages
    <3>6. QED
      BY <3>4, <3>5
  <2>7. QED
    BY <1>2, <2>1, <2>2, <2>3, <2>4, <2>5, <2>6 DEF WorkerNext
<1>3. ASSUME NEW a \in Submitters, BeginSubmit(a) \/ SubmitNext(a) PROVE Stages'
  <2>1. CASE BeginSubmit(a)
    <3>1. pc' = [pc EXCEPT ![a] = "lock_add"] /\ UNCHANGED <<tasks, created, marked>>
      BY <2>1 DEF BeginSubmit
    <3>2. CASE a \in Workers
      BY <2>1, <3>1, <3>2, StagesFrame DEF BeginSubmit, Busy, Submitting, LeftPlaces
    <3>3. CASE a \in Clients
      <4>1. pc[Owner] = "own" /\ ~marked /\ a # Owner
        BY <2>1, <3>3 DEF BeginSubmit, Stages
      <4>2. pc'[Owner] = "own" /\ ~Closing' /\ Left' = Left
        BY <3>1, <3>3, <4>1 DEF Closing, Left, TypeOK
      <4>3. QED
        BY <3>1, <4>1, <4>2 DEF Stages, Waiting
    <3>4. QED
      BY <3>2, <3>3
  <2>2. ASSUME NEW p \in Submitting \cup {Returned(a)}, pc[a] \in Submitting,
               pc' = [pc EXCEPT ![a] = p], UNCHANGED <<tasks, created, marked>>
        PROVE  Stages'
    BY <1>1, <2>2, StagesFrame DEF Returned, Busy, Submitting, LeftPlaces
  <2>3. CASE AppendTask(a) \/ PushFails(a) \/ Undo(a) \/ EndSubmit(a)
    <3>1. pc[a] \in Submitting /\ UNCHANGED <<tasks, created, marked>>
      BY <2>3 DEF AppendTask, PushFails, Undo, EndSubmit, Submitting
    <3>2. \E p \in Submitting \cup {Returned(a)} : pc' = [pc EXCEPT ![a] = p]
      BY <2>3 DEF AppendTask, PushFails, Undo, EndSubmit, Submitting
    <3>3. QED
      BY <2>2, <3>1, <3>2
  <2>4. CASE PushTask(a)
    <3>1. /\ pc[a] = "push" /\ pc' = [pc EXCEPT ![a] = "add"]
          /\ tasks' = Append(tasks, offer[a]) /\ UNCHANGED <<created, marked>>
      BY <2>4 DEF PushTask
    <3>2. pc[Owner] # "create" /\ ~Closing /\ ~marked
      BY <3>1 DEF Stages, Closing, Submitting
    <3>3. offer[a] # Nil /\ offer[a] \in Tasks
      BY <3>1, TaskAssumption DEF TypeOK
    <3>4. \A i \in 1..Len(tasks') : tasks'[i] # Nil
      BY <3>1, <3>2, <3>3 DEF Stages, TypeOK
    <3>5. Left' = Left /\ pc'[Owner] = pc[Owner] /\ ~Closing'
      BY <3>1, <3>2 DEF Left, LeftPlaces, Closing, TypeOK
    <3>6. pc[Owner] \in Waiting => \A c \in Clients : pc'[c] = "gone"
      BY <3>1, <3>2 DEF Stages, TypeOK
    <3>7. QED
      BY <3>1, <3>2, <3>4, <3>5, <3>6 DEF Stages
  <2>5. QED
    BY <1>3, <2>1, <2>3, <2>4 DEF SubmitNext
<1>4. ASSUME NEW c \in Clients, Call(c) PROVE Stages'
  <2>1. PICK p \in {"wait", "hold_probe", "gone"} : pc' = [pc EXCEPT ![c] = p]
    BY <1>4 DEF Call
  <2>2. pc[c] \in {"user", "told"} /\ pc[Owner] = "own" /\ UNCHANGED <<tasks, created, marked>>
    BY <1>4 DEF Call
  <2>3. QED
    BY <2>1, <2>2, StagesFrame DEF Busy, Submitting
<1>5. ASSUME NEW a \in Clients, TakeIdle(a) \/ GiveIdle(a) \/ CheckIdle(a) PROVE Stages'
  <2>1. PICK p \in {"hold", "lock_check", "lock_probe", "told", "wait", "user"} :
            pc' = [pc EXCEPT ![a] = p]
    BY <1>5 DEF TakeIdle, GiveIdle, CheckIdle, AfterWait
  <2>2. pc[a] \in {"wait", "hold", "hold_probe", "check", "probe"} /\ UNCHANGED <<tasks, created, marked>>
    BY <1>5 DEF TakeIdle, GiveIdle, CheckIdle
  <2>3. QED
    BY <1>1, <2>1, <2>2, StagesFrame DEF Busy, Submitting
<1>6. CASE TakeIdle(Owner) \/ GiveIdle(Owner)
  <2>1. pc[Owner] \in Waiting /\ UNCHANGED <<tasks, created, marked>>
    BY <1>6 DEF TakeIdle, GiveIdle, Waiting, TypeOK, OwnerPlaces
  <2>2. PICK p \in {"hold", "lock_check"} : pc' = [pc EXCEPT ![Owner] = p]
    BY <1>6 DEF TakeIdle, GiveIdle, TypeOK, OwnerPlaces, Waiting
  <2>3. QED
    BY <2>1, <2>2, OwnerFrame DEF Stages, Closing, Waiting, TypeOK
<1>7. CASE CheckIdle(Owner)
  <2>1. pc[Owner] = "check" /\ UNCHANGED <<tasks, created, marked>>
    BY <1>7 DEF CheckIdle, TypeOK, OwnerPlaces, Waiting
  <2>2. marked \/ \A c \in Clients : pc[c] = "gone"
    BY <2>1 DEF Stages, Waiting
  <2>3. CASE ~Quiescent
    <3>1. pc' = [pc EXCEPT ![Owner] = "wait"]
      BY <1>7, <2>1, <2>3 DEF CheckIdle
    <3>2. QED
      BY <2>1, <2>2, <3>1, OwnerFrame DEF Closing, TypeOK
  <2>4. CASE Quiescent /\ marked
    <3>1. PICK p \in {"failed", "destroyed"} : pc' = [pc EXCEPT ![Owner] = p]
      BY <1>7, <2>1, <2>4 DEF CheckIdle, AfterWait
    <3>2. QED
      BY <2>1, <2>4, <3>1, OwnerFrame DEF Closing, Waiting
  <2>5. CASE Quiescent /\ ~marked
    <3>1. pc' = [pc EXCEPT ![Owner] = "lock_mark"]
      BY <1>7, <2>1, <2>5 DEF CheckIdle, AfterWait
    <3>2. \A b \in Agents : pc'[b] = IF b = Owner THEN "lock_mark" ELSE pc[b]
      BY <3>1 DEF TypeOK
    <3>3. \A w \in Workers : pc[w] \in Inactive
      <4>1. {w \in Workers : pc[w] \notin Inactive} \subseteq Workers
        OBVIOUS
      <4>2. IsFiniteSet({w \in Workers : pc[w] \notin Inactive})
        BY <4>1, AgentsFinite, FS_Subset
      <4>3. {w \in Workers : pc[w] \notin Inactive} = {}
        BY <2>5, <4>2, FS_EmptySet DEF ActiveExact, Actives, Quiescent
      <4>4. QED
        BY <4>3
    <3>4. Len(tasks') = 0 /\ Left' = Left
      BY <2>1, <2>5, <3>2 DEF Quiescent, TypeOK, Left
    <3>5. /\ \A w \in Workers : pc'[w] # "run" /\ pc'[w] \notin Submitting
          /\ \A c \in Clients : pc'[c] \notin Submitting
      BY <2>2, <2>5, <3>2, <3>3 DEF Inactive, Submitting
    <3>6. pc'[Owner] = "lock_mark" /\ \A i \in 1..Len(tasks') : tasks'[i] = Nil
      BY <3>2, <3>4
    <3>7. QED
      BY <2>1, <2>5, <3>4, <3>5, <3>6 DEF Stages, Waiting
  <2>6. QED
    BY <2>3, <2>4, <2>5
<1>8. ASSUME NEW a \in Agents, Acquire(a) PROVE Stages'
  <2>1. UNCHANGED <<tasks, created, marked>>
    BY <1>8 DEF Acquire
  <2>2. pc' = [pc EXCEPT ![a] = LockFor[pc[a]]] /\ pc[a] \in LockPlaces
    BY <1>8 DEF Acquire
  <2>3. LockPlaces = {"lock_take", "lock_park", "lock_wake", "lock_leave", "lock_add",
                      "lock_check", "lock_probe", "lock_mark"}
    BY DEF LockPlaces, LockFor
  <2>4. CASE a # Owner
    <3>1. /\ LockFor[pc[a]] \in Busy => pc[a] \in Busy
          /\ pc[a] \in LeftPlaces <=> LockFor[pc[a]] \in LeftPlaces
          /\ LockFor[pc[a]] # "run" /\ pc[a] \notin {"gone", "user"}
      BY <2>2, <2>3 DEF LockFor, Busy, Submitting, LeftPlaces
    <3>2. QED
      BY <1>1, <2>1, <2>2, <2>4, <3>1, StagesFrame
  <2>5. CASE a = Owner
    <3>1. \/ pc[Owner] = "lock_check" /\ pc' = [pc EXCEPT ![Owner] = "check"]
          \/ pc[Owner] = "lock_mark" /\ pc' = [pc EXCEPT ![Owner] = "mark"]
      <4>1. pc[Owner] \in OwnerPlaces /\ pc[Owner] \in LockPlaces
        BY <2>2, <2>5 DEF TypeOK
      <4>2. pc[Owner] \in {"lock_check", "lock_mark"}
        BY <4>1, <2>3 DEF OwnerPlaces, Waiting
      <4>3. LockFor["lock_check"] = "check" /\ LockFor["lock_mark"] = "mark"
        BY DEF LockFor
      <4>4. QED
        BY <2>2, <2>5, <4>2, <4>3
    <3>2. CASE pc[Owner] = "lock_check" /\ pc' = [pc EXCEPT ![Owner] = "check"]
      BY <2>1, <3>2, OwnerFrame DEF Stages, Closing, Waiting, TypeOK
    <3>3. CASE pc[Owner] = "lock_mark" /\ pc' = [pc EXCEPT ![Owner] = "mark"]
      BY <2>1, <3>3, OwnerFrame DEF Stages, Closing, Waiting, TypeOK
    <3>4. QED
      BY <3>1, <3>2, <3>3
  <2>6. QED
    BY <2>4, <2>5
<1>9. CASE CreateWorker
  <2>1. created < NumThreads /\ created + 1 \in Workers /\ pc[Owner] = "create"
          /\ UNCHANGED <<tasks, marked>>
    BY <1>9, NumThreadsAssumption DEF CreateWorker, TypeOK, Workers
  <2>2. PICK p \in {"create", "own"} : pc' = [pc EXCEPT ![created + 1] = "try", ![Owner] = p]
    BY <1>9 DEF CreateWorker
  <2>3. \A b \in Agents : pc'[b] = IF b = Owner THEN p ELSE IF b = created + 1 THEN "try" ELSE pc[b]
    BY <2>1, <2>2 DEF TypeOK
  <2>4. ~marked /\ ~Closing' /\ Left = {} /\ Left' = {}
    BY <2>1, <2>3 DEF Stages, Closing, Left, LeftPlaces
  <2>5. pc'[Owner] \notin Waiting /\ \A c \in Clients : pc'[c] = "user"
    BY <2>1, <2>3 DEF Stages, Waiting
  <2>6. /\ \A w \in Workers : pc'[w] # "run" /\ pc'[w] \notin Submitting
        /\ \A c \in Clients : pc'[c] \notin Submitting
    BY <2>1, <2>3, <2>5 DEF Stages, Submitting
  <2>7. QED
    BY <2>1, <2>4, <2>5, <2>6 DEF Stages
<1>10. CASE CreateFails
  <2>1. pc[Owner] = "create" /\ pc' = [pc EXCEPT ![Owner] = "lock_mark"]
          /\ UNCHANGED <<tasks, created, marked>>
    BY <1>10 DEF CreateFails
  <2>2. \A b \in Agents : pc'[b] = IF b = Owner THEN "lock_mark" ELSE pc[b]
    BY <2>1 DEF TypeOK
  <2>3. ~marked /\ tasks = <<>> /\ Len(tasks) = 0 /\ Left' = Left
    BY <2>1, <2>2 DEF Stages, Left
  <2>4. /\ \A w \in Workers : pc'[w] # "run" /\ pc'[w] \notin Submitting
        /\ \A c \in Clients : pc'[c] \notin Submitting
    BY <2>1, <2>2 DEF Stages
  <2>5. QED
    BY <2>1, <2>2, <2>3, <2>4 DEF Stages, Waiting
<1>11. CASE BeginDestroy
  BY <1>11, OwnerFrame DEF BeginDestroy, Closing, TypeOK
<1>12. CASE Mark
  <2>1. pc[Owner] = "mark" /\ pc' = [pc EXCEPT ![Owner] = "wait"] /\ marked' = TRUE
          /\ created' = created
    BY <1>12 DEF Mark
  <2>2. \A b \in Agents : pc'[b] = IF b = Owner THEN "wait" ELSE pc[b]
    BY <2>1 DEF TypeOK
  <2>3. ~marked /\ Left = {} /\ Left' = {}
    BY <2>1, <2>2 DEF Stages, Left
  <2>4. Len(tasks) \in Nat /\ Len(tasks) = 0
    <3>1. Len(tasks) \in Nat
      BY <1>12, MarkLemma
    <3>2. \A i \in 1..Len(tasks) : tasks[i] = Nil /\ tasks[i] # Nil
      BY <2>1, <2>3 DEF Stages, Closing
    <3>3. QED
      BY <3>1, <3>2
  <2>5. Len(tasks') = created /\ \A i \in 1..Len(tasks') : tasks'[i] = Nil
    BY <1>12, <2>4, MarkLemma DEF TypeOK
  <2>6. Cardinality(Left') = 0 /\ created \in Nat
    BY <2>3, FS_EmptySet, NumThreadsAssumption DEF TypeOK
  <2>7. /\ \A w \in Workers : pc'[w] # "run" /\ pc'[w] \notin Submitting
        /\ \A c \in Clients : pc'[c] \notin Submitting
    BY <2>1, <2>2 DEF Stages, Closing
  <2>8. pc'[Owner] = "wait" /\ marked'
    BY <2>1, <2>2
  <2>9. Len(tasks') + Cardinality(Left') = created'
    BY <2>1, <2>5, <2>6
  <2>10. QED
    BY <2>5, <2>7, <2>8, <2>9 DEF Stages
<1>13. CASE Finished \/ UNCHANGED vars
  <2>1. UNCHANGED <<tasks, created, marked, pc>>
    BY <1>13 DEF Finished, vars
  <2>2. Left' = Left /\ Closing' = Closing
    BY <2>1 DEF Left, Closing
  <2>3. QED
    BY <2>1, <2>2 DEF Stages
<1>14. QED
  BY <1>2, <1>3, <1>4, <1>5, <1>6, <1>7, <1>8, <1>9, <1>10, <1>11, <1>12, <1>13
  DEF Next, OwnerNext

-----------------------------------------------------------------------------
\* The owner ends only when it has seen every thread return, and a thread that
\* has returned takes no step.
LEMMA FreedStep == IInv /\ [Next]_vars => FreedUnused'
<1> SUFFICES ASSUME IInv, [Next]_vars PROVE FreedUnused'
  OBVIOUS
<1> USE Kinds DEF IInv
<1> DEFINE Ended == pc[Owner] \in {"failed", "destroyed"}
           Still == \A w \in Workers : pc[w] \in {"none", "returned"}
<1>1. CASE Ended
  <2>1. Still
    BY <1>1 DEF FreedUnused
  <2>2. pc[Owner] # "create"
    BY <1>1
  <2>3. \A w \in Workers : ~WorkerNext(w) /\ ~BeginSubmit(w) /\ ~SubmitNext(w) /\ ~Acquire(w)
    <3>1. LockPlaces = {"lock_take", "lock_park", "lock_wake", "lock_leave", "lock_add",
                        "lock_check", "lock_probe", "lock_mark"}
      BY DEF LockPlaces, LockFor
    <3>2. QED
      BY <2>1, <3>1 DEF WorkerNext, TakeToken, NoToken, Park, Take, Wake, FinishTask, Leave,
                   BeginSubmit, SubmitNext, AppendTask, PushTask, PushFails, Undo, EndSubmit,
                   Acquire
  <2>4. ~OwnerNext
    BY <1>1 DEF OwnerNext, CreateWorker, CreateFails, BeginDestroy, Mark
  <2>5. ASSUME NEW b \in Clients \cup {Owner}, NEW p, pc' = [pc EXCEPT ![b] = p] PROVE Still'
    BY <2>1, <2>5 DEF TypeOK
  <2>6. ASSUME NEW c \in Clients, BeginSubmit(c) \/ SubmitNext(c) \/ Call(c) PROVE Still'
    <3>1. \E p : pc' = [pc EXCEPT ![c] = p]
      BY <2>6 DEF BeginSubmit, SubmitNext, AppendTask, PushTask, PushFails, Undo, EndSubmit, Call, Go
    <3>2. QED
      BY <2>5, <3>1
  <2>7. ASSUME NEW b \in Clients \cup {Owner},
               TakeIdle(b) \/ GiveIdle(b) \/ CheckIdle(b) \/ Acquire(b)
        PROVE  Still'
    <3>1. \E p : pc' = [pc EXCEPT ![b] = p]
      BY <2>7 DEF TakeIdle, GiveIdle, CheckIdle, Acquire, Go
    <3>2. QED
      BY <2>5, <3>1
  <2>8. ASSUME Finished \/ UNCHANGED vars PROVE Still'
    <3>1. pc' = pc
      BY <2>8 DEF Finished, vars
    <3>2. QED
      BY <2>1, <3>1
  <2>9. Still'
    BY <2>3, <2>4, <2>6, <2>7, <2>8 DEF Next
  <2>10. QED
    BY <2>9 DEF FreedUnused
<1>2. CASE ~Ended
  <2>1. CASE CheckIdle(Owner) /\ Ended'
    <3>1. Quiescent /\ marked
      BY <1>2, <2>1 DEF CheckIdle, AfterWait, Go, TypeOK
    <3>2. \A w \in Workers : pc[w] = "returned"
      BY <3>1, AllReturned
    <3>3. \E p : pc' = [pc EXCEPT ![Owner] = p]
      BY <2>1 DEF CheckIdle, Go
    <3>4. QED
      BY <3>2, <3>3 DEF FreedUnused, TypeOK
  <2>2. CASE ~CheckIdle(Owner)
    <3>1. ASSUME NEW b \in Submitters, NEW p, pc' = [pc EXCEPT ![b] = p] PROVE ~Ended'
      BY <1>2, <3>1 DEF TypeOK
    <3>2. ASSUME NEW p, p \notin {"failed", "destroyed"}, pc' = [pc EXCEPT ![Owner] = p] PROVE ~Ended'
      BY <3>2 DEF TypeOK
    <3>3. ASSUME NEW w \in Workers, WorkerNext(w) PROVE ~Ended'
      <4>1. \E p : pc' = [pc EXCEPT ![w] = p]
        BY <3>3 DEF WorkerNext, TakeToken, NoToken, Park, Take, Wake, PopTask, FinishTask, Leave, Go
      <4>2. QED
        BY <3>1, <4>1
    <3>4. ASSUME NEW b \in Submitters, BeginSubmit(b) \/ SubmitNext(b) PROVE ~Ended'
      <4>1. \E p : pc' = [pc EXCEPT ![b] = p]
        BY <3>4 DEF BeginSubmit, SubmitNext, AppendTask, PushTask, PushFails, Undo, EndSubmit, Go
      <4>2. QED
        BY <3>1, <4>1
    <3>5. ASSUME NEW c \in Clients, Call(c) \/ TakeIdle(c) \/ GiveIdle(c) \/ CheckIdle(c)
          PROVE  ~Ended'
      <4>1. \E p : pc' = [pc EXCEPT ![c] = p]
        BY <3>5 DEF Call, TakeIdle, GiveIdle, CheckIdle, Go
      <4>2. QED
        BY <3>1, <4>1
    <3>6. ASSUME TakeIdle(Owner) \/ GiveIdle(Owner) PROVE ~Ended'
      <4>1. \E p \in {"hold", "lock_check", "lock_probe"} : pc' = [pc EXCEPT ![Owner] = p]
        BY <3>6 DEF TakeIdle, GiveIdle, Go
      <4>2. QED
        BY <3>2, <4>1
    <3>7. ASSUME NEW b \in Agents, Acquire(b) PROVE ~Ended'
      <4>1. pc' = [pc EXCEPT ![b] = LockFor[pc[b]]] /\ pc[b] \in LockPlaces
        BY <3>7 DEF Acquire, Go
      <4>2. LockPlaces = {"lock_take", "lock_park", "lock_wake", "lock_leave", "lock_add",
                          "lock_check", "lock_probe", "lock_mark"}
        BY DEF LockPlaces, LockFor
      <4>3. LockFor[pc[b]] \notin {"failed", "destroyed"}
        BY <4>1, <4>2 DEF LockFor
      <4>4. QED
        BY <3>1, <3>2, <4>1, <4>3
    <3>8. ASSUME CreateWorker PROVE ~Ended'
      <4>1. PICK p \in {"create", "own"} : pc' = [pc EXCEPT ![created + 1] = "try", ![Owner] = p]
        BY <3>8 DEF CreateWorker
      <4>2. pc'[Owner] = p
        BY <4>1 DEF TypeOK
      <4>3. QED
        BY <4>2
    <3>9. ASSUME CreateFails \/ BeginDestroy \/ Mark PROVE ~Ended'
      <4>1. \E p \in {"lock_mark", "wait"} : pc' = [pc EXCEPT ![Owner] = p]
        BY <3>9 DEF CreateFails, BeginDestroy, Mark, Go
      <4>2. QED
        BY <3>2, <4>1
    <3>10. ASSUME Finished \/ UNCHANGED vars PROVE ~Ended'
      <4>1. pc' = pc
        BY <3>10 DEF Finished, vars
      <4>2. QED
        BY <1>2, <4>1
    <3>11. ~Ended'
      BY <2>2, <3>3, <3>4, <3>5, <3>6, <3>7, <3>8, <3>9, <3>10 DEF Next, OwnerNext
    <3>12. QED
      BY <3>11 DEF FreedUnused
  <2>3. CASE ~Ended'
    BY <2>3 DEF FreedUnused
  <2>4. QED
    BY <2>1, <2>2, <2>3
<1>3. QED
  BY <1>1, <1>2

LEMMA InvCorrect == Spec => []IInv
<1>1. IInv /\ [Next]_vars => IInv'
  <2> SUFFICES ASSUME IInv, [Next]_vars PROVE IInv'
    OBVIOUS
  <2>1. IdleExact <=> IdleCount
    BY DEF IdleExact, IdleCount, Places, Holders, Holding
  <2>2. IdleExact' <=> IdleCount'
    BY DEF IdleExact, IdleCount, Places, Holders, Holding
  <2>3. TypeOK' /\ ActiveExact' /\ IdleExact'
    BY <2>1, <2>2, TypeStep, CountStep DEF IInv
  <2>4. Stages' /\ FreedUnused'
    BY StagesStep, FreedStep DEF IInv
  <2>5. QED
    BY <2>3, <2>4 DEF IInv
<1>2. QED
  BY <1>1, InitInv, PTL DEF Spec

\* Every variable the counts rest on keeps its type, NumTasks is the length of the
\* queue and the threads exist in the order of their creation.
THEOREM TypeCorrect == Spec => []TypeOK
<1>1. IInv => TypeOK
  BY DEF IInv
<1>2. QED
  BY <1>1, InvCorrect, PTL

\* Idle is open once exactly when no thread is active (Park, Wake, Leave, and the
\* waiters that take it and give it back), however many threads, clients and
\* failures there are.
THEOREM IdleCorrect == Spec => []IdleExact
<1>1. IInv => IdleExact
  BY DEF IInv
<1>2. QED
  BY <1>1, InvCorrect, PTL

\* When the destructor or a constructor that failed returns and the members are
\* freed, no thread can touch them any more, although none was joined.
THEOREM FreedCorrect == Spec => []FreedUnused
<1>1. IInv => FreedUnused
  BY DEF IInv
<1>2. QED
  BY <1>1, InvCorrect, PTL

-----------------------------------------------------------------------------
(* The refinement.                                                         *)

Entries(s) == {s[i] : i \in DOMAIN s}
RunPlaces == {"run"} \cup Submitting

\* What somebody has accepted: queued, being executed or ended.
Settled == Entries(tasks) \cup {task[w] : w \in Workers} \cup done

\* A worker has a task exactly while it executes it; a task nobody submitted is
\* nowhere; one that is being appended is in one submitter's hands and nowhere
\* else.
Where ==
  /\ task \in [Workers -> Tasks \cup {Nil}]
  /\ giver \in [Tasks -> Submitters \cup {Nil}]
  /\ \A w \in Workers : pc[w] \in RunPlaces <=> task[w] # Nil
  /\ \A t \in Tasks : giver[t] = Nil => t \notin Settled /\ \A a \in Submitters : offer[a] # t
  /\ \A a \in Submitters : offer[a] # Nil =>
       offer[a] \notin Settled /\ \A b \in Submitters \ {a} : offer[b] # offer[a]

RInv == IInv /\ Where

\* A step that leaves the tasks alone.
Bystander == /\ UNCHANGED <<tasks, task, offer, giver, done, marked>>
             /\ \A w \in Workers : pc'[w] \in RunPlaces <=> pc[w] \in RunPlaces

Handover == \/ \E w \in Workers : (pc[w] \in {"take", "wake"} /\ PopTask(w)) \/ FinishTask(w)
            \/ \E a \in Submitters : AppendTask(a) \/ PushTask(a) \/ PushFails(a)
            \/ Mark

LEMMA StepLemma == IInv /\ [Next]_vars => Bystander \/ Handover
<1> SUFFICES ASSUME IInv, [Next]_vars PROVE Bystander \/ Handover
  OBVIOUS
<1> USE Kinds DEF IInv, counts, state, setup, work, Go
<1>0. ASSUME NEW a \in Agents, NEW p, pc' = [pc EXCEPT ![a] = p],
             a \in Workers => (p \in RunPlaces <=> pc[a] \in RunPlaces)
      PROVE  \A w \in Workers : pc'[w] \in RunPlaces <=> pc[w] \in RunPlaces
  BY <1>0 DEF TypeOK
<1>1. ASSUME NEW w \in Workers, WorkerNext(w) PROVE Bystander \/ Handover
  <2>1. CASE Take(w) \/ Wake(w) \/ FinishTask(w)
    BY <2>1 DEF Take, Wake, Handover
  <2>2. CASE TakeToken(w) \/ NoToken(w) \/ Park(w) \/ Leave(w)
    <3>1. PICK p \in {"lock_take", "lock_wake", "lock_park", "parked", "returned"} :
            pc' = [pc EXCEPT ![w] = p]
      BY <2>2 DEF TakeToken, NoToken, Park, Leave
    <3>2. pc[w] \in {"try", "parked", "park", "leave"}
            /\ UNCHANGED <<tasks, task, offer, giver, done, marked>>
      BY <2>2 DEF TakeToken, NoToken, Park, Leave
    <3>3. QED
      BY <1>0, <3>1, <3>2 DEF Bystander, RunPlaces, Submitting
  <2>3. QED
    BY <1>1, <2>1, <2>2 DEF WorkerNext
<1>2. ASSUME NEW a \in Submitters, BeginSubmit(a) \/ SubmitNext(a) PROVE Bystander \/ Handover
  <2>1. CASE AppendTask(a) \/ PushTask(a) \/ PushFails(a)
    BY <2>1 DEF Handover
  <2>2. CASE BeginSubmit(a)
    <3>1. pc' = [pc EXCEPT ![a] = "lock_add"] /\ (a \in Workers => pc[a] = "run")
            /\ UNCHANGED <<tasks, task, offer, giver, done, marked>>
      BY <2>2 DEF BeginSubmit
    <3>2. QED
      BY <1>0, <3>1 DEF Bystander, RunPlaces, Submitting
  <2>3. CASE Undo(a) \/ EndSubmit(a)
    <3>1. pc' = [pc EXCEPT ![a] = Returned(a)] /\ pc[a] \in {"undo", "add"}
            /\ UNCHANGED <<tasks, task, offer, giver, done, marked>>
      BY <2>3 DEF Undo, EndSubmit
    <3>2. QED
      BY <1>0, <3>1 DEF Bystander, RunPlaces, Submitting, Returned
  <2>4. QED
    BY <1>2, <2>1, <2>2, <2>3 DEF SubmitNext
<1>3. ASSUME NEW a \in Clients \cup {Owner},
             Call(a) \/ TakeIdle(a) \/ GiveIdle(a) \/ CheckIdle(a)
      PROVE  Bystander
  <2>1. PICK p : pc' = [pc EXCEPT ![a] = p]
    BY <1>3 DEF Call, TakeIdle, GiveIdle, CheckIdle
  <2>2. UNCHANGED <<tasks, task, offer, giver, done, marked>>
    BY <1>3 DEF Call, TakeIdle, GiveIdle, CheckIdle
  <2>3. QED
    BY <1>0, <2>1, <2>2 DEF Bystander
<1>4. ASSUME NEW a \in Agents, Acquire(a) PROVE Bystander
  <2>1. pc' = [pc EXCEPT ![a] = LockFor[pc[a]]] /\ pc[a] \in LockPlaces
          /\ UNCHANGED <<tasks, task, offer, giver, done, marked>>
    BY <1>4 DEF Acquire
  <2>2. pc[a] \in {"lock_take", "lock_park", "lock_wake", "lock_leave", "lock_add",
                   "lock_check", "lock_probe", "lock_mark"}
    BY <2>1 DEF LockPlaces, LockFor
  <2>3. LockFor[pc[a]] \in RunPlaces <=> pc[a] \in RunPlaces
    BY <2>2 DEF LockFor, RunPlaces, Submitting
  <2>4. QED
    BY <1>0, <2>1, <2>3 DEF Bystander
<1>5. CASE CreateWorker
  <2>1. created < NumThreads /\ created + 1 \in Workers /\ pc[Owner] = "create"
          /\ UNCHANGED <<tasks, task, offer, giver, done, marked>>
    BY <1>5, NumThreadsAssumption DEF CreateWorker, TypeOK, Workers
  <2>2. PICK p \in {"create", "own"} : pc' = [pc EXCEPT ![created + 1] = "try", ![Owner] = p]
    BY <1>5 DEF CreateWorker
  <2>3. \A b \in Agents : pc'[b] = IF b = Owner THEN p ELSE IF b = created + 1 THEN "try" ELSE pc[b]
    BY <2>1, <2>2 DEF TypeOK
  <2>4. created < created + 1
    BY NumThreadsAssumption DEF TypeOK
  <2>5. pc[created + 1] = "none"
    BY <2>1, <2>4 DEF TypeOK
  <2>6. QED
    BY <2>1, <2>3, <2>5 DEF Bystander, RunPlaces, Submitting
<1>6. CASE CreateFails \/ BeginDestroy
  <2>1. PICK p : pc' = [pc EXCEPT ![Owner] = p]
    BY <1>6 DEF CreateFails, BeginDestroy
  <2>2. UNCHANGED <<tasks, task, offer, giver, done, marked>>
    BY <1>6 DEF CreateFails, BeginDestroy
  <2>3. QED
    BY <1>0, <2>1, <2>2 DEF Bystander
<1>7. CASE Finished \/ UNCHANGED vars
  BY <1>7 DEF Finished, vars, Bystander
<1>8. QED
  BY <1>1, <1>2, <1>3, <1>4, <1>5, <1>6, <1>7 DEF Next, OwnerNext, Handover

\* What stays settled, and what becomes it.
LEMMA WhereFrame ==
  ASSUME Where, TypeOK, UNCHANGED <<offer, giver>>,
         Settled' \cap Tasks \subseteq Settled,
         task' \in [Workers -> Tasks \cup {Nil}],
         \A w \in Workers : pc'[w] \in RunPlaces <=> task'[w] # Nil
  PROVE  Where'
<1>1. \A a \in Submitters : offer[a] # Nil => offer[a] \in Tasks
  BY DEF TypeOK
<1>2. \A a \in Submitters : offer[a] # Nil => offer[a] \notin Settled'
  BY <1>1 DEF Where
<1>3. \A t \in Tasks : giver[t] = Nil => t \notin Settled'
  BY DEF Where
<1> HIDE DEF Settled
<1>4. QED
  BY <1>2, <1>3 DEF Where

LEMMA WhereStep == RInv /\ [Next]_vars => Where'
<1> SUFFICES ASSUME RInv, [Next]_vars PROVE Where'
  OBVIOUS
<1> USE Kinds, TaskAssumption DEF RInv, IInv
<1>1. /\ task \in [Workers -> Tasks \cup {Nil}]
      /\ \A w \in Workers : pc[w] \in RunPlaces <=> task[w] # Nil
      /\ tasks \in Seq(Tasks \cup {Nil}) /\ DOMAIN tasks = 1..Len(tasks) /\ Len(tasks) \in Nat
  BY LenProperties DEF Where, TypeOK
<1>2. CASE Bystander
  BY <1>1, <1>2, WhereFrame DEF Bystander, Settled, Entries
<1>3. ASSUME NEW w \in Workers, pc[w] \in {"take", "wake"}, PopTask(w) PROVE Where'
  <2>1. /\ tasks' \in Seq(Tasks \cup {Nil}) /\ Len(tasks) > 0
        /\ Len(tasks') = Len(tasks) - 1
        /\ \A i \in 1..Len(tasks') : tasks'[i] = tasks[i + 1]
        /\ Head(tasks) = tasks[1]
    BY <1>3, PopLemma
  <2>2. DOMAIN tasks' = 1..Len(tasks')
    BY <2>1, LenProperties
  <2>3. Entries(tasks') \subseteq Entries(tasks) /\ Head(tasks) \in Entries(tasks)
    <3>1. \A i \in 1..Len(tasks') : i + 1 \in 1..Len(tasks)
      BY <1>1, <2>1
    <3>2. 1 \in 1..Len(tasks)
      BY <1>1, <2>1
    <3>3. QED
      BY <1>1, <2>1, <2>2, <3>1, <3>2 DEF Entries
  <2>4. task' = [task EXCEPT ![w] = Head(tasks)] /\ UNCHANGED <<offer, giver, done>>
          /\ pc' = [pc EXCEPT ![w] = IF Head(tasks) = Nil THEN "lock_leave" ELSE "run"]
    BY <1>3 DEF PopTask, Go
  <2>5. Head(tasks) \in Tasks \cup {Nil}
    BY <1>1, <2>1
  <2>6. \A v \in Workers : task'[v] = IF v = w THEN Head(tasks) ELSE task[v]
    BY <1>1, <2>4
  <2>7. Settled' \subseteq Settled
    BY <2>3, <2>4, <2>6 DEF Settled
  <2>8. task' \in [Workers -> Tasks \cup {Nil}]
    BY <1>1, <2>4, <2>5
  <2>9. \A v \in Workers : pc'[v] \in RunPlaces <=> task'[v] # Nil
    BY <1>1, <2>4, <2>6 DEF TypeOK, RunPlaces, Submitting
  <2>10. QED
    BY <2>4, <2>7, <2>8, <2>9, WhereFrame
<1>4. ASSUME NEW w \in Workers, FinishTask(w) PROVE Where'
  <2>1. task' = [task EXCEPT ![w] = Nil] /\ UNCHANGED <<offer, giver, tasks>>
          /\ pc' = [pc EXCEPT ![w] = "try"] /\ done' = done \cup {task[w]}
    BY <1>4 DEF FinishTask, Go, counts
  <2>2. \A v \in Workers : task'[v] = IF v = w THEN Nil ELSE task[v]
    BY <1>1, <2>1
  <2>3. Settled' \cap Tasks \subseteq Settled
    BY <2>1, <2>2 DEF Settled, Entries
  <2>4. task' \in [Workers -> Tasks \cup {Nil}]
    BY <1>1, <2>1
  <2>5. \A v \in Workers : pc'[v] \in RunPlaces <=> task'[v] # Nil
    BY <1>1, <2>1, <2>2 DEF TypeOK, RunPlaces, Submitting
  <2>6. QED
    BY <2>1, <2>3, <2>4, <2>5, WhereFrame
<1>5. ASSUME NEW a \in Submitters, NEW p \in {"push", "add", "undo"},
             pc[a] \in {"add", "push"}, pc' = [pc EXCEPT ![a] = p]
      PROVE  \A w \in Workers : pc'[w] \in RunPlaces <=> pc[w] \in RunPlaces
  BY <1>5 DEF TypeOK, RunPlaces, Submitting
<1>6. ASSUME NEW a \in Submitters, AppendTask(a) PROVE Where'
  <2>1. PICK t \in Tasks : /\ giver[t] = Nil
                           /\ giver' = [giver EXCEPT ![t] = a]
                           /\ offer' = [offer EXCEPT ![a] = t]
    BY <1>6 DEF AppendTask
  <2>2. UNCHANGED <<tasks, task, done>> /\ pc[a] = "add" /\ pc' = [pc EXCEPT ![a] = "push"]
    BY <1>6 DEF AppendTask, Go
  <2>3. a # Nil /\ t # Nil
    OBVIOUS
  <2>4. /\ \A u \in Tasks : giver'[u] = IF u = t THEN a ELSE giver[u]
        /\ \A b \in Submitters : offer'[b] = IF b = a THEN t ELSE offer[b]
        /\ giver' \in [Tasks -> Submitters \cup {Nil}]
    BY <2>1 DEF Where, TypeOK
  <2>5. t \notin Settled /\ \A b \in Submitters : offer[b] # t
    BY <2>1 DEF Where
  <2>6. Settled' = Settled
    BY <2>2 DEF Settled, Entries
  <2>7. \A w \in Workers : pc'[w] \in RunPlaces <=> task'[w] # Nil
    BY <1>1, <1>5, <2>2
  <2> HIDE DEF Settled
  <2>8. \A u \in Tasks : giver'[u] = Nil =>
           u \notin Settled /\ \A b \in Submitters : offer'[b] # u
    BY <2>3, <2>4 DEF Where
  <2>9. \A b \in Submitters : offer'[b] # Nil =>
           offer'[b] \notin Settled /\ \A d \in Submitters \ {b} : offer'[d] # offer'[b]
    BY <2>3, <2>4, <2>5 DEF Where
  <2>10. QED
    BY <1>1, <2>2, <2>4, <2>6, <2>7, <2>8, <2>9 DEF Where
<1>7. ASSUME NEW a \in Submitters, PushTask(a) \/ PushFails(a) PROVE Where'
  <2>1. /\ pc[a] = "push" /\ offer' = [offer EXCEPT ![a] = Nil]
        /\ UNCHANGED <<task, giver, done>>
        /\ tasks' = Append(tasks, offer[a]) \/ tasks' = tasks
    BY <1>7 DEF PushTask, PushFails, counts
  <2>2. PICK p \in {"add", "undo"} : pc' = [pc EXCEPT ![a] = p]
    BY <1>7 DEF PushTask, PushFails, Go
  <2>3. offer[a] \in Tasks
    BY <2>1 DEF TypeOK
  <2>4. Entries(tasks') \subseteq Entries(tasks) \cup {offer[a]}
    <3>1. CASE tasks' = tasks
      BY <3>1 DEF Entries
    <3>2. CASE tasks' = Append(tasks, offer[a])
      <4>1. /\ DOMAIN tasks' = 1..Len(tasks) + 1
            /\ \A i \in 1..Len(tasks) + 1 : tasks'[i] = IF i <= Len(tasks) THEN tasks[i] ELSE offer[a]
        BY <1>1, <2>3, <3>2
      <4>2. \A i \in 1..Len(tasks) + 1 : i <= Len(tasks) => i \in DOMAIN tasks
        BY <1>1
      <4>3. QED
        BY <4>1, <4>2 DEF Entries
    <3>3. QED
      BY <2>1, <3>1, <3>2
  <2>5. Settled' \subseteq Settled \cup {offer[a]}
    BY <2>1, <2>4 DEF Settled
  <2>6. \A b \in Submitters : offer'[b] = IF b = a THEN Nil ELSE offer[b]
    BY <2>1 DEF TypeOK
  <2>7. \A w \in Workers : pc'[w] \in RunPlaces <=> task'[w] # Nil
    BY <1>1, <1>5, <2>1, <2>2
  <2>8. \A u \in Tasks : giver'[u] = Nil =>
           u \notin Settled' /\ \A b \in Submitters : offer'[b] # u
    BY <2>1, <2>3, <2>5, <2>6 DEF Where
  <2>9. \A b \in Submitters : offer'[b] # Nil =>
           offer'[b] \notin Settled' /\ \A d \in Submitters \ {b} : offer'[d] # offer'[b]
    BY <2>1, <2>3, <2>5, <2>6 DEF Where
  <2> HIDE DEF Settled
  <2>10. QED
    BY <1>1, <2>1, <2>7, <2>8, <2>9 DEF Where
<1>8. CASE Mark
  <2>1. /\ Len(tasks') = Len(tasks) + created /\ tasks' \in Seq(Tasks \cup {Nil})
        /\ \A i \in 1..Len(tasks') : tasks'[i] = IF i <= Len(tasks) THEN tasks[i] ELSE Nil
    BY <1>8, MarkLemma
  <2>2. UNCHANGED <<task, offer, giver, done>> /\ pc' = [pc EXCEPT ![Owner] = "wait"]
    BY <1>8 DEF Mark, Go, work
  <2>3. DOMAIN tasks' = 1..Len(tasks')
    BY <2>1, LenProperties
  <2>4. \A i \in 1..Len(tasks') : i <= Len(tasks) => i \in 1..Len(tasks)
    BY <1>1
  <2>5. Entries(tasks') \subseteq Entries(tasks) \cup {Nil}
    BY <1>1, <2>1, <2>3, <2>4 DEF Entries
  <2>6. Settled' \cap Tasks \subseteq Settled
    BY <2>2, <2>5 DEF Settled
  <2>7. \A w \in Workers : pc'[w] = pc[w]
    BY <2>2 DEF TypeOK
  <2>8. QED
    BY <1>1, <2>2, <2>6, <2>7, WhereFrame
<1>9. QED
  BY <1>2, <1>3, <1>4, <1>6, <1>7, <1>8, StepLemma DEF Handover

LEMMA WhereInit == Init => Where
<1> SUFFICES ASSUME Init PROVE Where
  OBVIOUS
<1> USE Kinds DEF Init
<1>1. \A w \in Workers : pc[w] = "none" /\ task[w] = Nil
  OBVIOUS
<1>2. Entries(tasks) = {}
  BY DEF Entries
<1>3. Settled \subseteq {Nil}
  BY <1>1, <1>2 DEF Settled
<1>4. QED
  BY <1>1, <1>3, TaskAssumption DEF Where, RunPlaces, Submitting

LEMMA RefinedInvariance == Spec => []RInv
<1>1. Init => RInv
  BY InitInv, WhereInit DEF RInv
<1>2. RInv /\ [Next]_vars => Where'
  BY WhereStep
<1>3. QED
  BY <1>1, <1>2, InvCorrect, PTL DEF Spec, RInv

-----------------------------------------------------------------------------
\* PushTask is Accept: one new task at the end of the queue of an open pool.
LEMMA AcceptLemma ==
  ASSUME RInv, NEW a \in Submitters, PushTask(a)
  PROVE  Executor!Accept
<1> USE Kinds, TaskAssumption DEF RInv, IInv
<1>1. /\ pc[a] = "push" /\ tasks' = Append(tasks, offer[a])
      /\ UNCHANGED <<task, done, marked>>
  BY DEF PushTask, setup
<1>2. ~marked
  BY <1>1 DEF Stages, Closing, Submitting
<1>3. offer[a] \in Tasks /\ offer[a] \notin Settled
  BY <1>1 DEF TypeOK, Where
<1>4. tasks \in Seq(Tasks \cup {Nil}) /\ Len(tasks) \in Nat
  BY LenProperties DEF TypeOK
<1>5. Len(tasks') = Len(tasks) + 1
  BY <1>1, <1>3, <1>4
<1>6. SubSeq(tasks', 1, Len(tasks)) = tasks
  BY <1>1, <1>3, <1>4
<1>7. SubSeq(tasks', Len(tasks) + 1, Len(tasks')) = <<offer[a]>>
  <2>1. tasks' \in Seq(Tasks \cup {Nil}) /\ tasks'[Len(tasks) + 1] = offer[a]
    BY <1>1, <1>3, <1>4
  <2> DEFINE S == Tasks \cup {Nil}
             n == Len(tasks) + 1
             u == SubSeq(tasks', n, n)
  <2>2. /\ n \in Int /\ n \in Nat /\ tasks'[n] = offer[a] /\ offer[a] \in S
    BY <1>3, <1>4, <2>1
  <2>3. /\ \A i \in n..n : tasks'[i] \in S
        /\ n <= n /\ n - n + 1 = 1
        /\ n + 1 - 1 = n
    BY <2>2
  <2> HIDE DEF n, S
  <2>4. u \in Seq(S) /\ Len(u) = 1 /\ u[1] = offer[a]
    BY <2>2, <2>3, SubSeqProperties
  <2>5. <<offer[a]>> \in Seq(S) /\ Len(<<offer[a]>>) = 1 /\ <<offer[a]>>[1] = offer[a]
    BY <2>2
  <2>6. u = <<offer[a]>>
    <3>1. \A i \in 1..Len(u) : i = 1
      BY <2>4
    <3>2. \A i \in 1..Len(u) : u[i] = <<offer[a]>>[i]
      BY <2>4, <2>5, <3>1
    <3> HIDE DEF u
    <3>3. QED
      BY <2>4, <2>5, <3>2, SeqEqual
  <2>7. Len(tasks') = n
    BY <1>5 DEF n
  <2>8. QED
    BY <2>6, <2>7 DEF n
<1>8. Executor!Known \subseteq Settled
  BY <1>2 DEF Executor!Known, Executor!Entries, Executor!Running, Settled, Entries
<1>9. Executor!Entries(<<offer[a]>>) = {offer[a]}
  BY DEF Executor!Entries
<1>10. \A i, j \in DOMAIN <<offer[a]>> : <<offer[a]>>[i] = <<offer[a]>>[j] => i = j
  OBVIOUS
<1> DEFINE new == SubSeq(tasks', Len(tasks) + 1, Len(tasks'))
<1>11. Executor!Entries(new) \subseteq Tasks \ Executor!Known
  BY <1>3, <1>7, <1>8, <1>9
<1>12. \A i, j \in DOMAIN new : new[i] = new[j] => i = j
  BY <1>7, <1>10
<1>13. (IF marked THEN <<>> ELSE tasks) = tasks /\ (IF marked THEN <<>> ELSE tasks)' = tasks'
  BY <1>1, <1>2
<1>14. Len(tasks') >= Len(tasks)
  BY <1>4, <1>5
<1> HIDE DEF Settled
<1>15. QED
  BY <1>1, <1>2, <1>6, <1>11, <1>12, <1>13, <1>14 DEF Executor!Accept

\* Pop starts the oldest task, or ends a thread when the queue holds null tasks
\* only.
LEMMA StartLemma ==
  ASSUME RInv, NEW w \in Workers, pc[w] \in {"take", "wake"}, PopTask(w)
  PROVE  Executor!Start(w) \/ UNCHANGED Executor!vars
<1> USE Kinds, TaskAssumption DEF RInv, IInv
<1>1. /\ tasks # <<>> /\ tasks' = Tail(tasks) /\ UNCHANGED <<done, marked>>
      /\ task' = [task EXCEPT ![w] = Head(tasks)]
  BY DEF PopTask, setup
<1>2. task \in [Workers -> Tasks \cup {Nil}] /\ task[w] = Nil
  BY DEF Where, RunPlaces, Submitting
<1>3. Head(tasks) = tasks[1] /\ 1 \in 1..Len(tasks)
  BY PopLemma
<1>4. CASE marked
  <2>1. Head(tasks) = Nil
    BY <1>3, <1>4 DEF Stages, Closing
  <2>2. task' = task
    BY <1>1, <1>2, <2>1
  <2>3. QED
    BY <1>1, <1>4, <2>2 DEF Executor!vars
<1>5. CASE ~marked
  BY <1>1, <1>2, <1>5 DEF Executor!Start
<1>6. QED
  BY <1>4, <1>5

\* When the owner queues the null tasks nothing is queued and nothing runs.
LEMMA CloseLemma ==
  ASSUME RInv, Mark
  PROVE  Executor!Close
<1> USE Kinds DEF RInv, IInv
<1>1. pc[Owner] = "mark" /\ marked' /\ UNCHANGED <<task, done>>
  BY DEF Mark, work
<1>2. ~marked
  BY <1>1 DEF Stages
<1>3. \A i \in 1..Len(tasks) : tasks[i] = Nil /\ tasks[i] # Nil
  BY <1>1, <1>2 DEF Stages, Closing
<1>4. tasks \in Seq(Tasks \cup {Nil}) /\ Len(tasks) \in Nat
  BY LenProperties DEF TypeOK
<1>5. tasks = <<>>
  BY <1>3, <1>4, EmptySeq
<1>6. \A w \in Workers : pc[w] \notin RunPlaces
  BY <1>1 DEF Stages, Closing, RunPlaces
<1>7. Executor!Running = {}
  BY <1>6 DEF Where, Executor!Running
<1>8. (marked' = TRUE) /\ (IF marked' THEN <<>> ELSE tasks') = <<>>
        /\ (IF marked THEN <<>> ELSE tasks) = <<>>
  BY <1>1, <1>2, <1>5 DEF Mark
<1>9. QED
  BY <1>1, <1>2, <1>7, <1>8 DEF Executor!Close

\* The older pool implements the executor as well, null tasks and all.
THEOREM PoolImplements == Spec => Implements
<1>1. ASSUME Init PROVE Executor!Init
  BY <1>1 DEF Init, Executor!Init
<1>2. ASSUME RInv, [Next]_vars PROVE [Executor!Next]_(Executor!vars)
  <2>1. CASE Bystander
    BY <2>1 DEF Bystander, Executor!vars
  <2>2. ASSUME NEW w \in Workers, pc[w] \in {"take", "wake"}, PopTask(w)
        PROVE  [Executor!Next]_(Executor!vars)
    BY <1>2, <2>2, StartLemma DEF Executor!Next
  <2>3. ASSUME NEW w \in Workers, FinishTask(w) PROVE [Executor!Next]_(Executor!vars)
    <3>1. task[w] # Nil
      BY <1>2, <2>3 DEF RInv, Where, FinishTask, RunPlaces
    <3>2. Executor!Finish(w)
      BY <2>3, <3>1 DEF FinishTask, counts, setup, Executor!Finish
    <3>3. QED
      BY <3>2 DEF Executor!Next
  <2>4. ASSUME NEW a \in Submitters, PushTask(a) PROVE [Executor!Next]_(Executor!vars)
    BY <1>2, <2>4, AcceptLemma DEF Executor!Next
  <2>5. ASSUME NEW a \in Submitters, AppendTask(a) \/ PushFails(a)
        PROVE  UNCHANGED Executor!vars
    BY <2>5 DEF AppendTask, PushFails, counts, setup, Executor!vars
  <2>6. CASE Mark
    BY <1>2, <2>6, CloseLemma DEF Executor!Next
  <2>7. QED
    BY <1>2, <2>1, <2>2, <2>3, <2>4, <2>5, <2>6, StepLemma DEF Handover, RInv
<1>3. QED
  BY <1>1, <1>2, RefinedInvariance, PTL DEF Spec, Implements, Executor!Safety
=============================================================================
