------------------------------ MODULE Scheduler ------------------------------
(***************************************************************************)
(* Engine::Scheduler (moduli/EngineRuntime/Miscellaneous/ThreadPool.cpp):  *)
(* tasks to be run at a time, interrupts to be run at once, and Break,     *)
(* which ends a call of Process.  An array of slots holds the records, and *)
(* a semaphore `_interrupt` wakes the thread inside Process before the     *)
(* time of the nearest task.                                               *)
(*                                                                         *)
(* Nothing blocks while _access is held (Cancelled does nothing in the     *)
(* program), so what a call does under it is one step.                     *)
(***************************************************************************)
EXTENDS Integers, Sequences, FiniteSets, SequencesExt, FiniteSetsExt

CONSTANTS Workers,       \* threads inside Process
          Users,         \* other threads
          Requests,      \* calls of Schedule and Interrupt, one task each
          Void,          \* the task that only wakes Process
          None,
          Times,         \* times that are asked for
          MaxTime,       \* bound on the clock
          Cancellers,    \* who calls CancelAll
          MaxCancel,     \* bound on its calls
          MaxBreak       \* bound on the calls of Break

Agents == Workers \cup Users
Never == MaxTime + 1                       \* no time at all (0x7FFFFFFF)

ASSUME AgentAssumption == Workers \cap Users = {} /\ Cancellers \subseteq Agents
ASSUME FiniteAssumption == IsFiniteSet(Workers)
ASSUME TimeAssumption == MaxTime \in Nat /\ Times \subseteq 0..MaxTime
ASSUME RequestAssumption == Void \notin Requests /\ None \notin Requests \cup {Void}

VARIABLES now,          \* GetTimerValue
          slots,        \* _tasks: records of flag, time and task
          tokens,       \* the semaphore _interrupt
          pc, task,     \* place of each worker, the task it runs
          wake,         \* how long, then until when, a worker waits
          plan,         \* history: the time each worker means to sleep to
          wakes,        \* agents between the two critical sections of Schedule
          fate,         \* history: what became of each request
          cancels, breaks

shared == <<slots, tokens>>
local == <<pc, task, wake, plan>>
history == <<fate, cancels, breaks>>
vars == <<now, shared, local, wakes, history>>

FreeSlot == [flag |-> "free", time |-> 0, task |-> None]
With(flag) == {i \in DOMAIN slots : slots[i].flag = flag}
Pending == With("interrupt") \cup With("break")
First(S) == Min(S)
Nearest == Min({slots[i].time : i \in With("timed")} \cup {Never})

Init == /\ now = 0 /\ slots = <<>> /\ tokens = 0
        /\ pc = [w \in Workers |-> "scan"]
        /\ task = [w \in Workers |-> None]
        /\ wake = [w \in Workers |-> Never]
        /\ plan = [w \in Workers |-> Never]
        /\ wakes = {}
        /\ fate = [t \in Requests |-> "new"]
        /\ cancels = 0 /\ breaks = 0

Tick == /\ now < MaxTime
        /\ now' = now + 1
        /\ UNCHANGED <<shared, local, wakes, history>>

-----------------------------------------------------------------------------
(* The calls.  A worker makes them out of the task it runs.                *)

Free(a) == a \notin wakes /\ (a \in Workers => pc[a] = "run")

\* The first free slot, or a new one at the end of the array.
Placed(record) == IF With("free") # {} THEN [slots EXCEPT ![First(With("free"))] = record]
                                       ELSE Append(slots, record)

\* Schedule, first critical section: the record goes in; whether Process has
\* to be woken is decided from the records that were there before.
MustWake_Itself(d) == d < Min({d, Nearest})                            \* mutant

MustWake(d) == d < Nearest

Schedule(a, t, d) ==
  /\ Free(a)
  /\ fate[t] = "new"
  /\ slots' = Placed([flag |-> "timed", time |-> d, task |-> t])
  /\ fate' = [fate EXCEPT ![t] = "waits"]
  /\ wakes' = IF MustWake(d) THEN wakes \cup {a} ELSE wakes
  /\ UNCHANGED <<now, tokens, local, cancels, breaks>>

Signal_Once(record) == slots' = Placed(record) /\ tokens' = 1           \* mutant

Signal(record) == /\ slots' = Placed(record)
                  /\ tokens' = tokens + 1

\* Schedule, second critical section: Interrupt with the void task.
WakeProcess(a) ==
  /\ a \in wakes
  /\ Signal([flag |-> "interrupt", time |-> 0, task |-> Void])
  /\ wakes' = wakes \ {a}
  /\ UNCHANGED <<now, local, history>>

Interrupt(a, t) ==
  /\ Free(a)
  /\ fate[t] = "new"
  /\ Signal([flag |-> "interrupt", time |-> 0, task |-> t])
  /\ fate' = [fate EXCEPT ![t] = "waits"]
  /\ UNCHANGED <<now, local, wakes, cancels, breaks>>

Break(a) ==
  /\ Free(a)
  /\ breaks < MaxBreak
  /\ Signal([flag |-> "break", time |-> 0, task |-> None])
  /\ breaks' = breaks + 1
  /\ UNCHANGED <<now, local, wakes, fate, cancels>>

\* Every record goes, a pending Break with the rest, and every unit of the
\* semaphore that no worker has taken.
CancelAll(a) ==
  /\ a \in Cancellers
  /\ Free(a)
  /\ cancels < MaxCancel
  /\ cancels' = cancels + 1
  /\ fate' = [t \in Requests |-> IF \E i \in DOMAIN slots : slots[i].task = t
                                 THEN "cancelled" ELSE fate[t]]
  /\ slots' = [i \in DOMAIN slots |-> FreeSlot]
  /\ tokens' = 0
  /\ UNCHANGED <<now, local, wakes, breaks>>

-----------------------------------------------------------------------------
(* Process.                                                                *)

Go(w, place) == pc' = [pc EXCEPT ![w] = place]
Emptied(i) == [slots EXCEPT ![i] = FreeSlot]

\* The time to wait is worked out under _access ...
Scan(w) == /\ pc[w] = "scan"
           /\ wake' = [wake EXCEPT ![w] = IF Nearest = Never THEN Never
                                          ELSE IF Nearest < now THEN 0 ELSE Nearest - now]
           /\ plan' = [plan EXCEPT ![w] = Nearest]
           /\ Go(w, "sleep")
           /\ UNCHANGED <<now, shared, task, wakes, history>>

\* ... and begins when the thread gets to it (it ends at the bound of the clock).
Sleep(w) == /\ pc[w] = "sleep"
            /\ wake' = [wake EXCEPT ![w] = IF @ = Never THEN Never ELSE Min({now + @, MaxTime})]
            /\ Go(w, "wait")
            /\ UNCHANGED <<now, shared, task, plan, wakes, history>>

TakeToken_All(w) == /\ pc[w] = "wait" /\ tokens > 0 /\ tokens' = 0      \* mutant
                    /\ Go(w, "interrupted")
                    /\ UNCHANGED <<now, slots, task, wake, plan, wakes, history>>

TakeToken(w) == /\ pc[w] = "wait"
                /\ tokens > 0
                /\ tokens' = tokens - 1
                /\ Go(w, "interrupted")
                /\ UNCHANGED <<now, slots, task, wake, plan, wakes, history>>

TimeOut(w) == /\ pc[w] = "wait"
              /\ tokens = 0
              /\ wake[w] <= now
              /\ Go(w, "late")
              /\ UNCHANGED <<now, shared, task, wake, plan, wakes, history>>

Begin(w, t) == /\ task' = [task EXCEPT ![w] = t]
               /\ fate' = [u \in Requests |-> IF u = t THEN "runs" ELSE fate[u]]
               /\ Go(w, IF t = None THEN "scan" ELSE "run")

\* The first record that is an interrupt or a Break, if CancelAll has left one.
Serve(w) == /\ pc[w] = "interrupted"
            /\ IF Pending = {}
               THEN Begin(w, None) /\ UNCHANGED slots
               ELSE LET i == First(Pending) IN
                    /\ slots' = Emptied(i)
                    /\ IF slots[i].flag = "break"
                       THEN Go(w, "left") /\ UNCHANGED <<task, fate>>
                       ELSE Begin(w, slots[i].task)
            /\ UNCHANGED <<now, tokens, wake, plan, wakes, cancels, breaks>>

\* The record with the nearest time, due or not.
IsNearest(i) == i = First({j \in With("timed") : slots[j].time = Nearest})

RunNearest(w) == /\ pc[w] = "late"
                 /\ IF With("timed") = {}
                    THEN Begin(w, None) /\ UNCHANGED slots
                    ELSE \E i \in With("timed") :
                           /\ IsNearest(i)
                           /\ slots' = Emptied(i)
                           /\ Begin(w, slots[i].task)
                 /\ UNCHANGED <<now, tokens, wake, plan, wakes, cancels, breaks>>

Finish(w) == /\ pc[w] = "run"
             /\ w \notin wakes
             /\ fate' = [t \in Requests |-> IF t = task[w] THEN "done" ELSE fate[t]]
             /\ task' = [task EXCEPT ![w] = None]
             /\ Go(w, "scan")
             /\ UNCHANGED <<now, shared, wake, plan, wakes, cancels, breaks>>

Process(w) == \/ Scan(w) \/ Sleep(w) \/ TakeToken(w) \/ TimeOut(w)
              \/ Serve(w) \/ RunNearest(w) \/ Finish(w)

Calls(a) == \/ \E t \in Requests, d \in Times : Schedule(a, t, d)
            \/ \E t \in Requests : Interrupt(a, t)
            \/ Break(a)
            \/ CancelAll(a)

Next == \/ Tick
        \/ \E a \in Agents : Calls(a) \/ WakeProcess(a)
        \/ \E w \in Workers : Process(w)

Spec == Init /\ [][Next]_vars

\* The clock runs, threads that can go on go on, tasks end.
Fairness == /\ WF_vars(Tick)
            /\ \A a \in Agents : WF_vars(WakeProcess(a))
            /\ \A w \in Workers : WF_vars(Process(w))
FairSpec == Spec /\ Fairness

-----------------------------------------------------------------------------
(* Properties.                                                             *)

\* No interrupt and no Break is without a wake-up: each has a unit of the
\* semaphore, or a worker that has taken one and has not looked yet.
NothingUnheard ==
  Cardinality(Pending) <= tokens + Cardinality({w \in Workers : pc[w] = "interrupted"})

\* The one thread inside Process never sleeps past the time of a task:
\* whenever it means to, a wake-up is there or on its way.
NoOversleep ==
  \A w \in Workers, i \in With("timed") :
    pc[w] \in {"sleep", "wait"} => plan[w] <= slots[i].time \/ tokens > 0 \/ wakes # {}

\* A task that was scheduled is run or cancelled in the end, and an interrupt
\* too, unless Break ends Process first.
Served == \A t \in Requests :
            (fate[t] = "waits") ~> (fate[t] \in {"done", "cancelled"} \/ breaks > 0)
=============================================================================
