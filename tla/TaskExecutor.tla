---------------------------- MODULE TaskExecutor ----------------------------
(***************************************************************************)
(* What IDispatchQueue promises when a ThreadPool stands behind it: tasks  *)
(* are accepted in the order of their arrays, each accepted task is        *)
(* started once, in the order of acceptance, by a worker that has nothing  *)
(* else to do, and the executor is closed only when nothing is queued and  *)
(* nothing runs.  ThreadPool implements this specification.                *)
(***************************************************************************)
EXTENDS Integers, Sequences

CONSTANTS Workers, Tasks, Nil

VARIABLES queue,    \* accepted tasks nobody has started, oldest first
          slot,     \* slot[w]: the task worker w is executing, or Nil
          done,     \* tasks whose DoTask has returned
          closed    \* the destructor has decided to stop the workers

vars == <<queue, slot, done, closed>>

Entries(s) == {s[i] : i \in DOMAIN s}
Running == {slot[w] : w \in Workers} \ {Nil}
Known == Entries(queue) \cup Running \cup done

Init == /\ queue = <<>>
        /\ slot = [w \in Workers |-> Nil]
        /\ done = {}
        /\ closed = FALSE

\* New tasks, each once, go to the end.
Accept == /\ ~closed
          /\ Len(queue') >= Len(queue)
          /\ SubSeq(queue', 1, Len(queue)) = queue
          /\ LET new == SubSeq(queue', Len(queue) + 1, Len(queue')) IN
               /\ Entries(new) \subseteq Tasks \ Known
               /\ \A i, j \in DOMAIN new : new[i] = new[j] => i = j
          /\ UNCHANGED <<slot, done, closed>>

Start(w) == /\ slot[w] = Nil
            /\ queue # <<>>
            /\ slot' = [slot EXCEPT ![w] = Head(queue)]
            /\ queue' = Tail(queue)
            /\ UNCHANGED <<done, closed>>

Finish(w) == /\ slot[w] # Nil
             /\ done' = done \cup {slot[w]}
             /\ slot' = [slot EXCEPT ![w] = Nil]
             /\ UNCHANGED <<queue, closed>>

Close == /\ ~closed
         /\ queue = <<>>
         /\ Running = {}
         /\ closed' = TRUE
         /\ UNCHANGED <<queue, slot, done>>

Next == \/ Accept
        \/ \E w \in Workers : Start(w) \/ Finish(w)
        \/ Close

Safety == Init /\ [][Next]_vars
Spec == /\ Safety
        /\ WF_vars(\E w \in Workers : Start(w))
        /\ \A w \in Workers : WF_vars(Finish(w))
=============================================================================
