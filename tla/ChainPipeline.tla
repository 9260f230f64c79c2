---------------------------- MODULE ChainPipeline ----------------------------
(***************************************************************************)
(* ChainCompress and ChainDecompress on a pool.  As many tasks as the pool *)
(* has threads read, convert and write in turn: a ring of semaphores says  *)
(* whose turn it is to use the streams, an error opens the whole ring.     *)
(* Both functions have this control; only the steps that may fail differ,  *)
(* and here each may.                                                      *)
(***************************************************************************)
EXTENDS Integers, Sequences

CONSTANTS NumTasks,   \* pool->GetThreadCount()
          NumBlocks   \* blocks in the source

ASSUME PipelineAssumption == NumTasks \in Nat \ {0} /\ NumBlocks \in Nat

Tasks == 1..NumTasks
Successor(i) == (i % NumTasks) + 1

VARIABLES turn,      \* turn[i]: the count of sync[i]
          left,      \* blocks not yet read: length, num_blocks
          ectx,      \* ErrorTest(ectx)
          pc,        \* where each task is
          block,     \* the block a task has in hand, by its number in the source
          written,   \* the blocks in dest
          torn,      \* a write failed and may have left a part of its block
          caller     \* where the caller is, or how its call ended

control == <<turn, ectx>>
data == <<left, block, written, torn>>
vars == <<control, data, pc, caller>>

Init == /\ turn = [i \in Tasks |-> 0]
        /\ left = NumBlocks
        /\ ectx = FALSE
        /\ pc = [i \in Tasks |-> "absent"]
        /\ block = [i \in Tasks |-> 0]
        /\ written = <<>>
        /\ torn = FALSE
        /\ caller = "submit"

Go(i, place) == pc' = [pc EXCEPT ![i] = place]
HandOn(i) == turn' = [turn EXCEPT ![Successor(i)] = @ + 1]
OpenAll == turn' = [i \in Tasks |-> turn[i] + 1]

-----------------------------------------------------------------------------
(* The caller.                                                             *)

\* SubmitTasksE holds the pool's lock throughout; out of memory, it leaves
\* the tasks it has pushed in the queue and sets the error.
Submit == /\ caller = "submit"
          /\ \/ /\ pc' = [i \in Tasks |-> "queued"]
                /\ ectx' = FALSE
                /\ caller' = "start"
             \/ /\ \E n \in 0 .. NumTasks - 1 :
                     pc' = [i \in Tasks |-> IF i <= n THEN "queued" ELSE "absent"]
                /\ ectx' = TRUE
                /\ caller' = "cancel"
          /\ UNCHANGED <<turn, data>>

GiveTurn_All == /\ caller = "start"   \* mutant: the whole ring is opened
                /\ OpenAll
                /\ caller' = "wait"
                /\ UNCHANGED <<ectx, data, pc>>

GiveTurn == /\ caller = "start"
            /\ turn' = [turn EXCEPT ![1] = @ + 1]
            /\ caller' = "wait"
            /\ UNCHANGED <<ectx, data, pc>>

\* The submission failed: the tasks that are on the pool are let through.
Cancel == /\ caller = "cancel"
          /\ OpenAll
          /\ caller' = "wait"
          /\ UNCHANGED <<ectx, data, pc>>

\* pool->Wait() returns when no task is queued or running.
Return == /\ caller = "wait"
          /\ \A i \in Tasks : pc[i] \in {"absent", "done"}
          /\ caller' = IF ectx THEN "error" ELSE "ok"
          /\ UNCHANGED <<control, data, pc>>

-----------------------------------------------------------------------------
(* A task.                                                                 *)

\* A pool thread starts the oldest queued task.
Start(i) == /\ pc[i] = "queued"
            /\ \A j \in 1 .. i - 1 : pc[j] # "queued"
            /\ Go(i, "first")
            /\ UNCHANGED <<control, data, caller>>

FirstTurn(i) == /\ pc[i] = "first"
                /\ turn[i] > 0
                /\ turn' = [turn EXCEPT ![i] = @ - 1]
                /\ Go(i, "top")
                /\ UNCHANGED <<ectx, data, caller>>

\* The head of the loop, with the turn: an error ends the task, the end of
\* the source ends it too and passes the turn on, otherwise it reads.
Top(i) == /\ pc[i] = "top"
          /\ \/ ectx /\ OpenAll /\ Go(i, "done")
             \/ ~ectx /\ left = 0 /\ HandOn(i) /\ Go(i, "done")
             \/ ~ectx /\ left > 0 /\ Go(i, "read") /\ UNCHANGED turn
          /\ UNCHANGED <<ectx, data, caller>>

Read_KeepsTurn(i) == /\ pc[i] = "read"   \* mutant: the turn is not handed on
                     /\ block' = [block EXCEPT ![i] = NumBlocks - left + 1]
                     /\ left' = left - 1
                     /\ Go(i, "convert")
                     /\ UNCHANGED <<control, written, torn, caller>>

Read(i) == /\ pc[i] = "read"
           /\ block' = [block EXCEPT ![i] = NumBlocks - left + 1]
           /\ left' = left - 1
           /\ HandOn(i)
           /\ Go(i, "convert")
           /\ UNCHANGED <<ectx, written, torn, caller>>

Convert(i) == /\ pc[i] = "convert"
              /\ Go(i, "second")
              /\ UNCHANGED <<control, data, caller>>

WriteTurn_NoTest(i) == /\ pc[i] = "second"   \* mutant: ErrorTest forgotten
                       /\ turn[i] > 0
                       /\ Go(i, "write")
                       /\ turn' = [turn EXCEPT ![i] = @ - 1]
                       /\ UNCHANGED <<ectx, data, caller>>

\* sync[index].Wait() before the write, and the ErrorTest that follows it.
WriteTurn(i) == /\ pc[i] = "second"
                /\ turn[i] > 0
                /\ \/ /\ ectx
                      /\ turn' = [j \in Tasks |-> IF j = i THEN turn[j] ELSE turn[j] + 1]
                      /\ Go(i, "done")
                   \/ /\ ~ectx
                      /\ turn' = [turn EXCEPT ![i] = @ - 1]
                      /\ Go(i, "write")
                /\ UNCHANGED <<ectx, data, caller>>

Write(i) == /\ pc[i] = "write"
            /\ written' = Append(written, block[i])
            /\ Go(i, "top")
            /\ UNCHANGED <<control, left, block, torn, caller>>

\* ReadBlock, Compress, Decompress or Write threw.
Fail(i) == /\ pc[i] \in {"read", "convert", "write"}
           /\ torn' = (torn \/ pc[i] = "write")
           /\ Go(i, "catch")
           /\ UNCHANGED <<control, left, block, written, caller>>

Catch_Silent(i) == /\ pc[i] = "catch"   \* mutant: the error is not recorded
                   /\ Go(i, "open")
                   /\ UNCHANGED <<control, data, caller>>

\* The handlers record the error first and open the ring afterwards.
Catch(i) == /\ pc[i] = "catch"
            /\ ectx' = TRUE
            /\ Go(i, "open")
            /\ UNCHANGED <<turn, data, caller>>

OpenRing(i) == /\ pc[i] = "open"
               /\ OpenAll
               /\ Go(i, "done")
               /\ UNCHANGED <<ectx, data, caller>>

-----------------------------------------------------------------------------
Finished == caller \in {"ok", "error"} /\ UNCHANGED vars

TaskNext(i) == \/ FirstTurn(i) \/ Top(i) \/ Read(i) \/ Convert(i) \/ WriteTurn(i)
               \/ Write(i) \/ Catch(i) \/ OpenRing(i)

Next == \/ Submit \/ GiveTurn \/ Cancel \/ Return
        \/ \E i \in Tasks : Start(i) \/ TaskNext(i) \/ Fail(i)
        \/ Finished

Spec == Init /\ [][Next]_vars

\* The caller is scheduled, the pool starts what is queued (ThreadPool,
\* ImplementsFair: there are as many threads as tasks) and runs what has
\* started.  Only one task ever waits on a semaphore, so weak fairness is
\* enough.  Failures are free.
Fairness == /\ WF_vars(Submit \/ GiveTurn \/ Cancel \/ Return)
            /\ \A i \in Tasks : WF_vars(Start(i)) /\ WF_vars(TaskNext(i))

FairSpec == Spec /\ Fairness

-----------------------------------------------------------------------------
(* Properties.                                                             *)

\* source and dest are plain streams: no two tasks are ever inside them at the
\* same time, not even when an error opens the whole ring.
StreamsExclusive ==
  \A i, j \in Tasks : pc[i] \in {"read", "write"} /\ pc[j] \in {"read", "write"} => i = j

\* Nothing is written behind a partial block, whatever the other tasks have
\* in hand when the write fails.
NothingAfterTorn == [][torn => written' = written]_vars

\* The call ends: neither the end of the source nor an error in any task
\* leaves another task waiting for a turn that does not come.
Terminates == <>(caller \in {"ok", "error"})

Sequential == INSTANCE BlockCopy WITH
  outcome <- IF caller \in {"ok", "error"} THEN caller ELSE "running"

\* A call on a pool does what the call without a pool does.
Implements == Sequential!Safety
=============================================================================
