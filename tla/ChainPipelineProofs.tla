------------------------ MODULE ChainPipelineProofs -------------------------
(***************************************************************************)
(* Theorems about ChainPipeline, for any number of threads of the pool and *)
(* of blocks, with an error in any step of any task.                       *)
(***************************************************************************)
EXTENDS ChainPipeline, TLAPS

Places == {"absent", "queued", "first", "top", "read", "convert", "second", "write",
           "catch", "open", "done"}

TypeOK == /\ turn \in [Tasks -> Nat]
          /\ left \in 0..NumBlocks
          /\ pc \in [Tasks -> Places]
          /\ block \in [Tasks -> Nat]
          /\ written \in Seq(Nat)
          /\ caller \in {"submit", "start", "cancel", "wait", "ok", "error"}

\* Nothing happens before the caller gives the turn, and nothing after its end.
Stages == /\ caller \in {"submit", "start"} =>
               /\ ~ectx /\ ~torn /\ left = NumBlocks /\ written = <<>>
               /\ \A i \in Tasks : turn[i] = 0 /\ pc[i] \in {"absent", "queued", "first"}
          /\ caller = "cancel" => ectx
          /\ caller \notin {"submit", "cancel"} /\ ~ectx => \A i \in Tasks : pc[i] # "absent"
          /\ caller \in {"ok", "error"} => \A i \in Tasks : pc[i] \in {"absent", "done"}
          /\ \A i \in Tasks : pc[i] = "open" => ectx
          /\ ~ectx => \A i \in Tasks : pc[i] = "done" => left = 0

\* Before the error is set there is one turn, in a semaphore or with a task,
\* unless the task that had it has failed.
HasTurn(i) == turn[i] > 0 \/ pc[i] \in {"top", "read", "write"}

OneTurn == ~ectx =>
  /\ \A i, j \in Tasks : HasTurn(i) /\ HasTurn(j) => i = j
  /\ \A i \in Tasks : turn[i] <= 1 /\ (turn[i] > 0 => pc[i] \notin {"top", "read", "write"})
  /\ caller \notin {"submit", "start"} =>
       (\E i \in Tasks : HasTurn(i)) \/ (\E i \in Tasks : pc[i] = "catch")

\* Whose turn comes first when task t has it.
Before(t, i, j) == \/ i < j /\ (j < t \/ t <= i)
                   \/ j < t /\ t <= i

InHand(i) == pc[i] \in {"convert", "second", "write", "catch"}
Taken == NumBlocks - left

\* The blocks in hand are those read and not yet written, and their tasks come
\* to their turn in the order of the blocks.
Ring(t) ==
  /\ \A i \in Tasks : InHand(i) => Len(written) < block[i] /\ block[i] <= Taken
  /\ \A b \in Nat : Len(written) < b /\ b <= Taken => \E i \in Tasks : InHand(i) /\ block[i] = b
  /\ \A i, j \in Tasks : InHand(i) /\ InHand(j) /\ i # j =>
       block[i] # block[j] /\ (block[i] < block[j] => Before(t, i, j))

RingOrder == ~ectx => \A t \in Tasks : HasTurn(t) => Ring(t)

\* Who is about to write has the next block, also when another task has failed
\* meanwhile; behind a torn block nobody is.
Writer == /\ Len(written) <= Taken
          /\ \A i \in Tasks : pc[i] = "write" =>
                block[i] = Len(written) + 1 /\ block[i] <= Taken
          /\ torn => \A i \in Tasks : pc[i] # "write" /\ (~ectx => ~HasTurn(i))

Reading == \A i \in Tasks : pc[i] = "read" => left > 0

IInv == TypeOK /\ Reading /\ Stages /\ OneTurn /\ StreamsExclusive /\ RingOrder /\ Writer

-----------------------------------------------------------------------------
LEMMA SuccessorType == \A i \in Tasks : Successor(i) \in Tasks
                                        /\ Successor(i) = IF i = NumTasks THEN 1 ELSE i + 1
BY PipelineAssumption DEF Successor, Tasks

LEMMA InitInv == Init => IInv
<1> SUFFICES ASSUME Init PROVE IInv
  OBVIOUS
<1>1. TypeOK
  BY PipelineAssumption DEF Init, TypeOK, Places
<1>2. Stages /\ StreamsExclusive /\ Reading
  BY DEF Init, Stages, StreamsExclusive, Reading
<1>3. \A i \in Tasks : ~HasTurn(i)
  BY DEF Init, HasTurn
<1>4. OneTurn /\ RingOrder
  BY <1>3 DEF Init, OneTurn, RingOrder
<1>5. Writer
  BY PipelineAssumption DEF Init, Writer, Taken
<1>6. QED
  BY <1>1, <1>2, <1>4, <1>5 DEF IInv

LEMMA TypeStep == TypeOK /\ Reading /\ [Next]_vars => TypeOK'
<1> SUFFICES ASSUME TypeOK, Reading, [Next]_vars PROVE TypeOK'
  OBVIOUS
<1> USE DEF control, data, Go, HandOn, OpenAll, Places
<1>1. CASE Submit
  BY <1>1 DEF Submit, TypeOK
<1>2. CASE GiveTurn
  BY <1>2, PipelineAssumption DEF GiveTurn, TypeOK, Tasks
<1>3. CASE Cancel
  BY <1>3 DEF Cancel, TypeOK
<1>4. CASE Return
  BY <1>4 DEF Return, TypeOK
<1>5. ASSUME NEW i \in Tasks, Start(i) \/ TaskNext(i) \/ Fail(i) PROVE TypeOK'
  <2>1. CASE Start(i)
    BY <2>1 DEF Start, TypeOK
  <2>2. CASE FirstTurn(i)
    BY <2>2 DEF FirstTurn, TypeOK
  <2>3. CASE Top(i)
    <3>1. (OpenAll \/ HandOn(i) \/ UNCHANGED turn) /\ (Go(i, "done") \/ Go(i, "read"))
      BY <2>3, Zenon DEF Top
    <3>2. turn' \in [Tasks -> Nat]
      <4>1. CASE OpenAll
        BY <4>1 DEF TypeOK
      <4>2. CASE HandOn(i)
        BY <4>2, SuccessorType DEF TypeOK
      <4>3. CASE UNCHANGED turn
        BY <4>3 DEF TypeOK
      <4>4. QED
        BY <3>1, <4>1, <4>2, <4>3
    <3>3. QED
      BY <2>3, <3>1, <3>2 DEF Top, TypeOK
  <2>4. CASE Read(i)
    <3>1. left > 0
      BY <2>4 DEF Read, Reading
    <3>2. QED
      BY <2>4, <3>1, SuccessorType, PipelineAssumption DEF Read, TypeOK
  <2>5. CASE Convert(i)
    BY <2>5 DEF Convert, TypeOK
  <2>6. CASE WriteTurn(i)
    <3>1. \/ turn' = [j \in Tasks |-> IF j = i THEN turn[j] ELSE turn[j] + 1] /\ Go(i, "done")
          \/ turn' = [turn EXCEPT ![i] = @ - 1] /\ Go(i, "write")
      BY <2>6, Zenon DEF WriteTurn
    <3>2. turn' \in [Tasks -> Nat]
      BY <2>6, <3>1 DEF WriteTurn, TypeOK
    <3>3. QED
      BY <2>6, <3>1, <3>2 DEF WriteTurn, TypeOK
  <2>7. CASE Write(i)
    BY <2>7 DEF Write, TypeOK
  <2>8. CASE Fail(i)
    BY <2>8 DEF Fail, TypeOK
  <2>9. CASE Catch(i)
    BY <2>9 DEF Catch, TypeOK
  <2>10. CASE OpenRing(i)
    BY <2>10 DEF OpenRing, TypeOK
  <2>11. QED
    BY <1>5, <2>1, <2>2, <2>3, <2>4, <2>5, <2>6, <2>7, <2>8, <2>9, <2>10 DEF TaskNext
<1>6. CASE Finished \/ UNCHANGED vars
  BY <1>6 DEF Finished, vars, TypeOK
<1>7. QED
  BY <1>1, <1>2, <1>3, <1>4, <1>5, <1>6 DEF Next

\* The stages of the call.
LEMMA StagesStep == IInv /\ [Next]_vars => Stages'
<1> SUFFICES ASSUME IInv, [Next]_vars PROVE Stages'
  OBVIOUS
<1> USE SuccessorType DEF control, data, Go, HandOn, OpenAll, Places
<1>1. CASE Submit
  BY <1>1 DEF Submit, IInv, TypeOK, Stages
<1>2. CASE GiveTurn
  BY <1>2 DEF GiveTurn, IInv, TypeOK, Stages
<1>3. CASE Cancel
  BY <1>3 DEF Cancel, IInv, TypeOK, Stages
<1>4. CASE Return
  BY <1>4 DEF Return, IInv, TypeOK, Stages
<1>5. ASSUME NEW i \in Tasks, Start(i) \/ TaskNext(i) \/ Fail(i) PROVE Stages'
  <2>1. CASE Start(i)
    BY <2>1 DEF Start, IInv, TypeOK, Stages
  <2>2. CASE FirstTurn(i)
    BY <2>2 DEF FirstTurn, IInv, TypeOK, Stages
  <2>3. CASE Top(i)
    BY <2>3 DEF Top, IInv, TypeOK, Stages
  <2>4. CASE Read(i)
    BY <2>4 DEF Read, IInv, TypeOK, Stages, Reading
  <2>5. CASE Convert(i)
    BY <2>5 DEF Convert, IInv, TypeOK, Stages
  <2>6. CASE WriteTurn(i)
    BY <2>6 DEF WriteTurn, IInv, TypeOK, Stages
  <2>7. CASE Write(i)
    BY <2>7 DEF Write, IInv, TypeOK, Stages
  <2>8. CASE Fail(i)
    BY <2>8 DEF Fail, IInv, TypeOK, Stages
  <2>9. CASE Catch(i)
    BY <2>9 DEF Catch, IInv, TypeOK, Stages
  <2>10. CASE OpenRing(i)
    BY <2>10 DEF OpenRing, IInv, TypeOK, Stages
  <2>11. QED
    BY <1>5, <2>1, <2>2, <2>3, <2>4, <2>5, <2>6, <2>7, <2>8, <2>9, <2>10 DEF TaskNext
<1>6. CASE Finished \/ UNCHANGED vars
  BY <1>6 DEF Finished, vars, IInv, Stages
<1>7. QED
  BY <1>1, <1>2, <1>3, <1>4, <1>5, <1>6 DEF Next

\* The turn is passed on or spent, and opened for everybody only with an error.
LEMMA TurnStep == IInv /\ [Next]_vars => OneTurn' /\ StreamsExclusive' /\ Reading'
<1> SUFFICES ASSUME IInv, [Next]_vars PROVE OneTurn' /\ StreamsExclusive' /\ Reading'
  OBVIOUS
<1> USE SuccessorType DEF control, data, Go, HandOn, OpenAll, Places
<1> USE DEF IInv, TypeOK, Stages, OneTurn, HasTurn, StreamsExclusive, Reading
<1>1. CASE Submit
  BY <1>1 DEF Submit
<1>2. CASE GiveTurn
  <2>1. 1 \in Tasks /\ \A i \in Tasks : turn'[i] = IF i = 1 THEN 1 ELSE 0
    BY <1>2, PipelineAssumption DEF GiveTurn, Tasks
  <2>2. UNCHANGED <<ectx, pc, left>> /\ \A i \in Tasks : pc[i] \notin {"top", "read", "write"}
    BY <1>2 DEF GiveTurn
  <2>3. \A i \in Tasks : HasTurn(i)' <=> i = 1
    BY <2>1, <2>2
  <2>4. OneTurn'
    BY <2>1, <2>2, <2>3
  <2>5. StreamsExclusive' /\ Reading'
    BY <2>2
  <2>6. QED
    BY <2>4, <2>5
<1>3. CASE Cancel
  BY <1>3 DEF Cancel
<1>4. CASE Return
  BY <1>4 DEF Return
<1>5. ASSUME NEW i \in Tasks, Start(i) \/ TaskNext(i) \/ Fail(i)
      PROVE  OneTurn' /\ StreamsExclusive' /\ Reading'
  <2>1. CASE Start(i)
    BY <2>1 DEF Start
  <2>2. CASE FirstTurn(i)
    BY <2>2 DEF FirstTurn
  <2>3. CASE Top(i)
    <3>1. pc[i] = "top" /\ UNCHANGED <<ectx, left, caller>>
      BY <2>3 DEF Top
    <3>2. CASE ectx
      <4>1. Go(i, "done")
        BY <2>3, <3>2 DEF Top
      <4>2. QED
        BY <3>1, <3>2, <4>1
    <3>3. CASE ~ectx /\ left = 0
      <4>1. Go(i, "done") /\ HandOn(i)
        BY <2>3, <3>3 DEF Top
      <4>2. QED
        BY <3>1, <3>3, <4>1
    <3>4. CASE ~ectx /\ left # 0
      <4>1. Go(i, "read") /\ UNCHANGED turn /\ left > 0
        BY <2>3, <3>4 DEF Top
      <4>2. QED
        BY <3>1, <3>4, <4>1
    <3>5. QED
      BY <3>2, <3>3, <3>4
  <2>4. CASE Read(i)
    BY <2>4 DEF Read
  <2>5. CASE Convert(i)
    BY <2>5 DEF Convert
  <2>6. CASE WriteTurn(i)
    <3>1. pc[i] = "second" /\ turn[i] > 0 /\ UNCHANGED <<ectx, left, caller>>
      BY <2>6 DEF WriteTurn
    <3>2. CASE ectx
      <4>1. Go(i, "done")
        BY <2>6, <3>2 DEF WriteTurn
      <4>2. QED
        BY <3>1, <3>2, <4>1
    <3>3. CASE ~ectx
      <4>1. Go(i, "write") /\ turn' = [turn EXCEPT ![i] = @ - 1]
        BY <2>6, <3>3 DEF WriteTurn
      <4>2. QED
        BY <3>1, <3>3, <4>1
    <3>4. QED
      BY <3>2, <3>3
  <2>7. CASE Write(i)
    BY <2>7 DEF Write
  <2>8. CASE Fail(i)
    BY <2>8 DEF Fail
  <2>9. CASE Catch(i)
    BY <2>9 DEF Catch
  <2>10. CASE OpenRing(i)
    BY <2>10 DEF OpenRing
  <2>11. QED
    BY <1>5, <2>1, <2>2, <2>3, <2>4, <2>5, <2>6, <2>7, <2>8, <2>9, <2>10 DEF TaskNext
<1>6. CASE Finished \/ UNCHANGED vars
  BY <1>6 DEF Finished, vars
<1>7. QED
  BY <1>1, <1>2, <1>3, <1>4, <1>5, <1>6 DEF Next

-----------------------------------------------------------------------------
(* The order of the ring.                                                  *)

\* The task whose turn it is has the next block, if it has one.
LEMMA NextBlock ==
  ASSUME TypeOK, NEW t \in Tasks, Ring(t), InHand(t)
  PROVE  block[t] = Len(written) + 1
<1> DEFINE b == Len(written) + 1
<1>1. Len(written) \in Nat /\ block[t] \in Nat /\ Taken \in Nat
  BY PipelineAssumption DEF TypeOK, Taken
<1>2. b <= block[t] /\ b <= Taken
  BY <1>1 DEF Ring
<1>3. PICK i \in Tasks : InHand(i) /\ block[i] = b
  BY <1>1, <1>2 DEF Ring
<1>4. ~Before(t, i, t)
  BY DEF Before, Tasks
<1>5. QED
  BY <1>1, <1>2, <1>3, <1>4 DEF Ring

\* When the turn goes on, the task that had it becomes the last.
LEMMA Onwards ==
  ASSUME NEW t \in Tasks, NEW i \in Tasks, NEW j \in Tasks, i # t
  PROVE  /\ j # t /\ Before(t, i, j) => Before(Successor(t), i, j)
         /\ j = t => Before(Successor(t), i, j)
BY SuccessorType, PipelineAssumption DEF Before, Tasks

\* The blocks in hand and the order of the ring do not depend on more than this.
LEMMA RingSame ==
  ASSUME NEW t \in Tasks, Ring(t), written' = written, left' = left, block' = block,
         \A i \in Tasks : InHand(i)' <=> InHand(i)
  PROVE  Ring(t)'
BY DEF Ring, Taken

LEMMA RingReads ==
  ASSUME TypeOK, Reading, Len(written) <= Taken, NEW t \in Tasks, Ring(t), Read(t)
  PROVE  Ring(Successor(t))'
<1>1. /\ written' = written /\ left' = left - 1 /\ left > 0
      /\ block' = [block EXCEPT ![t] = NumBlocks - left + 1]
      /\ pc[t] = "read" /\ pc' = [pc EXCEPT ![t] = "convert"]
  BY DEF Read, Go, data, Reading
<1>2. /\ Len(written) \in Nat /\ Taken \in Nat /\ Taken' = Taken + 1 /\ block'[t] = Taken'
      /\ \A i \in Tasks : block[i] \in Nat
  BY <1>1, PipelineAssumption DEF TypeOK, Taken
<1>3. /\ ~InHand(t) /\ InHand(t)'
      /\ \A i \in Tasks \ {t} : (InHand(i)' <=> InHand(i)) /\ block'[i] = block[i]
  BY <1>1 DEF InHand, TypeOK
<1>4. ASSUME NEW i \in Tasks, InHand(i)'
      PROVE  Len(written') < block'[i] /\ block'[i] <= Taken'
  <2>1. CASE i = t
    BY <1>1, <1>2, <2>1
  <2>2. CASE i # t
    BY <1>1, <1>2, <1>3, <1>4, <2>2 DEF Ring
  <2>3. QED
    BY <2>1, <2>2
<1>5. ASSUME NEW b \in Nat, Len(written') < b, b <= Taken'
      PROVE  \E i \in Tasks : InHand(i)' /\ block'[i] = b
  BY <1>1, <1>2, <1>3, <1>5 DEF Ring
<1>6. ASSUME NEW i \in Tasks, NEW j \in Tasks, InHand(i)', InHand(j)', i # j
      PROVE  block'[i] # block'[j] /\ (block'[i] < block'[j] => Before(Successor(t), i, j))
  <2>1. CASE i # t /\ j # t
    BY <1>3, <1>6, <2>1, Onwards DEF Ring
  <2>2. CASE i # t /\ j = t
    BY <1>2, <1>3, <1>6, <2>2, Onwards DEF Ring
  <2>3. CASE i = t
    BY <1>2, <1>3, <1>6, <2>3 DEF Ring
  <2>4. QED
    BY <2>1, <2>2, <2>3
<1>7. Successor(t)' = Successor(t)
  BY DEF Successor
<1>8. QED
  BY <1>4, <1>5, <1>6 DEF Ring, Before

LEMMA RingWrites ==
  ASSUME TypeOK, NEW t \in Tasks, Ring(t), Write(t)
  PROVE  Ring(t)'
<1>1. /\ written' = Append(written, block[t]) /\ left' = left /\ block' = block
      /\ pc[t] = "write" /\ pc' = [pc EXCEPT ![t] = "top"]
  BY DEF Write, Go, control
<1>2. /\ Len(written) \in Nat /\ Taken \in Nat /\ Taken' = Taken
      /\ Len(written') = Len(written) + 1
      /\ \A i \in Tasks : block[i] \in Nat
  BY <1>1, PipelineAssumption DEF TypeOK, Taken
<1>3. /\ InHand(t) /\ ~InHand(t)'
      /\ \A i \in Tasks \ {t} : InHand(i)' <=> InHand(i)
  BY <1>1 DEF InHand, TypeOK
<1>4. block[t] = Len(written) + 1
  BY <1>3, NextBlock
<1>5. QED
  BY <1>1, <1>2, <1>3, <1>4 DEF Ring

LEMMA RingStep == IInv /\ [Next]_vars => RingOrder'
<1> SUFFICES ASSUME IInv, [Next]_vars, ~ectx', NEW t \in Tasks, HasTurn(t)' PROVE Ring(t)'
  BY DEF RingOrder
<1> USE DEF control, data, Go
<1>1. TypeOK /\ Reading /\ Stages /\ OneTurn /\ RingOrder /\ Len(written) <= Taken
  BY DEF IInv, Writer
<1>2. ASSUME ~ectx, HasTurn(t), written' = written, left' = left, block' = block,
             \A i \in Tasks : InHand(i)' <=> InHand(i)
      PROVE  Ring(t)'
  BY <1>1, <1>2, RingSame DEF RingOrder
<1>3. CASE Submit
  <2>1. turn[t] = 0 /\ turn' = turn /\ pc'[t] \in {"queued", "absent"}
    BY <1>1, <1>3 DEF Submit, Stages
  <2>2. QED
    BY <2>1 DEF HasTurn
<1>4. CASE GiveTurn
  <2>1. /\ \A i \in Tasks : ~InHand(i)'
        /\ written' = <<>> /\ left' = NumBlocks
    BY <1>1, <1>4 DEF GiveTurn, Stages, InHand
  <2>2. Len(written') = 0 /\ Taken' = 0
    BY <2>1, PipelineAssumption DEF Taken
  <2>3. QED
    BY <2>1, <2>2 DEF Ring
<1>5. CASE Cancel
  BY <1>1, <1>5 DEF Cancel, Stages
<1>6. CASE Return
  BY <1>2, <1>6 DEF Return, HasTurn, InHand
<1>7. ASSUME NEW i \in Tasks, Start(i) \/ TaskNext(i) \/ Fail(i) PROVE Ring(t)'
  <2>1. CASE Start(i)
    BY <1>1, <1>2, <2>1 DEF Start, HasTurn, InHand, TypeOK
  <2>2. CASE FirstTurn(i)
    BY <1>1, <1>2, <2>2 DEF FirstTurn, HasTurn, InHand, TypeOK
  <2>3. CASE Top(i)
    <3>1. pc[i] = "top" /\ UNCHANGED <<ectx, left, block, written>> /\ HasTurn(i) /\ ~ectx
      BY <2>3 DEF Top, HasTurn
    <3>2. Ring(i) /\ \A j \in Tasks \ {i} : ~HasTurn(j)
      BY <1>1, <3>1 DEF RingOrder, OneTurn
    <3>3. CASE left = 0
      <4>1. pc' = [pc EXCEPT ![i] = "done"] /\ HandOn(i)
        BY <2>3, <3>1, <3>3 DEF Top
      <4>2. t = Successor(i)
        BY <1>1, <3>1, <3>2, <4>1, SuccessorType DEF HandOn, HasTurn, TypeOK, OneTurn
      <4>3. \A j \in Tasks : (InHand(j)' <=> InHand(j)) /\ (InHand(j) => j # i)
        BY <1>1, <3>1, <4>1 DEF InHand, TypeOK
      <4>4. \A j, k \in Tasks : j # i /\ k # i /\ Before(i, j, k) => Before(t, j, k)
        BY <4>2, Onwards
      <4>5. QED
        BY <3>1, <3>2, <4>3, <4>4 DEF Ring, Taken
    <3>4. CASE left # 0
      <4>1. pc' = [pc EXCEPT ![i] = "read"] /\ UNCHANGED turn
        BY <2>3, <3>1, <3>4 DEF Top
      <4>2. QED
        BY <1>1, <1>2, <3>1, <4>1 DEF HasTurn, InHand, TypeOK
    <3>5. QED
      BY <3>3, <3>4
  <2>4. CASE Read(i)
    <3>1. pc[i] = "read" /\ HasTurn(i) /\ ~ectx /\ HandOn(i) /\ pc' = [pc EXCEPT ![i] = "convert"]
      BY <2>4 DEF Read, HasTurn
    <3>2. Ring(i) /\ \A j \in Tasks \ {i} : ~HasTurn(j)
      BY <1>1, <3>1 DEF RingOrder, OneTurn
    <3>3. t = Successor(i)
      BY <1>1, <3>1, <3>2, SuccessorType DEF HandOn, HasTurn, TypeOK, OneTurn
    <3>4. QED
      BY <1>1, <2>4, <3>2, <3>3, RingReads
  <2>5. CASE Convert(i)
    BY <1>1, <1>2, <2>5 DEF Convert, HasTurn, InHand, TypeOK
  <2>6. CASE WriteTurn(i)
    <3>1. pc[i] = "second" /\ turn[i] > 0 /\ UNCHANGED <<ectx, left, block, written>> /\ ~ectx
      BY <2>6 DEF WriteTurn
    <3>2. turn' = [turn EXCEPT ![i] = @ - 1] /\ pc' = [pc EXCEPT ![i] = "write"]
      BY <2>6, <3>1 DEF WriteTurn
    <3>3. QED
      BY <1>1, <1>2, <3>1, <3>2 DEF HasTurn, InHand, TypeOK
  <2>7. CASE Write(i)
    <3>1. pc[i] = "write" /\ ~ectx /\ turn' = turn /\ pc' = [pc EXCEPT ![i] = "top"]
      BY <2>7 DEF Write
    <3>2. HasTurn(i) /\ HasTurn(t)
      BY <1>1, <3>1 DEF HasTurn, TypeOK
    <3>3. t = i /\ Ring(i)
      BY <1>1, <3>1, <3>2 DEF OneTurn, RingOrder
    <3>4. QED
      BY <1>1, <2>7, <3>3, RingWrites
  <2>8. CASE Fail(i)
    <3>1. /\ UNCHANGED <<turn, ectx, left, block, written>> /\ ~ectx
          /\ pc' = [pc EXCEPT ![i] = "catch"] /\ pc[i] \in {"read", "convert", "write"}
      BY <2>8 DEF Fail
    <3>2. CASE pc[i] \in {"read", "write"}
      <4>1. HasTurn(i) /\ turn[i] = 0
        BY <1>1, <3>1, <3>2 DEF HasTurn, OneTurn, TypeOK
      <4>2. ~HasTurn(i)' /\ (t # i => HasTurn(t))
        BY <1>1, <3>1, <4>1 DEF HasTurn, TypeOK
      <4>3. QED
        BY <1>1, <3>1, <4>1, <4>2 DEF OneTurn
    <3>3. CASE pc[i] = "convert"
      BY <1>1, <1>2, <3>1, <3>3 DEF HasTurn, InHand, TypeOK
    <3>4. QED
      BY <3>1, <3>2, <3>3
  <2>9. CASE Catch(i)
    BY <2>9 DEF Catch
  <2>10. CASE OpenRing(i)
    BY <1>1, <2>10 DEF OpenRing, Stages
  <2>11. QED
    BY <1>7, <2>1, <2>2, <2>3, <2>4, <2>5, <2>6, <2>7, <2>8, <2>9, <2>10 DEF TaskNext
<1>8. CASE Finished \/ UNCHANGED vars
  BY <1>2, <1>8 DEF Finished, vars, HasTurn, InHand
<1>9. QED
  BY <1>3, <1>4, <1>5, <1>6, <1>7, <1>8 DEF Next

LEMMA WriterStep == IInv /\ [Next]_vars => Writer'
<1> SUFFICES ASSUME IInv, [Next]_vars PROVE Writer'
  OBVIOUS
<1> USE DEF control, data, Go
<1>1. TypeOK /\ Reading /\ Stages /\ OneTurn /\ RingOrder /\ Writer /\ StreamsExclusive
  BY DEF IInv
<1>2. Len(written) \in Nat /\ Taken \in Nat /\ Len(written) <= Taken
  BY <1>1, PipelineAssumption DEF TypeOK, Taken, Writer
<1>3. ASSUME UNCHANGED <<written, left, block, torn>>,
             \A i \in Tasks : pc'[i] = "write" => pc[i] = "write",
             torn /\ ~ectx' => ~ectx /\ \A i \in Tasks : HasTurn(i)' => HasTurn(i)
      PROVE  Writer'
  BY <1>1, <1>3 DEF Writer, Taken
<1>4. CASE Submit
  BY <1>1, <1>3, <1>4 DEF Submit, Stages, TypeOK
<1>5. CASE GiveTurn
  BY <1>1, <1>3, <1>5 DEF GiveTurn, Stages
<1>6. CASE Cancel
  BY <1>1, <1>3, <1>6 DEF Cancel, Stages
<1>7. CASE Return
  BY <1>3, <1>7 DEF Return, HasTurn
<1>8. ASSUME NEW i \in Tasks, Start(i) \/ TaskNext(i) \/ Fail(i) PROVE Writer'
  <2>1. CASE Start(i)
    BY <1>1, <1>3, <2>1 DEF Start, HasTurn, TypeOK
  <2>2. CASE FirstTurn(i)
    BY <1>1, <1>3, <2>2 DEF FirstTurn, HasTurn, TypeOK
  <2>3. CASE Top(i)
    <3>1. /\ pc[i] = "top" /\ UNCHANGED <<ectx, left, block, written, torn>>
          /\ \A j \in Tasks : pc'[j] = "write" => pc[j] = "write"
      BY <1>1, <2>3 DEF Top, TypeOK
    <3>2. torn => ectx
      BY <1>1, <3>1 DEF Writer, HasTurn
    <3>3. QED
      BY <1>3, <3>1, <3>2
  <2>4. CASE Read(i)
    <3>1. /\ pc[i] = "read" /\ UNCHANGED <<ectx, written, torn>>
          /\ left' = left - 1 /\ \A j \in Tasks \ {i} : block'[j] = block[j] /\ pc'[j] = pc[j]
          /\ pc'[i] = "convert"
      BY <1>1, <2>4 DEF Read, TypeOK
    <3>2. Taken' = Taken + 1
      BY <1>1, <3>1, PipelineAssumption DEF Taken, TypeOK
    <3>3. torn => ectx
      BY <1>1, <3>1 DEF Writer, HasTurn
    <3>4. \A j \in Tasks : pc[j] # "write"
      BY <1>1, <3>1 DEF StreamsExclusive
    <3>5. QED
      BY <1>2, <3>1, <3>2, <3>3, <3>4 DEF Writer
  <2>5. CASE Convert(i)
    BY <1>1, <1>3, <2>5 DEF Convert, HasTurn, TypeOK
  <2>6. CASE WriteTurn(i)
    <3>1. pc[i] = "second" /\ turn[i] > 0 /\ UNCHANGED <<ectx, left, block, written, torn>>
      BY <2>6 DEF WriteTurn
    <3>2. CASE ectx
      <4>1. pc' = [pc EXCEPT ![i] = "done"]
        BY <2>6, <3>2 DEF WriteTurn
      <4>2. QED
        BY <1>1, <1>3, <3>1, <3>2, <4>1 DEF TypeOK
    <3>3. CASE ~ectx
      <4>1. pc' = [pc EXCEPT ![i] = "write"]
        BY <2>6, <3>3 DEF WriteTurn
      <4>2. HasTurn(i) /\ InHand(i) /\ Ring(i)
        BY <1>1, <3>1, <3>3 DEF HasTurn, InHand, RingOrder
      <4>3. block[i] = Len(written) + 1 /\ block[i] <= Taken
        BY <1>1, <4>2, NextBlock DEF Ring
      <4>4. ~torn
        BY <1>1, <3>3, <4>2 DEF Writer
      <4>5. QED
        BY <1>1, <3>1, <4>1, <4>3, <4>4 DEF Writer, Taken, TypeOK
    <3>4. QED
      BY <3>2, <3>3
  <2>7. CASE Write(i)
    <3>1. /\ pc[i] = "write" /\ UNCHANGED <<turn, ectx, left, block, torn>>
          /\ written' = Append(written, block[i])
          /\ pc'[i] = "top" /\ \A j \in Tasks \ {i} : pc'[j] = pc[j]
      BY <1>1, <2>7 DEF Write, TypeOK
    <3>2. ~torn /\ \A j \in Tasks : pc'[j] # "write"
      BY <1>1, <3>1 DEF Writer, StreamsExclusive
    <3>3. Len(written') = Len(written) + 1 /\ Taken' = Taken /\ Len(written) + 1 <= Taken
      BY <1>1, <3>1 DEF Writer, Taken, TypeOK
    <3>4. QED
      BY <3>1, <3>2, <3>3 DEF Writer
  <2>8. CASE Fail(i)
    <3>1. /\ UNCHANGED <<turn, ectx, left, block, written>>
          /\ pc'[i] = "catch" /\ \A j \in Tasks \ {i} : pc'[j] = pc[j]
          /\ torn' <=> (torn \/ pc[i] = "write")
      BY <1>1, <2>8 DEF Fail, TypeOK
    <3>2. \A j \in Tasks : HasTurn(j)' => HasTurn(j)
      BY <3>1 DEF HasTurn
    <3>3. CASE pc[i] = "write"
      <4>1. \A j \in Tasks : pc'[j] # "write"
        BY <1>1, <3>1, <3>3 DEF StreamsExclusive
      <4>2. ~ectx => turn[i] = 0 /\ \A j \in Tasks \ {i} : ~HasTurn(j)
        BY <1>1, <3>3 DEF OneTurn, HasTurn, TypeOK
      <4>3. ~ectx => \A j \in Tasks : ~HasTurn(j)'
        BY <3>1, <3>2, <4>2 DEF HasTurn
      <4>4. QED
        BY <1>1, <3>1, <4>1, <4>3 DEF Writer, Taken
    <3>4. CASE pc[i] # "write"
      BY <1>1, <3>1, <3>2, <3>4 DEF Writer, Taken
    <3>5. QED
      BY <3>3, <3>4
  <2>9. CASE Catch(i)
    BY <1>1, <1>3, <2>9 DEF Catch, TypeOK
  <2>10. CASE OpenRing(i)
    BY <1>1, <1>3, <2>10 DEF OpenRing, Stages, TypeOK
  <2>11. QED
    BY <1>8, <2>1, <2>2, <2>3, <2>4, <2>5, <2>6, <2>7, <2>8, <2>9, <2>10 DEF TaskNext
<1>9. CASE Finished \/ UNCHANGED vars
  BY <1>3, <1>9 DEF Finished, vars, HasTurn
<1>10. QED
  BY <1>4, <1>5, <1>6, <1>7, <1>8, <1>9 DEF Next

-----------------------------------------------------------------------------
LEMMA InvCorrect == Spec => []IInv
<1>1. IInv /\ [Next]_vars => IInv'
  <2> SUFFICES ASSUME IInv, [Next]_vars PROVE IInv'
    OBVIOUS
  <2>1. TypeOK'
    BY TypeStep DEF IInv
  <2>2. QED
    BY <2>1, StagesStep, TurnStep, RingStep, WriterStep DEF IInv
<1>2. QED
  BY <1>1, InitInv, PTL DEF Spec

\* The semaphores, the counters and the tasks' locals keep their types.
THEOREM TypeCorrect == Spec => []TypeOK
<1>1. IInv => TypeOK
  BY DEF IInv
<1>2. QED
  BY <1>1, InvCorrect, PTL

\* However many tasks share them, source and dest have one user at a time, also
\* when an error has opened the whole ring.
THEOREM ExclusiveCorrect == Spec => []StreamsExclusive
<1>1. IInv => StreamsExclusive
  BY DEF IInv
<1>2. QED
  BY <1>1, InvCorrect, PTL

\* No task writes behind a torn block, whatever it has in hand.
THEOREM TornCorrect == Spec => NothingAfterTorn
<1>1. IInv /\ [Next]_vars => [torn => written' = written]_vars
  <2> SUFFICES ASSUME IInv, [Next]_vars, torn PROVE written' = written
    OBVIOUS
  <2>1. \A i \in Tasks : ~Write(i)
    BY DEF IInv, Writer, Write
  <2>2. QED
    BY <2>1 DEF Next, TaskNext, vars, control, data, Submit, GiveTurn, Cancel, Return, Start,
                FirstTurn, Top, Read, Convert, WriteTurn, Catch, OpenRing, Fail, Finished
<1>2. QED
  BY <1>1, InvCorrect, PTL DEF Spec, NothingAfterTorn

\* A call that ends without an error has read and written every block.
LEMMA AllWritten ==
  ASSUME IInv, caller = "wait", ~ectx, \A i \in Tasks : pc[i] \in {"absent", "done"}
  PROVE  Len(written) = NumBlocks
<1>1. 1 \in Tasks
  BY PipelineAssumption DEF Tasks
<1>2. left = 0
  BY <1>1 DEF IInv, Stages
<1>3. PICK t \in Tasks : Ring(t)
  BY DEF IInv, OneTurn, RingOrder
<1>4. \A i \in Tasks : ~InHand(i)
  BY DEF InHand
<1>5. Len(written) \in Nat /\ Len(written) <= Taken /\ Taken = NumBlocks
  BY <1>2, PipelineAssumption DEF IInv, TypeOK, Writer, Taken
<1>6. ~(Len(written) < NumBlocks)
  BY <1>3, <1>4, <1>5, PipelineAssumption DEF Ring
<1>7. QED
  BY <1>5, <1>6, PipelineAssumption

\* A call on a pool does what the call without one does: it writes the next
\* block or nothing, and returns when all are written or throws.
THEOREM PipelineImplements == Spec => Implements
<1> DEFINE outcome == IF caller \in {"ok", "error"} THEN caller ELSE "running"
<1>1. Init => Sequential!Init
  BY DEF Init, Sequential!Init
<1>2. IInv /\ [Next]_vars => [Sequential!Next]_(Sequential!vars)
  <2> SUFFICES ASSUME IInv, [Next]_vars
               PROVE  Sequential!Next \/ UNCHANGED Sequential!vars
    OBVIOUS
  <2> USE DEF control, data
  <2>1. ASSUME UNCHANGED <<written, caller>> PROVE UNCHANGED Sequential!vars
    BY <2>1 DEF Sequential!vars
  <2>2. CASE Submit \/ GiveTurn \/ Cancel
    BY <2>2 DEF Submit, GiveTurn, Cancel, Sequential!vars
  <2>3. CASE Return
    <3>1. /\ written' = written /\ caller = "wait"
          /\ \A i \in Tasks : pc[i] \in {"absent", "done"}
      BY <2>3 DEF Return
    <3>2. CASE ectx
      <4>1. caller' = "error"
        BY <2>3, <3>2 DEF Return
      <4>2. QED
        BY <3>1, <4>1 DEF Sequential!Next, Sequential!Throw
    <3>3. CASE ~ectx
      <4>1. caller' = "ok"
        BY <2>3, <3>3 DEF Return
      <4>2. QED
        BY <3>1, <3>3, <4>1, AllWritten DEF Sequential!Next, Sequential!Return
    <3>4. QED
      BY <3>2, <3>3
  <2>4. ASSUME NEW i \in Tasks, Write(i) PROVE Sequential!Next
    <3>1. pc[i] = "write" /\ caller' = caller /\ written' = Append(written, block[i])
      BY <2>4 DEF Write
    <3>2. caller \notin {"ok", "error"}
      BY <3>1 DEF IInv, Stages
    <3>3. block[i] = Len(written) + 1 /\ block[i] <= NumBlocks
      BY <3>1, PipelineAssumption DEF IInv, Writer, Taken, TypeOK
    <3>4. Len(written) < NumBlocks
      BY <3>3, PipelineAssumption DEF IInv, TypeOK
    <3>5. QED
      BY <3>1, <3>2, <3>3, <3>4 DEF Sequential!Next, Sequential!Convert
  <2>5. ASSUME NEW i \in Tasks, Start(i) \/ TaskNext(i) \/ Fail(i)
        PROVE  Write(i) \/ UNCHANGED <<written, caller>>
    BY <2>5 DEF Start, TaskNext, FirstTurn, Top, Read, Convert, WriteTurn, Catch, OpenRing, Fail
  <2>6. CASE Finished \/ UNCHANGED vars
    BY <2>1, <2>6 DEF Finished, vars
  <2>7. QED
    BY <2>1, <2>2, <2>3, <2>4, <2>5, <2>6 DEF Next
<1>3. QED
  BY <1>1, <1>2, InvCorrect, PTL DEF Spec, Implements, Sequential!Safety
=============================================================================
