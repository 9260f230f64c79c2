--------------------------- MODULE SchedulerProofs --------------------------
(***************************************************************************)
(* Theorems about Scheduler, for any number of threads, requests and times *)
(* and any bounds, and about the media player on top of it, for any number *)
(* of streams.  What the player assumes of the constants (Player) is an    *)
(* assumption of its own theorems only.                                    *)
(***************************************************************************)
EXTENDS Playback, FiniteSetTheorems, SequenceTheorems, WellFoundedInduction, TLAPS

Flags == {"free", "timed", "interrupt", "break"}
Jobs == Requests \cup {Void, None}
Record == [flag : Flags, time : Nat, task : Jobs]
Places == {"scan", "sleep", "wait", "interrupted", "late", "run", "left"}

\* The types of what the properties read.
TypeOK == /\ now \in Nat
          /\ slots \in Seq(Record)
          /\ tokens \in Nat
          /\ pc \in [Workers -> Places]
          /\ task \in [Workers -> Jobs]
          /\ plan \in [Workers -> Nat]
          /\ wakes \subseteq Agents

Hearing == {w \in Workers : pc[w] = "interrupted"}

-----------------------------------------------------------------------------
(* Lemmas about the records.                                               *)

\* Min belongs to its set and is below the others, whether the set is finite or not.
LEMMA MinLemma ==
  ASSUME NEW S, S \subseteq Nat, S # {}
  PROVE  Min(S) \in S /\ \A x \in S : Min(S) <= x
<1>1. \E x \in S : \A y \in S : ~(<<y, x>> \in OpToRel(<, Nat))
  BY NatLessThanWellFounded, WFMin
<1>2. OpToRel(<, Nat) = {p \in Nat \X Nat : p[1] < p[2]}
  BY DEF OpToRel
<1>3. PICK x \in S : \A y \in S : ~(<<y, x>> \in {p \in Nat \X Nat : p[1] < p[2]})
  BY <1>1, <1>2
<1>4. ASSUME NEW y \in S PROVE x <= y
  <2>1. x \in Nat /\ y \in Nat
    OBVIOUS
  <2>2. ~(y < x)
    BY <1>3, <2>1
  <2>3. QED
    BY <2>1, <2>2
<1>5. QED
  BY <1>4 DEF Min

LEMMA SlotLemma ==
  ASSUME TypeOK, NEW i \in DOMAIN slots
  PROVE  i \in Nat /\ slots[i] \in Record /\ slots[i].time \in Nat /\ slots[i].task \in Jobs
<1>1. i \in 1..Len(slots) /\ slots[i] \in Record
  BY ElementOfSeq, LenProperties DEF TypeOK
<1>2. QED
  BY <1>1 DEF Record

\* A record goes into one slot, which was free or is new.
LEMMA PlacedLemma ==
  ASSUME TypeOK, NEW r \in Record, slots' = Placed(r)
  PROVE  /\ slots' \in Seq(Record)
         /\ \E i \in Nat : /\ i \in DOMAIN slots => slots[i].flag = "free"
                           /\ DOMAIN slots' = DOMAIN slots \cup {i}
                           /\ slots'[i] = r
                           /\ \A j \in DOMAIN slots \ {i} : slots'[j] = slots[j]
<1>1. CASE With("free") # {}
  <2> DEFINE i == First(With("free"))
  <2>1. With("free") \subseteq Nat
    BY DEF With, TypeOK
  <2>2. i \in DOMAIN slots /\ slots[i].flag = "free"
    BY <1>1, <2>1, MinLemma DEF First, With
  <2>3. slots' = [slots EXCEPT ![i] = r]
    BY <1>1 DEF Placed
  <2> HIDE DEF i
  <2>4. slots \in Seq(Record) /\ Len(slots) \in Nat /\ DOMAIN slots = 1..Len(slots)
    BY LenProperties DEF TypeOK
  <2>5. /\ slots' \in Seq(Record)
        /\ Len(slots') = Len(slots)
        /\ \A j \in 1..Len(slots) : slots'[j] = IF j = i THEN r ELSE slots[j]
    BY <2>2, <2>3, <2>4, ExceptSeq
  <2>6. DOMAIN slots' = 1..Len(slots)
    BY <2>5, LenProperties
  <2>7. QED
    BY <2>2, <2>4, <2>5, <2>6
<1>2. CASE With("free") = {}
  <2> DEFINE i == Len(slots) + 1
  <2>1. slots' = Append(slots, r)
    BY <1>2 DEF Placed
  <2>2. /\ slots' \in Seq(Record)
        /\ i \in Nat /\ i \notin DOMAIN slots
        /\ DOMAIN slots' = DOMAIN slots \cup {i}
        /\ slots'[i] = r
        /\ \A j \in DOMAIN slots \ {i} : slots'[j] = slots[j]
    BY <2>1 DEF TypeOK
  <2> HIDE DEF i
  <2>3. QED
    BY <2>2
<1>3. QED
  BY <1>1, <1>2

LEMMA EmptiedLemma ==
  ASSUME TypeOK, NEW i \in DOMAIN slots, slots' = Emptied(i)
  PROVE  /\ slots' \in Seq(Record)
         /\ DOMAIN slots' = DOMAIN slots
         /\ slots'[i].flag = "free"
         /\ \A j \in DOMAIN slots \ {i} : slots'[j] = slots[j]
BY DEF TypeOK, Emptied, FreeSlot, Record, Flags, Jobs

LEMMA NearestLemma ==
  ASSUME TypeOK
  PROVE  /\ Nearest \in Nat
         /\ \A i \in With("timed") : Nearest <= slots[i].time
         /\ Nearest = Never \/ \E i \in With("timed") : slots[i].time = Nearest
<1> DEFINE S == {slots[i].time : i \in With("timed")} \cup {Never}
<1>1. S \subseteq Nat /\ S # {}
  BY TimeAssumption, SlotLemma DEF With, Never
<1>2. Nearest \in S /\ \A x \in S : Nearest <= x
  BY <1>1, MinLemma DEF Nearest
<1>3. QED
  BY <1>1, <1>2

LEMMA FiniteLemma ==
  ASSUME TypeOK
  PROVE  /\ IsFiniteSet(Pending) /\ Cardinality(Pending) \in Nat
         /\ IsFiniteSet(Hearing) /\ Cardinality(Hearing) \in Nat
<1>1. IsFiniteSet(1..Len(slots))
  BY FS_Interval DEF TypeOK
<1>2. Pending \subseteq 1..Len(slots)
  BY DEF TypeOK, Pending, With
<1>3. IsFiniteSet(Pending)
  BY <1>1, <1>2, FS_Subset
<1>4. IsFiniteSet(Hearing)
  BY FiniteAssumption, FS_Subset DEF Hearing
<1>5. QED
  BY <1>3, <1>4, FS_CardinalityType

\* An interrupt or a Break is one more thing to be heard.
LEMMA SignalLemma ==
  ASSUME TypeOK, NEW r \in Record, r.flag \in {"interrupt", "break"}, slots' = Placed(r)
  PROVE  Cardinality(Pending') = Cardinality(Pending) + 1
<1>1. PICK i \in Nat : /\ i \in DOMAIN slots => slots[i].flag = "free"
                       /\ DOMAIN slots' = DOMAIN slots \cup {i}
                       /\ slots'[i] = r
                       /\ \A j \in DOMAIN slots \ {i} : slots'[j] = slots[j]
  BY PlacedLemma
<1>2. Pending' = Pending \cup {i} /\ i \notin Pending
  BY <1>1 DEF Pending, With
<1>3. QED
  BY <1>2, FiniteLemma, FS_AddElement

\* A timed task is not.
LEMMA TimedLemma ==
  ASSUME TypeOK, NEW r \in Record, r.flag = "timed", slots' = Placed(r)
  PROVE  Pending' = Pending
<1>1. PICK i \in Nat : /\ i \in DOMAIN slots => slots[i].flag = "free"
                       /\ DOMAIN slots' = DOMAIN slots \cup {i}
                       /\ slots'[i] = r
                       /\ \A j \in DOMAIN slots \ {i} : slots'[j] = slots[j]
  BY PlacedLemma
<1>2. QED
  BY <1>1 DEF Pending, With

\* The worker that looks is one less that has been woken.
LEMMA HearingLemma ==
  ASSUME TypeOK, NEW w \in Workers, NEW p \in Places, pc' = [pc EXCEPT ![w] = p]
  PROVE  /\ pc[w] # "interrupted" /\ p = "interrupted" =>
              Cardinality(Hearing') = Cardinality(Hearing) + 1
         /\ pc[w] = "interrupted" /\ p # "interrupted" =>
              Cardinality(Hearing') = Cardinality(Hearing) - 1
         /\ pc[w] # "interrupted" /\ p # "interrupted" => Hearing' = Hearing
<1>1. CASE pc[w] # "interrupted" /\ p = "interrupted"
  <2>1. Hearing' = Hearing \cup {w} /\ w \notin Hearing
    BY <1>1 DEF Hearing, TypeOK
  <2>2. QED
    BY <1>1, <2>1, FiniteLemma, FS_AddElement
<1>2. CASE pc[w] = "interrupted" /\ p # "interrupted"
  <2>1. Hearing' = Hearing \ {w} /\ w \in Hearing
    BY <1>2 DEF Hearing, TypeOK
  <2>2. QED
    BY <1>2, <2>1, FiniteLemma, FS_RemoveElement
<1>3. CASE pc[w] # "interrupted" /\ p # "interrupted"
  BY <1>3 DEF Hearing, TypeOK
<1>4. QED
  BY <1>1, <1>2, <1>3

-----------------------------------------------------------------------------
(* Types.                                                                  *)

LEMMA RecordTypes ==
  /\ \A t \in Requests, d \in Times : [flag |-> "timed", time |-> d, task |-> t] \in Record
  /\ \A t \in Jobs : [flag |-> "interrupt", time |-> 0, task |-> t] \in Record
  /\ [flag |-> "break", time |-> 0, task |-> None] \in Record
BY TimeAssumption DEF Record, Flags, Jobs

LEMMA TypeInit == Init => TypeOK
BY TimeAssumption, EmptySeq DEF Init, TypeOK, Places, Jobs, Never

LEMMA TypeStep == TypeOK /\ [Next]_vars => TypeOK'
<1> SUFFICES ASSUME TypeOK, [Next]_vars PROVE TypeOK'
  OBVIOUS
<1> USE DEF shared, local, history
<1>1. CASE Tick
  BY <1>1 DEF Tick, TypeOK
<1>2. ASSUME NEW a \in Agents, NEW t \in Requests, NEW d \in Times, Schedule(a, t, d)
      PROVE  TypeOK'
  <2>1. slots' \in Seq(Record)
    BY <1>2, RecordTypes, PlacedLemma DEF Schedule
  <2>2. wakes' \subseteq Agents
    BY <1>2 DEF Schedule, TypeOK
  <2>3. QED
    BY <1>2, <2>1, <2>2 DEF Schedule, TypeOK
<1>3. ASSUME NEW a \in Agents, NEW t \in Requests, Interrupt(a, t) PROVE TypeOK'
  <2>1. slots' \in Seq(Record)
    BY <1>3, RecordTypes, PlacedLemma DEF Interrupt, Signal, Jobs
  <2>2. QED
    BY <1>3, <2>1 DEF Interrupt, Signal, TypeOK
<1>4. ASSUME NEW a \in Agents, Break(a) PROVE TypeOK'
  <2>1. slots' \in Seq(Record)
    BY <1>4, RecordTypes, PlacedLemma DEF Break, Signal
  <2>2. QED
    BY <1>4, <2>1 DEF Break, Signal, TypeOK
<1>5. ASSUME NEW a \in Agents, CancelAll(a) PROVE TypeOK'
  <2>1. FreeSlot \in Record
    BY DEF FreeSlot, Record, Flags, Jobs
  <2>2. slots' \in Seq(Record)
    BY <1>5, <2>1, LenProperties, IsASeq DEF CancelAll, TypeOK
  <2>3. QED
    BY <1>5, <2>2 DEF CancelAll, TypeOK
<1>6. ASSUME NEW a \in Agents, WakeProcess(a) PROVE TypeOK'
  <2>1. slots' \in Seq(Record)
    BY <1>6, RecordTypes, PlacedLemma DEF WakeProcess, Signal, Jobs
  <2>2. QED
    BY <1>6, <2>1 DEF WakeProcess, Signal, TypeOK
<1>7. ASSUME NEW w \in Workers, Process(w) PROVE TypeOK'
  <2>1. CASE Scan(w)
    BY <2>1, NearestLemma DEF Scan, Go, TypeOK, Places
  <2>2. CASE Sleep(w)
    BY <2>2 DEF Sleep, Go, TypeOK, Places
  <2>3. CASE TakeToken(w)
    BY <2>3 DEF TakeToken, Go, TypeOK, Places
  <2>4. CASE TimeOut(w)
    BY <2>4 DEF TimeOut, Go, TypeOK, Places
  <2>5. CASE Serve(w)
    <3>1. CASE Pending = {}
      BY <2>5, <3>1 DEF Serve, Begin, Go, TypeOK, Places, Jobs
    <3>2. CASE Pending # {}
      <4> DEFINE i == First(Pending)
      <4>1. i \in Pending
        BY <3>2, MinLemma, SlotLemma DEF First, Pending, With
      <4>2. slots' = Emptied(i)
        BY <2>5, <3>2 DEF Serve
      <4>3. slots' \in Seq(Record)
        BY <4>1, <4>2, EmptiedLemma DEF Pending, With
      <4>4. slots[i].task \in Jobs
        BY <4>1, SlotLemma DEF Pending, With
      <4>5. /\ UNCHANGED <<now, tokens, plan, wakes>>
            /\ pc[w] = "interrupted"
            /\ \/ Go(w, "left") /\ UNCHANGED task
               \/ Begin(w, slots[i].task)
        BY <2>5, <3>2 DEF Serve
      <4> HIDE DEF i
      <4>6. QED
        BY <4>3, <4>4, <4>5 DEF Begin, Go, TypeOK, Places
    <3>3. QED
      BY <3>1, <3>2
  <2>6. CASE RunNearest(w)
    <3>1. CASE With("timed") = {}
      BY <2>6, <3>1 DEF RunNearest, Begin, Go, TypeOK, Places, Jobs
    <3>2. CASE With("timed") # {}
      <4>1. PICK i \in With("timed") : slots' = Emptied(i) /\ Begin(w, slots[i].task)
        BY <2>6, <3>2 DEF RunNearest
      <4>2. slots' \in Seq(Record)
        BY <4>1, EmptiedLemma DEF With
      <4>3. slots[i].task \in Jobs
        BY <4>1, SlotLemma DEF With
      <4>4. QED
        BY <2>6, <4>1, <4>2, <4>3 DEF RunNearest, Begin, Go, TypeOK, Places
    <3>3. QED
      BY <3>1, <3>2
  <2>7. CASE Finish(w)
    BY <2>7 DEF Finish, Go, TypeOK, Places, Jobs
  <2>8. QED
    BY <1>7, <2>1, <2>2, <2>3, <2>4, <2>5, <2>6, <2>7 DEF Process
<1>8. CASE UNCHANGED vars
  BY <1>8 DEF vars, TypeOK
<1>9. QED
  BY <1>1, <1>2, <1>3, <1>4, <1>5, <1>6, <1>7, <1>8 DEF Next, Calls

\* The fields of a Scheduler and the locals of its threads keep their types.
THEOREM TypeCorrect == Spec => []TypeOK
BY TypeInit, TypeStep, PTL DEF Spec

-----------------------------------------------------------------------------
(* Wake-ups.                                                               *)

LEMMA UnheardInit == Init => NothingUnheard
<1> SUFFICES ASSUME Init PROVE NothingUnheard
  OBVIOUS
<1>1. Pending = {} /\ Hearing = {} /\ tokens = 0
  BY DEF Init, Pending, With, Hearing
<1>2. QED
  BY <1>1, FS_EmptySet DEF NothingUnheard, Hearing

\* The number of things to be heard, the units of the semaphore and the workers
\* that have taken one move together.
LEMMA UnheardStep == TypeOK /\ NothingUnheard /\ [Next]_vars => NothingUnheard'
<1> SUFFICES ASSUME TypeOK, NothingUnheard, [Next]_vars PROVE NothingUnheard'
  OBVIOUS
<1> DEFINE P == Cardinality(Pending)
           H == Cardinality(Hearing)
<1> USE DEF shared, local, history
<1>1. P \in Nat /\ H \in Nat /\ tokens \in Nat /\ P <= tokens + H
  BY FiniteLemma DEF NothingUnheard, Hearing, TypeOK
<1>2. SUFFICES P' <= tokens' + H'
  BY DEF NothingUnheard, Hearing
<1>3. ASSUME NEW a \in Agents, NEW r \in Record, r.flag \in {"interrupt", "break"},
             Signal(r), pc' = pc
      PROVE  P' <= tokens' + H'
  <2>1. P' = P + 1
    BY <1>3, SignalLemma DEF Signal
  <2>2. H' = H
    BY <1>3 DEF Hearing
  <2>3. QED
    BY <1>1, <1>3, <2>1, <2>2 DEF Signal
<1>4. ASSUME Pending' = Pending, Hearing' = Hearing, tokens' = tokens PROVE P' <= tokens' + H'
  BY <1>1, <1>4
<1> HIDE DEF P, H
<1>5. CASE Tick
  BY <1>4, <1>5 DEF Tick, Pending, With, Hearing
<1>6. ASSUME NEW a \in Agents, NEW t \in Requests, NEW d \in Times, Schedule(a, t, d)
      PROVE  P' <= tokens' + H'
  <2>1. Pending' = Pending
    BY <1>6, RecordTypes, TimedLemma DEF Schedule
  <2>2. QED
    BY <1>4, <1>6, <2>1 DEF Schedule, Hearing
<1>7. ASSUME NEW a \in Agents, NEW t \in Requests, Interrupt(a, t) PROVE P' <= tokens' + H'
  BY <1>3, <1>7, RecordTypes DEF Interrupt, Jobs
<1>8. ASSUME NEW a \in Agents, Break(a) PROVE P' <= tokens' + H'
  BY <1>3, <1>8, RecordTypes DEF Break
<1>9. ASSUME NEW a \in Agents, WakeProcess(a) PROVE P' <= tokens' + H'
  BY <1>3, <1>9, RecordTypes DEF WakeProcess, Jobs
<1>10. ASSUME NEW a \in Agents, CancelAll(a) PROVE P' <= tokens' + H'
  <2>1. Pending' = {} /\ tokens' = 0 /\ Hearing' = Hearing
    BY <1>10 DEF CancelAll, Pending, With, FreeSlot, Hearing, TypeOK
  <2>2. P' = 0 /\ H' = H
    BY <2>1, FS_EmptySet DEF P, H
  <2>3. QED
    BY <1>1, <2>1, <2>2
<1>11. ASSUME NEW w \in Workers, Process(w) PROVE P' <= tokens' + H'
  <2>1. ASSUME NEW p \in Places \ {"interrupted"}, pc[w] # "interrupted",
               pc' = [pc EXCEPT ![w] = p], tokens' = tokens, Pending' = Pending
        PROVE  P' <= tokens' + H'
    BY <1>4, <2>1, HearingLemma
  <2>2. CASE Scan(w) \/ Sleep(w) \/ TimeOut(w) \/ Finish(w)
    <3>1. Pending' = Pending /\ tokens' = tokens
      BY <2>2 DEF Scan, Sleep, TimeOut, Finish, Pending, With
    <3>2. QED
      BY <2>1, <2>2, <3>1 DEF Scan, Sleep, TimeOut, Finish, Go, Places
  <2>3. CASE TakeToken(w)
    <3>1. Pending' = Pending /\ tokens' = tokens - 1
      BY <2>3 DEF TakeToken, Pending, With
    <3>2. H' = H + 1
      BY <2>3, HearingLemma DEF TakeToken, Go, Places, H
    <3>3. QED
      BY <1>1, <3>1, <3>2 DEF P
  <2>4. CASE Serve(w)
    <3>1. PICK p \in {"scan", "left", "run"} : pc' = [pc EXCEPT ![w] = p]
      BY <2>4 DEF Serve, Begin, Go
    <3>2. H' = H - 1
      BY <2>4, <3>1, HearingLemma DEF Serve, Places, H
    <3>3. CASE Pending = {}
      <4>1. Pending' = {}
        BY <2>4, <3>3 DEF Serve, Pending, With
      <4>2. IsFiniteSet(Hearing')
        BY FiniteAssumption, FS_Subset DEF Hearing
      <4>3. P' = 0 /\ H' \in Nat
        BY <4>1, <4>2, FS_EmptySet, FS_CardinalityType DEF P, H
      <4>4. tokens' \in Nat
        BY <2>4, <1>1 DEF Serve
      <4>5. QED
        BY <4>3, <4>4 DEF P, H
    <3>4. CASE Pending # {}
      <4> DEFINE i == First(Pending)
      <4>1. i \in Pending
        BY <3>4, MinLemma, SlotLemma DEF First, Pending, With
      <4>2. slots' = Emptied(i) /\ tokens' = tokens
        BY <2>4, <3>4 DEF Serve
      <4> HIDE DEF i
      <4>3. Pending' = Pending \ {i}
        BY <4>1, <4>2, EmptiedLemma DEF Pending, With
      <4>4. P' = P - 1
        BY <4>1, <4>3, FiniteLemma, FS_RemoveElement DEF P
      <4>5. QED
        BY <1>1, <3>2, <4>2, <4>4
    <3>5. QED
      BY <3>3, <3>4
  <2>5. CASE RunNearest(w)
    <3>1. tokens' = tokens /\ pc[w] # "interrupted"
      BY <2>5 DEF RunNearest
    <3>2. \E p \in {"scan", "run"} : pc' = [pc EXCEPT ![w] = p]
      BY <2>5 DEF RunNearest, Begin, Go
    <3>3. CASE With("timed") = {}
      BY <2>1, <2>5, <3>1, <3>2, <3>3 DEF RunNearest, Pending, With, Places
    <3>4. CASE With("timed") # {}
      <4>1. PICK i \in With("timed") : slots' = Emptied(i)
        BY <2>5, <3>4 DEF RunNearest
      <4>2. Pending' = Pending
        BY <4>1, EmptiedLemma DEF Pending, With
      <4>3. QED
        BY <2>1, <3>1, <3>2, <4>2 DEF Places
    <3>5. QED
      BY <3>3, <3>4
  <2>6. QED
    BY <1>11, <2>2, <2>3, <2>4, <2>5 DEF Process
<1>12. CASE UNCHANGED vars
  BY <1>4, <1>12 DEF vars, Pending, With, Hearing
<1>13. QED
  BY <1>5, <1>6, <1>7, <1>8, <1>9, <1>10, <1>11, <1>12 DEF Next, Calls

\* No interrupt and no Break is without a wake-up, however many threads are
\* inside Process and however many others schedule, interrupt and cancel.
THEOREM UnheardCorrect == Spec => []NothingUnheard
<1>1. Init => TypeOK /\ NothingUnheard
  BY TypeInit, UnheardInit
<1>2. TypeOK /\ NothingUnheard /\ [Next]_vars => (TypeOK /\ NothingUnheard)'
  BY TypeStep, UnheardStep
<1>3. QED
  BY <1>1, <1>2, PTL DEF Spec

-----------------------------------------------------------------------------
(* Sleep.                                                                  *)

OneProcess == \A v, w \in Workers : v = w

\* What is left to show of a step that only removes records and wakes nobody.
LEMMA OversleepLess ==
  ASSUME TypeOK, NoOversleep,
         With("timed")' \subseteq With("timed"),
         \A i \in With("timed")' : slots'[i] = slots[i],
         tokens' = tokens, wakes' = wakes,
         \A w \in Workers : pc'[w] \in {"sleep", "wait"} =>
                              pc[w] \in {"sleep", "wait"} /\ plan'[w] = plan[w]
  PROVE  NoOversleep'
BY DEF NoOversleep

LEMMA OversleepStep ==
  ASSUME OneProcess
  PROVE  TypeOK /\ NoOversleep /\ [Next]_vars => NoOversleep'
<1> SUFFICES ASSUME TypeOK, NoOversleep, [Next]_vars PROVE NoOversleep'
  OBVIOUS
<1> USE DEF shared, local, history
<1>1. CASE Tick
  BY <1>1, OversleepLess DEF Tick, With
<1>2. ASSUME NEW a \in Agents, NEW t \in Requests, NEW d \in Times, Schedule(a, t, d)
      PROVE  NoOversleep'
  <2>1. CASE MustWake(d)
    BY <1>2, <2>1 DEF Schedule, NoOversleep
  <2>2. CASE ~MustWake(d)
    <3> DEFINE r == [flag |-> "timed", time |-> d, task |-> t]
    <3>1. d \in Nat /\ d < Never
      BY TimeAssumption DEF Never
    <3>2. PICK n \in With("timed") : slots[n].time <= d
      BY <2>2, <3>1, NearestLemma DEF MustWake
    <3>3. PICK i \in Nat : /\ i \in DOMAIN slots => slots[i].flag = "free"
                           /\ DOMAIN slots' = DOMAIN slots \cup {i}
                           /\ slots'[i] = r
                           /\ \A j \in DOMAIN slots \ {i} : slots'[j] = slots[j]
      BY <1>2, RecordTypes, PlacedLemma DEF Schedule
    <3>4. UNCHANGED <<tokens, wakes, pc, plan>>
      BY <1>2, <2>2 DEF Schedule
    <3>5. SUFFICES ASSUME NEW w \in Workers, NEW j \in With("timed")',
                          pc[w] \in {"sleep", "wait"}, tokens = 0, wakes = {}
                   PROVE  plan[w] <= slots'[j].time
      BY <3>4 DEF NoOversleep, TypeOK
    <3>6. CASE j = i
      <4>1. plan[w] <= slots[n].time
        BY <3>2, <3>5 DEF NoOversleep
      <4>2. slots[n].time \in Nat /\ plan[w] \in Nat /\ slots'[j].time = d
        BY <3>2, <3>3, <3>6, SlotLemma DEF With, TypeOK
      <4>3. QED
        BY <3>1, <3>2, <4>1, <4>2
    <3>7. CASE j # i
      <4>1. j \in With("timed") /\ slots'[j] = slots[j]
        BY <3>3, <3>7 DEF With
      <4>2. QED
        BY <3>5, <4>1 DEF NoOversleep
    <3>8. QED
      BY <3>6, <3>7
  <2>3. QED
    BY <2>1, <2>2
<1>3. ASSUME NEW a \in Agents, NEW r \in Record, Signal(r) PROVE NoOversleep'
  BY <1>3 DEF Signal, NoOversleep, TypeOK
<1>4. ASSUME NEW a \in Agents, NEW t \in Requests, Interrupt(a, t) PROVE NoOversleep'
  BY <1>3, <1>4, RecordTypes DEF Interrupt, Jobs
<1>5. ASSUME NEW a \in Agents, Break(a) PROVE NoOversleep'
  BY <1>3, <1>5, RecordTypes DEF Break
<1>6. ASSUME NEW a \in Agents, WakeProcess(a) PROVE NoOversleep'
  BY <1>3, <1>6, RecordTypes DEF WakeProcess, Jobs
<1>7. ASSUME NEW a \in Agents, CancelAll(a) PROVE NoOversleep'
  <2>1. With("timed")' = {}
    BY <1>7 DEF CancelAll, With, FreeSlot
  <2>2. QED
    BY <2>1 DEF NoOversleep
<1>8. ASSUME NEW w \in Workers, Process(w) PROVE NoOversleep'
  <2>1. CASE Scan(w)
    <3>1. plan'[w] = Nearest /\ slots' = slots
      BY <2>1 DEF Scan, TypeOK
    <3>2. QED
      BY <3>1, NearestLemma DEF OneProcess, NoOversleep, With
  <2>2. CASE Sleep(w)
    BY <2>2, OversleepLess DEF Sleep, Go, With, TypeOK
  <2>3. ASSUME NEW p \in Places \ {"sleep", "wait"}, pc' = [pc EXCEPT ![w] = p]
        PROVE  NoOversleep'
    BY <2>3 DEF OneProcess, NoOversleep, TypeOK
  <2>4. CASE TakeToken(w) \/ TimeOut(w) \/ Finish(w)
    BY <2>3, <2>4 DEF TakeToken, TimeOut, Finish, Go, Places
  <2>5. CASE Serve(w) \/ RunNearest(w)
    <3>1. \E p \in {"scan", "left", "run"} : pc' = [pc EXCEPT ![w] = p]
      BY <2>5 DEF Serve, RunNearest, Begin, Go
    <3>2. QED
      BY <2>3, <3>1 DEF Places
  <2>6. QED
    BY <1>8, <2>1, <2>2, <2>4, <2>5 DEF Process
<1>9. CASE UNCHANGED vars
  BY <1>9, OversleepLess DEF vars, With
<1>10. QED
  BY <1>1, <1>2, <1>4, <1>5, <1>6, <1>7, <1>8, <1>9 DEF Next, Calls

\* The thread inside Process, when it is the only one, never means to sleep past
\* the time of a task, whoever schedules, interrupts and cancels meanwhile.
THEOREM OversleepCorrect == ASSUME OneProcess PROVE Spec => []NoOversleep
<1>1. Init => TypeOK /\ NoOversleep
  BY TypeInit DEF Init, NoOversleep, With
<1>2. TypeOK /\ NoOversleep /\ [Next]_vars => (TypeOK /\ NoOversleep)'
  BY TypeStep, OversleepStep
<1>3. QED
  BY <1>1, <1>2, PTL DEF Spec

-----------------------------------------------------------------------------
(* The media player.                                                       *)

Inputs == ToSet(Streams)
Deeds == {"begin", "first", "cancel", "reset", "open", "play", "stop", "break"}
Steps == [do : Deeds, stream : Inputs \cup {None}]
Preparing == {"cancel", "reset", "open"}
Terminated == call \in {"destroy", "gone"}

\* A script cancels and resets before it opens, opens each stream once, and plays
\* nothing else when it plays.
Shape(s) ==
  /\ s \in Seq(Steps)
  /\ \A i \in 1..Len(s) :
       /\ s[i].do \in {"open", "play"} => s[i].stream \in Inputs
       /\ s[i].do = "play" => Len(s) = 1
       /\ s[i].do = "reset" => i = 1 \/ s[i - 1].do = "cancel"
       /\ s[i].do = "open" => i = 1 \/ s[i - 1].do \in {"reset", "open"}
       /\ s[i].do = "open" => \A j \in 1..i - 1 : s[j].do \in Preparing
  /\ \A i, j \in 1..Len(s) :
       s[i].do = "open" /\ s[j].do = "open" /\ s[i].stream = s[j].stream => i = j

\* Who runs nothing has no task and no script.
Resting == \A w \in Workers : pc[w] # "run" => task[w] = None /\ script = <<>>

\* Streams are scheduled, everything else interrupts.
Sorted == \A i \in DOMAIN slots :
            LET t == slots[i].task IN
            /\ slots[i].flag = "timed" => t \in Requests /\ Kind[t] \in Inputs
            /\ slots[i].flag = "interrupt" => t = Void \/ (t \in Requests /\ Kind[t] \notin Inputs)

\* Of each stream one record, or its task.
Single == \A s \in Inputs : /\ \A i, j \in Records(s) : i = j
                            /\ Playing(s) => Records(s) = {}

\* What a seek is about to open, once it has cancelled everything, is not queued.
Cleared == script # <<>> =>
             /\ script[1].do = "reset" => With("timed") = {}
             /\ script[1].do \in {"reset", "open"} =>
                  \A i \in 1..Len(script) : script[i].do = "open" => Records(script[i].stream) = {}

\* While a seek opens, the count is exact even when nothing is queued.
Opening == script # <<>> /\ script[1].do = "open"
Exact == active \in Int /\ (~Terminated /\ (Live # {} \/ Opening) => active = Cardinality(Live))

PInv == TypeOK /\ Shape(script) /\ Resting /\ Sorted /\ Single /\ Cleared /\ Exact

LEMMA InputsFinite == ASSUME Player PROVE IsFiniteSet(Inputs)
<1>1. Streams \in Seq(Inputs)
  BY DEF Player, Inputs
<1>2. Inputs = {Streams[i] : i \in 1..Len(Streams)}
  BY <1>1 DEF Inputs, ToSet
<1>3. DOMAIN Streams = 1..Len(Streams) /\ Len(Streams) \in Nat
  BY <1>1, LenProperties
<1>4. Streams \in Surjection(1..Len(Streams), Inputs)
  BY <1>1, <1>2, <1>3 DEF Surjection
<1>5. QED
  BY <1>3, <1>4, FS_NatSurjection DEF ExistsSurjection

LEMMA LiveFinite == ASSUME Player PROVE Live \subseteq Inputs /\ IsFiniteSet(Live) /\ Cardinality(Live) \in Nat
<1>1. Live \subseteq Inputs
  BY DEF Live, Inputs
<1>2. QED
  BY <1>1, InputsFinite, FS_Subset, FS_CardinalityType

LEMMA FreshLemma ==
  ASSUME NEW k, Unused(k) # {}
  PROVE  Fresh(k) \in Requests /\ Kind[Fresh(k)] = k
<1>1. Fresh(k) \in Unused(k)
  BY DEF Fresh
<1>2. QED
  BY <1>1 DEF Unused

\* Every step of the player is one of the scheduler, made by one of its threads.
LEMMA PlayerStep == ASSUME Player PROVE [PlaybackNext]_allVars => [Next]_vars
<1> SUFFICES ASSUME [PlaybackNext]_allVars PROVE [Next]_vars
  OBVIOUS
<1>1. User \in Agents /\ Dispatch \in Agents /\ Dispatch \in Workers
  BY DEF Player, Agents
<1>2. ASSUME NEW a \in Agents, NEW k, Queue(a, k) PROVE Next
  <2>1. PICK t \in Requests : Interrupt(a, t)
    BY <1>2, FreshLemma DEF Queue
  <2>2. QED
    BY <2>1 DEF Next, Calls
<1>3. CASE CallPlay \/ CallPause \/ CallSeek
  BY <1>3 DEF CallPlay, CallPause, CallSeek, Enter
<1>4. CASE Submit \/ Shutdown \/ SeekFirst
  BY <1>1, <1>2, <1>4 DEF Submit, Shutdown, SeekFirst
<1>5. CASE Destroy \/ Cancel \/ Leave
  BY <1>1, <1>5 DEF Destroy, Cancel, Leave, Next, Calls
<1>6. CASE Pick \/ Wait
  BY <1>1, <1>6 DEF Pick, Wait, Next, Process
<1>7. CASE Reset \/ Begins \/ Stop
  BY <1>7 DEF Reset, Begins, Stop
<1>8. CASE GoOn
  <2>1. CASE UNCHANGED vars
    BY <2>1
  <2>2. CASE ~UNCHANGED vars
    <3>1. Unused(Head(script).stream) # {}
            /\ \E d \in Times : Schedule(Dispatch, Fresh(Head(script).stream), d)
      BY <1>8, <2>2 DEF GoOn, StreamEnds
    <3>2. QED
      BY <1>1, <3>1, FreshLemma DEF Next, Calls
  <2>3. QED
    BY <2>1, <2>2
<1>9. CASE UNCHANGED allVars
  BY <1>9 DEF allVars
<1>10. QED
  BY <1>3, <1>4, <1>5, <1>6, <1>7, <1>8, <1>9 DEF PlaybackNext, Act

\* The player uses the scheduler as any program may.
THEOREM PlaybackSchedules == ASSUME Player PROVE PlaybackSpec => Spec
<1>1. PlaybackInit => Init
  BY DEF PlaybackInit
<1>2. QED
  BY <1>1, PlayerStep, PTL DEF PlaybackSpec, Spec

-----------------------------------------------------------------------------
\* What is left of a script has its shape, plays nothing, and begins with "reset"
\* or "open" only behind what prepares for it.
LEMMA TailLemma ==
  ASSUME Shape(script), script # <<>>, script' = Tail(script)
  PROVE  /\ Shape(script')
         /\ Head(script) = script[1] /\ 1 \in 1..Len(script)
         /\ \A s : ~Playing(s)'
         /\ \A i \in 1..Len(script') : script'[i] = script[i + 1] /\ i + 1 \in 1..Len(script)
         /\ script' # <<>> => /\ script'[1].do = "reset" => script[1].do = "cancel"
                              /\ script'[1].do = "open" => script[1].do \in {"reset", "open"}
<1>1. /\ script \in Seq(Steps) /\ Len(script) \in Nat /\ Len(script) > 0
      /\ script' \in Seq(Steps) /\ Len(script') = Len(script) - 1
      /\ \A i \in 1..Len(script') : script'[i] = script[i + 1]
      /\ Head(script) = script[1]
  <2>1. script \in Seq(Steps) /\ Len(script) \in Nat /\ Len(script) > 0
    BY LenProperties, EmptySeq DEF Shape
  <2>2. QED
    BY <2>1, HeadTailProperties
<1>2. \A i \in 1..Len(script') : i \in Int /\ i + 1 \in 1..Len(script) /\ (i + 1) - 1 = i /\ i + 1 # 1
  BY <1>1
<1>3. ASSUME NEW i \in 1..Len(script')
      PROVE  /\ script'[i].do \in {"open", "play"} => script'[i].stream \in Inputs
             /\ script'[i].do # "play"
             /\ script'[i].do = "reset" => script[i].do = "cancel"
             /\ script'[i].do = "open" => script[i].do \in {"reset", "open"}
             /\ script'[i].do = "open" => \A j \in 1..i - 1 : script'[j].do \in Preparing
  <2>1. script'[i] = script[i + 1] /\ i + 1 \in 1..Len(script) /\ (i + 1) - 1 = i /\ i + 1 # 1
    BY <1>1, <1>2
  <2>2. Len(script) # 1
    BY <1>1
  <2>3. \A j \in 1..i - 1 : j \in 1..Len(script') /\ j + 1 \in 1..(i + 1) - 1
    BY <1>1
  <2>4. \A j \in 1..i - 1 : script'[j] = script[j + 1]
    BY <1>1, <2>3
  <2>5. QED
    BY <2>1, <2>2, <2>3, <2>4 DEF Shape
<1>4. ASSUME NEW i \in 1..Len(script'), NEW j \in 1..Len(script'),
             script'[i].do = "open", script'[j].do = "open", script'[i].stream = script'[j].stream
      PROVE  i = j
  <2>1. i + 1 = j + 1
    BY <1>1, <1>2, <1>4 DEF Shape
  <2>2. QED
    BY <2>1
<1>5. \A i \in 1..Len(script') : i = 1 \/ (i - 1 \in 1..Len(script') /\ (i - 1) + 1 = i)
  BY <1>1
<1>6. \A i \in 1..Len(script') : i = 1 \/ script'[i - 1] = script[i]
  BY <1>1, <1>5
<1>7. Shape(script')
  BY <1>1, <1>3, <1>4, <1>6 DEF Shape
<1>8. script' # <<>> => 1 \in 1..Len(script') /\ Head(script') = script'[1]
  BY <1>1, EmptySeq, HeadTailProperties
<1>9. \A s : ~Playing(s)'
  BY <1>3, <1>8 DEF Playing, Step
<1>10. QED
  BY <1>1, <1>2, <1>3, <1>7, <1>8, <1>9

\* The scripts that a thread begins.
LEMMA SeekLemma ==
  ASSUME Player
  PROVE  Shape(Seek) /\ Seek # <<>> /\ Head(Seek) = Step("cancel", None) /\ Seek[1].do = "cancel"
<1> DEFINE A == <<Step("cancel", None), Step("reset", None)>>
           O == [i \in DOMAIN Streams |-> Step("open", Streams[i])]
<1>1. Streams \in Seq(Inputs) /\ DOMAIN Streams = 1..Len(Streams) /\ Len(Streams) \in Nat
      /\ \A i \in 1..Len(Streams) : Streams[i] \in Inputs
  BY LenProperties, ElementOfSeq DEF Player, Inputs
<1>2. A \in Seq(Steps) /\ Len(A) = 2 /\ A[1].do = "cancel" /\ A[2].do = "reset" /\ A[1] = Step("cancel", None)
  BY DEF Step, Steps, Deeds
<1>3. O \in Seq(Steps) /\ Len(O) = Len(Streams)
        /\ \A i \in 1..Len(Streams) : O[i].do = "open" /\ O[i].stream = Streams[i]
  <2>1. \A i \in 1..Len(Streams) : Step("open", Streams[i]) \in Steps
    BY <1>1 DEF Step, Steps, Deeds
  <2>2. O = [i \in 1..Len(Streams) |-> Step("open", Streams[i])]
    BY <1>1
  <2>3. O \in Seq(Steps)
    BY <1>1, <2>1, <2>2, IsASeq
  <2>4. Len(O) = Len(Streams)
    BY <1>1, <2>2, <2>3, LenProperties
  <2>5. QED
    BY <1>1, <2>2, <2>3, <2>4 DEF Step
<1>4. Seek = A \o O
  BY DEF Seek
<1> HIDE DEF A, O
<1>5. /\ Seek \in Seq(Steps) /\ Len(Seek) = 2 + Len(Streams)
      /\ \A i \in 1..2 + Len(Streams) : Seek[i] = IF i <= 2 THEN A[i] ELSE O[i - 2]
  <2>1. /\ A \o O \in Seq(Steps)
        /\ Len(A \o O) = Len(A) + Len(O)
        /\ \A i \in 1..Len(A) + Len(O) : (A \o O)[i] = IF i <= Len(A) THEN A[i] ELSE O[i - Len(A)]
    <3>1. A \in Seq(Steps) /\ O \in Seq(Steps)
      BY <1>2, <1>3
    <3>2. QED
      BY ONLY <3>1, ConcatProperties
  <2>2. QED
    BY <1>2, <1>3, <1>4, <2>1
<1>6. \A i \in 1..2 + Len(Streams) :
        \/ i = 1 /\ Seek[i].do = "cancel"
        \/ i = 2 /\ Seek[i].do = "reset"
        \/ i > 2 /\ Seek[i].do = "open" /\ Seek[i].stream = Streams[i - 2] /\ i - 2 \in 1..Len(Streams)
  <2>1. ASSUME NEW i \in 1..2 + Len(Streams), i > 2
        PROVE  Seek[i].do = "open" /\ Seek[i].stream = Streams[i - 2] /\ i - 2 \in 1..Len(Streams)
    <3>1. i - 2 \in 1..Len(Streams) /\ ~(i <= 2)
      BY <1>1, <2>1
    <3>2. QED
      BY <1>3, <1>5, <3>1
  <2>2. 1 \in 1..2 + Len(Streams) /\ 2 \in 1..2 + Len(Streams) /\ 1 <= 2 /\ 2 <= 2
    BY <1>1
  <2>3. Seek[1] = A[1] /\ Seek[2] = A[2]
    BY <1>5, <2>2
  <2>4. \A i \in 1..2 + Len(Streams) : i = 1 \/ i = 2 \/ i > 2
    OBVIOUS
  <2>5. QED
    BY <1>2, <2>1, <2>3, <2>4
<1>7. \A i, j \in 1..Len(Streams) : Streams[i] = Streams[j] => i = j
  BY <1>1 DEF Player, IsInjective
<1>8. ASSUME NEW i \in 1..Len(Seek), NEW j \in 1..Len(Seek),
             Seek[i].do = "open", Seek[j].do = "open", Seek[i].stream = Seek[j].stream
      PROVE  i = j
  <2>1. i - 2 \in 1..Len(Streams) /\ j - 2 \in 1..Len(Streams) /\ Streams[i - 2] = Streams[j - 2]
    BY <1>5, <1>6, <1>8
  <2>2. i - 2 = j - 2
    BY <1>7, <2>1
  <2>3. QED
    BY <2>2
<1>9. ASSUME NEW i \in 1..Len(Seek)
      PROVE  /\ Seek[i].do \in {"open", "play"} => Seek[i].stream \in Inputs
             /\ Seek[i].do # "play" /\ Seek[i].do \in Preparing
             /\ Seek[i].do = "reset" => i = 1 \/ Seek[i - 1].do = "cancel"
             /\ Seek[i].do = "open" => i = 1 \/ Seek[i - 1].do \in {"reset", "open"}
  <2>1. i = 1 \/ i = 2 \/ (i > 2 /\ i - 1 \in 1..2 + Len(Streams) /\ i - 1 # 1)
    BY <1>1, <1>5
  <2>2. i = 2 => i - 1 = 1 /\ 1 \in 1..2 + Len(Streams)
    BY <1>1
  <2>3. QED
    BY <1>1, <1>5, <1>6, <2>1, <2>2 DEF Preparing
<1>10. \A i \in 1..Len(Seek) : \A j \in 1..i - 1 : j \in 1..Len(Seek)
  BY <1>5
<1>11. Shape(Seek)
  BY <1>5, <1>8, <1>9, <1>10 DEF Shape
<1>12. 1 \in 1..2 + Len(Streams) /\ 1 <= 2 /\ Len(Seek) # 0
  BY <1>1, <1>5
<1>13. Seek[1] = Step("cancel", None) /\ Seek # <<>>
  BY <1>2, <1>5, <1>12
<1>14. Head(Seek) = Seek[1]
  BY <1>5, <1>13, HeadTailProperties
<1>15. QED
  BY <1>6, <1>11, <1>12, <1>13, <1>14

\* What a request begins: a stream's task for a stream, otherwise neither a
\* stream's task nor the inside of a seek.
LEMMA BodyLemma ==
  ASSUME Player, NEW t \in Requests
  PROVE  /\ Shape(Body(t))
         /\ Kind[t] \in Inputs => Body(t) = <<Step("play", Kind[t])>>
         /\ Kind[t] \notin Inputs => /\ Body(t) # <<>>
                                     /\ Body(t)[1].do \notin {"play", "reset", "open"}
                                     /\ Head(Body(t)) = Body(t)[1]
<1>1. t \notin {None, Void} /\ Kind[t] \in Methods \cup Inputs /\ Methods \cap Inputs = {}
  BY RequestAssumption DEF Player, Inputs
<1> USE DEF Step, Steps, Deeds, Shape, Methods
<1>2. CASE Kind[t] \in Inputs
  <2>1. Body(t) = <<Step("play", Kind[t])>>
    BY <1>1, <1>2 DEF Body
  <2>2. Step("play", Kind[t]) \in Steps
    BY <1>2
  <2>3. /\ <<Step("play", Kind[t])>> \in Seq(Steps)
        /\ Len(<<Step("play", Kind[t])>>) = 1
        /\ <<Step("play", Kind[t])>>[1] = Step("play", Kind[t])
    BY <2>2
  <2>4. \A i \in 1..1 : i = 1
    OBVIOUS
  <2>5. Shape(<<Step("play", Kind[t])>>)
    BY <1>2, <2>3, <2>4
  <2>6. QED
    BY <1>2, <2>1, <2>5
<1>3. CASE Kind[t] = "init"
  <2>1. Body(t) = <<Step("begin", None), Step("first", None)>>
    BY <1>1, <1>3 DEF Body
  <2>2. Shape(Body(t))
    BY <2>1
  <2>3. QED
    BY <1>1, <1>3, <2>1, <2>2
<1>4. CASE Kind[t] \in {"first", "seek"}
  <2>1. Body(t) = Seek
    BY <1>1, <1>4 DEF Body
  <2> HIDE DEF Shape
  <2>2. QED
    BY <1>1, <1>4, <2>1, SeekLemma
<1>5. CASE Kind[t] = "stop"
  <2>1. Body(t) = <<Step("cancel", None), Step("stop", None)>>
    BY <1>1, <1>5 DEF Body
  <2>2. Shape(Body(t))
    BY <2>1
  <2>3. QED
    BY <1>1, <1>5, <2>1, <2>2
<1>6. CASE Kind[t] = "shutdown"
  <2>1. Body(t) = <<Step("break", None)>>
    BY <1>1, <1>6 DEF Body
  <2>2. Shape(Body(t))
    BY <2>1
  <2>3. QED
    BY <1>1, <1>6, <2>1, <2>2
<1>7. QED
  BY <1>1, <1>2, <1>3, <1>4, <1>5, <1>6

LEMMA EmptyShape == Shape(<<>>)
<1>1. <<>> \in Seq(Steps) /\ Len(<<>>) = 0
  OBVIOUS
<1>2. \A i \in 1..0 : FALSE
  OBVIOUS
<1>3. QED
  BY <1>1, <1>2 DEF Shape

-----------------------------------------------------------------------------
\* How the sets of records change with the array.
TimedSame == With("timed")' = With("timed") /\ \A i \in With("timed") : slots'[i] = slots[i]

LEMMA SameLemma ==
  ASSUME TimedSame
  PROVE  \A s : Records(s)' = Records(s)
BY DEF TimedSame, Records

\* A record that is not a stream's goes in.
LEMMA SignalSame ==
  ASSUME TypeOK, Sorted, NEW r \in Record, r.flag \in {"interrupt", "break"},
         r.flag = "interrupt" => r.task = Void \/ (r.task \in Requests /\ Kind[r.task] \notin Inputs),
         Signal(r)
  PROVE  TimedSame /\ Sorted'
<1>1. PICK i \in Nat : /\ i \in DOMAIN slots => slots[i].flag = "free"
                       /\ DOMAIN slots' = DOMAIN slots \cup {i}
                       /\ slots'[i] = r
                       /\ \A j \in DOMAIN slots \ {i} : slots'[j] = slots[j]
  BY PlacedLemma DEF Signal
<1>2. TimedSame
  BY <1>1 DEF TimedSame, With
<1>3. Sorted'
  BY <1>1 DEF Sorted
<1>4. QED
  BY <1>2, <1>3

LEMMA QueueSame ==
  ASSUME Player, TypeOK, Sorted, NEW a, NEW k, k \notin Inputs, Queue(a, k)
  PROVE  TimedSame /\ Sorted'
<1>1. PICK t \in Requests : Kind[t] = k /\ Interrupt(a, t)
  BY FreshLemma DEF Queue
<1>2. Signal([flag |-> "interrupt", time |-> 0, task |-> t])
  BY <1>1 DEF Interrupt
<1>3. [flag |-> "interrupt", time |-> 0, task |-> t] \in Record
  BY RecordTypes DEF Jobs
<1>4. QED
  BY <1>1, <1>2, <1>3, SignalSame

LEMMA CancelLemma ==
  ASSUME TypeOK, NEW a, CancelAll(a)
  PROVE  With("timed")' = {} /\ (\A s : Records(s)' = {}) /\ Sorted'
<1>1. DOMAIN slots' = DOMAIN slots /\ \A i \in DOMAIN slots : slots'[i] = FreeSlot
  BY DEF CancelAll
<1>2. QED
  BY <1>1 DEF With, Records, Sorted, FreeSlot

LEMMA EmptiedSorted ==
  ASSUME TypeOK, Sorted, NEW i \in DOMAIN slots, slots' = Emptied(i)
  PROVE  Sorted' /\ With("timed")' = With("timed") \ {i}
           /\ \A j \in With("timed") \ {i} : slots'[j] = slots[j]
BY EmptiedLemma DEF Sorted, With

\* A step that neither queues a stream nor cancels, before and after which no
\* stream's task runs, or the same one does.
LEMMA FrameLemma ==
  ASSUME Single, Cleared, Exact, TimedSame, UNCHANGED <<script, active>>,
         Terminated => Terminated'
  PROVE  Single' /\ Cleared' /\ Exact'
<1>1. \A s : Records(s)' = Records(s) /\ (Playing(s)' <=> Playing(s))
  BY SameLemma DEF Playing
<1>2. With("timed")' = With("timed")
  BY DEF TimedSame
<1>3. Live' = Live
  BY <1>1 DEF Live
<1>4. QED
  BY <1>1, <1>2, <1>3 DEF Single, Cleared, Exact, Opening

\* The thread turns to another script, which does not touch the streams yet.
LEMMA TurnLemma ==
  ASSUME Single, Cleared, Exact, TimedSame, active' = active, call' = call,
         \A s : ~Playing(s) /\ ~Playing(s)',
         script' # <<>> => script'[1].do \notin {"reset", "open"}
  PROVE  Single' /\ Cleared' /\ Exact'
<1>1. \A s : Records(s)' = Records(s)
  BY SameLemma
<1>2. Live' = Live
  BY <1>1 DEF Live
<1>3. QED
  BY <1>1, <1>2 DEF Single, Cleared, Exact, Opening, Terminated

\* How the streams stand when those that open are counted.
LEMMA EndLemma ==
  ASSUME Player, PInv, script # <<>>, script' = Tail(script), TimedSame,
         script[1].do \in {"open", "play"},
         active' = IF script[1].do = "open" THEN active ELSE active - 1,
         call' = call
  PROVE  Single' /\ Cleared' /\ Exact'
<1> DEFINE s == script[1].stream
           open == script[1].do = "open"
<1>1. /\ Shape(script') /\ Head(script) = script[1] /\ 1 \in 1..Len(script)
      /\ \A x : ~Playing(x)'
      /\ \A i \in 1..Len(script') : script'[i] = script[i + 1] /\ i + 1 \in 1..Len(script)
      /\ script' # <<>> => /\ script'[1].do = "reset" => script[1].do = "cancel"
                           /\ script'[1].do = "open" => script[1].do \in {"reset", "open"}
  BY TailLemma DEF PInv
<1>2. script[1] \in Steps
  BY <1>1, ElementOfSeq DEF PInv, Shape
<1>3. \A x : Playing(x) <=> ~open /\ x = s
  BY <1>1, <1>2 DEF Playing, Step, Steps
<1>4. \A x : Records(x)' = Records(x)
  BY SameLemma
<1>5. s \in Inputs
  BY <1>1 DEF PInv, Shape
<1>6. Records(s) = {}
  BY <1>1, <1>3, <1>5 DEF PInv, Single, Cleared
<1>7. Single'
  BY <1>1, <1>4 DEF PInv, Single
<1>8. Cleared'
  BY <1>1, <1>4 DEF PInv, Cleared
<1>9. ASSUME ~Terminated PROVE active' = Cardinality(Live')
  <2>1. CASE open
    <3>1. Live' = Live
      BY <1>1, <1>3, <1>4, <2>1 DEF Live
    <3>2. QED
      BY <1>9, <2>1, <3>1 DEF PInv, Exact, Opening
  <2>2. CASE ~open
    <3>1. s \in Live /\ Live' = Live \ {s}
      BY <1>1, <1>3, <1>4, <1>5, <1>6, <2>2 DEF Live, Inputs
    <3>2. active = Cardinality(Live) /\ active' = active - 1
      BY <1>9, <2>2, <3>1 DEF PInv, Exact
    <3> HIDE DEF s
    <3>3. QED
      BY <3>1, <3>2, LiveFinite, FS_RemoveElement
  <2>3. QED
    BY <2>1, <2>2
<1>10. active' \in Int
  BY DEF PInv, Exact
<1>11. QED
  BY <1>7, <1>8, <1>9, <1>10 DEF Exact, Terminated

\* A stream is scheduled again, or for the first time.
LEMMA ScheduleLemma ==
  ASSUME Player, PInv, script # <<>>, script' = Tail(script),
         script[1].do \in {"open", "play"},
         active' = IF script[1].do = "open" THEN active + 1 ELSE active,
         call' = call,
         NEW t \in Requests, Kind[t] = script[1].stream, NEW d \in Times,
         slots' = Placed([flag |-> "timed", time |-> d, task |-> t])
  PROVE  Single' /\ Cleared' /\ Exact' /\ Sorted'
<1> DEFINE s == script[1].stream
           open == script[1].do = "open"
           r == [flag |-> "timed", time |-> d, task |-> t]
<1>1. /\ Shape(script') /\ Head(script) = script[1] /\ 1 \in 1..Len(script)
      /\ \A x : ~Playing(x)'
      /\ \A i \in 1..Len(script') : script'[i] = script[i + 1] /\ i + 1 \in 1..Len(script)
      /\ script' # <<>> => /\ script'[1].do = "reset" => script[1].do = "cancel"
                           /\ script'[1].do = "open" => script[1].do \in {"reset", "open"}
  BY TailLemma DEF PInv
<1>2. script[1] \in Steps
  BY <1>1, ElementOfSeq DEF PInv, Shape
<1>3. \A x : Playing(x) <=> ~open /\ x = s
  BY <1>1, <1>2 DEF Playing, Step, Steps
<1>4. s \in Inputs
  BY <1>1 DEF PInv, Shape
<1>5. Records(s) = {}
  BY <1>1, <1>3, <1>4 DEF PInv, Single, Cleared
<1>6. PICK i \in Nat : /\ i \in DOMAIN slots => slots[i].flag = "free"
                       /\ DOMAIN slots' = DOMAIN slots \cup {i}
                       /\ slots'[i] = r
                       /\ \A j \in DOMAIN slots \ {i} : slots'[j] = slots[j]
  BY RecordTypes, PlacedLemma DEF PInv
<1>7. With("timed")' = With("timed") \cup {i} /\ i \notin With("timed")
  BY <1>6 DEF With
<1>8. \A x : Records(x)' = IF x = s THEN {i} ELSE Records(x)
  BY <1>5, <1>6, <1>7 DEF Records, With
<1>9. Sorted'
  BY <1>4, <1>6 DEF PInv, Sorted
<1>10. Single'
  BY <1>1, <1>8 DEF PInv, Single
<1>11. ASSUME NEW n \in 1..Len(script'), script'[n].do = "open",
              script' # <<>>, script'[1].do \in {"reset", "open"},
              NEW x, x = script'[n].stream
       PROVE  Records(x)' = {}
  <2>1. open
    BY <1>1, <1>11
  <2>2. script'[n] = script[n + 1] /\ n + 1 \in 1..Len(script) /\ n + 1 # 1
    BY <1>1
  <2>3. x # s
    BY <1>1, <1>11, <2>1, <2>2 DEF PInv, Shape
  <2>4. Records(x) = {}
    BY <1>11, <2>1, <2>2 DEF PInv, Cleared
  <2>5. QED
    BY <1>8, <2>3, <2>4
<1>12. Cleared'
  BY <1>1, <1>11 DEF Cleared
<1>13. ASSUME ~Terminated PROVE active' = Cardinality(Live')
  <2>1. Live' = Live \cup {s}
    BY <1>1, <1>3, <1>4, <1>8 DEF Live, Inputs
  <2>2. CASE open
    <3>1. s \notin Live
      BY <1>3, <1>5, <2>2 DEF Live
    <3>2. active = Cardinality(Live) /\ active' = active + 1
      BY <1>13, <2>2 DEF PInv, Exact, Opening
    <3> HIDE DEF s
    <3>3. QED
      BY <2>1, <3>1, <3>2, LiveFinite, FS_AddElement
  <2>3. CASE ~open
    <3>1. s \in Live
      BY <1>3, <1>4, <2>3 DEF Live, Inputs
    <3>2. active = Cardinality(Live) /\ active' = active
      BY <1>13, <2>3, <3>1 DEF PInv, Exact
    <3>3. Live' = Live
      BY <2>1, <3>1
    <3>4. QED
      BY <3>2, <3>3
  <2>4. QED
    BY <2>2, <2>3
<1>14. active' \in Int
  BY DEF PInv, Exact
<1>15. QED
  BY <1>9, <1>10, <1>12, <1>13, <1>14 DEF Exact, Terminated

-----------------------------------------------------------------------------
LEMMA PlayerInit == ASSUME Player PROVE PlaybackInit => PInv
<1> SUFFICES ASSUME PlaybackInit PROVE PInv
  OBVIOUS
<1>1. slots = <<>> /\ script = <<>> /\ active = 0 /\ \A w \in Workers : task[w] = None
  BY DEF PlaybackInit, Init
<1>2. With("timed") = {} /\ (\A s : Records(s) = {}) /\ (\A s : ~Playing(s)) /\ DOMAIN slots = {}
  BY <1>1 DEF With, Records, Playing
<1>3. Live = {} /\ Cardinality({}) = 0
  BY <1>2, FS_EmptySet DEF Live
<1>4. TypeOK
  BY TypeInit DEF PlaybackInit
<1>5. QED
  BY <1>1, <1>2, <1>3, <1>4, EmptyShape
  DEF PInv, Resting, Sorted, Single, Cleared, Exact, Opening

\* Nobody but the thread itself changes what it runs.
LEMMA RestLemma ==
  ASSUME Resting, UNCHANGED <<pc, task>>,
         script' = script \/ \E w \in Workers : pc[w] = "run" /\ \A v \in Workers : v = w
  PROVE  Resting'
BY DEF Resting

\* The thread turns from one task to the next.
LEMMA PickStep ==
  ASSUME Player, PInv, Pick, TypeOK'
  PROVE  PInv'
<1>1. Dispatch \in Workers /\ \A w \in Workers : w = Dispatch
  BY DEF Player
<1>2. /\ Serve(Dispatch) \/ RunNearest(Dispatch)
      /\ script' = Body(task'[Dispatch]) /\ UNCHANGED <<active, call>>
  BY DEF Pick
<1>3. pc[Dispatch] \in {"interrupted", "late"}
  BY <1>2 DEF Serve, RunNearest
<1>4. task[Dispatch] = None /\ script = <<>>
  BY <1>1, <1>3 DEF PInv, Resting
<1>5. \A s : ~Playing(s)
  BY <1>4 DEF Playing
<1>6. Body(None) = <<>> /\ Body(Void) = <<>>
  BY DEF Body
<1>7. task \in [Workers -> Jobs] /\ pc \in [Workers -> Places]
  BY DEF PInv, TypeOK
<1>8. CASE /\ TimedSame /\ Sorted'
           /\ task'[Dispatch] \in {None, Void}
           /\ pc'[Dispatch] # "run" => task'[Dispatch] = None
  <2>1. script' = <<>>
    BY <1>2, <1>6, <1>8
  <2>2. Single' /\ Cleared' /\ Exact'
    BY <1>2, <1>4, <1>8, <2>1, FrameLemma DEF PInv, Terminated
  <2>3. Shape(script')
    BY <2>1, EmptyShape
  <2>4. Resting'
    BY <1>1, <1>8, <2>1 DEF Resting
  <2>5. QED
    BY <1>8, <2>2, <2>3, <2>4 DEF PInv
<1>9. ASSUME NEW t \in Requests, task'[Dispatch] = t, pc'[Dispatch] = "run",
             Kind[t] \notin Inputs, TimedSame, Sorted'
      PROVE  PInv'
  <2>1. /\ Shape(script') /\ script' # <<>> /\ Head(script') = script'[1]
        /\ script'[1].do \notin {"play", "reset", "open"}
    BY <1>2, <1>9, BodyLemma
  <2>2. \A s : ~Playing(s)'
    BY <2>1 DEF Playing, Step
  <2>3. Single' /\ Cleared' /\ Exact'
    BY <1>2, <1>5, <1>9, <2>1, <2>2, TurnLemma DEF PInv
  <2>4. Resting'
    BY <1>1, <1>9 DEF Resting
  <2>5. QED
    BY <1>9, <2>1, <2>3, <2>4 DEF PInv
<1>10. CASE Serve(Dispatch)
  <2>1. CASE Pending = {}
    <3>1. slots' = slots /\ Begin(Dispatch, None)
      BY <1>10, <2>1 DEF Serve
    <3>2. TimedSame /\ Sorted'
      BY <3>1 DEF TimedSame, With, PInv, Sorted
    <3>3. task'[Dispatch] = None
      BY <1>1, <1>7, <3>1 DEF Begin
    <3>4. QED
      BY <1>8, <3>2, <3>3
  <2>2. CASE Pending # {}
    <3> DEFINE i == First(Pending)
    <3>1. Pending \subseteq Nat
      BY DEF Pending, With, PInv, TypeOK
    <3>2. i \in Pending
      BY <2>2, <3>1, MinLemma DEF First
    <3>3. /\ slots' = Emptied(i)
          /\ IF slots[i].flag = "break"
             THEN pc' = [pc EXCEPT ![Dispatch] = "left"] /\ task' = task
             ELSE Begin(Dispatch, slots[i].task)
      BY <1>10, <2>2 DEF Serve, Go
    <3> HIDE DEF i
    <3>4. i \in DOMAIN slots /\ slots[i].flag \in {"interrupt", "break"}
      BY <3>2 DEF Pending, With
    <3>5. TimedSame /\ Sorted'
      BY <3>3, <3>4, EmptiedSorted DEF PInv, TimedSame, With
    <3>6. CASE slots[i].flag = "break"
      <4>1. task'[Dispatch] = None
        BY <1>4, <3>3, <3>6
      <4>2. QED
        BY <1>8, <3>5, <4>1
    <3>7. CASE slots[i].flag = "interrupt"
      <4>1. PICK t : t = slots[i].task
        OBVIOUS
      <4>2. t = Void \/ (t \in Requests /\ Kind[t] \notin Inputs)
        BY <3>4, <3>7, <4>1 DEF PInv, Sorted
      <4>3. t # None
        BY <4>2, RequestAssumption
      <4>4. task'[Dispatch] = t /\ pc'[Dispatch] = "run"
        BY <1>1, <1>7, <3>3, <3>7, <4>1, <4>3 DEF Begin, Go
      <4>5. QED
        BY <1>8, <1>9, <3>5, <4>2, <4>4
    <3>8. QED
      BY <3>4, <3>6, <3>7
  <2>3. QED
    BY <2>1, <2>2
<1>11. CASE RunNearest(Dispatch)
  <2>1. CASE With("timed") = {}
    <3>1. slots' = slots /\ Begin(Dispatch, None)
      BY <1>11, <2>1 DEF RunNearest
    <3>2. TimedSame /\ Sorted'
      BY <3>1 DEF TimedSame, With, PInv, Sorted
    <3>3. task'[Dispatch] = None
      BY <1>1, <1>7, <3>1 DEF Begin
    <3>4. QED
      BY <1>8, <3>2, <3>3
  <2>2. CASE With("timed") # {}
    <3>1. PICK i \in With("timed") : slots' = Emptied(i) /\ Begin(Dispatch, slots[i].task)
      BY <1>11, <2>2 DEF RunNearest
    <3>2. PICK t : t = slots[i].task
      OBVIOUS
    <3>3. t \in Requests /\ Kind[t] \in Inputs /\ i \in DOMAIN slots
      BY <3>1, <3>2 DEF PInv, Sorted, With
    <3>4. t # None
      BY <3>3, RequestAssumption
    <3>5. task'[Dispatch] = t /\ pc'[Dispatch] = "run"
      BY <1>1, <1>7, <3>1, <3>2, <3>4 DEF Begin, Go
    <3>6. /\ Sorted' /\ With("timed")' = With("timed") \ {i}
          /\ \A j \in With("timed") \ {i} : slots'[j] = slots[j]
      BY <3>1, <3>3, EmptiedSorted DEF PInv
    <3>7. PICK s \in Inputs : s = Kind[t]
      BY <3>3
    <3>8. script' = <<Step("play", s)>> /\ Shape(script')
      BY <1>2, <3>3, <3>5, <3>7, BodyLemma
    <3>9. script' # <<>> /\ Head(script') = Step("play", s) /\ script'[1].do = "play"
      BY <3>8 DEF Step
    <3>10. \A x : Playing(x)' <=> x = s
      BY <3>9 DEF Playing, Step
    <3>11. i \in Records(s)
      BY <3>1, <3>2, <3>7 DEF Records
    <3>12. Records(s) = {i}
      BY <3>11 DEF PInv, Single
    <3>13. \A x : Records(x)' = Records(x) \ {i}
      BY <3>6 DEF Records
    <3>14. \A x : x # s => i \notin Records(x)
      BY <3>2, <3>7 DEF Records
    <3>15. Live' = Live
      BY <1>5, <3>10, <3>11, <3>12, <3>13, <3>14 DEF Live
    <3>16. Single'
      BY <3>10, <3>12, <3>13 DEF PInv, Single
    <3>17. Cleared'
      BY <3>9 DEF Cleared
    <3>18. Exact'
      BY <1>2, <3>9, <3>15 DEF PInv, Exact, Opening, Terminated
    <3>19. Resting'
      BY <1>1, <3>5 DEF Resting
    <3>20. QED
      BY <3>6, <3>8, <3>16, <3>17, <3>18, <3>19 DEF PInv
  <2>3. QED
    BY <2>1, <2>2
<1>12. QED
  BY <1>2, <1>10, <1>11

LEMMA PInvStep == ASSUME Player PROVE PInv /\ [PlaybackNext]_allVars => PInv'
<1> SUFFICES ASSUME PInv, [PlaybackNext]_allVars PROVE PInv'
  OBVIOUS
<1>1. TypeOK'
  BY PlayerStep, TypeStep DEF PInv
<1>2. /\ User \in Agents /\ Dispatch \in Workers /\ Dispatch \in Agents
      /\ \A w \in Workers : w = Dispatch
      /\ Methods \cap Inputs = {}
  BY DEF Player, Agents, Inputs
<1> USE DEF local, shared, history, vars, routine
<1> DEFINE Goal == Shape(script') /\ Resting' /\ Sorted' /\ Single' /\ Cleared' /\ Exact'
<1>3. CASE CallPlay \/ CallPause \/ CallSeek
  <2>1. UNCHANGED <<slots, pc, task, script, active>> /\ call = "none"
    BY <1>3 DEF CallPlay, CallPause, CallSeek, Enter
  <2>2. TimedSame /\ Sorted'
    BY <2>1 DEF TimedSame, With, PInv, Sorted
  <2>3. Single' /\ Cleared' /\ Exact'
    BY <2>1, <2>2, FrameLemma DEF PInv, Terminated
  <2>4. QED
    BY <1>1, <2>1, <2>2, <2>3, RestLemma DEF PInv
<1>4. CASE Submit \/ Shutdown
  <2>1. PICK k \in Methods : Queue(User, k)
    BY <1>4 DEF Submit, Shutdown, Methods
  <2>2. UNCHANGED <<pc, task, script, active>> /\ (Terminated => Terminated')
    BY <1>4 DEF Submit, Shutdown, Queue, Interrupt, Terminated
  <2>3. TimedSame /\ Sorted'
    BY <1>2, <2>1, QueueSame DEF PInv
  <2>4. Single' /\ Cleared' /\ Exact'
    BY <2>2, <2>3, FrameLemma DEF PInv
  <2>5. QED
    BY <1>1, <2>2, <2>3, <2>4, RestLemma DEF PInv
<1>5. CASE Destroy
  <2>1. CancelAll(User) /\ UNCHANGED <<pc, task, script, active>> /\ Terminated'
    BY <1>5 DEF Destroy, CancelAll, Terminated
  <2>2. With("timed")' = {} /\ (\A s : Records(s)' = {}) /\ Sorted'
    BY <2>1, CancelLemma DEF PInv
  <2>3. Single' /\ Cleared' /\ Exact'
    BY <2>1, <2>2 DEF PInv, Single, Cleared, Exact
  <2>4. QED
    BY <1>1, <2>1, <2>2, <2>3, RestLemma DEF PInv
<1>6. CASE Wait
  <2>1. UNCHANGED <<script, active, call>>
    BY <1>6 DEF Wait
  <2>2. CASE WakeProcess(Dispatch)
    <3>1. Signal([flag |-> "interrupt", time |-> 0, task |-> Void]) /\ UNCHANGED <<pc, task>>
      BY <2>2 DEF WakeProcess
    <3>2. TimedSame /\ Sorted'
      <4>1. [flag |-> "interrupt", time |-> 0, task |-> Void] \in Record
        BY RecordTypes DEF Jobs
      <4>2. QED
        BY <3>1, <4>1, SignalSame DEF PInv
    <3>3. Single' /\ Cleared' /\ Exact'
      BY <2>1, <3>2, FrameLemma DEF PInv, Terminated
    <3>4. QED
      BY <1>1, <2>1, <3>1, <3>2, <3>3, RestLemma DEF PInv
  <2>3. CASE ~WakeProcess(Dispatch)
    <3>1. slots' = slots /\ Resting'
      BY <1>2, <1>6, <2>1, <2>3 DEF Wait, Tick, Scan, Sleep, TakeToken, TimeOut, Finish, Go, PInv, Resting, TypeOK
    <3>2. TimedSame /\ Sorted'
      BY <3>1 DEF TimedSame, With, PInv, Sorted
    <3>3. Single' /\ Cleared' /\ Exact'
      BY <2>1, <3>2, FrameLemma DEF PInv, Terminated
    <3>4. QED
      BY <1>1, <2>1, <3>1, <3>2, <3>3 DEF PInv
  <2>4. QED
    BY <2>2, <2>3
<1>7. CASE Pick
  BY <1>7, PickStep, <1>1
<1>8. CASE Cancel
  <2>1. /\ script # <<>> /\ Head(script).do = "cancel" /\ script' = Tail(script)
        /\ pc[Dispatch] = "run" /\ CancelAll(Dispatch) /\ UNCHANGED <<pc, task, active, call>>
    BY <1>8 DEF Cancel, Doing, Did, CancelAll
  <2>2. /\ Shape(script') /\ Head(script) = script[1] /\ \A s : ~Playing(s)'
        /\ script' # <<>> => script'[1].do # "open"
    BY <2>1, TailLemma DEF PInv
  <2>3. With("timed")' = {} /\ (\A s : Records(s)' = {}) /\ Sorted'
    BY <2>1, CancelLemma DEF PInv
  <2>4. Live' = {} /\ ~Opening'
    BY <2>2, <2>3 DEF Live, Opening
  <2>5. Single' /\ Cleared' /\ Exact'
    BY <2>1, <2>2, <2>3, <2>4 DEF PInv, Single, Cleared, Exact
  <2>6. QED
    BY <1>1, <1>2, <2>1, <2>2, <2>3, <2>5, RestLemma DEF PInv
<1>9. CASE Reset
  <2>1. /\ script # <<>> /\ Head(script).do = "reset" /\ script' = Tail(script)
        /\ pc[Dispatch] = "run" /\ active' = 0 /\ UNCHANGED <<slots, pc, task, call>>
    BY <1>9 DEF Reset, Doing, Did
  <2>2. /\ Shape(script') /\ Head(script) = script[1] /\ \A s : ~Playing(s)'
        /\ script' # <<>> => script'[1].do # "reset"
    BY <2>1, TailLemma DEF PInv
  <2>3. With("timed") = {}
    BY <2>1, <2>2 DEF PInv, Cleared
  <2>4. With("timed")' = {} /\ (\A s : Records(s)' = {}) /\ Sorted'
    BY <2>1, <2>3 DEF With, Records, PInv, Sorted
  <2>5. Live' = {} /\ Cardinality({}) = 0
    BY <2>2, <2>4, FS_EmptySet DEF Live
  <2>6. Single' /\ Cleared' /\ Exact'
    BY <2>1, <2>2, <2>4, <2>5 DEF Single, Cleared, Exact
  <2>7. QED
    BY <1>1, <1>2, <2>1, <2>2, <2>4, <2>6, RestLemma DEF PInv
<1>10. CASE Begins \/ SeekFirst \/ Stop \/ Leave
  <2>1. /\ script # <<>> /\ Head(script).do \in {"begin", "first", "stop", "break"}
        /\ script' = Tail(script) /\ pc[Dispatch] = "run"
        /\ UNCHANGED <<pc, task, active, call>>
    BY <1>10 DEF Begins, SeekFirst, Stop, Leave, Doing, Did, Queue, Interrupt, Break
  <2>2. /\ Shape(script') /\ Head(script) = script[1] /\ \A s : ~Playing(s)'
        /\ script' # <<>> => script'[1].do \notin {"reset", "open"}
    BY <2>1, TailLemma DEF PInv
  <2>3. \A s : ~Playing(s)
    BY <2>1 DEF Playing, Step
  <2>4. TimedSame /\ Sorted'
    <3>1. CASE slots' = slots
      BY <3>1 DEF TimedSame, With, PInv, Sorted
    <3>2. CASE SeekFirst
      BY <1>2, <3>2, QueueSame DEF SeekFirst, Methods, PInv
    <3>3. CASE Leave
      BY <3>3, SignalSame, RecordTypes DEF Leave, Break, PInv
    <3>4. QED
      BY <1>10, <3>1, <3>2, <3>3 DEF Begins, Stop
  <2>5. Single' /\ Cleared' /\ Exact'
    BY <2>1, <2>2, <2>3, <2>4, TurnLemma DEF PInv
  <2>6. QED
    BY <1>1, <1>2, <2>1, <2>2, <2>4, <2>5, RestLemma DEF PInv
<1>11. CASE GoOn
  <2>1. /\ script # <<>> /\ Head(script).do \in {"open", "play"} /\ script' = Tail(script)
        /\ pc[Dispatch] = "run" /\ UNCHANGED <<pc, task, call>>
    BY <1>11 DEF GoOn, Doing, Did, StreamEnds, Schedule
  <2>2. Shape(script') /\ Head(script) = script[1]
    BY <2>1, TailLemma DEF PInv
  <2>3. Resting'
    BY <1>2, <2>1, RestLemma DEF PInv
  <2>4. CASE StreamEnds(Counted - 1)
    <3>1. slots' = slots /\ active' = IF script[1].do = "open" THEN active ELSE active - 1
      BY <2>2, <2>4 DEF StreamEnds, Counted, PInv, Exact
    <3>2. TimedSame /\ Sorted'
      BY <3>1 DEF TimedSame, With, PInv, Sorted
    <3>3. Single' /\ Cleared' /\ Exact'
      BY <2>1, <2>2, <3>1, <3>2, EndLemma
    <3>4. QED
      BY <1>1, <2>2, <2>3, <3>2, <3>3 DEF PInv
  <2>5. CASE ~StreamEnds(Counted - 1)
    <3>1. PICK d \in Times : Schedule(Dispatch, Fresh(Head(script).stream), d)
      BY <1>11, <2>5 DEF GoOn
    <3>2. /\ active' = IF script[1].do = "open" THEN active + 1 ELSE active
          /\ Unused(Head(script).stream) # {}
      BY <1>11, <2>2, <2>5 DEF GoOn, Counted
    <3>3. PICK t \in Requests : t = Fresh(Head(script).stream) /\ Kind[t] = script[1].stream
      BY <2>2, <3>2, FreshLemma
    <3>4. slots' = Placed([flag |-> "timed", time |-> d, task |-> t])
      BY <3>1, <3>3 DEF Schedule
    <3>5. Single' /\ Cleared' /\ Exact' /\ Sorted'
      BY <2>1, <2>2, <3>2, <3>3, <3>4, ScheduleLemma
    <3>6. QED
      BY <1>1, <2>2, <2>3, <3>5 DEF PInv
  <2>6. QED
    BY <2>4, <2>5
<1>12. CASE UNCHANGED allVars
  <2>1. UNCHANGED <<slots, pc, task, script, active, call>>
    BY <1>12 DEF allVars
  <2>2. TimedSame /\ Sorted'
    BY <2>1 DEF TimedSame, With, PInv, Sorted
  <2>3. Single' /\ Cleared' /\ Exact'
    BY <2>1, <2>2, FrameLemma DEF PInv, Terminated
  <2>4. QED
    BY <1>1, <2>1, <2>2, <2>3, RestLemma DEF PInv
<1>13. QED
  BY <1>3, <1>4, <1>5, <1>6, <1>7, <1>8, <1>9, <1>10, <1>11, <1>12 DEF PlaybackNext, Act

LEMMA PlayerInvariance == ASSUME Player PROVE PlaybackSpec => []PInv
BY PlayerInit, PInvStep, PTL DEF PlaybackSpec

\* A stream is never queued twice, nor queued while its task runs, however many
\* streams there are and however seeks, pauses, restarts and the destructor
\* follow each other.
THEOREM StreamOnceCorrect == ASSUME Player PROVE PlaybackSpec => []StreamOnce
<1>1. PInv => StreamOnce
  <2> SUFFICES ASSUME PInv, NEW s \in Inputs
               PROVE  Cardinality(Records(s)) + (IF Playing(s) THEN 1 ELSE 0) <= 1
    BY DEF StreamOnce, Inputs
  <2>1. (\A i, j \in Records(s) : i = j) /\ (Playing(s) => Records(s) = {})
    BY DEF PInv, Single
  <2>2. Records(s) = {} \/ \E i : Records(s) = {i}
    BY <2>1
  <2>3. CASE Records(s) = {}
    <3>1. Cardinality(Records(s)) = 0
      BY <2>3, FS_EmptySet
    <3>2. QED
      BY <3>1
  <2>4. CASE \E i : Records(s) = {i}
    <3>1. Cardinality(Records(s)) = 1 /\ ~Playing(s)
      BY <2>1, <2>4, FS_Singleton
    <3>2. QED
      BY <3>1
  <2>5. QED
    BY <2>2, <2>3, <2>4
<1>2. QED
  BY <1>1, PlayerInvariance, PTL

\* While streams are queued, _streams_active is their number.
THEOREM ActiveCorrect == ASSUME Player PROVE PlaybackSpec => []ActiveExact
<1>1. PInv => ActiveExact
  BY DEF PInv, Exact, ActiveExact, Terminated
<1>2. QED
  BY <1>1, PlayerInvariance, PTL
=============================================================================
