------------------------ MODULE NetworkDispatchProofs ------------------------
(***************************************************************************)
(* For any number of queues, threads and requests, any size of the pipe    *)
(* and a dispatch that may die, up to a step that loses one of the two     *)
(* races of the program (Snatched, Hurried): nobody touches a queue object *)
(* after it was destroyed; every request ends once, in order and for a     *)
(* cause; no request is forgotten and no queue object is leaked.  And the  *)
(* sender of an "update" is not the one who loses the first of them.       *)
(***************************************************************************)
EXTENDS NetworkDispatch, FiniteSetTheorems, TLAPS

Calls == {"local", "root", "write", "retain", "drop"}
HandPlaces == {"peek_read", "peek_write", "assign", "drain", "remove"}

Steps == Calls \cup HandPlaces \cup
         {"none", "user", "pipe", "destroy", "stop", "join", "poll", "visit", "read", "ended"}

TypeOK ==
  /\ asked \in [Queues -> SUBSET {"cancel", "release"}]
  /\ life \in [Queues -> {"unborn", "alive", "freed"}]
  /\ refs \in [Queues -> Int]
  /\ pipe \in Seq([cmd : {"update", "cancel", "shutdown"}, queue : Queues])
  /\ Polled \subseteq Queues
  /\ pc \in [Agents -> Steps]
  /\ arg \in [Agents -> [cmd : {"none", "update", "cancel", "shutdown"},
                         queue : Queues \cup {Nil}, request : Requests \cup {Nil}]]
  /\ hand \in Queues \cup {Nil}
  /\ after \in {"poll", "visit", "revise", "drain"}

\* Who holds the root lock, which stands between a command and its reference;
\* whose arguments mean something; and the queue the dispatch is busy with.
Places ==
  /\ \A a \in Agents : pc[a] \in {"write", "retain"} => root = a
  /\ \A a \in Agents : pc[a] \in Calls => arg[a].queue # Nil /\ arg[a].cmd # "none"
  /\ \A a \in Agents : pc[a] = "destroy" => arg[a].queue # Nil
  /\ \A a \in Agents : arg[a].queue # Nil => pc[a] \in Calls \cup {"destroy", "pipe"}
  /\ pc[Dispatch] \in HandPlaces \/ after \in {"revise", "drain"} => hand # Nil
  /\ pc[Dispatch] \in {"read", "remove"} => after = "poll"

Alone(a) == \A b \in Agents : arg[b].queue = arg[a].queue => b = a

\* A queue object that a call is about.
Users ==
  \A a \in Agents : LET q == arg[a].queue IN q # Nil =>
    /\ pc[a] = "pipe" => life[q] = "unborn" /\ Alone(a)
    /\ pc[a] \in Calls => life[q] = "alive"
    /\ pc[a] = "destroy" => life[q] = "alive" /\ refs[q] = 0 /\ Alone(a)
    /\ pc[a] \in Calls /\ "release" \in asked[q] => arg[a].cmd = "shutdown" /\ Alone(a)
    /\ pc[a] \in Calls /\ arg[a].cmd = "shutdown" => "release" \in asked[q]
    /\ pc[a] = "drop" => arg[a].cmd = "shutdown"

\* The references: of the channel, of the command in the dispatch's hands, of
\* the element of clients and of the commands in the pipe, the last of which
\* may not be counted yet.
Channel(q) == /\ life[q] = "alive"
              /\ \/ "release" \notin asked[q]
                 \/ \E a \in Agents : arg[a].queue = q /\ pc[a] \in Calls
InHand(q) == /\ hand = q
             /\ \/ pc[Dispatch] \in {"drain", "remove"}
                \/ pc[Dispatch] \in HandPlaces /\ after = "poll"
                \/ after = "drain"
Owed(q) == \E a \in Agents : arg[a].queue = q /\ pc[a] = "retain"
Commands(q) == {i \in DOMAIN pipe : pipe[i].queue = q}

One(b) == IF b THEN 1 ELSE 0
Held(q) == One(Channel(q)) + One(InHand(q)) + One(q \in Polled)

CountedAt(q) ==
  /\ life[q] # "alive" => refs[q] = 0
  /\ refs[q] + One(Owed(q)) >= Held(q) + Cardinality(Commands(q))

Counted == \A q \in Queues : CountedAt(q)

IInv == TypeOK /\ Places /\ Users /\ Counted

-----------------------------------------------------------------------------
(* The requests, for the refinement of RequestService.                     *)

LinesOK == /\ line \in [Queues -> [Sides -> Seq(Requests)]]
           /\ outcome \in [Requests -> {"none", "done", "cancelled", "refused"}]
           /\ localSync \in [Queues -> Agents \cup {Nil}]

Waits(r) == \E q \in Queues, s \in Sides : \E i \in DOMAIN line[q][s] : line[q][s][i] = r

\* A request is in the hands of one caller and new until it is pushed.
FreshAt(a) ==
  /\ pc[a] \in Calls => (arg[a].cmd = "update" <=> arg[a].request # Nil)
  /\ pc[a] = "local" => arg[a].cmd = "update"
  /\ arg[a].request # Nil =>
       /\ pc[a] \in Calls
       /\ \A b \in Agents : arg[b].request = arg[a].request => b = a
       /\ pc[a] = "local" => outcome[arg[a].request] = "none" /\ ~Waits(arg[a].request)

\* It is the last of its line, under the queue's lock, until its command is written.
Last(s) == s[Len(s)]
PushedAt(a) ==
  LET q == arg[a].queue   r == arg[a].request IN
    pc[a] \in {"root", "write"} /\ r # Nil =>
      /\ localSync[q] = a
      /\ line[q][SideOf(r)] # <<>> /\ Last(line[q][SideOf(r)]) = r

\* A command is what the users have asked for.
Meant(c) == /\ c.cmd = "cancel" => "cancel" \in asked[c.queue]
            /\ c.cmd = "shutdown" => "release" \in asked[c.queue]
AsksAt(a) == pc[a] \in Calls /\ arg[a].cmd = "cancel" => "cancel" \in asked[arg[a].queue]

Owned == \A q \in Queues, s \in Sides : line[q][s] # <<>> => life[q] = "alive"
Asks == /\ \A i \in DOMAIN pipe : Meant(pipe[i])
        /\ pc[Dispatch] = "drain" \/ after = "drain" => "cancel" \in asked[hand]

Served == /\ Owned /\ Asks
          /\ \A a \in Agents : FreshAt(a) /\ PushedAt(a) /\ AsksAt(a)

SInv == LinesOK /\ Served

Down == ~open \/ pc[Dispatch] = "ended"

-----------------------------------------------------------------------------
(* What the dispatch knows, for Registered.                                *)

\* The references to the dispatch: one of the program's own and one of each
\* queue.  One that starts it has the first, and the queue is not there yet.
Alive == {q \in Queues : life[q] = "alive"}
Started ==
  /\ IsFiniteSet(Alive) /\ service \in Nat
  /\ (\A a \in Agents : pc[a] # "pipe") => service = Cardinality(Alive) + One(engine = "up")
  /\ \A a \in Agents : pc[a] = "pipe" =>
       /\ Alive = {} /\ engine # "up" /\ service = 1
       /\ \A b \in Agents : pc[b] = "pipe" => b = a
  /\ engine = "up" \/ Alive # {} => open

\* While the dispatch visits the sockets poll has reported, they stay in the
\* table; so does the one whose element it is about to revise.
Phases ==
  /\ batch \subseteq Polled \X Sides
  /\ pc[Dispatch] # "visit" /\ after \notin {"visit", "revise"} => batch = {}
  /\ after = "revise" => hand \in Polled
  /\ pc[Dispatch] \in {"none", "poll", "ended"} => after = "poll"
  /\ pc[Dispatch] = "drain" => after \in {"poll", "drain"}

Told(q) == \/ \E i \in DOMAIN pipe : pipe[i].cmd = "update" /\ pipe[i].queue = q
           \/ \E a \in Agents : /\ arg[a].queue = q /\ arg[a].cmd = "update"
                                 /\ pc[a] \in {"root", "write"}
Looking(q) == hand = q /\ pc[Dispatch] \in {"peek_read", "peek_write", "assign", "remove"}

Watch(q, s) ==
  line[q][s] # <<>> /\ "release" \notin asked[q] =>
    \/ Told(q)
    \/ WillLook(q, s)
    \/ q \in Polled /\ s \in clients[q] /\ ~Looking(q)
Watched == Running => \A q \in Queues, s \in Sides : Watch(q, s)

KInv == Started /\ Phases /\ Watched

-----------------------------------------------------------------------------
(* What is not forgotten of the references, for NoneLeaked.                *)

\* The count is no higher than the number of those who hold the queue; one
\* whose count has come to zero is being destroyed.
KeptAt(q) == refs[q] + One(Owed(q)) <= Held(q) + Cardinality(Commands(q))
DyingAt(q) == life[q] = "alive" /\ refs[q] = 0 =>
                \E a \in Agents : arg[a].queue = q /\ pc[a] = "destroy"

\* The last word about a queue is "shutdown": it is the last command and said
\* once.  Until then the dispatch has nothing of a queue that could be the last
\* reference to it.
Final(q) == \E i \in DOMAIN pipe : pipe[i].cmd = "shutdown" /\ pipe[i].queue = q
Unsaid(q) == \/ "release" \notin asked[q]
             \/ \E a \in Agents : /\ arg[a].queue = q /\ arg[a].cmd = "shutdown"
                                  /\ pc[a] \in {"root", "write"}
Spoken(q) == q \in Polled \/ InHand(q) \/ Commands(q) # {}
Leaving(q) == hand = q /\ pc[Dispatch] = "remove" /\ Commands(q) = {}
Backed(q) == pc[Dispatch] # "ended" /\ Spoken(q) /\ ~Leaving(q) => Final(q) \/ Unsaid(q)

LastWord == \A i, j \in DOMAIN pipe :
  pipe[i].cmd = "shutdown" /\ pipe[j].queue = pipe[i].queue => j <= i
SaidOnce == \A a \in Agents :
  arg[a].cmd = "shutdown" /\ pc[a] \in {"root", "write"} => ~Final(arg[a].queue)

Farewell == /\ LastWord /\ SaidOnce
            /\ \A q \in Queues : Backed(q) /\ ("release" \in asked[q] => life[q] # "unborn")
            /\ pc[Dispatch] = "visit" => after # "drain"
Kept == \A q \in Queues : KeptAt(q) /\ DyingAt(q)

XInv == Farewell /\ Kept

-----------------------------------------------------------------------------
(* Types.                                                                  *)

\* A call moves one thread and sets what it is about.
LEMMA CallType ==
  ASSUME TypeOK, NEW a \in Agents, NEW place \in Steps,
         NEW c \in {"none", "update", "cancel", "shutdown"},
         NEW q \in Queues \cup {Nil}, NEW r \in Requests \cup {Nil},
         Call(a, place, c, q, r)
  PROVE  /\ pc' = [pc EXCEPT ![a] = place] /\ pc' \in [Agents -> Steps]
         /\ arg' = [arg EXCEPT ![a] = [cmd |-> c, queue |-> q, request |-> r]]
         /\ arg' \in [Agents -> [cmd : {"none", "update", "cancel", "shutdown"},
                                 queue : Queues \cup {Nil}, request : Requests \cup {Nil}]]
BY DEF Call, Go, TypeOK

LEMMA ReturnType ==
  ASSUME TypeOK, NEW a \in Agents, Return(a)
  PROVE  /\ pc' = [pc EXCEPT ![a] = Back(a)] /\ pc' \in [Agents -> Steps]
         /\ arg' = [arg EXCEPT ![a] = NoCall]
         /\ arg' \in [Agents -> [cmd : {"none", "update", "cancel", "shutdown"},
                                 queue : Queues \cup {Nil}, request : Requests \cup {Nil}]]
         /\ Back(a) \in {"poll", "user"}
<1>1. Back(a) \in {"poll", "user"} /\ Back(a) \in Steps
  BY DEF Back, Steps
<1>2. Call(a, Back(a), "none", Nil, Nil)
  BY DEF Return
<1>3. QED
  BY <1>1, <1>2, CallType DEF NoCall

\* What sent does, and leaving: the thread goes on with the drop of its queue,
\* with the end of the dispatch, or with its program.
LEMMA SentType ==
  ASSUME TypeOK, NEW a \in Agents, Sent(a)
  PROVE  \/ /\ arg[a].cmd = "shutdown" /\ arg' = arg
            /\ pc' = [pc EXCEPT ![a] = "drop"] /\ pc' \in [Agents -> Steps]
         \/ arg[a].cmd # "shutdown" /\ Return(a)
BY DEF Sent, Go, TypeOK, Steps, Calls

LEMMA LeaveType ==
  ASSUME TypeOK, NEW a \in Agents, Leave(a)
  PROVE  \E place \in {"stop", "poll", "user"} :
           /\ pc' = [pc EXCEPT ![a] = place] /\ pc' \in [Agents -> Steps]
           /\ arg' = [arg EXCEPT ![a] = NoCall]
           /\ arg' \in [Agents -> [cmd : {"none", "update", "cancel", "shutdown"},
                                   queue : Queues \cup {Nil}, request : Requests \cup {Nil}]]
<1>1. CASE service = 1
  BY <1>1, CallType DEF Leave, NoCall, Steps
<1>2. CASE service # 1
  BY <1>2, ReturnType DEF Leave
<1>3. QED
  BY <1>1, <1>2

LEMMA ReleaseType ==
  ASSUME TypeOK, NEW a \in Agents, NEW q \in Queues, NEW n \in Int, ReleaseRefs(a, q, n)
  PROVE  /\ refs' = [refs EXCEPT ![q] = @ - n] /\ refs' \in [Queues -> Int]
         /\ \/ /\ refs[q] = n /\ pc' = [pc EXCEPT ![a] = "destroy"]
               /\ arg' = [arg EXCEPT ![a] = [cmd |-> "none", queue |-> q, request |-> Nil]]
            \/ refs[q] # n /\ Return(a)
         /\ pc' \in [Agents -> Steps]
         /\ arg' \in [Agents -> [cmd : {"none", "update", "cancel", "shutdown"},
                                 queue : Queues \cup {Nil}, request : Requests \cup {Nil}]]
<1>1. refs' = [refs EXCEPT ![q] = @ - n] /\ refs' \in [Queues -> Int]
  BY DEF ReleaseRefs, TypeOK
<1>2. CASE refs[q] = n
  <2>1. Call(a, "destroy", "none", q, Nil) /\ "destroy" \in Steps
    BY <1>2 DEF ReleaseRefs, Steps
  <2>2. QED
    BY <1>1, <1>2, <2>1, CallType
<1>3. CASE refs[q] # n
  BY <1>1, <1>3, ReturnType DEF ReleaseRefs
<1>4. QED
  BY <1>2, <1>3

LEMMA HeadTail ==
  ASSUME NEW C, NEW s \in Seq(C), s # <<>>
  PROVE  Head(s) \in C /\ Tail(s) \in Seq(C)
OBVIOUS

LEMMA DropType ==
  ASSUME TypeOK, NEW S, DropClients(S)
  PROVE  refs' \in [Queues -> Int]
BY DEF DropClients, TypeOK

LEMMA OnePolled ==
  ASSUME NEW S \in SUBSET Queues
  PROVE  Cardinality({hand} \cap S) = One(hand \in S)
<1>1. CASE hand \in S
  <2>1. {hand} \cap S = {hand}
    BY <1>1
  <2>2. QED
    BY <1>1, <2>1, FS_Singleton DEF One
<1>2. CASE hand \notin S
  <2>1. {hand} \cap S = {}
    BY <1>2
  <2>2. QED
    BY <1>2, <2>1, FS_EmptySet DEF One
<1>3. QED
  BY <1>1, <1>2

LEMMA TypeStep ==
  ASSUME TypeOK, Places, Users, [ProgramNext]_program
  PROVE  TypeOK'
<1> USE NilAssumption
       DEF Steps, Calls, HandPlaces, Go, requests, queues, locks, engines, control, dispatch
<1> DEFINE Args == [cmd : {"none", "update", "cancel", "shutdown"},
                    queue : Queues \cup {Nil}, request : Requests \cup {Nil}]
<1>0. Dispatch \in Agents
  BY DEF Agents
<1>1. ASSUME NEW a \in Agents, NEW q \in Queues, CreateQueue(a, q) PROVE TypeOK'
  <2>1. pc' \in [Agents -> Steps] /\ arg' \in [Agents -> Args]
        /\ life' \in [Queues -> {"unborn", "alive", "freed"}] /\ refs' \in [Queues -> Int]
    <3>1. CASE service = 0
      <4>1. Call(a, "pipe", "none", q, Nil) /\ UNCHANGED queues
        BY <1>1, <3>1 DEF CreateQueue, Join
      <4>2. pc' \in [Agents -> Steps] /\ arg' \in [Agents -> Args]
        BY <4>1, CallType
      <4>3. QED
        BY <4>1, <4>2 DEF TypeOK
    <3>2. CASE service # 0
      <4>1. /\ UNCHANGED <<pc, arg>>
            /\ life' = [life EXCEPT ![q] = "alive"] /\ refs' = [refs EXCEPT ![q] = 1]
        BY <1>1, <3>2 DEF CreateQueue, Join
      <4>2. QED
        BY <4>1 DEF TypeOK
    <3>3. QED
      BY <3>1, <3>2
  <2>2. QED
    BY <1>1, <2>1 DEF CreateQueue, TypeOK, Polled
<1>2. ASSUME NEW a \in Agents, NEW q \in Queues, Cancel(a, q) \/ Release(a, q) PROVE TypeOK'
  <2>1. pc' \in [Agents -> Steps] /\ arg' \in [Agents -> Args]
    BY <1>2, CallType DEF Cancel, Release
  <2>2. PICK what \in {"cancel", "release"} : asked' = [asked EXCEPT ![q] = @ \cup {what}]
    BY <1>2 DEF Cancel, Release
  <2>3. asked' \in [Queues -> SUBSET {"cancel", "release"}]
    BY <2>2 DEF TypeOK
  <2>4. UNCHANGED <<life, refs, pipe, clients, hand, after>>
    BY <1>2 DEF Cancel, Release
  <2>5. QED
    BY <2>1, <2>3, <2>4 DEF TypeOK, Polled
<1>3. ASSUME NEW a \in Agents, NEW q \in Queues, NEW r \in Requests, BeginEnqueue(a, q, r)
      PROVE  TypeOK'
  <2>1. pc' \in [Agents -> Steps] /\ arg' \in [Agents -> Args]
    BY <1>3, CallType DEF BeginEnqueue
  <2>2. QED
    BY <1>3, <2>1 DEF BeginEnqueue, TypeOK, Polled
<1>4. ASSUME NEW a \in Agents, CreatePipe(a) PROVE TypeOK'
  <2>1. /\ pc' \in [Agents -> Steps] /\ arg' \in [Agents -> Args]
    BY <1>0, <1>4 DEF CreatePipe, TypeOK, NoCall, Back
  <2>2. life' \in [Queues -> {"unborn", "alive", "freed"}] /\ refs' \in [Queues -> Int]
    BY <1>4 DEF CreatePipe, TypeOK
  <2>3. pipe' \in Seq([cmd : {"update", "cancel", "shutdown"}, queue : Queues])
    BY <1>4 DEF CreatePipe
  <2>4. QED
    BY <1>4, <2>1, <2>2, <2>3 DEF CreatePipe, TypeOK, Polled
<1>5. ASSUME NEW a \in Agents, AwaitDispatch(a) PROVE TypeOK'
  BY <1>5, ReturnType DEF AwaitDispatch, TypeOK, Polled
<1>6. ASSUME NEW a \in Agents, Destroy(a) PROVE TypeOK'
  <2>1. pc' \in [Agents -> Steps] /\ arg' \in [Agents -> Args]
    BY <1>6, LeaveType DEF Destroy
  <2>2. QED
    BY <1>6, <2>1 DEF Destroy, TypeOK, Polled
<1>7. ASSUME NEW a \in Agents, PushRequest(a) \/ AcquireRoot(a) \/ ClosePipe(a) PROVE TypeOK'
  BY <1>7 DEF PushRequest, AcquireRoot, ClosePipe, TypeOK, Polled
<1>8. ASSUME NEW a \in Agents, ConnectAtOnce(a) PROVE TypeOK'
  BY <1>8, ReturnType DEF ConnectAtOnce, TypeOK, Polled
<1>9. ASSUME NEW a \in Agents, WriteCommand(a) PROVE TypeOK'
  <2>1. [cmd |-> arg[a].cmd, queue |-> arg[a].queue]
          \in [cmd : {"update", "cancel", "shutdown"}, queue : Queues]
    BY <1>9 DEF WriteCommand, TypeOK, Places, Calls
  <2>2. pipe' \in Seq([cmd : {"update", "cancel", "shutdown"}, queue : Queues])
    BY <1>9, <2>1 DEF WriteCommand, TypeOK
  <2>3. QED
    BY <1>9, <2>2 DEF WriteCommand, TypeOK, Polled
<1>10. ASSUME NEW a \in Agents, Retain(a) \/ SendFails(a) PROVE TypeOK'
  <2>1. pc' \in [Agents -> Steps] /\ arg' \in [Agents -> Args]
    <3>1. Sent(a)
      BY <1>10 DEF Retain, SendFails
    <3>2. QED
      BY <3>1, SentType, ReturnType DEF TypeOK
  <2>2. refs' \in [Queues -> Int]
    BY <1>10 DEF Retain, SendFails, TypeOK
  <2>3. QED
    BY <1>10, <2>1, <2>2 DEF Retain, SendFails, TypeOK, Polled
<1>11. ASSUME NEW a \in Agents, DropChannel(a) PROVE TypeOK'
  <2>1. arg[a].queue \in Queues /\ ReleaseRefs(a, arg[a].queue, 1)
    BY <1>11 DEF DropChannel, TypeOK, Places, Calls
  <2>2. pc' \in [Agents -> Steps] /\ arg' \in [Agents -> Args] /\ refs' \in [Queues -> Int]
    BY <2>1, ReleaseType
  <2>3. QED
    BY <1>11, <2>2 DEF DropChannel, TypeOK, Polled
<1>12. ASSUME NEW t \in Threads, EngineInit(t) PROVE TypeOK'
  BY <1>12 DEF EngineInit, TypeOK, Polled, Agents
<1>13. ASSUME NEW t \in Threads, EngineStop(t) PROVE TypeOK'
  <2>1. t \in Agents
    BY DEF Agents
  <2>2. QED
    BY <1>13, <2>1, LeaveType DEF EngineStop, TypeOK, Polled
<1>14. ASSUME Poll \/ Sweep \/ PeekRead \/ PeekWrite \/ Drain \/ ReviseClient \/ DispatchEnds
              \/ HandlerReturns
       PROVE  TypeOK'
  <2>1. pc' \in [Agents -> Steps]
    BY <1>14 DEF Poll, Sweep, PeekRead, PeekWrite, Drain, ReviseClient, DispatchEnds,
       HandlerReturns, CancelNext, Handler, TypeOK
  <2>2. refs' \in [Queues -> Int]
    BY <1>14, DropType DEF Poll, Sweep, PeekRead, PeekWrite, Drain, ReviseClient, DispatchEnds,
       HandlerReturns, TypeOK
  <2>3. Polled' \subseteq Queues
    BY <1>14 DEF Poll, Sweep, PeekRead, PeekWrite, Drain, ReviseClient, DispatchEnds,
       HandlerReturns, TypeOK, Polled, Without, Revise
  <2>4. QED
    BY <1>14, <2>1, <2>2, <2>3 DEF Poll, Sweep, PeekRead, PeekWrite, Drain, ReviseClient,
       DispatchEnds, HandlerReturns, CancelNext, Handler, TypeOK
<1>15. ASSUME NEW q \in Queues, NEW s \in Sides, Visit(q, s) PROVE TypeOK'
  BY <1>15 DEF Visit, Handler, TypeOK, Polled
<1>16. ASSUME ReadCommand PROVE TypeOK'
  <2>1. Head(pipe) \in [cmd : {"update", "cancel", "shutdown"}, queue : Queues]
        /\ pipe' \in Seq([cmd : {"update", "cancel", "shutdown"}, queue : Queues])
    BY <1>16, HeadTail DEF ReadCommand, TypeOK
  <2>2. pc' \in [Agents -> Steps]
    BY <1>16, <2>1 DEF ReadCommand, TypeOK
  <2>3. QED
    BY <1>16, <2>1, <2>2 DEF ReadCommand, TypeOK, Polled
<1>17. ASSUME UpdateClient PROVE TypeOK'
  <2>1. hand \in Queues
    BY <1>17 DEF UpdateClient, TypeOK, Places, HandPlaces
  <2>2. refs' \in [Queues -> Int] /\ pc' \in [Agents -> Steps]
    BY <1>17, DropType DEF UpdateClient, TypeOK
  <2>3. Polled' \subseteq Queues
    BY <1>17, <2>1 DEF UpdateClient, TypeOK, Polled, Inserted
  <2>4. QED
    BY <1>17, <2>2, <2>3 DEF UpdateClient, TypeOK
<1>18. ASSUME RemoveClient PROVE TypeOK'
  <2>1. hand \in Queues
    BY <1>18 DEF RemoveClient, TypeOK, Places, HandPlaces
  <2>2. 1 + Cardinality({hand} \cap Polled) \in Int
    <3>1. Cardinality({hand} \cap Polled) = One(hand \in Polled)
      BY OnePolled DEF TypeOK
    <3>2. QED
      BY <3>1 DEF One
  <2>3. pc' \in [Agents -> Steps] /\ arg' \in [Agents -> Args] /\ refs' \in [Queues -> Int]
    BY <1>0, <1>18, <2>1, <2>2, ReleaseType DEF RemoveClient
  <2>4. Polled' \subseteq Queues
    BY <1>18 DEF RemoveClient, TypeOK, Polled, Without
  <2>5. QED
    BY <1>18, <2>3, <2>4 DEF RemoveClient, TypeOK
<1>19. CASE UNCHANGED program
  BY <1>19 DEF program, TypeOK, Polled
<1>20. QED
  BY <1>1, <1>2, <1>3, <1>4, <1>5, <1>6, <1>7, <1>8, <1>9, <1>10, <1>11, <1>12, <1>13,
     <1>14, <1>15, <1>16, <1>17, <1>18, <1>19
     DEF ProgramNext, LifeNext, LockNext, SendNext, DispatchNext, LockedNext

-----------------------------------------------------------------------------
(* Places.                                                                 *)

\* One thread moves on, in its program or in a call.
LEMMA PlacesMove ==
  ASSUME TypeOK, Places, NEW a \in Agents, UNCHANGED <<hand, after>>,
         \A b \in Agents \ {a} : pc'[b] = pc[b] /\ arg'[b] = arg[b],
         pc'[a] \notin HandPlaces \cup {"read"},
         pc'[a] \in {"write", "retain"} => root' = a,
         \A b \in Agents \ {a} : pc[b] \in {"write", "retain"} => root' = b,
         pc'[a] \in Calls \cup {"destroy"} => arg'[a].queue # Nil,
         pc'[a] \in Calls => arg'[a].cmd # "none",
         arg'[a].queue # Nil => pc'[a] \in Calls \cup {"destroy", "pipe"}
  PROVE  Places'
BY DEF Places, HandPlaces, Agents

LEMMA PlacesStep ==
  ASSUME TypeOK, Places, [ProgramNext]_program
  PROVE  Places'
<1> USE NilAssumption
       DEF Calls, HandPlaces, Places, Go, requests, queues, locks, engines, control, dispatch
<1>0. Dispatch \in Agents /\ Nil \notin Agents
  BY DEF Agents
<1>1. ASSUME NEW a \in Agents, NEW q \in Queues, CreateQueue(a, q) PROVE Places'
  <2>1. CASE service = 0
    <3>1. Call(a, "pipe", "none", q, Nil) /\ pc[a] = "user" /\ UNCHANGED <<root, hand, after>>
      BY <1>1, <2>1 DEF CreateQueue, Join
    <3>2. QED
      BY <1>0, <3>1 DEF Call, TypeOK
  <2>2. CASE service # 0
    BY <1>1, <2>2 DEF CreateQueue, Join
  <2>3. QED
    BY <2>1, <2>2
<1>2. ASSUME NEW a \in Agents, NEW q \in Queues, Cancel(a, q) \/ Release(a, q) PROVE Places'
  <2>1. \E c \in {"cancel", "shutdown"} :
          pc' = [pc EXCEPT ![a] = "root"] /\ arg' = [arg EXCEPT ![a] = [cmd |-> c, queue |-> q, request |-> Nil]]
    BY <1>2 DEF Cancel, Release, Call
  <2>2. UNCHANGED <<root, hand, after>>
    BY <1>2 DEF Cancel, Release
  <2>3. \A b \in Agents \ {a} : pc'[b] = pc[b] /\ arg'[b] = arg[b]
    BY <2>1 DEF TypeOK
  <2>4. pc'[a] = "root" /\ arg'[a].queue = q /\ arg'[a].cmd # "none"
    BY <2>1 DEF TypeOK
  <2>5. QED
    BY <2>2, <2>3, <2>4, PlacesMove
<1>3. ASSUME NEW a \in Agents, NEW q \in Queues, NEW r \in Requests, BeginEnqueue(a, q, r)
      PROVE  Places'
  BY <1>0, <1>3 DEF BeginEnqueue, Usable, Call, TypeOK
<1>4. ASSUME NEW a \in Agents, CreatePipe(a) PROVE Places'
  <2>1. /\ pc' = [pc EXCEPT ![a] = Back(a), ![Dispatch] = "poll"] /\ a # Dispatch
        /\ arg' = [arg EXCEPT ![a] = NoCall, ![Dispatch] = NoCall]
        /\ after' = "poll" /\ UNCHANGED <<root, hand>>
    BY <1>4 DEF CreatePipe
  <2>2. pc'[a] = "user" /\ pc'[Dispatch] = "poll" /\ arg'[a].queue = Nil /\ arg'[Dispatch].queue = Nil
    BY <1>0, <2>1 DEF Back, NoCall, TypeOK
  <2>3. \A b \in Agents \ {a, Dispatch} : pc'[b] = pc[b] /\ arg'[b] = arg[b]
    BY <2>1 DEF TypeOK
  <2>4. QED
    BY <1>0, <2>1, <2>2, <2>3
<1>5. ASSUME NEW a \in Agents, AwaitDispatch(a) \/ ConnectAtOnce(a) PROVE Places'
  <2>1. Return(a) /\ pc[a] \in {"join", "local"} /\ UNCHANGED <<root, hand, after>>
    BY <1>5 DEF AwaitDispatch, ConnectAtOnce
  <2>2. QED
    <3>1. \A b \in Agents \ {a} : pc'[b] = pc[b] /\ arg'[b] = arg[b]
      BY <2>1, ReturnType DEF TypeOK
    <3>2. pc'[a] \in {"poll", "user"} /\ arg'[a].queue = Nil
      BY <2>1, ReturnType DEF NoCall, TypeOK
    <3>3. QED
      BY <2>1, <3>1, <3>2, PlacesMove
<1>6. ASSUME NEW a \in Agents, Leave(a), pc[a] \in {"destroy", "user"}, UNCHANGED <<root, hand, after>>
      PROVE  Places'
  <2>0. PICK place \in {"stop", "poll", "user"} :
          pc' = [pc EXCEPT ![a] = place] /\ arg' = [arg EXCEPT ![a] = NoCall]
    BY <1>6, LeaveType
  <2>1. \A b \in Agents \ {a} : pc'[b] = pc[b] /\ arg'[b] = arg[b]
    BY <2>0 DEF TypeOK
  <2>2. pc'[a] \in {"stop", "poll", "user"} /\ arg'[a].queue = Nil
    BY <2>0 DEF NoCall, TypeOK
  <2>3. QED
    BY <1>6, <2>1, <2>2, PlacesMove
<1>7. ASSUME NEW a \in Agents, PushRequest(a) \/ AcquireRoot(a) \/ ClosePipe(a) PROVE Places'
  <2>1. /\ pc[a] \in {"local", "root", "stop"} /\ UNCHANGED <<hand, after, arg>>
        /\ \/ pc' = [pc EXCEPT ![a] = "root"] /\ root' = root /\ pc[a] = "local"
           \/ pc' = [pc EXCEPT ![a] = "write"] /\ root = Nil /\ root' = a /\ pc[a] = "root"
           \/ pc' = [pc EXCEPT ![a] = "join"] /\ root' = root /\ pc[a] = "stop"
    BY <1>7 DEF PushRequest, AcquireRoot, ClosePipe
  <2>2. /\ \A b \in Agents \ {a} : pc'[b] = pc[b] /\ arg'[b] = arg[b]
        /\ arg'[a] = arg[a]
    BY <2>1 DEF TypeOK
  <2>3. \/ pc'[a] = "root" /\ root' = root /\ pc[a] = "local"
        \/ pc'[a] = "write" /\ root = Nil /\ root' = a /\ pc[a] = "root"
        \/ pc'[a] = "join" /\ root' = root /\ pc[a] = "stop"
    BY <2>1 DEF TypeOK
  <2>4. QED
    BY <1>0, <2>1, <2>2, <2>3, PlacesMove
<1>8. ASSUME NEW a \in Agents, WriteCommand(a) PROVE Places'
  BY <1>0, <1>8 DEF WriteCommand, TypeOK
<1>9. ASSUME NEW a \in Agents, Retain(a) \/ SendFails(a) PROVE Places'
  <2>1. /\ pc[a] \in {"write", "retain"} /\ root = a /\ Sent(a) /\ UNCHANGED <<hand, after>>
    BY <1>9 DEF Retain, SendFails
  <2>2. \A b \in Agents \ {a} : pc[b] \notin {"write", "retain"} /\ pc'[b] = pc[b] /\ arg'[b] = arg[b]
    BY <2>1, SentType, ReturnType DEF TypeOK
  <2>3. \/ pc'[a] = "drop" /\ arg'[a] = arg[a]
        \/ pc'[a] \in {"poll", "user"} /\ arg'[a].queue = Nil
    BY <2>1, SentType, ReturnType DEF NoCall, TypeOK
  <2>4. QED
    BY <1>0, <2>1, <2>2, <2>3
<1>10. ASSUME NEW a \in Agents, NEW q \in Queues, NEW n \in Int, ReleaseRefs(a, q, n),
              pc[a] \in {"drop", "remove"}, UNCHANGED <<root, hand, after>>
       PROVE  Places'
  <2>1. \A b \in Agents \ {a} : pc'[b] = pc[b] /\ arg'[b] = arg[b]
    BY <1>10, ReleaseType, ReturnType DEF TypeOK
  <2>2. \/ pc'[a] = "destroy" /\ arg'[a].queue = q
        \/ pc'[a] \in {"poll", "user"} /\ arg'[a].queue = Nil
    BY <1>10, ReleaseType, ReturnType DEF NoCall, TypeOK
  <2>3. QED
    BY <1>0, <1>10, <2>1, <2>2
<1>11. ASSUME NEW t \in Threads, EngineInit(t) PROVE Places'
  <2>1. t \in Agents
    BY DEF Agents
  <2>2. QED
    BY <1>0, <1>11, <2>1 DEF EngineInit, TypeOK
<1>12. ASSUME Poll \/ Sweep \/ PeekRead \/ PeekWrite \/ Drain \/ ReviseClient \/ DispatchEnds
              \/ HandlerReturns \/ UpdateClient
       PROVE  Places'
  <2>1. /\ UNCHANGED <<root, hand, arg>>
        /\ \A b \in Agents \ {Dispatch} : pc'[b] = pc[b]
        /\ pc[Dispatch] \notin Calls \cup {"destroy", "pipe"}
        /\ pc'[Dispatch] \notin Calls \cup {"destroy"}
    BY <1>0, <1>12 DEF Poll, Sweep, PeekRead, PeekWrite, Drain, ReviseClient, DispatchEnds,
       HandlerReturns, UpdateClient, CancelNext, Handler, TypeOK
  <2>2. /\ pc'[Dispatch] \in HandPlaces \/ after' \in {"revise", "drain"} => hand # Nil
        /\ pc'[Dispatch] \in {"read", "remove"} => after' = "poll"
    BY <1>0, <1>12 DEF Poll, Sweep, PeekRead, PeekWrite, Drain, ReviseClient, DispatchEnds,
       HandlerReturns, UpdateClient, CancelNext, Handler, TypeOK
  <2>3. QED
    BY <1>0, <2>1, <2>2
<1>13. ASSUME NEW q \in Queues, NEW s \in Sides, Visit(q, s) PROVE Places'
  BY <1>0, <1>13 DEF Visit, Handler, TypeOK
<1>14. ASSUME ReadCommand PROVE Places'
  <2>1. Head(pipe) \in [cmd : {"update", "cancel", "shutdown"}, queue : Queues]
    BY <1>14, HeadTail DEF ReadCommand, TypeOK
  <2>2. /\ UNCHANGED <<root, arg, after>> /\ hand' \in Queues
        /\ pc[Dispatch] = "read"
        /\ \E place \in {"peek_read", "drain", "remove"} : pc' = [pc EXCEPT ![Dispatch] = place]
    BY <1>14, <2>1 DEF ReadCommand
  <2>3. QED
    BY <1>0, <2>2 DEF TypeOK
<1>15. CASE UNCHANGED program
  BY <1>15 DEF program
<1>16. ASSUME NEW a \in Agents, Destroy(a) PROVE Places'
  BY <1>6, <1>16 DEF Destroy
<1>17. ASSUME NEW t \in Threads, EngineStop(t) PROVE Places'
  <2>1. t \in Agents
    BY DEF Agents
  <2>2. QED
    BY <1>6, <1>17, <2>1 DEF EngineStop
<1>18. ASSUME NEW a \in Agents, DropChannel(a) PROVE Places'
  <2>1. arg[a].queue \in Queues /\ pc[a] = "drop" /\ ReleaseRefs(a, arg[a].queue, 1)
        /\ UNCHANGED <<root, hand, after>>
    BY <1>18 DEF DropChannel, TypeOK
  <2>2. QED
    BY <1>10, <2>1
<1>19. ASSUME RemoveClient PROVE Places'
  <2>1. /\ hand \in Queues /\ pc[Dispatch] = "remove" /\ UNCHANGED <<root, hand, after>>
        /\ ReleaseRefs(Dispatch, hand, 1 + Cardinality({hand} \cap Polled))
    BY <1>19 DEF RemoveClient, TypeOK
  <2>2. Cardinality({hand} \cap Polled) = One(hand \in Polled)
    BY OnePolled DEF TypeOK
  <2>3. 1 + Cardinality({hand} \cap Polled) \in Int
    BY <2>2 DEF One
  <2>4. QED
    BY <1>0, <1>10, <2>1, <2>3
<1>20. QED
  BY <1>1, <1>2, <1>3, <1>4, <1>5, <1>7, <1>8, <1>9, <1>11, <1>12, <1>13, <1>14, <1>15,
     <1>16, <1>17, <1>18, <1>19
     DEF ProgramNext, LifeNext, LockNext, SendNext, DispatchNext, LockedNext

-----------------------------------------------------------------------------
(* Users.                                                                  *)

LEMMA CommandsType ==
  ASSUME TypeOK, NEW q
  PROVE  IsFiniteSet(Commands(q)) /\ Cardinality(Commands(q)) \in Nat
<1>1. Commands(q) \subseteq 1..Len(pipe) /\ Len(pipe) \in Nat
  BY DEF Commands, TypeOK
<1>2. IsFiniteSet(1..Len(pipe))
  BY <1>1, FS_Interval
<1>3. IsFiniteSet(Commands(q))
  BY <1>1, <1>2, FS_Subset
<1>4. QED
  BY <1>3, FS_CardinalityType

\* While no sender has lost its race, what is held is counted.
LEMMA HeldLemma ==
  ASSUME TypeOK, Users, Counted, ~Snatched, NEW q \in Queues,
         Channel(q) \/ InHand(q) \/ q \in Polled
  PROVE  refs[q] > 0 /\ life[q] = "alive"
<1>1. One(Channel(q)) \in {0, 1} /\ One(InHand(q)) \in {0, 1} /\ One(q \in Polled) \in {0, 1}
  BY DEF One
<1>2. \/ One(Channel(q)) = 1 \/ One(InHand(q)) = 1 \/ One(q \in Polled) = 1
  BY DEF One
<1>3. /\ refs[q] \in Int /\ Cardinality(Commands(q)) \in Nat
      /\ refs[q] + One(Owed(q)) >= One(Channel(q)) + One(InHand(q)) + One(q \in Polled)
                                    + Cardinality(Commands(q))
  BY CommandsType DEF Counted, CountedAt, Held, TypeOK
<1>4. refs[q] > 0
  <2>1. CASE Owed(q)
    <3>1. refs[q] # 0
      BY <2>1 DEF Snatched, Owed
    <3>2. One(Owed(q)) = 1
      BY <2>1 DEF One
    <3>3. QED
      BY <1>1, <1>2, <1>3, <3>1, <3>2
  <2>2. CASE ~Owed(q)
    <3>1. One(Owed(q)) = 0
      BY <2>2 DEF One
    <3>2. QED
      BY <1>1, <1>2, <1>3, <3>1
  <2>3. QED
    BY <2>1, <2>2
<1>5. QED
  BY <1>4 DEF Counted, CountedAt

\* A thread goes on with its call, or ends it.
LEMMA UsersMove ==
  ASSUME TypeOK, Users, NEW a \in Agents, UNCHANGED <<life, asked>>,
         \A b \in Agents \ {a} : pc'[b] = pc[b] /\ arg'[b] = arg[b],
         \A b \in Agents \ {a} : pc[b] = "destroy" /\ arg[b].queue # Nil => refs'[arg[b].queue] = 0,
         \/ arg'[a].queue = Nil
         \/ /\ arg'[a] = arg[a] /\ pc[a] \in Calls /\ pc'[a] \in Calls
            /\ pc'[a] = "drop" => arg[a].cmd = "shutdown"
  PROVE  Users'
BY DEF Users, Alone, Calls

\* A thread begins a call on q.
LEMMA UsersEnter ==
  ASSUME TypeOK, Users, NEW a \in Agents, NEW q \in Queues, UNCHANGED <<life, refs>>,
         \A b \in Agents \ {a} : pc'[b] = pc[b] /\ arg'[b] = arg[b],
         pc'[a] \in Calls \ {"drop"}, arg'[a].queue = q, life[q] = "alive",
         refs[q] > 0,
         \A p \in Queues \ {q} : asked'[p] = asked[p],
         asked[q] \subseteq asked'[q],
         arg'[a].cmd = "shutdown" => "release" \in asked'[q],
         "release" \in asked'[q] =>
           arg'[a].cmd = "shutdown" /\ \A b \in Agents \ {a} : arg[b].queue # q
  PROVE  Users'
<1>1. \A b \in Agents \ {a} : arg[b].queue = q => pc[b] \notin {"pipe", "destroy"}
  BY NilAssumption DEF Users, TypeOK
<1>2. ASSUME NEW b \in Agents \ {a}, arg'[b].queue # Nil
      PROVE  LET p == arg'[b].queue IN
               /\ pc'[b] = "pipe" => life'[p] = "unborn" /\ Alone(b)'
               /\ pc'[b] \in Calls => life'[p] = "alive"
               /\ pc'[b] = "destroy" => life'[p] = "alive" /\ refs'[p] = 0 /\ Alone(b)'
               /\ pc'[b] \in Calls /\ "release" \in asked'[p] => arg'[b].cmd = "shutdown" /\ Alone(b)'
               /\ pc'[b] \in Calls /\ arg'[b].cmd = "shutdown" => "release" \in asked'[p]
               /\ pc'[b] = "drop" => arg'[b].cmd = "shutdown"
  <2>1. arg'[b] = arg[b] /\ pc'[b] = pc[b] /\ arg[b].queue \in Queues
    BY <1>2 DEF TypeOK
  <2>2. CASE arg[b].queue = q
    <3>1. "release" \notin asked'[q]
      BY <2>1, <2>2
    <3>2. /\ pc[b] \notin {"pipe", "destroy"}
          /\ pc[b] \in Calls /\ arg[b].cmd = "shutdown" => "release" \in asked[q]
          /\ pc[b] = "drop" => arg[b].cmd = "shutdown"
      BY <1>1, <2>1, <2>2, NilAssumption DEF Users
    <3>3. QED
      BY <2>1, <2>2, <3>1, <3>2
  <2>3. CASE arg[b].queue # q
    <3>1. Alone(b) => Alone(b)'
      BY <2>1, <2>3 DEF Alone
    <3>2. asked'[arg[b].queue] = asked[arg[b].queue]
      BY <2>1, <2>3
    <3>3. QED
      BY <1>2, <2>1, <3>1, <3>2 DEF Users
  <2>4. QED
    BY <2>2, <2>3
<1>3. pc'[a] \notin {"pipe", "destroy"}
  BY DEF Calls
<1>4. "release" \in asked'[q] => Alone(a)'
  BY DEF Alone
<1>5. QED
  BY <1>2, <1>3, <1>4 DEF Users

LEMMA UsersStep ==
  ASSUME IInv, ~Snatched, ~Snatched', [ProgramNext]_program
  PROVE  Users'
<1> USE NilAssumption
       DEF IInv, Go, requests, queues, locks, engines, control, dispatch
<1>0. Dispatch \in Agents /\ Nil \notin Agents /\ Nil \notin Queues
  BY DEF Agents
<1>a. ASSUME NEW a \in Agents, NEW q \in Queues, Usable(a, q)
      PROVE  /\ pc[a] = "user" /\ life[q] = "alive" /\ refs[q] > 0 /\ "release" \notin asked[q]
             /\ arg[a].queue = Nil
  <2>1. Channel(q)
    BY <1>a DEF Usable, Channel
  <2>2. QED
    BY <1>a, <2>1, HeldLemma DEF Usable, Places, Calls
<1>1. ASSUME NEW a \in Agents, NEW q \in Queues, CreateQueue(a, q) PROVE Users'
  <2>1. /\ pc[a] = "user" /\ life[q] = "unborn" /\ \A b \in Agents : arg[b].queue # q
        /\ asked' = asked
    BY <1>1 DEF CreateQueue
  <2>2. CASE service = 0
    <3>1. Call(a, "pipe", "none", q, Nil) /\ UNCHANGED queues
      BY <1>1, <2>2 DEF CreateQueue, Join
    <3>2. /\ pc'[a] = "pipe" /\ arg'[a].queue = q
          /\ \A b \in Agents \ {a} : pc'[b] = pc[b] /\ arg'[b] = arg[b]
      BY <3>1 DEF Call, TypeOK
    <3>3. Alone(a)'
      BY <2>1, <3>2 DEF Alone
    <3>4. \A b \in Agents \ {a} : Alone(b) /\ arg[b].queue # q => Alone(b)'
      BY <3>2 DEF Alone
    <3>5. QED
      BY <2>1, <3>1, <3>2, <3>3, <3>4 DEF Users, Calls
  <2>3. CASE service # 0
    <3>1. UNCHANGED <<pc, arg>> /\ life' = [life EXCEPT ![q] = "alive"] /\ refs' = [refs EXCEPT ![q] = 1]
      BY <1>1, <2>3 DEF CreateQueue, Join
    <3>2. \A p \in Queues \ {q} : life'[p] = life[p] /\ refs'[p] = refs[p]
      BY <3>1 DEF TypeOK
    <3>3. \A b \in Agents : arg[b].queue # Nil => arg[b].queue \in Queues \ {q}
      BY <2>1 DEF TypeOK
    <3>4. QED
      BY <2>1, <3>1, <3>2, <3>3 DEF Users, Alone
  <2>4. QED
    BY <2>2, <2>3
<1>2. ASSUME NEW a \in Agents, NEW q \in Queues, Cancel(a, q) PROVE Users'
  <2>1. Usable(a, q) /\ Call(a, "root", "cancel", q, Nil) /\ UNCHANGED queues
        /\ asked' = [asked EXCEPT ![q] = @ \cup {"cancel"}]
    BY <1>2 DEF Cancel
  <2>2. /\ \A b \in Agents \ {a} : pc'[b] = pc[b] /\ arg'[b] = arg[b]
        /\ pc'[a] \in Calls \ {"drop"} /\ arg'[a].queue = q /\ arg'[a].cmd # "shutdown"
    BY <2>1 DEF Call, TypeOK, Calls
  <2>3. /\ \A p \in Queues \ {q} : asked'[p] = asked[p]
        /\ "release" \notin asked'[q] /\ asked[q] \subseteq asked'[q]
    BY <1>a, <2>1 DEF TypeOK
  <2>4. QED
    BY <1>a, <2>1, <2>2, <2>3, UsersEnter
<1>3. ASSUME NEW a \in Agents, NEW q \in Queues, Release(a, q) PROVE Users'
  <2>1. Usable(a, q) /\ Call(a, "root", "shutdown", q, Nil) /\ UNCHANGED queues
        /\ asked' = [asked EXCEPT ![q] = @ \cup {"release"}]
        /\ \A b \in Agents : arg[b].queue # q
    BY <1>3 DEF Release
  <2>2. /\ \A b \in Agents \ {a} : pc'[b] = pc[b] /\ arg'[b] = arg[b]
        /\ pc'[a] \in Calls \ {"drop"} /\ arg'[a].queue = q /\ arg'[a].cmd = "shutdown"
    BY <2>1 DEF Call, TypeOK, Calls
  <2>3. /\ \A p \in Queues \ {q} : asked'[p] = asked[p]
        /\ asked'[q] = asked[q] \cup {"release"}
    BY <2>1 DEF TypeOK
  <2>4. QED
    BY <1>a, <2>1, <2>2, <2>3, UsersEnter
<1>4. ASSUME NEW a \in Agents, NEW q \in Queues, NEW r \in Requests, BeginEnqueue(a, q, r)
      PROVE  Users'
  <2>1. Usable(a, q) /\ Call(a, "local", "update", q, r) /\ UNCHANGED <<queues, asked>>
    BY <1>4 DEF BeginEnqueue
  <2>2. /\ \A b \in Agents \ {a} : pc'[b] = pc[b] /\ arg'[b] = arg[b]
        /\ pc'[a] \in Calls \ {"drop"} /\ arg'[a].queue = q /\ arg'[a].cmd # "shutdown"
    BY <2>1 DEF Call, TypeOK, Calls
  <2>3. QED
    BY <1>a, <2>1, <2>2, UsersEnter
<1>5. ASSUME NEW a \in Agents, CreatePipe(a) PROVE Users'
  <2>1. /\ pc[a] = "pipe" /\ a # Dispatch /\ pc[Dispatch] \in {"none", "ended"}
        /\ pc' = [pc EXCEPT ![a] = Back(a), ![Dispatch] = "poll"]
        /\ arg' = [arg EXCEPT ![a] = NoCall, ![Dispatch] = NoCall]
        /\ asked' = asked
    BY <1>5 DEF CreatePipe
  <2>2. /\ arg'[a].queue = Nil /\ arg'[Dispatch].queue = Nil
        /\ \A b \in Agents \ {a, Dispatch} : pc'[b] = pc[b] /\ arg'[b] = arg[b]
    BY <1>0, <2>1 DEF NoCall, TypeOK
  <2>3. \A b \in Agents : Alone(b) /\ arg'[b].queue # Nil => Alone(b)'
    BY <2>2 DEF Alone
  <2>4. CASE arg[a].queue = Nil
    <3>1. UNCHANGED <<life, refs>>
      BY <1>5, <2>4 DEF CreatePipe
    <3>2. ASSUME NEW b \in Agents, arg'[b].queue # Nil
          PROVE  pc'[b] = pc[b] /\ arg'[b] = arg[b] /\ (Alone(b) => Alone(b)')
      BY <2>2, <2>3, <3>2
    <3>3. ASSUME NEW b \in Agents, arg'[b].queue # Nil
          PROVE  LET q == arg'[b].queue IN
                   /\ pc'[b] = "pipe" => life'[q] = "unborn" /\ Alone(b)'
                   /\ pc'[b] \in Calls => life'[q] = "alive"
                   /\ pc'[b] = "destroy" => life'[q] = "alive" /\ refs'[q] = 0 /\ Alone(b)'
                   /\ pc'[b] \in Calls /\ "release" \in asked'[q] => arg'[b].cmd = "shutdown" /\ Alone(b)'
                   /\ pc'[b] \in Calls /\ arg'[b].cmd = "shutdown" => "release" \in asked'[q]
                   /\ pc'[b] = "drop" => arg'[b].cmd = "shutdown"
      BY <2>1, <3>1, <3>2, <3>3 DEF Users
    <3>4. QED
      BY <3>3 DEF Users
  <2>5. CASE arg[a].queue # Nil
    <3>1. arg[a].queue \in Queues /\ \A b \in Agents \ {a} : arg[b].queue # arg[a].queue
      BY <2>1, <2>5 DEF TypeOK, Users, Alone
    <3>2. \A p \in Queues \ {arg[a].queue} : life'[p] = life[p] /\ refs'[p] = refs[p]
      BY <1>5, <2>5 DEF CreatePipe, TypeOK
    <3>3. \A b \in Agents \ {a, Dispatch} : arg[b].queue # Nil => arg[b].queue \in Queues \ {arg[a].queue}
      BY <3>1 DEF TypeOK
    <3>4. ASSUME NEW b \in Agents, arg'[b].queue # Nil
          PROVE  /\ b \in Agents \ {a, Dispatch} /\ pc'[b] = pc[b] /\ arg'[b] = arg[b]
                 /\ life'[arg[b].queue] = life[arg[b].queue]
                 /\ refs'[arg[b].queue] = refs[arg[b].queue]
                 /\ Alone(b) => Alone(b)'
      BY <2>2, <2>3, <3>2, <3>3, <3>4
    <3>5. asked' = asked
      BY <2>1
    <3>6. QED
      BY <3>4, <3>5 DEF Users
  <2>6. QED
    BY <2>4, <2>5
<1>6. ASSUME NEW a \in Agents, Destroy(a) PROVE Users'
  <2>1. /\ pc[a] = "destroy" /\ life' = [life EXCEPT ![arg[a].queue] = "freed"] /\ Leave(a)
        /\ UNCHANGED <<asked, refs>>
    BY <1>6 DEF Destroy
  <2>2. /\ arg'[a].queue = Nil
        /\ \A b \in Agents \ {a} : pc'[b] = pc[b] /\ arg'[b] = arg[b]
    BY <2>1, LeaveType DEF NoCall, TypeOK
  <2>3. arg[a].queue \in Queues /\ \A b \in Agents \ {a} : arg[b].queue # arg[a].queue
    BY <2>1 DEF TypeOK, Users, Alone, Places
  <2>4. \A p \in Queues \ {arg[a].queue} : life'[p] = life[p]
    BY <2>1 DEF TypeOK
  <2>5. \A b \in Agents \ {a} : arg[b].queue # Nil => arg[b].queue \in Queues \ {arg[a].queue}
    BY <2>3 DEF TypeOK
  <2>6. \A b \in Agents : Alone(b) /\ arg'[b].queue # Nil => Alone(b)'
    BY <2>2 DEF Alone
  <2>7. QED
    BY <2>1, <2>2, <2>4, <2>5, <2>6 DEF Users
<1>7. ASSUME NEW a \in Agents, UNCHANGED <<life, refs, asked>>,
             AwaitDispatch(a) \/ ConnectAtOnce(a)
      PROVE  Users'
  <2>1. Return(a)
    BY <1>7 DEF AwaitDispatch, ConnectAtOnce
  <2>2. /\ \A b \in Agents \ {a} : pc'[b] = pc[b] /\ arg'[b] = arg[b]
        /\ arg'[a].queue = Nil
    BY <2>1, ReturnType DEF TypeOK, NoCall
  <2>3. QED
    BY <1>7, <2>2, UsersMove DEF Users
<1>8. ASSUME NEW a \in Agents,
             PushRequest(a) \/ AcquireRoot(a) \/ ClosePipe(a) \/ WriteCommand(a)
      PROVE  Users'
  <2>1. UNCHANGED <<life, refs, asked, arg>>
    BY <1>8 DEF PushRequest, AcquireRoot, ClosePipe, WriteCommand
  <2>2. \A b \in Agents \ {a} : pc'[b] = pc[b]
    BY <1>8 DEF PushRequest, AcquireRoot, ClosePipe, WriteCommand, TypeOK
  <2>3. pc[a] = "stop" \/ (pc[a] \in Calls /\ pc'[a] \in Calls \ {"drop"})
    BY <1>8 DEF PushRequest, AcquireRoot, ClosePipe, WriteCommand, TypeOK, Calls
  <2>4. pc[a] = "stop" => arg[a].queue = Nil
    BY DEF Places, Calls
  <2>5. QED
    BY <2>1, <2>2, <2>3, <2>4, UsersMove DEF Users
<1>9. ASSUME NEW a \in Agents, Retain(a) \/ SendFails(a) PROVE Users'
  <2>1. /\ pc[a] \in {"write", "retain"} /\ Sent(a) /\ UNCHANGED <<life, asked>>
        /\ refs' = refs \/ refs' = [refs EXCEPT ![arg[a].queue] = @ + 1]
    BY <1>9 DEF Retain, SendFails
  <2>2. /\ \A b \in Agents \ {a} : pc'[b] = pc[b] /\ arg'[b] = arg[b]
        /\ \/ arg'[a].queue = Nil
           \/ /\ arg'[a] = arg[a] /\ pc[a] \in Calls /\ pc'[a] \in Calls
              /\ arg[a].cmd = "shutdown"
    BY <2>1, SentType, ReturnType DEF TypeOK, NoCall, Calls
  <2>3. \A b \in Agents \ {a} : pc[b] = "destroy" /\ arg[b].queue # Nil =>
          arg[b].queue \in Queues /\ arg[b].queue # arg[a].queue /\ refs[arg[b].queue] = 0
    BY DEF Users, Alone, TypeOK
  <2>4. \A p \in Queues : p # arg[a].queue => refs'[p] = refs[p]
    BY <2>1 DEF TypeOK
  <2>5. \A b \in Agents \ {a} : pc[b] = "destroy" /\ arg[b].queue # Nil => refs'[arg[b].queue] = 0
    BY <2>3, <2>4
  <2>6. QED
    BY <2>1, <2>2, <2>5, UsersMove
<1>10. ASSUME NEW a \in Agents, NEW q \in Queues, NEW n \in Int, ReleaseRefs(a, q, n),
              n > 0, refs[q] >= n, UNCHANGED <<life, asked>>,
              \A b \in Agents \ {a} : arg[b].queue = q => pc[b] # "destroy",
              refs[q] = n => life[q] = "alive" /\ \A b \in Agents \ {a} : arg[b].queue # q
       PROVE  Users'
  <2>1. /\ \A b \in Agents \ {a} : pc'[b] = pc[b] /\ arg'[b] = arg[b]
        /\ \/ refs[q] = n /\ pc'[a] = "destroy" /\ arg'[a].queue = q
           \/ refs[q] # n /\ arg'[a].queue = Nil
    BY <1>10, ReleaseType, ReturnType DEF NoCall, TypeOK
  <2>2. refs'[q] = refs[q] - n /\ \A p \in Queues : p # q => refs'[p] = refs[p]
    BY <1>10 DEF ReleaseRefs, TypeOK
  <2>3. \A b \in Agents \ {a} : pc[b] = "destroy" /\ arg[b].queue # Nil => refs'[arg[b].queue] = 0
    BY <1>10, <2>2 DEF Users, TypeOK
  <2>4. CASE refs[q] # n
    BY <1>10, <2>1, <2>3, <2>4, UsersMove
  <2>5. CASE refs[q] = n
    <3>1. pc'[a] = "destroy" /\ arg'[a].queue = q /\ refs'[q] = 0 /\ life'[q] = "alive"
      BY <1>10, <2>1, <2>2, <2>5 DEF TypeOK
    <3>2. Alone(a)'
      BY <1>10, <2>1, <2>5, <3>1 DEF Alone
    <3>3. \A b \in Agents \ {a} : Alone(b) => Alone(b)'
      BY <1>10, <2>1, <2>5, <3>1 DEF Alone
    <3>4. QED
      BY <1>10, <2>1, <2>3, <3>1, <3>2, <3>3 DEF Users, Calls
  <2>6. QED
    BY <2>4, <2>5
<1>11. ASSUME NEW a \in Agents, DropChannel(a) PROVE Users'
  <2> DEFINE q == arg[a].queue
  <2>1. /\ pc[a] = "drop" /\ q \in Queues /\ ReleaseRefs(a, q, 1) /\ UNCHANGED <<life, asked>>
    BY <1>11 DEF DropChannel, TypeOK, Places, Calls
  <2>2. life[q] = "alive" /\ Channel(q)
    BY <2>1 DEF Users, Calls, Channel
  <2>3. refs[q] > 0 /\ refs[q] \in Int
    BY <2>1, <2>2, HeldLemma DEF TypeOK
  <2>4. \A b \in Agents \ {a} : arg[b].queue = q => pc[b] # "destroy"
    BY <2>1, <2>3 DEF Users
  <2>5. \A b \in Agents \ {a} : arg[b].queue # q
    BY <2>1 DEF Users, Alone, Calls
  <2>6. QED
    BY <1>10, <2>1, <2>2, <2>3, <2>4, <2>5
<1>12. ASSUME RemoveClient PROVE Users'
  <2>1. /\ hand \in Queues /\ pc[Dispatch] = "remove" /\ UNCHANGED <<life, asked>>
        /\ ReleaseRefs(Dispatch, hand, 1 + Cardinality({hand} \cap Polled))
    BY <1>12 DEF RemoveClient, TypeOK, Places, HandPlaces
  <2>2. Cardinality({hand} \cap Polled) = One(hand \in Polled)
    BY OnePolled DEF TypeOK
  <2>3. /\ One(hand \in Polled) \in {0, 1} /\ One(Channel(hand)) \in {0, 1}
        /\ One(InHand(hand)) = 1 /\ (Channel(hand) => One(Channel(hand)) = 1)
    BY <2>1 DEF One, InHand
  <2>4. /\ refs[hand] \in Int
        /\ refs[hand] + One(Owed(hand)) >= One(Channel(hand)) + 1 + One(hand \in Polled)
    <3>1. Cardinality(Commands(hand)) \in Nat /\ CountedAt(hand) /\ refs[hand] \in Int
      BY <2>1, CommandsType DEF Counted, TypeOK
    <3>2. One(Owed(hand)) \in {0, 1}
      BY DEF One
    <3>3. QED
      BY <2>3, <3>1, <3>2 DEF CountedAt, Held
  <2>5. refs[hand] > 0 /\ life[hand] = "alive"
    BY <2>1, HeldLemma DEF InHand
  <2>6. \A b \in Agents : arg[b].queue = hand => pc[b] # "destroy"
    BY <1>0, <2>1, <2>5 DEF Users
  <2>7. ASSUME refs[hand] = 1 + One(hand \in Polled) PROVE ~Owed(hand)
    <3>1. refs'[hand] = 0
      BY <2>1, <2>2, <2>3, <2>7 DEF ReleaseRefs, TypeOK
    <3>2. /\ \A b \in Agents \ {Dispatch} : pc'[b] = pc[b] /\ arg'[b] = arg[b]
      BY <1>0, <2>1, <2>2, <2>3, ReleaseType, ReturnType DEF TypeOK
    <3>3. ASSUME NEW b \in Agents, arg[b].queue = hand, pc[b] = "retain" PROVE FALSE
      <4>1. b # Dispatch
        BY <2>1, <3>3
      <4>2. pc'[b] = "retain" /\ arg'[b].queue = hand
        BY <3>2, <3>3, <4>1
      <4>3. QED
        BY <3>1, <4>2 DEF Snatched
    <3>4. QED
      BY <3>3 DEF Owed
  <2>8. ASSUME refs[hand] = 1 + One(hand \in Polled), NEW b \in Agents, arg[b].queue = hand
        PROVE  FALSE
    <3>1. ~Channel(hand)
      BY <2>3, <2>4, <2>7, <2>8 DEF One
    <3>2. pc[b] \in Calls \cup {"pipe"}
      BY <1>0, <2>1, <2>6, <2>8 DEF Places
    <3>3. pc[b] # "pipe"
      BY <1>0, <2>1, <2>5, <2>8 DEF Users
    <3>4. QED
      BY <2>5, <2>8, <3>1, <3>2, <3>3 DEF Channel
  <2>9. /\ 1 + One(hand \in Polled) \in Int /\ 1 + One(hand \in Polled) > 0
        /\ refs[hand] >= 1 + One(hand \in Polled)
    <3>1. Owed(hand) => Channel(hand)
      BY <1>0, <2>1 DEF Owed, Channel, Users, Calls
    <3>2. QED
      BY <2>3, <2>4, <3>1 DEF One
  <2>10. QED
    BY <1>0, <1>10, <2>1, <2>2, <2>5, <2>6, <2>8, <2>9
<1>13. ASSUME NEW t \in Threads, EngineInit(t) PROVE Users'
  <2>1. t \in Agents /\ pc[t] = "user" /\ (pc' = [pc EXCEPT ![t] = "pipe"] \/ pc' = pc)
        /\ UNCHANGED <<life, refs, asked, arg>>
    BY <1>13 DEF EngineInit, Agents
  <2>2. arg[t].queue = Nil /\ \A b \in Agents \ {t} : pc'[b] = pc[b]
    BY <2>1 DEF Places, Calls, TypeOK
  <2>3. QED
    BY <2>1, <2>2, UsersMove DEF Users
<1>14. ASSUME NEW t \in Threads, EngineStop(t) PROVE Users'
  <2>1. t \in Agents /\ Leave(t) /\ UNCHANGED <<life, refs, asked>>
    BY <1>14 DEF EngineStop, Agents
  <2>2. /\ \A b \in Agents \ {t} : pc'[b] = pc[b] /\ arg'[b] = arg[b]
        /\ arg'[t].queue = Nil
    BY <2>1, LeaveType DEF NoCall, TypeOK
  <2>3. QED
    BY <2>1, <2>2, UsersMove DEF Users
<1>15. ASSUME UNCHANGED <<life, asked, arg>>, arg[Dispatch].queue = Nil,
              \A b \in Agents \ {Dispatch} : pc'[b] = pc[b],
              refs' = refs \/ \E S : S \subseteq Polled /\ DropClients(S)
       PROVE  Users'
  <2>1. \A q \in Queues : refs[q] = 0 => refs'[q] = 0
    <3>1. CASE refs' = refs
      BY <3>1
    <3>2. CASE \E S : S \subseteq Polled /\ DropClients(S)
      <4>1. \A q \in Queues : refs[q] = 0 => q \notin Polled
        BY HeldLemma
      <4>2. QED
        BY <3>2, <4>1 DEF DropClients
    <3>3. QED
      BY <1>15, <3>1, <3>2
  <2>2. \A b \in Agents \ {Dispatch} : pc[b] = "destroy" /\ arg[b].queue # Nil => refs'[arg[b].queue] = 0
    BY <2>1 DEF Users, TypeOK
  <2>3. QED
    BY <1>0, <1>15, <2>2, UsersMove
<1>16. ASSUME Poll \/ Sweep \/ PeekRead \/ PeekWrite \/ Drain \/ ReviseClient \/ DispatchEnds
              \/ HandlerReturns \/ UpdateClient \/ ReadCommand
              \/ \E q \in Queues, s \in Sides : Visit(q, s)
       PROVE  Users'
  <2>1. /\ UNCHANGED <<life, asked, arg>>
        /\ pc[Dispatch] \notin Calls \cup {"destroy", "pipe"}
    BY <1>16 DEF Poll, Sweep, PeekRead, PeekWrite, Drain, ReviseClient, DispatchEnds,
       HandlerReturns, UpdateClient, ReadCommand, Visit, Calls
  <2>2. \A b \in Agents \ {Dispatch} : pc'[b] = pc[b]
    BY <1>16 DEF Poll, Sweep, PeekRead, PeekWrite, Drain, ReviseClient, DispatchEnds,
       HandlerReturns, UpdateClient, ReadCommand, Visit, CancelNext, Handler, TypeOK
  <2>3. refs' = refs \/ \E S : S \subseteq Polled /\ DropClients(S)
    BY <1>16 DEF Poll, Sweep, PeekRead, PeekWrite, Drain, ReviseClient, DispatchEnds,
       HandlerReturns, UpdateClient, ReadCommand, Visit
  <2>4. arg[Dispatch].queue = Nil
    BY <1>0, <2>1 DEF Places
  <2>5. QED
    BY <1>15, <2>1, <2>2, <2>3, <2>4
<1>17. CASE UNCHANGED program
  BY <1>17 DEF program, Users, Alone
<1>18. ASSUME NEW a \in Agents, AwaitDispatch(a) \/ ConnectAtOnce(a) PROVE Users'
  BY <1>7, <1>18 DEF AwaitDispatch, ConnectAtOnce
<1>19. QED
  BY <1>1, <1>2, <1>3, <1>4, <1>5, <1>6, <1>8, <1>9, <1>11, <1>12, <1>13, <1>14, <1>16, <1>17, <1>18
     DEF ProgramNext, LifeNext, LockNext, SendNext, DispatchNext, LockedNext

-----------------------------------------------------------------------------
(* The count.                                                              *)

\* A command that is written counts for its queue.
LEMMA AppendLemma ==
  ASSUME TypeOK, TypeOK', NEW q, NEW e, pipe' = Append(pipe, e)
  PROVE  Cardinality(Commands(q)') = Cardinality(Commands(q)) + One(e.queue = q)
<1>1. /\ Len(pipe) \in Nat /\ DOMAIN pipe = 1..Len(pipe) /\ DOMAIN pipe' = 1..Len(pipe) + 1
      /\ \A i \in 1..Len(pipe) : pipe'[i] = pipe[i]
      /\ pipe'[Len(pipe) + 1] = e
  BY DEF TypeOK
<1>2. IsFiniteSet(Commands(q)) /\ Cardinality(Commands(q)) \in Nat
  BY CommandsType
<1>3. CASE e.queue = q
  <2>1. Commands(q)' = Commands(q) \cup {Len(pipe) + 1}
    BY <1>1, <1>3 DEF Commands
  <2>2. Len(pipe) + 1 \notin Commands(q)
    BY <1>1 DEF Commands
  <2>3. Cardinality(Commands(q)') = Cardinality(Commands(q)) + 1
    BY <1>2, <2>1, <2>2, FS_AddElement
  <2>4. QED
    BY <1>3, <2>3 DEF One
<1>4. CASE e.queue # q
  <2>1. Commands(q)' = Commands(q)
    BY <1>1, <1>4 DEF Commands
  <2>2. QED
    BY <1>2, <1>4, <2>1 DEF One
<1>5. QED
  BY <1>3, <1>4

\* One that is read does so no more.
LEMMA TailLemma ==
  ASSUME TypeOK, TypeOK', NEW q, pipe # <<>>, pipe' = Tail(pipe)
  PROVE  Cardinality(Commands(q)') + One(Head(pipe).queue = q) = Cardinality(Commands(q))
<1>1. /\ Len(pipe) \in Nat \ {0} /\ DOMAIN pipe = 1..Len(pipe) /\ DOMAIN pipe' = 1..Len(pipe) - 1
      /\ \A i \in 1..Len(pipe) - 1 : pipe'[i] = pipe[i + 1]
      /\ Head(pipe) = pipe[1]
  BY DEF TypeOK
<1>2. IsFiniteSet(Commands(q)) /\ Cardinality(Commands(q)) \in Nat
  BY CommandsType
<1>3. IsFiniteSet(Commands(q)') /\ Cardinality(Commands(q)') \in Nat
  <2>1. Commands(q)' \subseteq 1..Len(pipe)
    BY <1>1 DEF Commands
  <2>2. IsFiniteSet(1..Len(pipe))
    BY <1>1, FS_Interval
  <2>3. IsFiniteSet(Commands(q)')
    BY <2>1, <2>2, FS_Subset
  <2>4. QED
    BY <2>3, FS_CardinalityType
<1> DEFINE S == Commands(q)'
           T == Commands(q) \ {1}
           f == [i \in S |-> i + 1]
<1>4. f \in [S -> T]
  <2>1. ASSUME NEW i \in S PROVE i + 1 \in T
    <3>1. i \in 1..Len(pipe) - 1 /\ pipe'[i].queue = q
      BY <1>1 DEF Commands
    <3>2. i + 1 \in 1..Len(pipe) /\ i + 1 # 1 /\ pipe[i + 1].queue = q
      BY <1>1, <3>1
    <3>3. QED
      BY <1>1, <3>2 DEF Commands
  <2>2. QED
    BY <2>1
<1>5. f \in Injection(S, T)
  <2>1. \A i \in S : i \in Int
    BY <1>1 DEF Commands
  <2>2. \A i, j \in S : f[i] = f[j] => i = j
    BY <2>1
  <2> HIDE DEF S, T, f
  <2>3. QED
    BY <1>4, <2>2 DEF Injection, IsInjective
<1>6. f \in Surjection(S, T)
  <2>1. ASSUME NEW j \in T PROVE j - 1 \in S /\ f[j - 1] = j
    <3>1. j \in 1..Len(pipe) /\ j # 1 /\ pipe[j].queue = q
      BY <1>1 DEF Commands
    <3>2. j - 1 \in 1..Len(pipe) - 1 /\ (j - 1) + 1 = j
      BY <1>1, <3>1
    <3>3. pipe'[j - 1] = pipe[j]
      BY <1>1, <3>2
    <3>4. j - 1 \in S
      BY <1>1, <3>1, <3>2, <3>3 DEF Commands
    <3>5. QED
      BY <3>2, <3>4
  <2> HIDE DEF S, T, f
  <2>2. QED
    BY <1>4, <2>1 DEF Surjection
<1>7. Cardinality(S) = Cardinality(T)
  <2>1. IsFiniteSet(T)
    BY <1>2, FS_Subset
  <2> HIDE DEF S, T, f
  <2>2. QED
    BY <1>5, <1>6, <2>1, FS_Injection
<1>8. CASE Head(pipe).queue = q
  <2>1. 1 \in Commands(q)
    BY <1>1, <1>8 DEF Commands
  <2>2. Cardinality(T) = Cardinality(Commands(q)) - 1
    BY <1>2, <2>1, FS_RemoveElement
  <2>3. QED
    BY <1>2, <1>3, <1>7, <1>8, <2>2 DEF One
<1>9. CASE Head(pipe).queue # q
  <2>1. 1 \notin Commands(q)
    BY <1>1, <1>9 DEF Commands
  <2>2. Cardinality(T) = Cardinality(Commands(q))
    BY <2>1
  <2>3. One(Head(pipe).queue = q) = 0
    BY <1>9 DEF One
  <2> HIDE DEF S, T
  <2>4. Cardinality(S) = Cardinality(Commands(q)) /\ S = Commands(q)'
    BY <1>7, <2>2 DEF S
  <2>5. QED
    BY <1>2, <1>3, <2>3, <2>4
<1>10. QED
  BY <1>8, <1>9

\* A queue whose references change at least as much as what they count.
LEMMA CountMove ==
  ASSUME TypeOK, TypeOK', NEW q \in Queues, CountedAt(q),
         life'[q] # "alive" => refs'[q] = 0,
         refs'[q] - refs[q] + One(Owed(q)') - One(Owed(q))
           >= Held(q)' - Held(q) + Cardinality(Commands(q)') - Cardinality(Commands(q))
  PROVE  CountedAt(q)'
<1>1. Cardinality(Commands(q)) \in Nat /\ refs[q] \in Int
  BY CommandsType DEF TypeOK
<1>2. Cardinality(Commands(q)') \in Nat
  <2>1. TypeOK' => (IsFiniteSet(Commands(q)) /\ Cardinality(Commands(q)) \in Nat)'
    BY CommandsType, PTL
  <2>2. QED
    BY <2>1
<1>3. refs'[q] \in Int
  BY DEF TypeOK
<1>4. QED
  BY <1>1, <1>2, <1>3 DEF CountedAt, Held, One

LEMMA CountFrame ==
  ASSUME TypeOK, NEW q \in Queues, CountedAt(q), refs'[q] = refs[q],
         life'[q] = life[q] \/ refs[q] = 0,
         Channel(q)' => Channel(q), InHand(q)' => InHand(q), q \in Polled' => q \in Polled,
         Owed(q) => Owed(q)', Cardinality(Commands(q)') = Cardinality(Commands(q))
  PROVE  CountedAt(q)'
<1>1. Cardinality(Commands(q)) \in Nat /\ refs[q] \in Int
  BY CommandsType DEF TypeOK
<1>2. QED
  BY <1>1 DEF CountedAt, Held, One

\* One thread goes on, in its program or in a call.
LEMMA AgentFrame ==
  ASSUME TypeOK, Counted, NEW a \in Agents, UNCHANGED <<life, refs, pipe, clients, hand, after>>,
         \A b \in Agents \ {a} : pc'[b] = pc[b] /\ arg'[b] = arg[b],
         \A q \in Queues : asked[q] \subseteq asked'[q],
         pc[a] # "retain", pc'[a] \notin HandPlaces,
         \A q \in Queues : arg'[a].queue = q /\ pc'[a] \in Calls => Channel(q)
  PROVE  Counted'
<1> SUFFICES ASSUME NEW q \in Queues PROVE CountedAt(q)'
  BY DEF Counted
<1>1. Channel(q)' => Channel(q)
  BY DEF Channel
<1>2. InHand(q)' => InHand(q)
  BY DEF InHand, HandPlaces, Agents
<1>3. Owed(q) => Owed(q)'
  BY DEF Owed
<1>4. q \in Polled' => q \in Polled
  BY DEF Polled
<1>5. Commands(q)' = Commands(q)
  BY DEF Commands
<1>6. QED
  BY <1>1, <1>2, <1>3, <1>4, <1>5, CountFrame DEF Counted

\* The dispatch thread goes on outside the calls.
LEMMA DispatchSame ==
  ASSUME UNCHANGED <<life, asked, arg>>,
         \A b \in Agents \ {Dispatch} : pc'[b] = pc[b],
         pc[Dispatch] \notin Calls, pc'[Dispatch] \notin Calls, NEW q
  PROVE  (Channel(q)' <=> Channel(q)) /\ (Owed(q)' <=> Owed(q))
BY DEF Channel, Owed, Calls

\* A queue that is not there, not yet or no more, is counted by nobody.
LEMMA NotAlive ==
  ASSUME IInv, NEW q \in Queues, life[q] # "alive"
  PROVE  /\ refs[q] = 0 /\ ~Channel(q) /\ ~InHand(q) /\ q \notin Polled /\ ~Owed(q)
         /\ Cardinality(Commands(q)) = 0
<1>1. ~Owed(q) /\ ~Channel(q)
  BY NilAssumption DEF IInv, Users, Owed, Calls, Channel
<1>2. Cardinality(Commands(q)) \in Nat /\ refs[q] \in Int
  BY CommandsType DEF IInv, TypeOK
<1>3. CountedAt(q)
  BY DEF IInv, Counted
<1>4. QED
  BY <1>1, <1>2, <1>3 DEF CountedAt, Held, One

LEMMA BornLemma ==
  ASSUME IInv, NEW q \in Queues, life[q] # "alive", life'[q] = "alive", refs'[q] = 1,
         InHand(q)' => InHand(q), clients' = clients, pipe' = pipe \/ pipe' = <<>>
  PROVE  CountedAt(q)'
<1>1. ~InHand(q)' /\ q \notin Polled'
  BY NotAlive DEF Polled
<1>2. Cardinality(Commands(q)') = 0
  <2>1. CASE pipe' = pipe
    BY <2>1, NotAlive DEF Commands
  <2>2. CASE pipe' = <<>>
    <3>1. Commands(q)' = {}
      BY <2>2 DEF Commands
    <3>2. QED
      BY <3>1, FS_EmptySet
  <2>3. QED
    BY <2>1, <2>2
<1>3. QED
  BY <1>1, <1>2 DEF CountedAt, Held, One

\* What a user does: it opens, begins a call, and goes through it.
LEMMA CountOpen ==
  ASSUME IInv, TypeOK', NEW a \in Agents,
         \/ \E q \in Queues : \/ CreateQueue(a, q) \/ Cancel(a, q) \/ Release(a, q)
                              \/ \E r \in Requests : BeginEnqueue(a, q, r)
         \/ LifeNext(a)
  PROVE  Counted'
<1> USE NilAssumption
       DEF IInv, Go, requests, queues, locks, engines, control, dispatch
<1>0. Dispatch \in Agents /\ Nil \notin Queues
  BY DEF Agents
<1>1. ASSUME NEW q \in Queues, CreateQueue(a, q) PROVE Counted'
  <2>1. /\ pc[a] = "user" /\ life[q] = "unborn" /\ \A b \in Agents : arg[b].queue # q
        /\ UNCHANGED <<asked, pipe, clients, hand, after>>
    BY <1>1 DEF CreateQueue
  <2>2. CASE service = 0
    <3>1. Call(a, "pipe", "none", q, Nil) /\ UNCHANGED <<life, refs>>
      BY <1>1, <2>2 DEF CreateQueue, Join
    <3>2. /\ pc'[a] = "pipe"
          /\ \A b \in Agents \ {a} : pc'[b] = pc[b] /\ arg'[b] = arg[b]
      BY <3>1 DEF Call, TypeOK
    <3>3. QED
      BY <2>1, <3>1, <3>2, AgentFrame DEF Calls, HandPlaces
  <2>3. CASE service # 0
    <3>1. /\ UNCHANGED <<pc, arg>> /\ life' = [life EXCEPT ![q] = "alive"]
          /\ refs' = [refs EXCEPT ![q] = 1]
      BY <1>1, <2>3 DEF CreateQueue, Join
    <3>2. /\ life'[q] = "alive" /\ refs'[q] = 1
          /\ \A p \in Queues \ {q} : life'[p] = life[p] /\ refs'[p] = refs[p]
      BY <3>1 DEF TypeOK
    <3>3. \A p \in Queues : (InHand(p)' <=> InHand(p)) /\ (Owed(p)' <=> Owed(p))
      BY <2>1, <3>1 DEF InHand, Owed
    <3>4. CountedAt(q)'
      BY <2>1, <3>2, <3>3, BornLemma
    <3>5. ASSUME NEW p \in Queues \ {q} PROVE CountedAt(p)'
      <4>1. Channel(p)' => Channel(p)
        BY <2>1, <3>1, <3>2 DEF Channel
      <4>2. Commands(p)' = Commands(p) /\ Polled' = Polled
        BY <2>1 DEF Commands, Polled
      <4>3. QED
        BY <3>2, <3>3, <4>1, <4>2, CountFrame DEF Counted
    <3>6. QED
      BY <3>4, <3>5 DEF Counted
  <2>4. QED
    BY <2>2, <2>3
<1>2. ASSUME NEW q \in Queues,
             Cancel(a, q) \/ Release(a, q) \/ \E r \in Requests : BeginEnqueue(a, q, r)
      PROVE  Counted'
  <2>1. /\ Usable(a, q) /\ UNCHANGED <<life, refs, pipe, clients, hand, after>>
        /\ \E place \in {"root", "local"}, c \in {"update", "cancel", "shutdown"},
              r \in Requests \cup {Nil} : Call(a, place, c, q, r)
    BY <1>2 DEF Cancel, Release, BeginEnqueue
  <2>2. \A p \in Queues : asked[p] \subseteq asked'[p]
    <3>1. asked' = asked \/ \E x \in {"cancel", "release"} : asked' = [asked EXCEPT ![q] = @ \cup {x}]
      BY <1>2 DEF Cancel, Release, BeginEnqueue
    <3>2. ASSUME NEW x, asked' = [asked EXCEPT ![q] = @ \cup {x}], NEW p \in Queues
          PROVE  asked[p] \subseteq asked'[p]
      <4>1. asked'[p] = IF p = q THEN asked[q] \cup {x} ELSE asked[p]
        BY <3>2 DEF TypeOK
      <4>2. QED
        BY <4>1
    <3>3. CASE asked' = asked
      BY <3>3
    <3>4. QED
      BY <3>1, <3>2, <3>3
  <2>3. /\ pc'[a] \in {"root", "local"} /\ arg'[a].queue = q
        /\ \A b \in Agents \ {a} : pc'[b] = pc[b] /\ arg'[b] = arg[b]
    BY <2>1 DEF Call, TypeOK
  <2>4. Channel(q) /\ pc[a] = "user"
    BY <2>1 DEF Usable, Channel
  <2>5. QED
    BY <2>1, <2>2, <2>3, <2>4, AgentFrame DEF HandPlaces
<1>3. ASSUME CreatePipe(a) PROVE Counted'
  <2>1. /\ pc[a] = "pipe" /\ a # Dispatch /\ pc[Dispatch] \in {"none", "ended"}
        /\ pc' = [pc EXCEPT ![a] = Back(a), ![Dispatch] = "poll"]
        /\ arg' = [arg EXCEPT ![a] = NoCall, ![Dispatch] = NoCall]
        /\ asked' = asked /\ clients' = clients /\ pipe' = <<>> /\ after' = "poll"
    BY <1>3 DEF CreatePipe
  <2>2. Back(a) = "user"
    BY <2>1 DEF Back
  <2>3. /\ arg'[a].queue = Nil /\ arg'[Dispatch].queue = Nil /\ pc'[Dispatch] = "poll"
        /\ \A b \in Agents \ {a, Dispatch} : pc'[b] = pc[b] /\ arg'[b] = arg[b]
    BY <1>0, <2>1 DEF NoCall, TypeOK
  <2>4. \A p \in Queues : ~InHand(p)'
    BY <2>1, <2>3 DEF InHand, HandPlaces
  <2>5. ASSUME NEW p \in Queues, life'[p] = life[p], refs'[p] = refs[p] PROVE CountedAt(p)'
    <3>1. Channel(p)' => Channel(p)
      BY <1>0, <2>1, <2>3, <2>5 DEF Channel
    <3>2. Commands(p)' = {} /\ Cardinality({}) = 0
      BY <2>1, FS_EmptySet DEF Commands
    <3>3. /\ Polled' = Polled /\ CountedAt(p) /\ refs[p] \in Int
          /\ Cardinality(Commands(p)) \in Nat
      BY <2>1, CommandsType DEF Polled, Counted, TypeOK
    <3>4. Owed(p) => Owed(p)'
      BY <1>0, <2>1, <2>3 DEF Owed
    <3>5. QED
      BY <2>4, <2>5, <3>1, <3>2, <3>3, <3>4 DEF CountedAt, Held, One
  <2>6. CASE arg[a].queue = Nil
    <3>1. UNCHANGED <<life, refs>>
      BY <1>3, <2>6 DEF CreatePipe
    <3>2. QED
      BY <2>5, <3>1 DEF Counted
  <2>7. CASE arg[a].queue # Nil
    <3>1. PICK q \in Queues : q = arg[a].queue /\ life[q] = "unborn"
      BY <2>1, <2>7 DEF TypeOK, Users
    <3>2. /\ life' = [life EXCEPT ![q] = "alive"]
          /\ refs' = [refs EXCEPT ![q] = 1]
      BY <1>3, <2>7, <3>1 DEF CreatePipe
    <3>3. /\ life'[q] = "alive" /\ refs'[q] = 1
          /\ \A p \in Queues \ {q} : life'[p] = life[p] /\ refs'[p] = refs[p]
      BY <3>2 DEF TypeOK
    <3>4. CountedAt(q)'
      BY <2>1, <2>4, <3>1, <3>3, BornLemma
    <3>5. QED
      BY <2>5, <3>3, <3>4 DEF Counted
  <2>8. QED
    BY <2>6, <2>7
<1>4. ASSUME AwaitDispatch(a) PROVE Counted'
  <2>1. /\ pc[a] = "join" /\ Return(a)
        /\ UNCHANGED <<life, refs, asked, pipe, clients, hand, after>>
    BY <1>4 DEF AwaitDispatch
  <2>2. /\ pc'[a] \in {"poll", "user"}
        /\ \A b \in Agents \ {a} : pc'[b] = pc[b] /\ arg'[b] = arg[b]
    BY <2>1, ReturnType DEF TypeOK
  <2>3. QED
    BY <2>1, <2>2, AgentFrame DEF Calls, HandPlaces
<1>5. ASSUME Destroy(a) PROVE Counted'
  <2>1. /\ pc[a] = "destroy" /\ life' = [life EXCEPT ![arg[a].queue] = "freed"] /\ Leave(a)
        /\ UNCHANGED <<asked, refs, pipe, clients, hand, after>>
    BY <1>5 DEF Destroy
  <2>2. /\ arg'[a].queue = Nil /\ pc'[a] \in {"stop", "poll", "user"}
        /\ \A b \in Agents \ {a} : pc'[b] = pc[b] /\ arg'[b] = arg[b]
    BY <2>1, LeaveType DEF NoCall, TypeOK
  <2>3. arg[a].queue \in Queues /\ refs[arg[a].queue] = 0
    BY <2>1 DEF TypeOK, Users, Places
  <2>4. \A p \in Queues : life'[p] = life[p] \/ (life'[p] = "freed" /\ refs[p] = 0)
    BY <2>1, <2>3 DEF TypeOK
  <2>5. ASSUME NEW p \in Queues PROVE CountedAt(p)'
    <3>1. Channel(p)' => Channel(p)
      BY <2>1, <2>2, <2>4 DEF Channel, Calls
    <3>2. InHand(p)' => InHand(p)
      BY <1>0, <2>1, <2>2 DEF InHand, HandPlaces
    <3>3. Owed(p) => Owed(p)'
      BY <2>1, <2>2 DEF Owed
    <3>4. Commands(p)' = Commands(p) /\ Polled' = Polled
      BY <2>1 DEF Commands, Polled
    <3>5. QED
      BY <2>1, <2>4, <3>1, <3>2, <3>3, <3>4, CountFrame DEF Counted
  <2>6. QED
    BY <2>5 DEF Counted
<1>6. QED
  BY <1>1, <1>2, <1>3, <1>4, <1>5 DEF LifeNext

LEMMA CountCall ==
  ASSUME IInv, TypeOK', NEW a \in Agents, LockNext(a) \/ SendNext(a)
  PROVE  Counted'
<1> USE NilAssumption
       DEF IInv, Go, requests, queues, locks, engines, control, dispatch
<1>0. Dispatch \in Agents /\ Nil \notin Queues
  BY DEF Agents
<1>1. ASSUME PushRequest(a) \/ AcquireRoot(a) \/ ClosePipe(a) PROVE Counted'
  <2>1. UNCHANGED <<life, refs, asked, arg, pipe, clients, hand, after>>
    BY <1>1 DEF PushRequest, AcquireRoot, ClosePipe
  <2>2. \A b \in Agents \ {a} : pc'[b] = pc[b]
    BY <1>1 DEF PushRequest, AcquireRoot, ClosePipe, TypeOK
  <2>3. \/ pc[a] = "stop" /\ pc'[a] = "join"
        \/ pc[a] \in {"local", "root"} /\ pc'[a] \in {"root", "write"}
    BY <1>1 DEF PushRequest, AcquireRoot, ClosePipe, TypeOK
  <2>4. \A q \in Queues : arg'[a].queue = q /\ pc'[a] \in Calls => Channel(q)
    BY <1>0, <2>1, <2>3 DEF Calls, Users, Channel
  <2>5. QED
    BY <2>1, <2>2, <2>3, <2>4, AgentFrame DEF HandPlaces
<1>2. ASSUME ConnectAtOnce(a) PROVE Counted'
  <2>1. /\ pc[a] = "local" /\ Return(a)
        /\ UNCHANGED <<life, refs, asked, pipe, clients, hand, after>>
    BY <1>2 DEF ConnectAtOnce
  <2>2. /\ pc'[a] \in {"poll", "user"}
        /\ \A b \in Agents \ {a} : pc'[b] = pc[b] /\ arg'[b] = arg[b]
    BY <2>1, ReturnType DEF TypeOK
  <2>3. QED
    BY <2>1, <2>2, AgentFrame DEF Calls, HandPlaces
<1>3. ASSUME WriteCommand(a) PROVE Counted'
  <2>1. /\ pc[a] = "write" /\ pc' = [pc EXCEPT ![a] = "retain"]
        /\ pipe' = Append(pipe, [cmd |-> arg[a].cmd, queue |-> arg[a].queue])
        /\ UNCHANGED <<life, refs, asked, arg, clients, hand, after>>
    BY <1>3 DEF WriteCommand
  <2>2. pc'[a] = "retain" /\ \A b \in Agents \ {a} : pc'[b] = pc[b]
    BY <2>1 DEF TypeOK
  <2>3. ASSUME NEW q \in Queues PROVE CountedAt(q)'
    <3>1. Channel(q)' => Channel(q)
      BY <2>1, <2>2 DEF Channel, Calls
    <3>2. InHand(q)' => InHand(q)
      BY <1>0, <2>1, <2>2 DEF InHand, HandPlaces
    <3>3. Owed(q) => Owed(q)'
      BY <2>1, <2>2 DEF Owed
    <3>4. Cardinality(Commands(q)') = Cardinality(Commands(q)) + One(arg[a].queue = q)
      BY <2>1, AppendLemma
    <3>5. Polled' = Polled /\ life'[q] = life[q] /\ refs'[q] = refs[q] /\ CountedAt(q)
      BY <2>1 DEF Polled, Counted
    <3>6. Cardinality(Commands(q)) \in Nat /\ refs[q] \in Int
      BY CommandsType DEF TypeOK
    <3>7. CASE arg[a].queue = q
      <4>1. ~Owed(q)
        BY <2>1 DEF Owed, Places
      <4>2. Owed(q)'
        BY <2>1, <2>2, <3>7 DEF Owed
      <4>3. QED
        BY <3>1, <3>2, <3>4, <3>5, <3>6, <3>7, <4>1, <4>2 DEF CountedAt, Held, One
    <3>8. CASE arg[a].queue # q
      BY <3>1, <3>2, <3>3, <3>4, <3>5, <3>6, <3>8 DEF CountedAt, Held, One
    <3>9. QED
      BY <3>7, <3>8
  <2>4. QED
    BY <2>3 DEF Counted
<1>4. ASSUME Sent(a), pc[a] \in {"write", "retain"}, UNCHANGED <<life, asked, pipe, clients, hand, after>>
      PROVE  /\ \A b \in Agents \ {a} : pc'[b] = pc[b] /\ arg'[b] = arg[b]
             /\ pc'[a] \in {"drop", "poll", "user"}
             /\ \A q \in Queues : /\ arg'[a].queue = q /\ pc'[a] \in Calls => Channel(q)
                                  /\ Channel(q)' => Channel(q)
                                  /\ InHand(q)' => InHand(q)
  <2>1. /\ \A b \in Agents \ {a} : pc'[b] = pc[b] /\ arg'[b] = arg[b]
        /\ \/ pc'[a] = "drop" /\ arg'[a] = arg[a]
           \/ pc'[a] \in {"poll", "user"}
    BY <1>4, SentType, ReturnType DEF TypeOK
  <2>2. ASSUME NEW q \in Queues, arg'[a].queue = q, pc'[a] \in Calls PROVE Channel(q)
    BY <1>0, <1>4, <2>1, <2>2 DEF Calls, Users, Channel
  <2>3. ASSUME NEW q \in Queues, Channel(q)' PROVE Channel(q)
    BY <1>4, <2>1, <2>2, <2>3 DEF Channel
  <2>4. ASSUME NEW q \in Queues, InHand(q)' PROVE InHand(q)
    BY <1>0, <1>4, <2>1, <2>4 DEF InHand, HandPlaces
  <2>5. QED
    BY <2>1, <2>2, <2>3, <2>4
<1>5. ASSUME Retain(a) PROVE Counted'
  <2>1. /\ pc[a] = "retain" /\ refs' = [refs EXCEPT ![arg[a].queue] = @ + 1] /\ Sent(a)
        /\ UNCHANGED <<life, asked, pipe, clients, hand, after>>
    BY <1>5 DEF Retain
  <2>2. ASSUME NEW q \in Queues PROVE CountedAt(q)'
    <3>1. (Channel(q)' => Channel(q)) /\ (InHand(q)' => InHand(q))
      BY <1>4, <2>1
    <3>2. Commands(q)' = Commands(q) /\ Polled' = Polled /\ life'[q] = life[q] /\ CountedAt(q)
      BY <2>1 DEF Commands, Polled, Counted
    <3>3. Cardinality(Commands(q)) \in Nat /\ refs[q] \in Int
      BY CommandsType DEF TypeOK
    <3>4. CASE arg[a].queue = q
      <4>1. refs'[q] = refs[q] + 1
        BY <2>1, <3>4 DEF TypeOK
      <4>2. life[q] = "alive"
        BY <1>0, <2>1, <3>4 DEF Users, Calls
      <4>3. QED
        BY <3>1, <3>2, <3>3, <4>1, <4>2 DEF CountedAt, Held, One
    <3>5. CASE arg[a].queue # q
      <4>1. refs'[q] = refs[q]
        BY <2>1, <3>5 DEF TypeOK
      <4>2. Owed(q) => Owed(q)'
        BY <1>4, <2>1, <3>5 DEF Owed
      <4>3. QED
        BY <3>1, <3>2, <4>1, <4>2, CountFrame
    <3>6. QED
      BY <3>4, <3>5
  <2>3. QED
    BY <2>2 DEF Counted
<1>6. ASSUME SendFails(a) PROVE Counted'
  <2>1. /\ pc[a] = "write" /\ Sent(a)
        /\ UNCHANGED <<life, refs, asked, pipe, clients, hand, after>>
    BY <1>6 DEF SendFails
  <2>2. QED
    BY <1>4, <2>1, AgentFrame DEF HandPlaces
<1>7. ASSUME DropChannel(a) PROVE Counted'
  <2>1. PICK q \in Queues : q = arg[a].queue
    BY <1>7 DEF DropChannel, TypeOK, Places, Calls
  <2>2. /\ pc[a] = "drop" /\ ReleaseRefs(a, q, 1)
        /\ UNCHANGED <<life, asked, pipe, clients, hand, after>>
    BY <1>7, <2>1 DEF DropChannel
  <2>3. /\ \A b \in Agents \ {a} : pc'[b] = pc[b] /\ arg'[b] = arg[b]
        /\ \/ pc'[a] = "destroy" /\ arg'[a].queue = q
           \/ pc'[a] \in {"poll", "user"} /\ arg'[a].queue = Nil
    BY <2>2, ReleaseType, ReturnType DEF NoCall, TypeOK
  <2>4. refs'[q] = refs[q] - 1 /\ \A p \in Queues : p # q => refs'[p] = refs[p]
    BY <2>2 DEF ReleaseRefs, TypeOK
  <2>5. /\ life[q] = "alive" /\ "release" \in asked[q]
        /\ \A b \in Agents \ {a} : arg[b].queue # q
    BY <1>0, <2>1, <2>2 DEF Users, Alone, Calls
  <2>6. ASSUME NEW p \in Queues PROVE CountedAt(p)'
    <3>1. (Channel(p)' => Channel(p)) /\ (InHand(p)' => InHand(p)) /\ (Owed(p) => Owed(p)')
      <4>1. Channel(p)' => Channel(p)
        BY <2>2, <2>3 DEF Channel, Calls
      <4>2. InHand(p)' => InHand(p)
        BY <1>0, <2>2, <2>3 DEF InHand, HandPlaces
      <4>3. Owed(p) => Owed(p)'
        BY <2>2, <2>3 DEF Owed
      <4>4. QED
        BY <4>1, <4>2, <4>3
    <3>2. Commands(p)' = Commands(p) /\ Polled' = Polled /\ life'[p] = life[p] /\ CountedAt(p)
      BY <2>2 DEF Commands, Polled, Counted
    <3>3. Cardinality(Commands(p)) \in Nat /\ refs[p] \in Int
      BY CommandsType DEF TypeOK
    <3>4. CASE p = q
      <4>1. Channel(q)
        BY <2>1, <2>2, <2>5 DEF Channel, Calls
      <4>2. ~Channel(q)'
        BY <2>2, <2>3, <2>5 DEF Channel, Calls
      <4>3. QED
        BY <2>4, <2>5, <3>1, <3>2, <3>3, <3>4, <4>1, <4>2 DEF CountedAt, Held, One
    <3>5. CASE p # q
      BY <2>4, <3>1, <3>2, <3>5, CountFrame
    <3>6. QED
      BY <3>4, <3>5
  <2>7. QED
    BY <2>6 DEF Counted
<1>8. QED
  BY <1>1, <1>2, <1>3, <1>5, <1>6, <1>7 DEF LockNext, SendNext

\* The dispatch thread takes what is counted and counts no more.
LEMMA CountDispatch ==
  ASSUME IInv, TypeOK', DispatchNext \/ LockedNext
  PROVE  Counted'
<1> USE NilAssumption
       DEF IInv, Go, requests, queues, locks, engines, control, dispatch
<1>0. Dispatch \in Agents /\ Nil \notin Queues
  BY DEF Agents
<1>1. ASSUME UNCHANGED <<life, refs, asked, arg, pipe>>,
             \A b \in Agents \ {Dispatch} : pc'[b] = pc[b],
             pc[Dispatch] \notin Calls, pc'[Dispatch] \notin Calls,
             Polled' \subseteq Polled, \A q \in Queues : InHand(q)' => InHand(q)
      PROVE  Counted'
  <2>1. ASSUME NEW q \in Queues PROVE CountedAt(q)'
    <3>1. (Channel(q)' <=> Channel(q)) /\ (Owed(q)' <=> Owed(q))
      BY <1>1, DispatchSame
    <3>2. Commands(q)' = Commands(q)
      BY <1>1 DEF Commands
    <3>3. QED
      BY <1>1, <3>1, <3>2, CountFrame DEF Counted
  <2>2. QED
    BY <2>1 DEF Counted
<1>2. ASSUME Poll \/ HandlerReturns PROVE Counted'
  <2>1. /\ UNCHANGED <<life, refs, asked, arg, pipe, clients, hand, after>>
        /\ pc[Dispatch] \in {"poll", "user"} /\ \A b \in Agents \ {Dispatch} : pc'[b] = pc[b]
    BY <1>2 DEF Poll, HandlerReturns, TypeOK
  <2>2. \/ pc'[Dispatch] = "visit"
        \/ after = "revise" /\ pc'[Dispatch] = "peek_read"
        \/ after # "revise" /\ pc'[Dispatch] = after
    BY <1>0, <1>2 DEF Poll, HandlerReturns, TypeOK
  <2>3. pc'[Dispatch] \in {"visit", "peek_read", "poll", "drain"}
    BY <2>2 DEF TypeOK
  <2>4. ASSUME NEW q \in Queues, InHand(q)' PROVE InHand(q)
    <3>1. after \in {"poll", "visit", "revise", "drain"}
      BY DEF TypeOK
    <3>2. QED
      BY <2>1, <2>2, <2>4, <3>1 DEF InHand, HandPlaces
  <2>5. QED
    BY <1>1, <2>1, <2>3, <2>4 DEF Calls, Polled
<1>3. ASSUME PeekRead \/ PeekWrite \/ Drain PROVE Counted'
  <2>1. /\ UNCHANGED <<life, refs, asked, arg, pipe, clients, hand>>
        /\ \/ /\ pc[Dispatch] \in {"peek_read", "peek_write"} /\ after' = after
              /\ pc'[Dispatch] \in {"peek_write", "assign"}
           \/ pc[Dispatch] = "drain" /\ pc'[Dispatch] \in {"user", "remove"}
    BY <1>0, <1>3 DEF PeekRead, PeekWrite, Drain, CancelNext, Handler, TypeOK
  <2>2. \A b \in Agents \ {Dispatch} : pc'[b] = pc[b]
    BY <1>3 DEF PeekRead, PeekWrite, Drain, CancelNext, Handler, TypeOK
  <2>3. \A q \in Queues : InHand(q)' => InHand(q)
    BY <2>1 DEF InHand, HandPlaces
  <2>4. pc[Dispatch] \notin Calls /\ pc'[Dispatch] \notin Calls
    BY <2>1 DEF Calls
  <2>5. QED
    BY <1>1, <2>1, <2>2, <2>3, <2>4 DEF Polled
<1>4. ASSUME ReviseClient PROVE Counted'
  <2>1. /\ UNCHANGED <<life, refs, asked, arg, pipe, hand, after>>
        /\ pc[Dispatch] = "assign" /\ after = "revise"
        /\ clients' = [clients EXCEPT ![hand] = seen]
    BY <1>4 DEF ReviseClient, Revise
  <2>2. pc'[Dispatch] = "visit" /\ \A b \in Agents \ {Dispatch} : pc'[b] = pc[b]
    BY <1>0, <1>4 DEF ReviseClient, TypeOK
  <2>3. Polled' = Polled
    BY <2>1 DEF Polled
  <2>4. \A q \in Queues : InHand(q)' => InHand(q)
    BY <2>1, <2>2 DEF InHand, HandPlaces
  <2>5. QED
    BY <1>1, <2>1, <2>2, <2>3, <2>4 DEF Calls
<1>5. ASSUME NEW p \in Queues, NEW s \in Sides, Visit(p, s) PROVE Counted'
  <2>1. /\ UNCHANGED <<life, refs, asked, arg, pipe, clients>>
        /\ pc[Dispatch] = "visit"
        /\ \/ UNCHANGED <<pc, hand, after>>
           \/ pc' = [pc EXCEPT ![Dispatch] = "user"] /\ after' \in {"visit", "revise"}
    BY <1>5 DEF Visit, Handler
  <2>2. /\ pc'[Dispatch] \in {"visit", "user"}
        /\ \A b \in Agents \ {Dispatch} : pc'[b] = pc[b]
    BY <1>0, <2>1 DEF TypeOK
  <2>3. \A q \in Queues : InHand(q)' => InHand(q)
    BY <2>1, <2>2 DEF InHand, HandPlaces
  <2>4. QED
    BY <1>1, <2>1, <2>2, <2>3 DEF Calls, Polled
<1>6. ASSUME NEW S, S \subseteq Polled, DropClients(S), Polled' = Polled \ S,
             UNCHANGED <<life, asked, arg, pipe>>,
             \A b \in Agents \ {Dispatch} : pc'[b] = pc[b],
             pc[Dispatch] \notin Calls, pc'[Dispatch] \notin Calls,
             \A q \in Queues : InHand(q)' => InHand(q)
      PROVE  Counted'
  <2>1. ASSUME NEW q \in Queues PROVE CountedAt(q)'
    <3>1. (Channel(q)' <=> Channel(q)) /\ (Owed(q)' <=> Owed(q)) /\ (InHand(q)' => InHand(q))
      BY <1>6, DispatchSame
    <3>2. Commands(q)' = Commands(q) /\ life'[q] = life[q] /\ CountedAt(q)
      BY <1>6 DEF Commands, Counted
    <3>3. Cardinality(Commands(q)) \in Nat /\ refs[q] \in Int
      BY CommandsType DEF TypeOK
    <3>4. CASE q \in S
      <4>1. refs'[q] = refs[q] - 1 /\ q \in Polled /\ q \notin Polled'
        BY <1>6, <3>4 DEF DropClients
      <4>2. life[q] = "alive"
        BY <4>1, NotAlive
      <4>3. QED
        BY <3>1, <3>2, <3>3, <4>1, <4>2 DEF CountedAt, Held, One
    <3>5. CASE q \notin S
      <4>1. refs'[q] = refs[q] /\ (q \in Polled' => q \in Polled)
        BY <1>6, <3>3, <3>5 DEF DropClients
      <4>2. QED
        BY <3>1, <3>2, <4>1, CountFrame
    <3>6. QED
      BY <3>4, <3>5
  <2>2. QED
    BY <2>1 DEF Counted
<1>7. ASSUME Sweep PROVE Counted'
  <2> DEFINE gone == {q \in Polled : clients[q] = {}}
  <2>1. /\ UNCHANGED <<life, asked, arg, pipe, hand>> /\ after' = "poll"
        /\ pc[Dispatch] = "visit" /\ DropClients(gone) /\ clients' = Without(gone)
    BY <1>7 DEF Sweep
  <2>2. /\ pc'[Dispatch] \in {"read", "poll"}
        /\ \A b \in Agents \ {Dispatch} : pc'[b] = pc[b]
    BY <1>0, <1>7 DEF Sweep, TypeOK
  <2>3. gone \subseteq Polled /\ Polled' = Polled \ gone
    BY <2>1 DEF Without, Polled
  <2>4. \A q \in Queues : InHand(q)' => InHand(q)
    BY <2>1, <2>2 DEF InHand, HandPlaces
  <2> HIDE DEF gone
  <2>5. QED
    BY <1>6, <2>1, <2>2, <2>3, <2>4 DEF Calls
<1>8. ASSUME DispatchEnds PROVE Counted'
  <2>1. /\ UNCHANGED <<life, asked, arg, pipe, hand, after>>
        /\ pc[Dispatch] \in {"read", "poll"} /\ DropClients(Polled) /\ clients' = <<>>
    BY <1>8 DEF DispatchEnds
  <2>2. /\ pc'[Dispatch] = "ended"
        /\ \A b \in Agents \ {Dispatch} : pc'[b] = pc[b]
    BY <1>0, <1>8 DEF DispatchEnds, TypeOK
  <2>3. Polled' = Polled \ Polled
    BY <2>1 DEF Polled
  <2>4. \A q \in Queues : InHand(q)' => InHand(q)
    BY <2>1, <2>2 DEF InHand, HandPlaces
  <2>5. QED
    BY <1>6, <2>1, <2>2, <2>3, <2>4 DEF Calls
<1>9. ASSUME UpdateClient PROVE Counted'
  <2>1. /\ UNCHANGED <<life, asked, arg, pipe, hand, after>>
        /\ pc[Dispatch] = "assign" /\ after = "poll" /\ hand \in Queues
        /\ \A b \in Agents \ {Dispatch} : pc'[b] = pc[b]
    BY <1>9 DEF UpdateClient, TypeOK, Places, HandPlaces
  <2>2. CASE seen = {}
    <3>1. pc'[Dispatch] = "remove" /\ UNCHANGED <<refs, clients>>
      BY <1>0, <1>9, <2>2 DEF UpdateClient, TypeOK
    <3>2. \A q \in Queues : InHand(q)' => InHand(q)
      BY <2>1, <3>1 DEF InHand, HandPlaces
    <3>3. QED
      BY <1>1, <2>1, <3>1, <3>2 DEF Calls, Polled
  <2>3. CASE seen # {}
    <3>1. /\ pc'[Dispatch] = "poll" /\ clients' = Inserted
          /\ DropClients({hand} \cap Polled)
      BY <1>0, <1>9, <2>3 DEF UpdateClient, TypeOK
    <3>2. Polled' = Polled \cup {hand}
      BY <3>1 DEF Inserted, Polled
    <3>3. ASSUME NEW q \in Queues PROVE CountedAt(q)'
      <4>1. (Channel(q)' <=> Channel(q)) /\ (Owed(q)' <=> Owed(q)) /\ ~InHand(q)'
        <5>1. ~InHand(q)'
          BY <2>1, <3>1 DEF InHand, HandPlaces
        <5>2. QED
          BY <2>1, <3>1, <5>1, DispatchSame DEF Calls
      <4>2. Commands(q)' = Commands(q) /\ life'[q] = life[q] /\ CountedAt(q)
        BY <2>1 DEF Commands, Counted
      <4>3. Cardinality(Commands(q)) \in Nat /\ refs[q] \in Int
        BY CommandsType DEF TypeOK
      <4>4. CASE q = hand
        <5>1. InHand(q) /\ q \in Polled'
          BY <2>1, <3>2, <4>4 DEF InHand, HandPlaces
        <5>2. life[q] = "alive"
          BY <5>1, NotAlive
        <5>3. refs'[q] = refs[q] - One(q \in Polled)
          BY <3>1, <4>4 DEF DropClients, One
        <5>4. QED
          BY <4>1, <4>2, <4>3, <5>1, <5>2, <5>3 DEF CountedAt, Held, One
      <4>5. CASE q # hand
        <5>1. refs'[q] = refs[q] /\ (q \in Polled' => q \in Polled)
          BY <3>1, <3>2, <4>3, <4>5 DEF DropClients
        <5>2. QED
          BY <4>1, <4>2, <5>1, CountFrame
      <4>6. QED
        BY <4>4, <4>5
    <3>4. QED
      BY <3>3 DEF Counted
  <2>4. QED
    BY <2>2, <2>3
<1>10. ASSUME RemoveClient PROVE Counted'
  <2>1. /\ hand \in Queues /\ pc[Dispatch] = "remove" /\ after = "poll"
        /\ UNCHANGED <<life, asked, pipe, hand, after>> /\ clients' = Without({hand})
        /\ ReleaseRefs(Dispatch, hand, 1 + Cardinality({hand} \cap Polled))
    BY <1>10 DEF RemoveClient, TypeOK, Places, HandPlaces
  <2>2. Cardinality({hand} \cap Polled) = One(hand \in Polled)
    BY OnePolled DEF TypeOK
  <2>3. 1 + One(hand \in Polled) \in Int
    BY DEF One
  <2>4. /\ \A b \in Agents \ {Dispatch} : pc'[b] = pc[b] /\ arg'[b] = arg[b]
        /\ pc'[Dispatch] \in {"destroy", "poll", "user"}
    BY <1>0, <2>1, <2>2, <2>3, ReleaseType, ReturnType DEF TypeOK
  <2>5. Polled' = Polled \ {hand}
    BY <2>1 DEF Without, Polled
  <2>6. ASSUME NEW q \in Queues PROVE CountedAt(q)'
    <3>1. (Channel(q)' => Channel(q)) /\ (Owed(q) => Owed(q)') /\ ~InHand(q)'
      <4>1. Channel(q)' => Channel(q)
        BY <2>1, <2>4 DEF Channel, Calls
      <4>2. Owed(q) => Owed(q)'
        BY <2>1, <2>4 DEF Owed
      <4>3. ~InHand(q)'
        BY <2>1, <2>4 DEF InHand, HandPlaces
      <4>4. QED
        BY <4>1, <4>2, <4>3
    <3>2. Commands(q)' = Commands(q) /\ life'[q] = life[q] /\ CountedAt(q)
      BY <2>1 DEF Commands, Counted
    <3>3. Cardinality(Commands(q)) \in Nat /\ refs[q] \in Int
      BY CommandsType DEF TypeOK
    <3>4. CASE q = hand
      <4>1. InHand(q) /\ q \notin Polled'
        BY <2>1, <2>5, <3>4 DEF InHand
      <4>2. life[q] = "alive"
        BY <4>1, NotAlive
      <4>3. refs'[q] = refs[q] - (1 + One(q \in Polled))
        BY <2>1, <2>2, <3>4 DEF ReleaseRefs, TypeOK
      <4>4. QED
        BY <3>1, <3>2, <3>3, <4>1, <4>2, <4>3 DEF CountedAt, Held, One
    <3>5. CASE q # hand
      <4>1. refs'[q] = refs[q] /\ (q \in Polled' => q \in Polled)
        BY <2>1, <2>5, <3>5 DEF ReleaseRefs, TypeOK
      <4>2. QED
        BY <3>1, <3>2, <4>1, CountFrame
    <3>6. QED
      BY <3>4, <3>5
  <2>7. QED
    BY <2>6 DEF Counted
<1>11. ASSUME ReadCommand PROVE Counted'
  <2>1. /\ pc[Dispatch] = "read" /\ after = "poll" /\ pipe # <<>> /\ pipe' = Tail(pipe)
        /\ hand' = Head(pipe).queue
        /\ UNCHANGED <<life, refs, asked, arg, clients, after>>
    BY <1>11 DEF ReadCommand, Places
  <2>2. Head(pipe).cmd \in {"update", "cancel", "shutdown"}
    <3>1. pipe \in Seq([cmd : {"update", "cancel", "shutdown"}, queue : Queues])
      BY DEF TypeOK
    <3>2. Head(pipe) \in [cmd : {"update", "cancel", "shutdown"}, queue : Queues]
      BY <2>1, <3>1, HeadTail
    <3>3. QED
      BY <3>2
  <2>3. pc'[Dispatch] \in {"peek_read", "drain", "remove"}
    <3>1. \E place \in {"peek_read", "drain", "remove"} : pc' = [pc EXCEPT ![Dispatch] = place]
      BY <1>11, <2>2 DEF ReadCommand
    <3>2. QED
      BY <1>0, <3>1 DEF TypeOK
  <2>4. \A b \in Agents \ {Dispatch} : pc'[b] = pc[b]
    BY <1>11 DEF ReadCommand, TypeOK
  <2>5. ASSUME NEW q \in Queues PROVE CountedAt(q)'
    <3>1. (Channel(q)' <=> Channel(q)) /\ (Owed(q)' <=> Owed(q))
      BY <2>1, <2>3, <2>4, DispatchSame DEF Calls
    <3>2. ~InHand(q) /\ (InHand(q)' <=> Head(pipe).queue = q)
      BY <2>1, <2>3 DEF InHand, HandPlaces
    <3>3. Cardinality(Commands(q)') + One(Head(pipe).queue = q) = Cardinality(Commands(q))
      BY <2>1, TailLemma
    <3>4. Cardinality(Commands(q)) \in Nat /\ refs[q] \in Int
      BY CommandsType DEF TypeOK
    <3>5. Cardinality(Commands(q)') \in Nat
      <4>1. TypeOK' => (IsFiniteSet(Commands(q)) /\ Cardinality(Commands(q)) \in Nat)'
        BY CommandsType, PTL
      <4>2. QED
        BY <4>1
    <3>6. /\ Polled' = Polled /\ life'[q] = life[q] /\ refs'[q] = refs[q] /\ CountedAt(q)
      BY <2>1 DEF Polled, Counted
    <3>7. QED
      BY <3>1, <3>2, <3>3, <3>4, <3>5, <3>6 DEF CountedAt, Held, One
  <2>6. QED
    BY <2>5 DEF Counted
<1>12. QED
  BY <1>2, <1>3, <1>4, <1>5, <1>7, <1>8, <1>9, <1>10, <1>11 DEF DispatchNext, LockedNext

-----------------------------------------------------------------------------
(* The theorems.                                                           *)

LEMMA InitInv ==
  ASSUME Init
  PROVE  IInv
<1>1. TypeOK
  BY DEF Init, TypeOK, Steps, Calls, HandPlaces, NoCall, Polled
<1>2. /\ \A a \in Agents : pc[a] \in {"none", "user"} /\ arg[a].queue = Nil
      /\ Dispatch \in Agents /\ after = "poll"
      /\ hand = Nil /\ clients = <<>> /\ pipe = <<>> /\ Nil \notin Queues
      /\ \A q \in Queues : life[q] = "unborn" /\ refs[q] = 0
  BY NilAssumption DEF Init, NoCall, Agents
<1>3. Places /\ Users
  BY <1>2 DEF Places, Users, Calls, HandPlaces
<1>4. ASSUME NEW q \in Queues PROVE CountedAt(q)
  <2>1. ~Channel(q) /\ ~Owed(q)
    BY <1>2 DEF Channel, Owed
  <2>2. ~InHand(q) /\ q \notin Polled
    BY <1>2 DEF InHand, Polled
  <2>3. Commands(q) = {} /\ Cardinality({}) = 0
    BY <1>2, FS_EmptySet DEF Commands
  <2>4. QED
    BY <1>2, <2>1, <2>2, <2>3 DEF CountedAt, Held, One
<1>5. QED
  BY <1>1, <1>3, <1>4 DEF IInv, Counted

LEMMA CountStep ==
  ASSUME IInv, TypeOK', [ProgramNext]_program
  PROVE  Counted'
<1>1. ASSUME NEW t \in Threads, EngineInit(t) \/ EngineStop(t) PROVE Counted'
  <2>1. /\ t \in Agents /\ pc[t] = "user"
        /\ UNCHANGED <<life, refs, asked, pipe, clients, hand, after>>
    BY <1>1 DEF EngineInit, EngineStop, Agents, queues, control, dispatch
  <2>2. CASE EngineInit(t)
    <3>1. /\ pc'[t] \in {"pipe", "user"}
          /\ \A b \in Agents \ {t} : pc'[b] = pc[b] /\ arg'[b] = arg[b]
      BY <2>1, <2>2 DEF EngineInit, Go, IInv, TypeOK
    <3>2. QED
      BY <2>1, <3>1, AgentFrame DEF IInv, Calls, HandPlaces
  <2>3. CASE EngineStop(t)
    <3>1. Leave(t) /\ TypeOK
      BY <2>3 DEF EngineStop, IInv
    <3>2. /\ pc'[t] \in {"stop", "poll", "user"}
          /\ \A b \in Agents \ {t} : pc'[b] = pc[b] /\ arg'[b] = arg[b]
      BY <2>1, <3>1, LeaveType DEF TypeOK
    <3>3. QED
      BY <2>1, <3>2, AgentFrame DEF IInv, Calls, HandPlaces
  <2>4. QED
    BY <1>1, <2>2, <2>3
<1>2. CASE UNCHANGED program
  <2>1. UNCHANGED <<life, refs, asked, arg, pc, pipe, clients, hand, after>>
    BY <1>2 DEF program, queues, control, dispatch
  <2>2. ASSUME NEW q \in Queues PROVE CountedAt(q)'
    <3>1. /\ (Channel(q)' <=> Channel(q)) /\ (InHand(q)' <=> InHand(q))
          /\ (Owed(q)' <=> Owed(q)) /\ Commands(q)' = Commands(q) /\ Polled' = Polled
      BY <2>1 DEF Channel, InHand, Owed, Commands, Polled
    <3>2. QED
      BY <2>1, <3>1, CountFrame DEF IInv, Counted
  <2>3. QED
    BY <2>2 DEF Counted
<1>3. QED
  BY <1>1, <1>2, CountOpen, CountCall, CountDispatch DEF ProgramNext

LEMMA Step ==
  ASSUME IInv, ~Snatched, ~Snatched', [ProgramNext]_program
  PROVE  IInv'
<1>1. TypeOK'
  BY TypeStep DEF IInv
<1>2. Places'
  BY PlacesStep DEF IInv
<1>3. Users'
  BY UsersStep
<1>4. Counted'
  BY <1>1, CountStep
<1>5. QED
  BY <1>1, <1>2, <1>3, <1>4 DEF IInv

LEMMA Freed ==
  ASSUME IInv
  PROVE  FreedUnused
<1> SUFFICES ASSUME NEW q \in Queues, life[q] = "freed"
             PROVE  /\ \A a \in Agents : arg[a].queue # q
                    /\ \A i \in DOMAIN pipe : pipe[i].queue # q
                    /\ q \notin Polled
  BY DEF FreedUnused
<1>1. \A a \in Agents : arg[a].queue # q
  BY NilAssumption DEF IInv, Places, Users
<1>2. q \notin Polled /\ Cardinality(Commands(q)) = 0
  BY NotAlive
<1>3. Commands(q) = {}
  BY <1>2, CommandsType, FS_EmptySet DEF IInv
<1>4. QED
  BY <1>1, <1>2, <1>3 DEF Commands

\* A step of the model is one of the program, from a state in which no race is
\* lost; the history tells which are lost after it.
LEMMA StepLemma ==
  ASSUME [Next]_vars
  PROVE  /\ [ProgramNext]_program
         /\ \/ races = {} /\ races' = Lost'
            \/ UNCHANGED vars
BY DEF Next, vars

LEMMA SameRaces ==
  ASSUME UNCHANGED vars
  PROVE  Lost' = Lost /\ Snatched' = Snatched /\ Hurried' = Hurried
BY DEF vars, program, queues, engines, Lost, Snatched, Hurried

\* What holds of every state in which no sender of a command has lost its race.
Unsnatched == "snatched" \notin races => IInv /\ ~Snatched

LEMMA InitUnsnatched == Init => Unsnatched
<1>1. Init => ~Snatched
  BY DEF Init, Snatched
<1>2. QED
  BY <1>1, InitInv DEF Unsnatched

LEMMA UnsnatchedStep ==
  ASSUME Unsnatched, [Next]_vars
  PROVE  Unsnatched'
<1> SUFFICES ASSUME "snatched" \notin races' PROVE IInv' /\ ~Snatched'
  BY DEF Unsnatched
<1>1. [ProgramNext]_program
  BY StepLemma
<1>2. CASE races = {} /\ races' = Lost'
  <2>1. IInv /\ ~Snatched
    BY <1>2 DEF Unsnatched
  <2>2. ~Snatched'
    BY <1>2 DEF Lost
  <2>3. QED
    BY <1>1, <2>1, <2>2, Step
<1>3. CASE UNCHANGED vars
  <2>1. IInv /\ ~Snatched
    BY <1>3 DEF Unsnatched, vars
  <2>2. ~Snatched'
    BY <1>3, <2>1, SameRaces
  <2>3. QED
    BY <1>1, <2>1, <2>2, Step
<1>4. QED
  BY <1>2, <1>3, StepLemma

LEMMA Inductive == Spec => []Unsnatched
BY InitUnsnatched, UnsnatchedStep, PTL DEF Spec

\* While no sender of a command has lost its race the variables have their
\* types: the references of the queues, the commands, the places of the threads.
THEOREM TypeCorrect == Spec => []("snatched" \notin races => TypeOK)
<1>1. Unsnatched => ("snatched" \notin races => TypeOK)
  BY DEF Unsnatched, IInv
<1>2. QED
  BY <1>1, Inductive, PTL

\* Nobody touches a queue object after it was destroyed, but for the sender of
\* a command whose last reference went before the command was counted.
THEOREM FreedCorrect == Spec => []FreedUnused
<1>1. Unsnatched => FreedUnused
  BY Freed DEF Unsnatched, FreedUnused
<1>2. QED
  BY <1>1, Inductive, PTL

-----------------------------------------------------------------------------
(* The lines of requests and the service they implement.                   *)

LEMMA SeqLemma ==
  ASSUME NEW C, NEW s \in Seq(C)
  PROVE  /\ Len(s) \in Nat /\ DOMAIN s = 1..Len(s) /\ \A i \in DOMAIN s : s[i] \in C
         /\ s # <<>> => Len(s) > 0 /\ Head(s) = s[1] /\ s[1] \in C /\ Last(s) \in C
         /\ s # <<>> => /\ Tail(s) \in Seq(C) /\ SubSeq(s, 1, Len(s) - 1) \in Seq(C)
                        /\ \A i \in DOMAIN Tail(s) : i + 1 \in DOMAIN s /\ Tail(s)[i] = s[i + 1]
                        /\ \A i \in DOMAIN SubSeq(s, 1, Len(s) - 1) :
                             i \in DOMAIN s /\ SubSeq(s, 1, Len(s) - 1)[i] = s[i]
         /\ \A e \in C : /\ Append(s, e) \in Seq(C) /\ Append(s, e) # <<>> /\ Last(Append(s, e)) = e
                         /\ DOMAIN Append(s, e) = 1..Len(s) + 1 /\ Append(s, e)[Len(s) + 1] = e
                         /\ \A i \in 1..Len(s) : Append(s, e)[i] = s[i]
<1>1. /\ Len(s) \in Nat /\ DOMAIN s = 1..Len(s) /\ \A i \in DOMAIN s : s[i] \in C
  OBVIOUS
<1>2. ASSUME s # <<>>
      PROVE  Len(s) > 0 /\ Head(s) = s[1] /\ s[1] \in C /\ Last(s) \in C
  BY <1>1, <1>2 DEF Last
<1>3. ASSUME s # <<>>
      PROVE  /\ Tail(s) \in Seq(C)
             /\ \A i \in DOMAIN Tail(s) : i + 1 \in DOMAIN s /\ Tail(s)[i] = s[i + 1]
  BY <1>1, <1>3
<1>4. ASSUME s # <<>>
      PROVE  LET t == SubSeq(s, 1, Len(s) - 1) IN
               t \in Seq(C) /\ \A i \in DOMAIN t : i \in DOMAIN s /\ t[i] = s[i]
  <2> DEFINE n == Len(s) - 1
  <2>1. n \in Nat /\ n <= Len(s)
    BY <1>2, <1>1, <1>4
  <2>2. SubSeq(s, 1, n) \in Seq(C) /\ DOMAIN SubSeq(s, 1, n) = 1..n
        /\ \A i \in 1..n : SubSeq(s, 1, n)[i] = s[i]
    BY <2>1, <1>1
  <2>3. QED
    BY <1>1, <2>1, <2>2
<1>5. ASSUME NEW e \in C
      PROVE  /\ Append(s, e) \in Seq(C) /\ Append(s, e) # <<>> /\ Last(Append(s, e)) = e
             /\ DOMAIN Append(s, e) = 1..Len(s) + 1 /\ Append(s, e)[Len(s) + 1] = e
             /\ \A i \in 1..Len(s) : Append(s, e)[i] = s[i]
  <2>1. /\ Append(s, e) \in Seq(C) /\ Len(Append(s, e)) = Len(s) + 1
        /\ DOMAIN Append(s, e) = 1..Len(s) + 1 /\ Append(s, e)[Len(s) + 1] = e
        /\ \A i \in 1..Len(s) : Append(s, e)[i] = s[i]
    BY <1>1
  <2>2. Append(s, e) # <<>>
    BY <1>1, <2>1
  <2>3. QED
    BY <2>1, <2>2 DEF Last
<1>6. QED
  BY <1>1, <1>2, <1>3, <1>4, <1>5

Commanded == [cmd : {"update", "cancel", "shutdown"}, queue : Queues]

LEMMA PipeLemma ==
  ASSUME TypeOK
  PROVE  /\ \A i \in DOMAIN pipe : pipe[i] \in Commanded /\ pipe[i].queue \in Queues
         /\ pipe # <<>> => /\ Head(pipe) = pipe[1] /\ 1 \in DOMAIN pipe
                           /\ \A i \in DOMAIN Tail(pipe) : i + 1 \in DOMAIN pipe /\ Tail(pipe)[i] = pipe[i + 1]
         /\ \A c \in Commanded :
              /\ DOMAIN Append(pipe, c) = DOMAIN pipe \cup {Len(pipe) + 1}
              /\ Append(pipe, c)[Len(pipe) + 1] = c
              /\ \A i \in DOMAIN pipe : Append(pipe, c)[i] = pipe[i]
<1>1. pipe \in Seq(Commanded)
  BY DEF TypeOK, Commanded
<1>2. /\ Len(pipe) \in Nat /\ DOMAIN pipe = 1..Len(pipe) /\ \A i \in DOMAIN pipe : pipe[i] \in Commanded
      /\ pipe # <<>> => /\ Head(pipe) = pipe[1] /\ Len(pipe) > 0
                        /\ \A i \in DOMAIN Tail(pipe) : i + 1 \in DOMAIN pipe /\ Tail(pipe)[i] = pipe[i + 1]
      /\ \A c \in Commanded :
           /\ DOMAIN Append(pipe, c) = 1..Len(pipe) + 1 /\ Append(pipe, c)[Len(pipe) + 1] = c
           /\ \A i \in 1..Len(pipe) : Append(pipe, c)[i] = pipe[i]
  BY <1>1, SeqLemma
<1>3. 1..Len(pipe) + 1 = 1..Len(pipe) \cup {Len(pipe) + 1}
  BY <1>2
<1>4. \A i \in DOMAIN pipe : pipe[i].queue \in Queues
  BY <1>2 DEF Commanded
<1>5. pipe # <<>> => 1 \in DOMAIN pipe
  BY <1>2
<1>6. QED
  BY <1>2, <1>3, <1>4, <1>5

LEMMA WaitsLemma ==
  ASSUME NEW r
  PROVE  (r \in Pending <=> Waits(r)) /\ (r \in Pending' <=> Waits(r)')
BY DEF Pending, PendingOf, Members, Waits

LEMMA SideLemma == \A r : SideOf(r) \in Sides
BY DEF SideOf, Sides

\* One thread moves; the requests that others have in hand are not disturbed.
LEMMA ServedFrame ==
  ASSUME TypeOK, Places, Served, NEW a \in Agents,
         \A b \in Agents \ {a} : pc'[b] = pc[b] /\ arg'[b] = arg[b],
         Owned', Asks',
         \A q \in Queues : asked[q] \subseteq asked'[q],
         \A b \in Agents \ {a} : pc[b] = "local" /\ arg[b].request # Nil =>
           outcome'[arg[b].request] = outcome[arg[b].request] /\ ~Waits(arg[b].request)',
         \A b \in Agents \ {a} : pc[b] \in {"root", "write"} /\ arg[b].request # Nil =>
           LET q == arg[b].queue   s == SideOf(arg[b].request) IN
             (localSync[q] = b => localSync'[q] = b) /\ line'[q][s] = line[q][s],
         \A b \in Agents \ {a} : arg'[a].request # Nil => arg[b].request # arg'[a].request,
         FreshAt(a)', PushedAt(a)', AsksAt(a)'
  PROVE  Served'
<1>1. ASSUME NEW b \in Agents \ {a} PROVE FreshAt(b)'
  <2>1. FreshAt(b) /\ pc'[b] = pc[b] /\ arg'[b] = arg[b]
    BY DEF Served
  <2>2. \A c \in Agents : arg'[c].request = arg[b].request /\ arg[b].request # Nil => c = b
    BY <2>1 DEF FreshAt
  <2>3. QED
    BY <2>1, <2>2 DEF FreshAt
<1>2. ASSUME NEW b \in Agents \ {a} PROVE PushedAt(b)'
  <2>1. PushedAt(b) /\ pc'[b] = pc[b] /\ arg'[b] = arg[b]
    BY DEF Served
  <2>2. QED
    BY <2>1 DEF PushedAt
<1>3. ASSUME NEW b \in Agents \ {a} PROVE AsksAt(b)'
  <2>1. AsksAt(b) /\ pc'[b] = pc[b] /\ arg'[b] = arg[b] /\ arg[b].queue \in Queues \cup {Nil}
    BY DEF Served, TypeOK
  <2>2. pc[b] \in Calls => arg[b].queue \in Queues
    BY <2>1 DEF Places
  <2>3. QED
    BY <2>1, <2>2 DEF AsksAt
<1>5. QED
  BY <1>1, <1>2, <1>3 DEF Served

LEMMA AsksSame ==
  ASSUME TypeOK, Places, Served, \A q \in Queues : asked[q] \subseteq asked'[q], pipe' = pipe,
         pc'[Dispatch] = "drain" \/ after' = "drain" =>
           hand' = hand /\ (pc[Dispatch] = "drain" \/ after = "drain")
  PROVE  Asks'
<1>1. \A i \in DOMAIN pipe : Meant(pipe[i]) /\ pipe[i].queue \in Queues
  BY PipeLemma DEF Served, Asks
<1>2. \A i \in DOMAIN pipe : Meant(pipe[i])'
  BY <1>1 DEF Meant
<1>3. pc[Dispatch] = "drain" \/ after = "drain" => hand \in Queues /\ "cancel" \in asked[hand]
  BY DEF Served, Asks, TypeOK, Places, HandPlaces
<1>4. QED
  BY <1>2, <1>3 DEF Asks

\* One thread moves and no request does.
LEMMA ServedQuiet ==
  ASSUME TypeOK, Places, Served, NEW a \in Agents, UNCHANGED <<line, outcome>>,
         \A b \in Agents \ {a} : pc'[b] = pc[b] /\ arg'[b] = arg[b],
         \A q \in Queues : life[q] = "alive" => life'[q] = "alive",
         \A q \in Queues : asked[q] \subseteq asked'[q],
         \A b \in Agents \ {a}, q \in Queues : localSync[q] = b => localSync'[q] = b,
         Asks',
         \/ /\ arg'[a].request = Nil /\ pc'[a] # "local"
            /\ pc'[a] \in Calls => /\ arg'[a].cmd # "update"
                                   /\ arg'[a].cmd = "cancel" => "cancel" \in asked'[arg'[a].queue]
         \/ /\ arg'[a] = arg[a] /\ pc[a] \in Calls /\ pc'[a] \in Calls \ {"local"}
            /\ pc'[a] \in {"root", "write"} =>
                 pc[a] \in {"root", "write"} /\ UNCHANGED localSync
  PROVE  Served'
<1>1. Owned'
  BY DEF Served, Owned
<1>2. ASSUME NEW b \in Agents \ {a}, pc[b] \in Calls PROVE arg[b].queue \in Queues
  BY <1>2 DEF Places, TypeOK
<1>3. \A r : Waits(r)' <=> Waits(r)
  BY DEF Waits
<1>4. ASSUME arg'[a].request # Nil
      PROVE  /\ arg'[a] = arg[a] /\ pc[a] \in Calls /\ pc'[a] \in Calls \ {"local"}
             /\ \A b \in Agents \ {a} : arg[b].request # arg[a].request
  BY <1>4 DEF Served, FreshAt
<1>5. ASSUME arg'[a] = arg[a], pc[a] \in Calls, pc'[a] \in Calls \ {"local"},
             pc'[a] \in {"root", "write"} => pc[a] \in {"root", "write"} /\ UNCHANGED localSync
      PROVE  FreshAt(a)' /\ PushedAt(a)' /\ AsksAt(a)'
  <2>1. FreshAt(a) /\ PushedAt(a) /\ AsksAt(a) /\ arg[a].queue \in Queues
    BY <1>5 DEF Served, TypeOK, Places
  <2>2. FreshAt(a)'
    BY <1>5, <2>1 DEF FreshAt
  <2>3. PushedAt(a)' /\ AsksAt(a)'
    BY <1>5, <2>1 DEF PushedAt, AsksAt
  <2>4. QED
    BY <2>2, <2>3
<1>6. ASSUME arg'[a].request = Nil, pc'[a] # "local",
             pc'[a] \in Calls => /\ arg'[a].cmd # "update"
                                 /\ arg'[a].cmd = "cancel" => "cancel" \in asked'[arg'[a].queue]
      PROVE  FreshAt(a)' /\ PushedAt(a)' /\ AsksAt(a)'
  BY <1>6 DEF FreshAt, PushedAt, AsksAt
<1>7. FreshAt(a)' /\ PushedAt(a)' /\ AsksAt(a)'
  BY <1>5, <1>6
<1>8. \A b \in Agents \ {a} : pc[b] = "local" /\ arg[b].request # Nil =>
           outcome'[arg[b].request] = outcome[arg[b].request] /\ ~Waits(arg[b].request)'
  BY <1>3 DEF Served, FreshAt
<1>9. \A b \in Agents \ {a} : pc[b] \in {"root", "write"} /\ arg[b].request # Nil =>
           LET q == arg[b].queue   s == SideOf(arg[b].request) IN
             (localSync[q] = b => localSync'[q] = b) /\ line'[q][s] = line[q][s]
  BY <1>2 DEF Calls
<1>10. QED
  BY <1>1, <1>4, <1>7, <1>8, <1>9, ServedFrame

LEMMA ServedUnchanged ==
  ASSUME TypeOK, Places, Served, UNCHANGED program
  PROVE  Served'
<1>1. UNCHANGED <<line, outcome, life, localSync, asked, pipe, hand, after, pc, arg>>
  BY DEF program, requests, queues, locks, control, dispatch
<1>2. Owned' /\ Asks'
  BY <1>1, AsksSame DEF Served, Owned
<1>3. ASSUME NEW a \in Agents PROVE FreshAt(a)' /\ PushedAt(a)' /\ AsksAt(a)'
  <2>1. FreshAt(a) /\ PushedAt(a) /\ AsksAt(a)
    BY DEF Served
  <2>2. QED
    BY <1>1, <2>1 DEF FreshAt, PushedAt, AsksAt, Waits
<1>4. QED
  BY <1>2, <1>3 DEF Served

LEMMA ServedQuietSteps ==
  ASSUME TypeOK, Places, Users, Served, [ProgramNext]_program
  PROVE  \/ \E a \in Agents :
              \/ CreatePipe(a) \/ ConnectAtOnce(a) \/ PushRequest(a) \/ SendFails(a) \/ Destroy(a)
              \/ \E q \in Queues, r \in Requests : BeginEnqueue(a, q, r)
         \/ \E q \in Queues, s \in Sides : Visit(q, s)
         \/ Drain
         \/ Served'
<1> USE NilAssumption DEF Go, requests, queues, locks, engines, control, dispatch
<1>0. Dispatch \in Agents /\ Threads \subseteq Agents
  BY DEF Agents
<1>a. ASSUME NEW a \in Agents, pc[a] \notin Calls PROVE arg[a].request = Nil
  BY <1>a DEF Served, FreshAt
<1>b. ASSUME UNCHANGED <<asked, pipe, hand, after>>, NEW a \in Agents,
             \A b \in Agents \ {a} : pc'[b] = pc[b], pc'[a] # "drain"
      PROVE  Asks'
  BY <1>0, <1>b, AsksSame
<1>1. ASSUME NEW a \in Agents, NEW q \in Queues, CreateQueue(a, q) PROVE Served'
  <2>1. /\ pc[a] = "user" /\ life[q] = "unborn"
        /\ UNCHANGED <<line, outcome, asked, localSync, pipe, hand, after>>
    BY <1>1 DEF CreateQueue
  <2>2. CASE service = 0
    <3>1. Call(a, "pipe", "none", q, Nil) /\ UNCHANGED life
      BY <1>1, <2>2 DEF CreateQueue, Join
    <3>2. /\ \A b \in Agents \ {a} : pc'[b] = pc[b] /\ arg'[b] = arg[b]
          /\ pc'[a] = "pipe" /\ arg'[a].request = Nil
      BY <3>1 DEF Call, TypeOK
    <3>3. QED
      BY <1>b, <2>1, <3>1, <3>2, ServedQuiet DEF Calls
  <2>3. CASE service # 0
    <3>1. UNCHANGED <<pc, arg>> /\ life' = [life EXCEPT ![q] = "alive"]
      BY <1>1, <2>3 DEF CreateQueue, Join
    <3>2. \A p \in Queues : life[p] = "alive" => life'[p] = "alive"
      BY <3>1 DEF TypeOK
    <3>3. arg[a].request = Nil
      BY <1>a, <2>1 DEF Calls
    <3>4. QED
      BY <1>b, <2>1, <3>1, <3>2, <3>3, ServedQuiet DEF Calls
  <2>4. QED
    BY <2>2, <2>3
<1>2. ASSUME NEW a \in Agents, NEW q \in Queues, Cancel(a, q) \/ Release(a, q) PROVE Served'
  <2>1. PICK what \in {"cancel", "release"}, c \in {"cancel", "shutdown"} :
          /\ asked' = [asked EXCEPT ![q] = @ \cup {what}]
          /\ Call(a, "root", c, q, Nil) /\ (c = "cancel" => what = "cancel")
    BY <1>2 DEF Cancel, Release
  <2>2. UNCHANGED <<line, outcome, life, localSync, pipe, hand, after>>
    BY <1>2 DEF Cancel, Release
  <2>3. /\ \A b \in Agents \ {a} : pc'[b] = pc[b] /\ arg'[b] = arg[b]
        /\ pc'[a] = "root" /\ arg'[a].request = Nil /\ arg'[a].cmd = c /\ arg'[a].queue = q
    BY <2>1 DEF Call, TypeOK
  <2>4. \A p \in Queues : asked[p] \subseteq asked'[p] /\ (c = "cancel" => "cancel" \in asked'[q])
    BY <2>1 DEF TypeOK
  <2>5. Asks'
    BY <1>0, <2>2, <2>3, <2>4, AsksSame
  <2>6. QED
    BY <2>2, <2>3, <2>4, <2>5, ServedQuiet
<1>3. ASSUME NEW a \in Agents, AwaitDispatch(a) PROVE Served'
  <2>1. Return(a) /\ UNCHANGED <<line, outcome, life, localSync, asked, pipe, hand, after>>
    BY <1>3 DEF AwaitDispatch
  <2>2. /\ \A b \in Agents \ {a} : pc'[b] = pc[b] /\ arg'[b] = arg[b]
        /\ pc'[a] \in {"poll", "user"} /\ arg'[a].request = Nil
    BY <2>1, ReturnType DEF TypeOK, NoCall
  <2>3. QED
    BY <1>b, <2>1, <2>2, ServedQuiet DEF Calls
<1>4. ASSUME NEW a \in Agents, ClosePipe(a) \/ EngineInit(a) PROVE Served'
  <2>1. /\ UNCHANGED <<line, outcome, life, localSync, asked, pipe, hand, after, arg>>
        /\ \A b \in Agents \ {a} : pc'[b] = pc[b]
        /\ pc[a] \in {"stop", "user"} /\ pc'[a] \in {"join", "pipe", "user"}
    BY <1>4 DEF ClosePipe, EngineInit, TypeOK
  <2>2. QED
    BY <1>a, <1>b, <2>1, ServedQuiet DEF Calls
<1>5. ASSUME NEW a \in Agents, EngineStop(a) PROVE Served'
  <2>1. Leave(a) /\ UNCHANGED <<line, outcome, life, localSync, asked, pipe, hand, after>>
    BY <1>5 DEF EngineStop
  <2>2. /\ \A b \in Agents \ {a} : pc'[b] = pc[b] /\ arg'[b] = arg[b]
        /\ pc'[a] \in {"stop", "poll", "user"} /\ arg'[a].request = Nil
    BY <2>1, LeaveType DEF TypeOK, NoCall
  <2>3. QED
    BY <1>b, <2>1, <2>2, ServedQuiet DEF Calls
<1>6. ASSUME NEW a \in Agents, AcquireRoot(a) PROVE Served'
  <2>1. /\ UNCHANGED <<line, outcome, life, localSync, asked, pipe, hand, after, arg>>
        /\ \A b \in Agents \ {a} : pc'[b] = pc[b]
        /\ pc[a] = "root" /\ pc'[a] = "write"
    BY <1>6 DEF AcquireRoot, TypeOK
  <2>2. QED
    BY <1>b, <2>1, ServedQuiet DEF Calls
<1>7. ASSUME NEW a \in Agents, WriteCommand(a) PROVE Served'
  <2> DEFINE c == [cmd |-> arg[a].cmd, queue |-> arg[a].queue]
  <2>1. /\ UNCHANGED <<line, outcome, life, localSync, asked, hand, after, arg>>
        /\ \A b \in Agents \ {a} : pc'[b] = pc[b]
        /\ pc[a] = "write" /\ pc'[a] = "retain"
        /\ pipe' = Append(pipe, c)
    BY <1>7 DEF WriteCommand, TypeOK
  <2>2. Meant(c)
    <3>1. AsksAt(a) /\ pc[a] \in Calls
      BY <2>1 DEF Served, Calls
    <3>2. arg[a].cmd = "shutdown" => "release" \in asked[arg[a].queue]
      BY <3>1 DEF Users, Places
    <3>3. QED
      BY <3>1, <3>2 DEF Meant, AsksAt
  <2>3. /\ DOMAIN pipe' = DOMAIN pipe \cup {Len(pipe) + 1} /\ pipe'[Len(pipe) + 1] = c
        /\ \A i \in DOMAIN pipe : pipe'[i] = pipe[i]
    <3>1. c \in Commanded
      BY <2>1 DEF TypeOK, Places, Calls, Commanded
    <3> HIDE DEF c
    <3>2. QED
      BY <2>1, <3>1, PipeLemma
  <2>4. \A i \in DOMAIN pipe : Meant(pipe[i])
    BY DEF Served, Asks
  <2>5. \A i \in DOMAIN pipe' : Meant(pipe'[i])
    BY <2>2, <2>3, <2>4
  <2>6. Asks'
    <3>1. \A i \in DOMAIN pipe' : Meant(pipe[i])'
      BY <2>1, <2>5 DEF Meant
    <3>2. QED
      BY <1>0, <2>1, <3>1 DEF Asks, Served
  <2>7. QED
    BY <2>1, <2>6, ServedQuiet DEF Calls
<1>8. ASSUME NEW a \in Agents, Retain(a) PROVE Served'
  <2>1. /\ UNCHANGED <<line, outcome, life, asked, pipe, hand, after>>
        /\ pc[a] = "retain" /\ Sent(a) /\ Unlocked(a)
    BY <1>8 DEF Retain
  <2>2. /\ \A b \in Agents \ {a} : pc'[b] = pc[b] /\ arg'[b] = arg[b]
        /\ \/ pc'[a] = "drop" /\ arg'[a] = arg[a]
           \/ pc'[a] \in {"poll", "user"} /\ arg'[a].request = Nil
    BY <2>1, SentType, ReturnType DEF TypeOK, NoCall
  <2>3. \A b \in Agents \ {a}, q \in Queues : localSync[q] = b => localSync'[q] = b
    BY <2>1 DEF Unlocked
  <2>4. QED
    BY <1>b, <2>1, <2>2, <2>3, ServedQuiet DEF Calls
<1>9. ASSUME NEW a \in Agents, NEW q \in Queues, NEW n \in Int, ReleaseRefs(a, q, n),
             UNCHANGED <<line, outcome, life, localSync, asked, pipe, hand, after>>
      PROVE Served'
  <2>1. /\ \A b \in Agents \ {a} : pc'[b] = pc[b] /\ arg'[b] = arg[b]
        /\ pc'[a] \in {"destroy", "poll", "user"} /\ arg'[a].request = Nil
    BY <1>9, ReleaseType, ReturnType DEF TypeOK, NoCall
  <2>2. QED
    BY <1>b, <1>9, <2>1, ServedQuiet DEF Calls
<1>10. ASSUME NEW a \in Agents, DropChannel(a) PROVE Served'
  <2>1. arg[a].queue \in Queues
    BY <1>10 DEF DropChannel, Places, TypeOK, Calls
  <2>2. QED
    BY <1>9, <1>10, <2>1 DEF DropChannel
<1>11. ASSUME RemoveClient PROVE Served'
  <2>1. hand \in Queues
    BY <1>11 DEF RemoveClient, TypeOK, Places, HandPlaces
  <2>2. 1 + Cardinality({hand} \cap Polled) \in Int
    <3>1. Cardinality({hand} \cap Polled) = One(hand \in Polled)
      BY OnePolled DEF TypeOK
    <3>2. QED
      BY <3>1 DEF One
  <2>3. QED
    BY <1>0, <1>9, <1>11, <2>1, <2>2 DEF RemoveClient
<1>12. ASSUME pc[Dispatch] \notin Calls, pc'[Dispatch] \notin Calls,
              \A b \in Agents \ {Dispatch} : pc'[b] = pc[b],
              UNCHANGED <<line, outcome, life, localSync, asked, arg>>, Asks'
       PROVE  Served'
  BY <1>0, <1>a, <1>12, ServedQuiet DEF Calls
<1>13. ASSUME Poll \/ Sweep \/ PeekRead \/ PeekWrite \/ ReviseClient \/ DispatchEnds
              \/ HandlerReturns \/ UpdateClient
       PROVE Served'
  <2>1. /\ UNCHANGED <<line, outcome, life, localSync, asked, arg, pipe, hand>>
        /\ \A b \in Agents \ {Dispatch} : pc'[b] = pc[b]
        /\ pc[Dispatch] \notin Calls /\ pc'[Dispatch] \notin Calls
        /\ pc'[Dispatch] = "drain" \/ after' = "drain" => after = "drain"
    BY <1>0, <1>13 DEF Poll, Sweep, PeekRead, PeekWrite, ReviseClient, DispatchEnds,
       HandlerReturns, UpdateClient, Calls, TypeOK
  <2>2. Asks'
    BY <2>1, AsksSame
  <2>3. QED
    BY <1>12, <2>1, <2>2
<1>14. ASSUME ReadCommand PROVE Served'
  <2>1. /\ UNCHANGED <<line, outcome, life, localSync, asked, arg, after>>
        /\ pc[Dispatch] = "read" /\ pipe # <<>> /\ pipe' = Tail(pipe)
        /\ hand' = Head(pipe).queue
        /\ pc' = [pc EXCEPT ![Dispatch] = CASE Head(pipe).cmd = "update"   -> "peek_read"
                                 [] Head(pipe).cmd = "cancel"   -> "drain"
                                 [] Head(pipe).cmd = "shutdown" -> "remove"]
    BY <1>14 DEF ReadCommand
  <2>2. /\ Head(pipe) = pipe[1] /\ 1 \in DOMAIN pipe
        /\ pipe[1].cmd \in {"update", "cancel", "shutdown"}
        /\ \A i \in DOMAIN pipe' : i + 1 \in DOMAIN pipe /\ pipe'[i] = pipe[i + 1]
    BY <2>1, PipeLemma DEF Commanded
  <2>3. /\ pc'[Dispatch] \in {"peek_read", "drain", "remove"}
        /\ pc'[Dispatch] = "drain" => pipe[1].cmd = "cancel"
        /\ \A b \in Agents \ {Dispatch} : pc'[b] = pc[b]
    <3>1. pipe[1].cmd \in {"update", "cancel", "shutdown"}
      BY <2>2
    <3>2. QED
      BY <1>0, <2>1, <2>2, <3>1 DEF TypeOK
  <2>4. \A i \in DOMAIN pipe : Meant(pipe[i])
    BY DEF Served, Asks
  <2>5. \A i \in DOMAIN pipe' : Meant(pipe'[i])
    BY <2>2, <2>4
  <2>6. \A i \in DOMAIN pipe' : Meant(pipe[i])'
    BY <2>1, <2>5 DEF Meant
  <2>7. after = "poll"
    BY <2>1 DEF Places
  <2>8. Asks'
    BY <2>1, <2>2, <2>3, <2>4, <2>6, <2>7 DEF Asks, Meant
  <2>9. QED
    BY <1>12, <2>1, <2>3, <2>8 DEF Calls
<1>15. CASE UNCHANGED program
  BY <1>15, ServedUnchanged
<1>20. QED
  BY <1>0, <1>1, <1>2, <1>3, <1>4, <1>5, <1>6, <1>7, <1>8, <1>10, <1>11, <1>13, <1>14, <1>15
     DEF ProgramNext, LifeNext, LockNext, SendNext, DispatchNext, LockedNext

\* Who pushes holds the lock of the queue.
LEMMA OthersLemma ==
  ASSUME TypeOK, Places, Served, NEW q \in Queues, NEW b \in Agents, localSync[q] # b,
         pc[b] \in {"root", "write"}, arg[b].request # Nil
  PROVE  arg[b].queue \in Queues \ {q} /\ localSync[arg[b].queue] = b
<1>1. localSync[arg[b].queue] = b
  BY DEF Served, PushedAt
<1>2. QED
  BY <1>1 DEF Places, TypeOK, Calls

\* A request that is to be pushed, or was.
LEMMA InHandLemma ==
  ASSUME TypeOK, Places, Users, LinesOK, Served, NEW a \in Agents, pc[a] \in Calls, arg[a].request # Nil
  PROVE  LET q == arg[a].queue   r == arg[a].request IN
           /\ q \in Queues /\ r \in Requests /\ life[q] = "alive" /\ "release" \notin asked[q]
           /\ \A b \in Agents \ {a} : arg[b].request # r
           /\ pc[a] = "local" => outcome[r] = "none" /\ ~Waits(r)
           /\ pc[a] \in {"root", "write"} =>
                localSync[q] = a /\ line[q][SideOf(r)] # <<>> /\ Last(line[q][SideOf(r)]) = r
<1>1. arg[a].queue \in Queues /\ arg[a].request \in Requests
  BY DEF TypeOK, Places
<1>2. life[arg[a].queue] = "alive" /\ ("release" \in asked[arg[a].queue] => arg[a].cmd = "shutdown")
  BY DEF Users, Places
<1>3. FreshAt(a) /\ PushedAt(a)
  BY DEF Served
<1>4. arg[a].cmd = "update"
  BY <1>3 DEF FreshAt
<1>5. QED
  BY <1>1, <1>2, <1>3, <1>4 DEF FreshAt, PushedAt

LEMMA AtLocal ==
  ASSUME Served, NEW a \in Agents, pc[a] = "local"
  PROVE  arg[a].request # Nil /\ pc[a] \in Calls /\ arg[a].cmd = "update"
BY DEF Served, FreshAt, Calls

LEMMA BeginEnqueueStep ==
  ASSUME TypeOK, Places, Users, LinesOK, Served, NEW a \in Agents, NEW q \in Queues, NEW r \in Requests,
         BeginEnqueue(a, q, r)
  PROVE  Served'
<1> USE DEF requests, queues, locks, engines, control, dispatch
<1>1. /\ Call(a, "local", "update", q, r) /\ UNCHANGED <<line, outcome, asked, life, localSync, pipe, hand, after>>
      /\ outcome[r] = "none" /\ r \notin Pending /\ \A b \in Agents : arg[b].request # r
  BY DEF BeginEnqueue
<1>2. /\ \A b \in Agents \ {a} : pc'[b] = pc[b] /\ arg'[b] = arg[b]
      /\ pc'[a] = "local" /\ arg'[a].request = r /\ arg'[a].cmd = "update" /\ arg'[a].queue = q
  BY <1>1 DEF Call, Go, TypeOK
<1>3. Owned'
  BY <1>1 DEF Served, LinesOK, Owned
<1>4. Asks'
  BY <1>1, <1>2, AsksSame DEF Agents
<1>5. \A x : Waits(x)' <=> Waits(x)
  BY <1>1 DEF Waits
<1>6. ~Waits(r)
  BY <1>1, WaitsLemma
<1>7. FreshAt(a)' /\ PushedAt(a)' /\ AsksAt(a)'
  <2>1. FreshAt(a)'
    BY <1>1, <1>2, <1>5, <1>6, NilAssumption DEF FreshAt, Calls
  <2>2. QED
    BY <1>2, <2>1 DEF PushedAt, AsksAt
<1>8. ASSUME NEW b \in Agents \ {a}, pc[b] = "local", arg[b].request # Nil
      PROVE  outcome'[arg[b].request] = outcome[arg[b].request] /\ ~Waits(arg[b].request)'
  <2>1. ~Waits(arg[b].request)
    BY <1>8 DEF Served, FreshAt
  <2>2. QED
    BY <1>1, <1>2, <1>5, <2>1
<1>9. QED
  BY <1>1, <1>2, <1>3, <1>4, <1>7, <1>8, ServedFrame

LEMMA PushStep ==
  ASSUME TypeOK, Places, Users, LinesOK, Served, NEW a \in Agents, PushRequest(a)
  PROVE  Served' /\ Service!Next
<1> DEFINE q == arg[a].queue
           r == arg[a].request
           s == SideOf(r)
<1> USE DEF requests, queues, locks, engines, control, dispatch
<1>1. /\ pc[a] = "local" /\ localSync[q] = Nil /\ localSync' = [localSync EXCEPT ![q] = a]
      /\ line' = [line EXCEPT ![q][s] = Append(@, r)]
      /\ UNCHANGED <<outcome, asked, life, pipe, open, hand, after, arg>>
  BY DEF PushRequest
<1>2. /\ q \in Queues /\ r \in Requests /\ life[q] = "alive" /\ "release" \notin asked[q]
      /\ \A b \in Agents \ {a} : arg[b].request # r
      /\ outcome[r] = "none" /\ ~Waits(r) /\ r # Nil
  BY <1>1, AtLocal, InHandLemma
<1>3. /\ pc'[a] = "root" /\ \A b \in Agents \ {a} : pc'[b] = pc[b]
      /\ pc[Dispatch] = "ended" <=> pc'[Dispatch] = "ended"
  BY <1>1 DEF PushRequest, Go, TypeOK, Agents
<1> HIDE DEF q, r, s
<1>4. s \in Sides /\ a # Nil
  BY SideLemma, NilAssumption DEF s
<1>5. /\ line[q][s] \in Seq(Requests) /\ Append(line[q][s], r) \in Seq(Requests)
      /\ line' = [line EXCEPT ![q][s] = Append(line[q][s], r)]
  BY <1>1, <1>2, <1>4 DEF Served, LinesOK
<1>6. /\ line' \in [Queues -> [Sides -> Seq(Requests)]]
      /\ line'[q][s] = Append(line[q][s], r)
      /\ \A p \in Queues, x \in Sides : p # q \/ x # s => line'[p][x] = line[p][x]
  <2>1. PICK t \in Seq(Requests) : t = Append(line[q][s], r) /\ line' = [line EXCEPT ![q][s] = t]
    BY <1>5
  <2>2. QED
    BY <1>2, <1>4, <2>1 DEF LinesOK
<1>7. /\ line'[q][s] # <<>> /\ Last(line'[q][s]) = r
      /\ \A i \in DOMAIN line'[q][s] :
           line'[q][s][i] = r \/ (i \in DOMAIN line[q][s] /\ line'[q][s][i] = line[q][s][i])
  <2> DEFINE t == line[q][s]
  <2>1. t \in Seq(Requests)
    BY <1>5
  <2>2. line'[q][s] = Append(t, r)
    BY <1>6
  <2> HIDE DEF t
  <2>3. /\ Len(t) \in Nat /\ DOMAIN t = 1..Len(t)
        /\ Append(t, r) # <<>> /\ Last(Append(t, r)) = r
        /\ DOMAIN Append(t, r) = 1..Len(t) + 1 /\ Append(t, r)[Len(t) + 1] = r
        /\ \A i \in 1..Len(t) : Append(t, r)[i] = t[i]
    BY <1>2, <2>1, SeqLemma
  <2>4. \A i \in 1..Len(t) + 1 : i = Len(t) + 1 \/ i \in 1..Len(t)
    BY <2>3
  <2>5. QED
    BY <2>2, <2>3, <2>4 DEF t
<1>8. ASSUME NEW x, Waits(x)', x # r PROVE Waits(x)
  <2>1. PICK p \in Queues, y \in Sides : \E i \in DOMAIN line'[p][y] : line'[p][y][i] = x
    BY <1>8 DEF Waits
  <2>2. \E i \in DOMAIN line[p][y] : line[p][y][i] = x
    BY <1>6, <1>7, <1>8, <2>1
  <2>3. QED
    BY <2>2 DEF Waits
<1>9. Owned'
  BY <1>1, <1>2, <1>6 DEF Served, LinesOK, Owned
<1>10. Asks'
  BY <1>1, <1>3, AsksSame DEF Agents
<1>11. FreshAt(a)' /\ PushedAt(a)' /\ AsksAt(a)'
  <2>1. /\ arg'[a].queue = q /\ arg'[a].request = r /\ SideOf(r) = s /\ arg'[a].cmd = "update"
    BY <1>1, AtLocal DEF q, r, s
  <2>2. FreshAt(a)'
    BY <1>1, <1>2, <1>3, <2>1 DEF FreshAt, Calls
  <2>3. localSync'[q] = a
    BY <1>1, <1>2 DEF LinesOK, q
  <2>4. QED
    BY <1>3, <1>7, <2>1, <2>2, <2>3 DEF PushedAt, AsksAt
<1>12. ASSUME NEW b \in Agents \ {a}, pc[b] = "local", arg[b].request # Nil
       PROVE  outcome'[arg[b].request] = outcome[arg[b].request] /\ ~Waits(arg[b].request)'
  <2>1. ~Waits(arg[b].request)
    BY <1>12 DEF Served, FreshAt
  <2>2. QED
    BY <1>1, <1>2, <1>8, <2>1
<1>13. ASSUME NEW b \in Agents \ {a}, pc[b] \in {"root", "write"}, arg[b].request # Nil
       PROVE  LET p == arg[b].queue   x == SideOf(arg[b].request) IN
                (localSync[p] = b => localSync'[p] = b) /\ line'[p][x] = line[p][x]
  <2>1. arg[b].queue \in Queues \ {q} /\ localSync[arg[b].queue] = b
    <3>1. localSync[q] # b
      BY <1>1, NilAssumption DEF q
    <3>2. QED
      BY <1>2, <1>13, <3>1, OthersLemma
  <2>2. localSync'[arg[b].queue] = localSync[arg[b].queue]
    BY <1>1, <1>2, <2>1 DEF LinesOK, q
  <2>3. line'[arg[b].queue][SideOf(arg[b].request)] = line[arg[b].queue][SideOf(arg[b].request)]
    BY <1>6, <2>1, SideLemma
  <2>4. QED
    BY <2>2, <2>3
<1>14. \A b \in Agents \ {a} : arg'[a].request # Nil => arg[b].request # arg'[a].request
  BY <1>1, <1>2 DEF r
<1>15. Served'
  BY <1>1, <1>3, <1>9, <1>10, <1>11, <1>12, <1>13, <1>14, ServedFrame
<1>16. Service!Make(q, r)
  <2>1. r \notin Service!Pending
    BY <1>2, WaitsLemma DEF Service!Pending, Service!PendingOf, Service!Members,
       Pending, PendingOf, Members
  <2>2. line' = [line EXCEPT ![q][Service!SideOf(r)] = Append(@, r)]
    BY <1>1 DEF Service!SideOf, SideOf, s
  <2>3. UNCHANGED <<outcome, asked, Down>>
    BY <1>1, <1>3 DEF Down
  <2>4. QED
    BY <1>2, <2>1, <2>2, <2>3 DEF Service!Make, Down
<1>17. QED
  BY <1>2, <1>15, <1>16 DEF Service!Next

\* One thread ends requests that waited in q, or the one it has in hand.
LEMMA EndFrame ==
  ASSUME TypeOK, Places, Users, LinesOK, Served, NEW a \in Agents, NEW q \in Queues, NEW S,
         \A b \in Agents \ {a} : pc'[b] = pc[b] /\ arg'[b] = arg[b],
         \A b \in Agents \ {a} :
           pc[b] \in {"root", "write"} /\ arg[b].request # Nil => arg[b].queue # q,
         \A b \in Agents \ {a}, p \in Queues : localSync[p] = b => localSync'[p] = b,
         \A p \in Queues \ {q} : line'[p] = line[p] /\ life'[p] = life[p],
         \A s \in Sides : \A i \in DOMAIN line'[q][s] :
           \E j \in DOMAIN line[q][s] : line'[q][s][i] = line[q][s][j],
         (life'[q] = life[q] /\ life[q] = "alive") \/ \A s \in Sides : line'[q][s] = <<>>,
         \A r \in Requests \ S : outcome'[r] = outcome[r],
         \A r \in S : Waits(r) \/ r = arg[a].request,
         asked' = asked, Asks',
         arg'[a].request = Nil, pc'[a] # "local",
         pc'[a] \in Calls => arg'[a].cmd \notin {"update", "cancel"}
  PROVE  Served'
<1>1. ASSUME NEW x, Waits(x)' PROVE Waits(x)
  <2>1. PICK p \in Queues, s \in Sides : \E i \in DOMAIN line'[p][s] : line'[p][s][i] = x
    BY <1>1 DEF Waits
  <2>2. \E i \in DOMAIN line[p][s] : line[p][s][i] = x
    BY <2>1
  <2>3. QED
    BY <2>2 DEF Waits
<1>2. ASSUME NEW b \in Agents \ {a}, pc[b] = "local", arg[b].request # Nil
      PROVE  outcome'[arg[b].request] = outcome[arg[b].request] /\ ~Waits(arg[b].request)'
  <2>1. ~Waits(arg[b].request) /\ arg[b].request \in Requests /\ arg[b].request # arg[a].request
    BY <1>2 DEF Served, FreshAt, TypeOK
  <2>2. arg[b].request \notin S
    BY <2>1
  <2>3. ~Waits(arg[b].request)'
    BY <1>1, <2>1
  <2>4. QED
    BY <2>1, <2>2, <2>3
<1>3. ASSUME NEW b \in Agents \ {a}, pc[b] \in {"root", "write"}, arg[b].request # Nil
      PROVE  LET p == arg[b].queue   x == SideOf(arg[b].request) IN
               (localSync[p] = b => localSync'[p] = b) /\ line'[p][x] = line[p][x]
  <2>1. arg[b].queue \in Queues \ {q}
    BY <1>3 DEF TypeOK, Places, Calls
  <2>2. QED
    BY <2>1
<1>4. Owned'
  <2>1. Owned
    BY DEF Served
  <2>2. ASSUME NEW p \in Queues, NEW s \in Sides, line'[p][s] # <<>> PROVE life'[p] = "alive"
    BY <2>1, <2>2 DEF Owned
  <2>3. QED
    BY <2>2 DEF Owned
<1>5. FreshAt(a)' /\ PushedAt(a)' /\ AsksAt(a)'
  BY DEF FreshAt, PushedAt, AsksAt
<1>6. QED
  BY <1>2, <1>3, <1>4, <1>5, ServedFrame

LEMMA ConnectStep ==
  ASSUME TypeOK, Places, Users, LinesOK, Served, NEW a \in Agents, ConnectAtOnce(a)
  PROVE  Served' /\ Service!Next
<1> DEFINE q == arg[a].queue
           r == arg[a].request
<1> USE DEF requests, queues, locks, engines, control, dispatch
<1>1. /\ pc[a] = "local" /\ localSync[q] = Nil /\ End({r}, "done") /\ Return(a)
      /\ UNCHANGED <<line, asked, life, localSync, pipe, open, hand, after>>
  BY DEF ConnectAtOnce
<1>2. /\ q \in Queues /\ r \in Requests /\ life[q] = "alive" /\ "release" \notin asked[q]
      /\ outcome[r] = "none" /\ ~Waits(r)
  BY <1>1, AtLocal, InHandLemma
<1>3. /\ \A b \in Agents \ {a} : pc'[b] = pc[b] /\ arg'[b] = arg[b]
      /\ pc'[a] \in {"poll", "user"} /\ arg'[a].request = Nil
  BY <1>1, ReturnType DEF TypeOK, NoCall
<1>4. pc[Dispatch] = "ended" <=> pc'[Dispatch] = "ended"
  BY <1>1, <1>3 DEF Agents
<1>5. Asks'
  BY <1>1, <1>3, AsksSame DEF Agents
<1>6. \A x \in Requests \ {r} : outcome'[x] = outcome[x]
  BY <1>1 DEF End
<1>7. ASSUME NEW b \in Agents \ {a}, pc[b] \in {"root", "write"}, arg[b].request # Nil
      PROVE  arg[b].queue # q
  <2>1. localSync[q] # b
    BY <1>1, NilAssumption
  <2> HIDE DEF q
  <2>2. QED
    BY <1>2, <1>7, <2>1, OthersLemma
<1> HIDE DEF q, r
<1>8. Served'
  <2>1. \A s \in Sides : \A i \in DOMAIN line'[q][s] :
           \E j \in DOMAIN line[q][s] : line'[q][s][i] = line[q][s][j]
    BY <1>1
  <2>0. PICK S : S = {r}
    OBVIOUS
  <2>2. /\ \A x \in S : Waits(x) \/ x = arg[a].request
        /\ \A x \in Requests \ S : outcome'[x] = outcome[x]
    BY <1>6, <2>0 DEF r
  <2>3. \A b \in Agents \ {a} : pc[b] \in {"root", "write"} /\ arg[b].request # Nil => arg[b].queue # q
    BY <1>7
  <2>4. /\ \A b \in Agents \ {a}, p \in Queues : localSync[p] = b => localSync'[p] = b
        /\ \A p \in Queues \ {q} : line'[p] = line[p] /\ life'[p] = life[p]
        /\ life'[q] = life[q] /\ life[q] = "alive" /\ asked' = asked
    BY <1>1, <1>2
  <2>5. pc'[a] # "local" /\ pc'[a] \notin Calls
    BY <1>3 DEF Calls
  <2>6. QED
    BY <1>2, <1>3, <1>5, <2>1, <2>2, <2>3, <2>4, <2>5, EndFrame
<1>9. Service!MakeAndEnd(q, r)
  <2>1. r \notin Service!Pending
    BY <1>2, WaitsLemma DEF Service!Pending, Service!PendingOf, Service!Members,
       Pending, PendingOf, Members
  <2>2. Service!End({r}, "done")
    BY <1>1 DEF Service!End, End
  <2>3. UNCHANGED <<line, asked, Down>>
    BY <1>1, <1>4 DEF Down
  <2>4. QED
    BY <1>2, <2>1, <2>2, <2>3 DEF Service!MakeAndEnd, Down
<1>10. QED
  BY <1>2, <1>8, <1>9 DEF Service!Next

LEMMA DestroyStep ==
  ASSUME TypeOK, Places, Users, Counted, ~Snatched, LinesOK, Served, NEW a \in Agents,
         Destroy(a)
  PROVE  Served' /\ Service!Next
<1> DEFINE q == arg[a].queue
<1> USE DEF requests, queues, locks, engines, control, dispatch
<1>1. /\ pc[a] = "destroy" /\ line' = [line EXCEPT ![q] = [s \in Sides |-> <<>>]]
      /\ End(PendingOf(q), "cancelled") /\ Leave(a)
      /\ life' = [life EXCEPT ![q] = "freed"]
      /\ UNCHANGED <<asked, localSync, pipe, open, hand, after>>
  BY DEF Destroy
<1>2. /\ q \in Queues /\ life[q] = "alive" /\ refs[q] = 0 /\ Alone(a)
  BY <1>1 DEF TypeOK, Places, Users
<1>3. "release" \in asked[q]
  <2>1. ~Channel(q)
    BY <1>2, HeldLemma
  <2>2. QED
    BY <1>2, <2>1 DEF Channel
<1>4. /\ \A b \in Agents \ {a} : pc'[b] = pc[b] /\ arg'[b] = arg[b]
      /\ pc'[a] \in {"stop", "poll", "user"} /\ arg'[a].request = Nil
  BY <1>1, LeaveType DEF TypeOK, NoCall
<1>5. pc[Dispatch] = "ended" <=> pc'[Dispatch] = "ended"
  BY <1>1, <1>4 DEF Agents
<1>6. Asks'
  BY <1>1, <1>4, AsksSame DEF Agents
<1>7. \A x \in Requests \ PendingOf(q) : outcome'[x] = outcome[x]
  BY <1>1 DEF End
<1>8. \A b \in Agents \ {a} : arg[b].queue # q
  BY <1>2 DEF Alone
<1>9. \A x \in PendingOf(q) : Waits(x)
  BY <1>2 DEF PendingOf, Members, Waits
<1> HIDE DEF q
<1>10. /\ \A p \in Queues \ {q} : line'[p] = line[p] /\ life'[p] = life[p]
       /\ \A s \in Sides : line'[q][s] = <<>>
  BY <1>1, <1>2 DEF LinesOK, TypeOK
<1>11. Served'
  <2>1. \A s \in Sides : \A i \in DOMAIN line'[q][s] :
           \E j \in DOMAIN line[q][s] : line'[q][s][i] = line[q][s][j]
    BY <1>10
  <2>2. /\ \A b \in Agents \ {a}, p \in Queues : localSync[p] = b => localSync'[p] = b
        /\ asked' = asked
    BY <1>1
  <2>3. pc'[a] # "local" /\ pc'[a] \notin Calls
    BY <1>4 DEF Calls
  <2>4. \A b \in Agents \ {a} : pc[b] \in {"root", "write"} /\ arg[b].request # Nil => arg[b].queue # q
    BY <1>8
  <2>5. \A x \in PendingOf(q) : Waits(x) \/ x = arg[a].request
    BY <1>9
  <2>6. QED
    BY <1>2, <1>4, <1>6, <1>7, <1>10, <2>1, <2>2, <2>3, <2>4, <2>5, EndFrame
<1>12. Service!Abandon(q)
  <2>1. Service!End(Service!PendingOf(q), "cancelled")
    BY <1>1 DEF Service!End, End, Service!PendingOf, PendingOf, Service!Members, Members
  <2>2. UNCHANGED <<asked, Down>>
    BY <1>1, <1>5 DEF Down
  <2>3. QED
    BY <1>1, <1>3, <2>1, <2>2 DEF Service!Abandon, Down
<1>13. QED
  BY <1>2, <1>11, <1>12 DEF Service!Next

LEMMA ServiceQuiet ==
  ASSUME UNCHANGED <<line, outcome, asked>>
  PROVE  Service!Next \/ UNCHANGED Service!vars
<1>1. CASE Down' = Down
  BY <1>1 DEF Service!vars, Down
<1>2. CASE Down' # Down
  <2>1. Service!StartOrStop
    BY <1>2 DEF Service!StartOrStop, Down
  <2>2. QED
    BY <2>1 DEF Service!Next
<1>3. QED
  BY <1>1, <1>2

LEMMA SendFailsStep ==
  ASSUME TypeOK, Places, Users, LinesOK, Served, NEW a \in Agents, SendFails(a)
  PROVE  Served' /\ (Service!Next \/ UNCHANGED Service!vars)
<1> DEFINE q == arg[a].queue
           r == arg[a].request
           s == SideOf(r)
<1> USE DEF requests, queues, locks, engines, control, dispatch
<1>1. /\ pc[a] = "write" /\ Unlocked(a) /\ Sent(a) /\ Down
      /\ UNCHANGED <<asked, life, pipe, open, hand, after>>
  BY DEF SendFails, Down
<1>2. /\ \A b \in Agents \ {a} : pc'[b] = pc[b] /\ arg'[b] = arg[b]
      /\ \/ pc'[a] = "drop" /\ arg'[a] = arg[a] /\ arg[a].cmd = "shutdown"
         \/ pc'[a] \in {"poll", "user"} /\ arg'[a].request = Nil
  BY <1>1, SentType, ReturnType DEF TypeOK, NoCall
<1>3. \A b \in Agents \ {a}, p \in Queues : localSync[p] = b => localSync'[p] = b
  BY <1>1 DEF Unlocked
<1>4. Asks'
  BY <1>1, <1>2, AsksSame DEF Agents
<1>5. pc[Dispatch] = "ended" <=> pc'[Dispatch] = "ended"
  BY <1>1, <1>2 DEF Agents
<1>6. CASE r = Nil
  <2>1. UNCHANGED <<line, outcome>>
    BY <1>6 DEF SendFails
  <2>2. Served'
    BY <1>1, <1>2, <1>3, <1>4, <2>1, ServedQuiet DEF Calls
  <2>3. QED
    BY <1>1, <2>1, <2>2, ServiceQuiet
<1>7. CASE r # Nil
  <2>1. /\ q \in Queues /\ r \in Requests /\ life[q] = "alive" /\ "release" \notin asked[q]
        /\ localSync[q] = a /\ line[q][s] # <<>> /\ Last(line[q][s]) = r
    BY <1>1, <1>7, InHandLemma DEF Calls
  <2>2. line' = [line EXCEPT ![q][s] = SubSeq(@, 1, Len(@) - 1)] /\ End({r}, "refused")
    BY <1>7 DEF SendFails
  <2>3. pc'[a] \in {"poll", "user"} /\ arg'[a].request = Nil
    <3>1. arg[a].cmd = "update"
      BY <1>1, <1>7 DEF Served, FreshAt, Calls
    <3>2. QED
      BY <1>2, <3>1
  <2>4. ASSUME NEW b \in Agents \ {a}, pc[b] \in {"root", "write"}, arg[b].request # Nil
        PROVE  arg[b].queue # q
    <3>1. localSync[q] # b
      BY <2>1
    <3> HIDE DEF q
    <3>2. QED
      BY <2>1, <2>4, <3>1, OthersLemma
  <2>5. r = arg[a].request /\ s = SideOf(r) /\ s \in Sides
    BY SideLemma
  <2> HIDE DEF q, r, s
  <2>6. PICK t : t = line[q][s]
    OBVIOUS
  <2>7. t \in Seq(Requests) /\ t # <<>>
    BY <2>1, <2>5, <2>6 DEF LinesOK
  <2>8. PICK u : u = SubSeq(t, 1, Len(t) - 1)
    OBVIOUS
  <2>9. u \in Seq(Requests) /\ \A i \in DOMAIN u : i \in DOMAIN t /\ u[i] = t[i]
    BY <2>7, <2>8, SeqLemma
  <2>10. line' = [line EXCEPT ![q][s] = u]
    BY <2>1, <2>2, <2>5, <2>6, <2>8 DEF LinesOK
  <2>11. /\ line'[q][s] = u
         /\ \A x \in Sides : x # s => line'[q][x] = line[q][x]
         /\ \A p \in Queues \ {q} : line'[p] = line[p]
    BY <2>1, <2>5, <2>10 DEF LinesOK
  <2>12. \A x \in Sides : \A i \in DOMAIN line'[q][x] :
           \E j \in DOMAIN line[q][x] : line'[q][x][i] = line[q][x][j]
    BY <2>6, <2>9, <2>11
  <2>13. PICK S : S = {r}
    OBVIOUS
  <2>14. /\ \A x \in S : Waits(x) \/ x = arg[a].request
         /\ \A x \in Requests \ S : outcome'[x] = outcome[x]
    BY <2>2, <2>5, <2>13 DEF End
  <2>15. \A b \in Agents \ {a} : pc[b] \in {"root", "write"} /\ arg[b].request # Nil => arg[b].queue # q
    BY <2>4
  <2>16. /\ \A p \in Queues \ {q} : line'[p] = line[p] /\ life'[p] = life[p]
         /\ life'[q] = life[q] /\ life[q] = "alive" /\ asked' = asked
    BY <1>1, <2>1, <2>11
  <2>17. pc'[a] # "local" /\ pc'[a] \notin Calls
    BY <2>3 DEF Calls
  <2>18. Served'
    BY <1>2, <1>3, <1>4, <2>1, <2>3, <2>12, <2>14, <2>15, <2>16, <2>17, EndFrame
  <2>19. Service!Refuse(q, s)
    <3>1. line[q][s][Len(line[q][s])] = r
      BY <2>1 DEF Last
    <3>2. Service!End({line[q][s][Len(line[q][s])]}, "refused")
      BY <2>2, <3>1 DEF Service!End, End
    <3>3. UNCHANGED <<asked, Down>>
      BY <1>1, <1>5 DEF Down
    <3>4. QED
      BY <1>1, <2>1, <2>2, <3>2, <3>3 DEF Service!Refuse, Down
  <2>20. QED
    BY <2>1, <2>5, <2>18, <2>19 DEF Service!Next
<1>8. QED
  BY <1>6, <1>7

\* The dispatch ends the oldest request of a line and calls its handler.
LEMMA OldestStep ==
  ASSUME TypeOK, Places, Users, LinesOK, Served, NEW q \in Queues, NEW s \in Sides,
         line[q][s] # <<>>, line' = [line EXCEPT ![q][s] = Tail(@)],
         NEW how \in {"done", "cancelled"}, End({Head(line[q][s])}, how),
         localSync[q] = Nil, UNCHANGED <<asked, life, localSync, pipe, open, arg>>,
         pc[Dispatch] \in {"visit", "drain"}, pc'[Dispatch] = "user",
         \A b \in Agents \ {Dispatch} : pc'[b] = pc[b],
         after' = "drain" => pc[Dispatch] = "drain" /\ hand' = hand
  PROVE  Served' /\ Service!Oldest(q, s, how)
<1>0. Dispatch \in Agents
  BY DEF Agents
<1>1. arg[Dispatch].request = Nil
  BY <1>0 DEF Served, FreshAt, Calls
<1>2. Asks'
  BY AsksSame
<1>3. PICK t : t = line[q][s]
  OBVIOUS
<1>4. t \in Seq(Requests) /\ t # <<>>
  BY <1>3 DEF LinesOK
<1>5. PICK u : u = Tail(t)
  OBVIOUS
<1>6. /\ u \in Seq(Requests) /\ \A i \in DOMAIN u : i + 1 \in DOMAIN t /\ u[i] = t[i + 1]
      /\ Head(t) = t[1] /\ 1 \in DOMAIN t
  BY <1>4, <1>5, SeqLemma
<1>7. line' = [line EXCEPT ![q][s] = u]
  BY <1>3, <1>5 DEF LinesOK
<1>8. /\ line'[q][s] = u
      /\ \A x \in Sides : x # s => line'[q][x] = line[q][x]
      /\ \A p \in Queues \ {q} : line'[p] = line[p]
  BY <1>7 DEF LinesOK
<1>9. \A x \in Sides : \A i \in DOMAIN line'[q][x] :
        \E j \in DOMAIN line[q][x] : line'[q][x][i] = line[q][x][j]
  BY <1>3, <1>6, <1>8
<1>10. PICK S : S = {Head(t)}
  OBVIOUS
<1>11. \A x \in S : Waits(x) \/ x = arg[Dispatch].request
  BY <1>3, <1>6, <1>10 DEF Waits
<1>12. \A x \in Requests \ S : outcome'[x] = outcome[x]
  BY <1>3, <1>10 DEF End
<1>13. \A b \in Agents \ {Dispatch} :
         pc[b] \in {"root", "write"} /\ arg[b].request # Nil => arg[b].queue # q
  <2>1. ASSUME NEW b \in Agents \ {Dispatch}, pc[b] \in {"root", "write"}, arg[b].request # Nil
        PROVE  arg[b].queue # q
    <3>1. localSync[q] # b
      BY NilAssumption
    <3>2. QED
      BY <2>1, <3>1, OthersLemma
  <2>2. QED
    BY <2>1
<1>14. /\ \A p \in Queues \ {q} : line'[p] = line[p] /\ life'[p] = life[p]
       /\ life'[q] = life[q] /\ life[q] = "alive" /\ asked' = asked
  BY <1>8 DEF Served, Owned
<1>15. /\ pc'[Dispatch] # "local" /\ pc'[Dispatch] \notin Calls /\ arg'[Dispatch].request = Nil
       /\ \A b \in Agents \ {Dispatch} : pc'[b] = pc[b] /\ arg'[b] = arg[b]
       /\ \A b \in Agents \ {Dispatch}, p \in Queues : localSync[p] = b => localSync'[p] = b
  BY <1>1 DEF Calls
<1>16. Served'
  BY <1>0, <1>2, <1>9, <1>11, <1>12, <1>13, <1>14, <1>15, EndFrame
<1>17. Service!Oldest(q, s, how)
  <2>1. UNCHANGED Down
    BY DEF Down
  <2>2. Service!End({Head(line[q][s])}, how)
    BY DEF Service!End, End
  <2>3. QED
    BY <2>1, <2>2 DEF Service!Oldest, Down
<1>18. QED
  BY <1>16, <1>17

LEMMA DispatchQuiet ==
  ASSUME TypeOK, Places, Served, pc[Dispatch] \notin Calls, pc'[Dispatch] \notin Calls,
         \A b \in Agents \ {Dispatch} : pc'[b] = pc[b],
         UNCHANGED <<line, outcome, life, localSync, asked, arg>>, Asks'
  PROVE  Served' /\ (Service!Next \/ UNCHANGED Service!vars)
<1>1. Dispatch \in Agents /\ arg[Dispatch].request = Nil
  BY DEF Served, FreshAt, Agents
<1>2. QED
  BY <1>1, ServedQuiet, ServiceQuiet DEF Calls

LEMMA VisitStep ==
  ASSUME TypeOK, Places, Users, LinesOK, Served, NEW q \in Queues, NEW s \in Sides, Visit(q, s)
  PROVE  Served' /\ (Service!Next \/ UNCHANGED Service!vars)
<1> USE DEF requests, queues, locks, engines, control, dispatch
<1>0. Dispatch \in Agents
  BY DEF Agents
<1>1. /\ pc[Dispatch] = "visit" /\ localSync[q] = Nil
      /\ UNCHANGED <<asked, life, localSync, pipe, open, arg>>
      /\ \/ UNCHANGED <<line, outcome, pc, hand, after>>
         \/ Handler("visit") /\ UNCHANGED <<line, outcome, hand>>
         \/ /\ line[q][s] # <<>> /\ line' = [line EXCEPT ![q][s] = Tail(@)]
            /\ End({Head(line[q][s])}, "done") /\ Handler("revise")
  BY DEF Visit
<1>2. CASE UNCHANGED <<line, outcome, pc, hand, after>>
  <2>1. Asks'
    BY <1>1, <1>2, AsksSame
  <2>2. QED
    BY <1>1, <1>2, <2>1, DispatchQuiet DEF Calls
<1>3. ASSUME NEW place, Handler(place)
      PROVE  /\ pc'[Dispatch] = "user" /\ after' = place
             /\ \A b \in Agents \ {Dispatch} : pc'[b] = pc[b]
  BY <1>0, <1>3 DEF Handler, Go, TypeOK
<1>4. CASE Handler("visit") /\ UNCHANGED <<line, outcome, hand>>
  <2>1. /\ pc'[Dispatch] = "user" /\ after' = "visit"
        /\ \A b \in Agents \ {Dispatch} : pc'[b] = pc[b]
    BY <1>3, <1>4
  <2>2. Asks'
    BY <1>1, <2>1, AsksSame
  <2>3. QED
    BY <1>1, <1>4, <2>1, <2>2, DispatchQuiet DEF Calls
<1>5. CASE /\ line[q][s] # <<>> /\ line' = [line EXCEPT ![q][s] = Tail(@)]
           /\ End({Head(line[q][s])}, "done") /\ Handler("revise")
  <2>1. /\ pc'[Dispatch] = "user" /\ after' = "revise"
        /\ \A b \in Agents \ {Dispatch} : pc'[b] = pc[b]
    BY <1>3, <1>5
  <2>2. Served' /\ Service!Oldest(q, s, "done")
    BY <1>1, <1>5, <2>1, OldestStep
  <2>3. QED
    BY <2>2 DEF Service!Next, Service!Finish
<1>6. QED
  BY <1>1, <1>2, <1>4, <1>5

LEMMA DrainStep ==
  ASSUME TypeOK, Places, Users, LinesOK, Served, Drain
  PROVE  Served' /\ (Service!Next \/ UNCHANGED Service!vars)
<1> USE DEF requests, queues, locks, engines, control, dispatch
<1>0. Dispatch \in Agents
  BY DEF Agents
<1>1. /\ pc[Dispatch] = "drain" /\ localSync[hand] = Nil
      /\ UNCHANGED <<asked, life, localSync, pipe, open, arg, hand>>
      /\ \/ \E s \in Sides : CancelNext(s)
         \/ Go(Dispatch, "remove") /\ after' = "poll" /\ UNCHANGED <<line, outcome>>
  BY DEF Drain, Sides
<1>2. hand \in Queues /\ "cancel" \in asked[hand]
  BY <1>1 DEF TypeOK, Places, HandPlaces, Served, Asks
<1>3. ASSUME NEW s \in Sides, CancelNext(s) PROVE Served' /\ Service!Next
  <2>1. /\ line[hand][s] # <<>> /\ line' = [line EXCEPT ![hand][s] = Tail(@)]
        /\ End({Head(line[hand][s])}, "cancelled") /\ Handler("drain")
    BY <1>3 DEF CancelNext
  <2>2. /\ pc'[Dispatch] = "user"
        /\ \A b \in Agents \ {Dispatch} : pc'[b] = pc[b]
    BY <1>0, <2>1 DEF Handler, Go, TypeOK
  <2>3. Served' /\ Service!Oldest(hand, s, "cancelled")
    BY <1>1, <1>2, <2>1, <2>2, OldestStep
  <2>4. QED
    BY <1>2, <2>3 DEF Service!Next, Service!Cancel
<1>4. CASE Go(Dispatch, "remove") /\ after' = "poll" /\ UNCHANGED <<line, outcome>>
  <2>1. /\ pc'[Dispatch] = "remove"
        /\ \A b \in Agents \ {Dispatch} : pc'[b] = pc[b]
    BY <1>0, <1>4 DEF Go, TypeOK
  <2>2. Asks'
    BY <1>1, <1>4, <2>1, AsksSame
  <2>3. QED
    BY <1>1, <1>4, <2>1, <2>2, DispatchQuiet DEF Calls
<1>5. QED
  BY <1>1, <1>3, <1>4

LEMMA CreatePipeStep ==
  ASSUME TypeOK, Places, Served, NEW a \in Agents, CreatePipe(a)
  PROVE  Served' /\ (Service!Next \/ UNCHANGED Service!vars)
<1> USE DEF requests, queues, locks, engines, control, dispatch
<1>0. Dispatch \in Agents
  BY DEF Agents
<1>1. /\ pc[a] = "pipe" /\ a # Dispatch /\ pipe' = <<>> /\ after' = "poll"
      /\ pc' = [pc EXCEPT ![a] = Back(a), ![Dispatch] = "poll"]
      /\ arg' = [arg EXCEPT ![a] = NoCall, ![Dispatch] = NoCall]
      /\ UNCHANGED <<line, outcome, asked, localSync>>
  BY DEF CreatePipe
<1>2. /\ \A b \in Agents \ {a, Dispatch} : pc'[b] = pc[b] /\ arg'[b] = arg[b]
      /\ \A b \in {a, Dispatch} : pc'[b] \in {"user", "poll"} /\ arg'[b].request = Nil
  BY <1>0, <1>1 DEF Back, NoCall, TypeOK
<1>3. Owned'
  <2>1. \A q \in Queues : life[q] = "alive" => life'[q] = "alive"
    BY DEF CreatePipe, TypeOK
  <2>2. QED
    BY <1>1, <2>1 DEF Served, Owned
<1>4. Asks'
  BY <1>0, <1>1, <1>2 DEF Asks
<1>5. ASSUME NEW b \in {a, Dispatch} PROVE FreshAt(b)' /\ PushedAt(b)' /\ AsksAt(b)'
  BY <1>2 DEF FreshAt, PushedAt, AsksAt, Calls
<1>6. ASSUME NEW b \in Agents \ {a, Dispatch} PROVE FreshAt(b)' /\ PushedAt(b)' /\ AsksAt(b)'
  <2>1. FreshAt(b) /\ PushedAt(b) /\ AsksAt(b)
    BY DEF Served
  <2>2. /\ pc'[b] = pc[b] /\ arg'[b] = arg[b]
        /\ \A r : Waits(r)' <=> Waits(r)
    BY <1>1, <1>2 DEF Waits
  <2>3. \A c \in Agents : arg'[c].request = arg'[b].request /\ arg'[b].request # Nil => c = b
    BY <1>2, <2>1, <2>2 DEF FreshAt
  <2>4. FreshAt(b)'
    BY <1>1, <2>1, <2>2, <2>3 DEF FreshAt
  <2>5. PushedAt(b)' /\ AsksAt(b)'
    BY <1>1, <2>1, <2>2 DEF PushedAt, AsksAt
  <2>6. QED
    BY <2>4, <2>5
<1>7. Served'
  BY <1>3, <1>4, <1>5, <1>6 DEF Served
<1>8. QED
  BY <1>1, <1>7, ServiceQuiet

LEMMA LinesStep ==
  ASSUME TypeOK, Places, Users, LinesOK, Served, [ProgramNext]_program
  PROVE  LinesOK'
<1> USE DEF requests, queues, locks, engines, control, dispatch
<1>a. ASSUME NEW q \in Queues, NEW s \in Sides, NEW t \in Seq(Requests),
             line' = [line EXCEPT ![q][s] = t]
      PROVE  line' \in [Queues -> [Sides -> Seq(Requests)]]
  BY <1>a DEF LinesOK
<1>b. ASSUME NEW S, NEW how \in {"done", "cancelled", "refused"}, End(S, how)
      PROVE  outcome' \in [Requests -> {"none", "done", "cancelled", "refused"}]
  BY <1>b DEF End, LinesOK
<1>c. ASSUME NEW a, Unlocked(a)
      PROVE  localSync' \in [Queues -> Agents \cup {Nil}]
  BY <1>c DEF Unlocked, LinesOK
<1>d. ASSUME NEW q \in Queues, NEW s \in Sides, line[q][s] # <<>>,
             line' = [line EXCEPT ![q][s] = Tail(@)]
      PROVE  line' \in [Queues -> [Sides -> Seq(Requests)]]
  <2>1. PICK t : t = line[q][s]
    OBVIOUS
  <2>2. t \in Seq(Requests) /\ t # <<>>
    BY <1>d, <2>1 DEF LinesOK
  <2>3. PICK u : u = Tail(t) /\ u \in Seq(Requests)
    BY <2>2, SeqLemma
  <2>4. line' = [line EXCEPT ![q][s] = u]
    BY <1>d, <2>1, <2>3 DEF LinesOK
  <2>5. QED
    BY <1>a, <2>3, <2>4
<1>1. ASSUME NEW a \in Agents, PushRequest(a) PROVE LinesOK'
  <2>1. PICK q, r, s : q = arg[a].queue /\ r = arg[a].request /\ s = SideOf(r)
    OBVIOUS
  <2>2. /\ line' = [line EXCEPT ![q][s] = Append(@, r)]
        /\ localSync' = [localSync EXCEPT ![q] = a] /\ outcome' = outcome /\ pc[a] = "local"
    BY <1>1, <2>1 DEF PushRequest
  <2>3. q \in Queues /\ r \in Requests /\ s \in Sides
    BY <2>1, <2>2, AtLocal, InHandLemma, SideLemma
  <2>4. PICK t : t = line[q][s]
    OBVIOUS
  <2>5. t \in Seq(Requests)
    BY <2>3, <2>4 DEF LinesOK
  <2>6. PICK u : u = Append(t, r) /\ u \in Seq(Requests)
    BY <2>3, <2>5, SeqLemma
  <2>7. line' = [line EXCEPT ![q][s] = u]
    BY <2>2, <2>3, <2>4, <2>6 DEF LinesOK
  <2>8. line' \in [Queues -> [Sides -> Seq(Requests)]]
    BY <1>a, <2>3, <2>6, <2>7
  <2>9. QED
    BY <2>2, <2>3, <2>8 DEF LinesOK
<1>2. ASSUME NEW a \in Agents, ConnectAtOnce(a) PROVE LinesOK'
  <2>1. End({arg[a].request}, "done") /\ UNCHANGED <<line, localSync>>
    BY <1>2 DEF ConnectAtOnce
  <2>2. QED
    BY <1>b, <2>1 DEF LinesOK
<1>3. ASSUME NEW a \in Agents, SendFails(a) PROVE LinesOK'
  <2>1. PICK q, r, s : q = arg[a].queue /\ r = arg[a].request /\ s = SideOf(r)
    OBVIOUS
  <2>2. /\ pc[a] = "write" /\ localSync' \in [Queues -> Agents \cup {Nil}]
        /\ IF r = Nil THEN UNCHANGED <<line, outcome>>
                      ELSE /\ line' = [line EXCEPT ![q][s] = SubSeq(@, 1, Len(@) - 1)]
                           /\ End({r}, "refused")
    BY <1>3, <1>c, <2>1 DEF SendFails
  <2>3. CASE r # Nil
    <3>1. q \in Queues /\ s \in Sides /\ line[q][s] # <<>>
      BY <2>1, <2>2, <2>3, InHandLemma, SideLemma DEF Calls
    <3>2. PICK t : t = line[q][s]
      OBVIOUS
    <3>3. t \in Seq(Requests) /\ t # <<>>
      BY <3>1, <3>2 DEF LinesOK
    <3>4. PICK u : u = SubSeq(t, 1, Len(t) - 1)
      OBVIOUS
    <3>5. u \in Seq(Requests)
      BY <3>3, <3>4, SeqLemma
    <3>6. line' = [line EXCEPT ![q][s] = u]
      BY <2>2, <2>3, <3>1, <3>2, <3>4 DEF LinesOK
    <3>7. line' \in [Queues -> [Sides -> Seq(Requests)]]
      BY <1>a, <3>1, <3>5, <3>6
    <3>8. outcome' \in [Requests -> {"none", "done", "cancelled", "refused"}]
      BY <1>b, <2>2, <2>3
    <3>9. QED
      BY <2>2, <3>7, <3>8 DEF LinesOK
  <2>4. QED
    BY <2>2, <2>3 DEF LinesOK
<1>4. ASSUME NEW a \in Agents, Destroy(a) PROVE LinesOK'
  <2>1. /\ pc[a] = "destroy" /\ line' = [line EXCEPT ![arg[a].queue] = [s \in Sides |-> <<>>]]
        /\ End(PendingOf(arg[a].queue), "cancelled") /\ localSync' = localSync
    BY <1>4 DEF Destroy
  <2>2. [s \in Sides |-> <<>>] \in [Sides -> Seq(Requests)]
    OBVIOUS
  <2>3. line' \in [Queues -> [Sides -> Seq(Requests)]]
    BY <2>1, <2>2 DEF LinesOK
  <2>4. QED
    BY <1>b, <2>1, <2>3 DEF LinesOK
<1>5. ASSUME NEW q \in Queues, NEW s \in Sides, Visit(q, s) PROVE LinesOK'
  <2>1. /\ localSync' = localSync
        /\ \/ UNCHANGED <<line, outcome>>
           \/ /\ line[q][s] # <<>> /\ line' = [line EXCEPT ![q][s] = Tail(@)]
              /\ End({Head(line[q][s])}, "done")
    BY <1>5 DEF Visit
  <2>2. QED
    BY <1>b, <1>d, <2>1 DEF LinesOK
<1>6. ASSUME Drain PROVE LinesOK'
  <2>1. /\ localSync' = localSync /\ pc[Dispatch] = "drain"
        /\ \/ UNCHANGED <<line, outcome>>
           \/ \E s \in Sides : /\ line[hand][s] # <<>> /\ line' = [line EXCEPT ![hand][s] = Tail(@)]
                               /\ End({Head(line[hand][s])}, "cancelled")
    BY <1>6 DEF Drain, CancelNext, Sides
  <2>2. hand \in Queues
    BY <2>1 DEF TypeOK, Places, HandPlaces
  <2>3. QED
    BY <1>b, <1>d, <2>1, <2>2 DEF LinesOK
<1>7. ASSUME NEW a \in Agents, Retain(a) PROVE LinesOK'
  BY <1>7, <1>c DEF Retain, LinesOK
<1>8. ASSUME UNCHANGED <<line, outcome, localSync>> PROVE LinesOK'
  BY <1>8 DEF LinesOK
<1>9. ASSUME NEW a \in Agents,
             \/ \E q \in Queues : \/ CreateQueue(a, q) \/ Cancel(a, q) \/ Release(a, q)
                                  \/ \E r \in Requests : BeginEnqueue(a, q, r)
             \/ CreatePipe(a) \/ AwaitDispatch(a) \/ AcquireRoot(a) \/ ClosePipe(a)
             \/ WriteCommand(a) \/ DropChannel(a) \/ EngineInit(a) \/ EngineStop(a)
      PROVE  UNCHANGED <<line, outcome, localSync>>
  BY <1>9 DEF CreateQueue, Cancel, Release, BeginEnqueue, CreatePipe, AwaitDispatch, AcquireRoot,
     ClosePipe, WriteCommand, DropChannel, EngineInit, EngineStop
<1>10. ASSUME Poll \/ Sweep \/ ReadCommand \/ HandlerReturns \/ PeekRead \/ PeekWrite
              \/ ReviseClient \/ UpdateClient \/ RemoveClient \/ DispatchEnds
       PROVE  UNCHANGED <<line, outcome, localSync>>
  BY <1>10 DEF Poll, Sweep, ReadCommand, HandlerReturns, PeekRead, PeekWrite, ReviseClient,
     UpdateClient, RemoveClient, DispatchEnds
<1>11. CASE UNCHANGED program
  BY <1>8, <1>11 DEF program
<1>12. Threads \subseteq Agents
  BY DEF Agents
<1>13. QED
  BY <1>1, <1>2, <1>3, <1>4, <1>5, <1>6, <1>7, <1>8, <1>9, <1>10, <1>11, <1>12
     DEF ProgramNext, LifeNext, LockNext, SendNext, DispatchNext, LockedNext

\* A step that no request takes part in is none of RequestService, or starts or
\* stops the dispatch, or asks for something.
LEMMA ServiceQuietSteps ==
  ASSUME TypeOK, [ProgramNext]_program
  PROVE  \/ \E a \in Agents :
              ConnectAtOnce(a) \/ PushRequest(a) \/ SendFails(a) \/ Destroy(a)
         \/ \E q \in Queues, s \in Sides : Visit(q, s)
         \/ Drain
         \/ Service!Next \/ UNCHANGED Service!vars
<1> USE DEF requests, queues, locks, engines, control, dispatch
<1>1. ASSUME NEW a \in Agents, NEW q \in Queues, Cancel(a, q) \/ Release(a, q)
      PROVE  Service!Next
  <2>1. PICK what \in {"cancel", "release"} : asked' = [asked EXCEPT ![q] = @ \cup {what}]
    BY <1>1 DEF Cancel, Release
  <2>2. UNCHANGED <<line, outcome, open>> /\ pc[a] = "user" /\ pc' = [pc EXCEPT ![a] = "root"]
    BY <1>1 DEF Cancel, Release, Usable, Call, Go
  <2>3. pc[Dispatch] = "ended" <=> pc'[Dispatch] = "ended"
    BY <2>2 DEF TypeOK, Agents
  <2>4. UNCHANGED Down
    BY <2>2, <2>3 DEF Down
  <2>5. Service!Ask(q)
    BY <2>1, <2>2, <2>4 DEF Service!Ask, Down
  <2>6. QED
    BY <2>5 DEF Service!Next
<1>2. ASSUME NEW a \in Agents,
             \/ \E q \in Queues : \/ CreateQueue(a, q)
                                  \/ \E r \in Requests : BeginEnqueue(a, q, r)
             \/ CreatePipe(a) \/ AwaitDispatch(a) \/ AcquireRoot(a) \/ ClosePipe(a)
             \/ WriteCommand(a) \/ Retain(a) \/ DropChannel(a) \/ EngineInit(a) \/ EngineStop(a)
      PROVE  UNCHANGED <<line, outcome, asked>>
  BY <1>2 DEF CreateQueue, BeginEnqueue, CreatePipe, AwaitDispatch, AcquireRoot,
     ClosePipe, WriteCommand, Retain, DropChannel, EngineInit, EngineStop
<1>3. ASSUME Poll \/ Sweep \/ ReadCommand \/ HandlerReturns \/ PeekRead \/ PeekWrite
              \/ ReviseClient \/ UpdateClient \/ RemoveClient \/ DispatchEnds
      PROVE  UNCHANGED <<line, outcome, asked>>
  BY <1>3 DEF Poll, Sweep, ReadCommand, HandlerReturns, PeekRead, PeekWrite, ReviseClient,
     UpdateClient, RemoveClient, DispatchEnds
<1>4. CASE UNCHANGED program
  BY <1>4, ServiceQuiet DEF program
<1>5. Threads \subseteq Agents
  BY DEF Agents
<1>6. QED
  BY <1>1, <1>2, <1>3, <1>4, <1>5, ServiceQuiet
     DEF ProgramNext, LifeNext, LockNext, SendNext, DispatchNext, LockedNext

LEMMA SInvStep ==
  ASSUME IInv, ~Snatched, SInv, [ProgramNext]_program
  PROVE  SInv' /\ (Service!Next \/ UNCHANGED Service!vars)
<1>1. TypeOK /\ Places /\ Users /\ Counted /\ LinesOK /\ Served
  BY DEF IInv, SInv
<1>2. LinesOK'
  BY <1>1, LinesStep
<1>3. CASE \E a \in Agents :
             CreatePipe(a) \/ ConnectAtOnce(a) \/ PushRequest(a) \/ SendFails(a) \/ Destroy(a)
  <2>1. Served' /\ (Service!Next \/ UNCHANGED Service!vars)
    BY <1>1, <1>3, CreatePipeStep, ConnectStep, PushStep, SendFailsStep, DestroyStep
  <2>2. QED
    BY <1>2, <2>1 DEF SInv
<1>4. CASE \E a \in Agents, q \in Queues, r \in Requests : BeginEnqueue(a, q, r)
  <2>1. PICK a \in Agents, q \in Queues, r \in Requests : BeginEnqueue(a, q, r)
    BY <1>4
  <2>2. UNCHANGED <<line, outcome, asked>>
    BY <2>1 DEF BeginEnqueue, requests
  <2>3. QED
    BY <1>1, <1>2, <2>1, <2>2, BeginEnqueueStep, ServiceQuiet DEF SInv
<1>5. CASE (\E q \in Queues, s \in Sides : Visit(q, s)) \/ Drain
  BY <1>1, <1>2, <1>5, VisitStep, DrainStep DEF SInv
<1>6. CASE Served' /\ (Service!Next \/ UNCHANGED Service!vars)
  BY <1>2, <1>6 DEF SInv
<1>7. QED
  BY <1>1, <1>3, <1>4, <1>5, <1>6, ServedQuietSteps, ServiceQuietSteps

LEMMA SInvInit == ASSUME Init PROVE SInv /\ Service!Init
<1> USE DEF requests, queues, locks, engines, control, dispatch
<1>1. LinesOK
  <2>1. line \in [Queues -> [Sides -> Seq(Requests)]]
    BY DEF Init
  <2>2. QED
    BY <2>1 DEF Init, LinesOK
<1>2. /\ \A q \in Queues, s \in Sides : line[q][s] = <<>>
      /\ \A a \in Agents : pc[a] \in {"none", "user"} /\ arg[a] = NoCall
      /\ pipe = <<>> /\ pc[Dispatch] = "none" /\ after = "poll" /\ open = FALSE
  BY DEF Init, Agents
<1>3. Served
  BY <1>2 DEF Served, Owned, Asks, FreshAt, PushedAt, AsksAt, Calls, NoCall
<1>4. Service!Init
  BY <1>2 DEF Init, Service!Init
<1>5. QED
  BY <1>1, <1>3, <1>4 DEF SInv

\* The same of the lines, and of a step up to one that loses a sender's race.
Serving == "snatched" \notin races => SInv

LEMMA ServingStep ==
  ASSUME Unsnatched, Serving, [Next]_vars
  PROVE  /\ Serving'
         /\ Service!Next \/ "snatched" \in races' \/ UNCHANGED Service!vars
<1>1. CASE "snatched" \in races'
  BY <1>1 DEF Serving
<1>2. CASE "snatched" \notin races'
  <2>1. [ProgramNext]_program /\ "snatched" \notin races
    BY <1>2, StepLemma DEF vars
  <2>2. QED
    BY <2>1, SInvStep DEF Unsnatched, Serving
<1>3. QED
  BY <1>1, <1>2

\* The dispatch protocol keeps what RequestService promises, up to the step by
\* which the last reference to a queue goes before a command about it is counted.
THEOREM RequestsServed == Spec => Implements
<1>1. Init => Serving /\ Service!Init
  BY SInvInit DEF Serving
<1>2. Unsnatched /\ Serving /\ [Next]_vars
        => Serving' /\ [Service!Next \/ "snatched" \in races']_Service!vars
  BY ServingStep
<1>3. QED
  BY <1>1, <1>2, Inductive, PTL DEF Spec, Implements

-----------------------------------------------------------------------------
(* The references to the dispatch.                                         *)

\* A thread goes on without the counts.
LEMMA StartedFrame ==
  ASSUME Started, NEW a \in Agents, UNCHANGED <<life, service, engine, open>>,
         \A b \in Agents \ {a} : pc'[b] = pc[b],
         pc[a] # "pipe", pc'[a] # "pipe"
  PROVE  Started'
<1>1. Alive' = Alive
  BY DEF Alive
<1>2. \A b \in Agents : pc'[b] = "pipe" <=> pc[b] = "pipe"
  OBVIOUS
<1>3. One(engine = "up")' = One(engine = "up")
  BY DEF One
<1>4. QED
  BY <1>1, <1>2, <1>3 DEF Started

\* A reference goes while there is one.
LEMMA StartedLeave ==
  ASSUME TypeOK, Started, NEW a \in Agents, Leave(a), pc[a] # "pipe",
         engine = "up" \/ Alive # {}, open' = open, Alive' \subseteq Alive,
         engine' = "up" => engine = "up",
         Cardinality(Alive') + One(engine' = "up") = Cardinality(Alive) + One(engine = "up") - 1
  PROVE  Started'
<1>1. \A b \in Agents : pc[b] # "pipe"
  BY DEF Started
<1>2. /\ IsFiniteSet(Alive') /\ Cardinality(Alive') \in Nat /\ One(engine' = "up") \in Nat
      /\ Cardinality(Alive) \in Nat /\ One(engine = "up") \in Nat
  BY FS_Subset, FS_CardinalityType DEF Started, One
<1>3. service' = service - 1 /\ service = Cardinality(Alive) + One(engine = "up")
  BY <1>1 DEF Leave, Started
<1>4. service' = Cardinality(Alive') + One(engine' = "up") /\ service' \in Nat
  BY <1>2, <1>3
<1>5. \A b \in Agents : pc'[b] # "pipe"
  BY <1>1, LeaveType DEF TypeOK
<1>6. engine' = "up" \/ Alive' # {} => open'
  BY DEF Started
<1>7. One(engine' = "up") = One(engine = "up")'
  BY DEF One
<1>8. QED
  BY <1>2, <1>4, <1>5, <1>6, <1>7 DEF Started

\* The first reference comes with a thread that starts the dispatch; nobody may
\* come by another while it does.
LEMMA StartedFirst ==
  ASSUME TypeOK, Started, NEW a \in Agents, pc' = [pc EXCEPT ![a] = "pipe"],
         UNCHANGED <<life, engine, open>>, service = 0, service' = 1
  PROVE  Started'
<1>1. \A b \in Agents : pc[b] # "pipe"
  BY DEF Started
<1>2. Cardinality(Alive) = 0 /\ engine # "up"
  <2>1. Cardinality(Alive) \in Nat /\ Cardinality(Alive) + One(engine = "up") = 0
    BY <1>1, FS_CardinalityType DEF Started
  <2>2. QED
    BY <2>1 DEF One
<1>3. Alive = {} /\ Alive' = Alive
  BY <1>2, FS_EmptySet DEF Started, Alive
<1>4. pc'[a] = "pipe" /\ \A b \in Agents \ {a} : pc'[b] # "pipe"
  BY <1>1 DEF TypeOK
<1>5. IsFiniteSet(Alive') /\ service' \in Nat
  BY <1>3 DEF Started
<1>6. QED
  BY <1>2, <1>3, <1>4, <1>5 DEF Started

\* Another one comes when the dispatch has been started.
LEMMA StartedMore ==
  ASSUME Started, ~Hurried', pc' = pc, open' = open, service # 0, service' = service + 1,
         IsFiniteSet(Alive'), Alive \subseteq Alive', engine = "up" => engine' = "up",
         Cardinality(Alive') + One(engine' = "up") = Cardinality(Alive) + One(engine = "up") + 1
  PROVE  Started'
<1>1. service \in Nat /\ service' > 1 /\ service' \in Nat
  BY DEF Started
<1>2. \A b \in Agents : pc[b] # "pipe"
  BY <1>1 DEF Hurried
<1>3. service = Cardinality(Alive) + One(engine = "up")
  BY <1>2 DEF Started
<1>4. open
  <2>1. Alive # {} \/ engine = "up"
    <3>1. SUFFICES ASSUME Alive = {}, engine # "up" PROVE FALSE
      OBVIOUS
    <3>2. service = 0
      BY <1>3, <3>1, FS_EmptySet DEF One
    <3>3. QED
      BY <3>2
  <2>2. QED
    BY <2>1 DEF Started
<1>5. One(engine' = "up") = One(engine = "up")'
  BY DEF One
<1>6. service' = Cardinality(Alive') + One(engine = "up")'
  BY <1>3, <1>5
<1>7. QED
  BY <1>1, <1>2, <1>4, <1>6 DEF Started

LEMMA StartedLife ==
  ASSUME TypeOK, Places, Users, Started, ~Hurried, ~Hurried', NEW a \in Agents,
         \/ \E q \in Queues : CreateQueue(a, q)
         \/ CreatePipe(a) \/ Destroy(a) \/ ClosePipe(a)
         \/ a \in Threads /\ (EngineInit(a) \/ EngineStop(a))
  PROVE  Started'
<1> USE DEF requests, queues, locks, engines, control, dispatch
<1>0. Dispatch \in Agents /\ IsFiniteSet(Alive) /\ Cardinality(Alive) \in Nat /\ service \in Nat
  BY FS_CardinalityType DEF Started, Agents
<1>1. ASSUME NEW q \in Queues, CreateQueue(a, q) PROVE Started'
  <2>1. /\ life[q] = "unborn" /\ service' = service + 1
        /\ UNCHANGED <<engine, open>>
    BY <1>1 DEF CreateQueue, Join
  <2>2. CASE service = 0
    <3>1. UNCHANGED life /\ pc' = [pc EXCEPT ![a] = "pipe"]
      BY <1>1, <2>2 DEF CreateQueue, Join, Call, Go
    <3>2. service' = 1
      BY <2>1, <2>2
    <3>3. QED
      BY <2>1, <2>2, <3>1, <3>2, StartedFirst
  <2>3. CASE service # 0
    <3>1. pc' = pc /\ life' = [life EXCEPT ![q] = "alive"]
      BY <1>1, <2>3 DEF CreateQueue, Join
    <3>2. Alive' = Alive \cup {q} /\ q \notin Alive
      BY <2>1, <3>1 DEF Alive, TypeOK
    <3>3. IsFiniteSet(Alive') /\ Cardinality(Alive') = Cardinality(Alive) + 1
      BY <1>0, <3>2, FS_AddElement
    <3>4. One(engine' = "up") = One(engine = "up") /\ One(engine = "up") \in Nat
      BY <2>1 DEF One
    <3>5. Cardinality(Alive') + One(engine' = "up") = Cardinality(Alive) + One(engine = "up") + 1
      BY <1>0, <3>3, <3>4
    <3>6. QED
      BY <2>1, <2>3, <3>1, <3>2, <3>3, <3>5, StartedMore
  <2>4. QED
    BY <2>2, <2>3
<1>2. ASSUME CreatePipe(a) PROVE Started'
  <2> DEFINE q == arg[a].queue
  <2>1. /\ pc[a] = "pipe" /\ open' = TRUE /\ service' = service
        /\ pc' = [pc EXCEPT ![a] = Back(a), ![Dispatch] = "poll"]
        /\ IF q = Nil THEN engine' = "up" /\ UNCHANGED life
                      ELSE life' = [life EXCEPT ![q] = "alive"] /\ UNCHANGED engine
    BY <1>2 DEF CreatePipe
  <2>2. /\ Alive = {} /\ engine # "up" /\ service = 1
        /\ \A b \in Agents : pc[b] = "pipe" => b = a
    BY <2>1 DEF Started
  <2>3. q # Nil => q \in Queues
    BY DEF TypeOK
  <2> HIDE DEF q
  <2>4. \A b \in Agents : pc'[b] # "pipe"
    BY <1>0, <2>1, <2>2 DEF Back, TypeOK
  <2>5. IsFiniteSet(Alive') /\ Cardinality(Alive') + One(engine = "up")' = 1
    <3>1. CASE q = Nil
      <4>1. Alive' = {} /\ engine' = "up"
        BY <2>1, <2>2, <3>1 DEF Alive
      <4>2. QED
        BY <4>1, FS_EmptySet DEF One
    <3>2. CASE q # Nil
      <4>1. Alive' = {q} /\ engine' # "up"
        BY <2>1, <2>2, <2>3, <3>2 DEF Alive, TypeOK
      <4>2. IsFiniteSet({q}) /\ Cardinality({q}) = 1
        BY FS_Singleton
      <4>3. One(engine = "up")' = 0
        BY <4>1 DEF One
      <4>4. QED
        BY <4>1, <4>2, <4>3
    <3>3. QED
      BY <3>1, <3>2
  <2>6. QED
    BY <2>1, <2>2, <2>4, <2>5 DEF Started
<1>3. ASSUME Destroy(a) PROVE Started'
  <2> DEFINE q == arg[a].queue
  <2>1. /\ pc[a] = "destroy" /\ life' = [life EXCEPT ![q] = "freed"] /\ Leave(a)
        /\ UNCHANGED <<engine, open>>
    BY <1>3 DEF Destroy
  <2>2. q \in Queues /\ life[q] = "alive"
    BY <2>1 DEF Places, Users, TypeOK
  <2> HIDE DEF q
  <2>3. Alive' = Alive \ {q} /\ q \in Alive
    BY <2>1, <2>2 DEF Alive, TypeOK
  <2>4. Cardinality(Alive') = Cardinality(Alive) - 1
    BY <1>0, <2>3, FS_RemoveElement
  <2>5. One(engine' = "up") = One(engine = "up") /\ One(engine = "up") \in Nat
    BY <2>1 DEF One
  <2>6. Cardinality(Alive') + One(engine' = "up") = Cardinality(Alive) + One(engine = "up") - 1
    BY <1>0, <2>4, <2>5
  <2>7. QED
    BY <2>1, <2>3, <2>6, StartedLeave
<1>4. ASSUME ClosePipe(a) PROVE Started'
  <2>1. /\ pc[a] = "stop" /\ pc' = [pc EXCEPT ![a] = "join"]
        /\ UNCHANGED <<life, service, engine>>
    BY <1>4 DEF ClosePipe, Go
  <2>2. service = 0
    BY <1>0, <2>1 DEF Hurried
  <2>3. \A b \in Agents : pc[b] # "pipe" /\ pc'[b] # "pipe"
    BY <2>1, <2>2 DEF Started, TypeOK
  <2>4. Cardinality(Alive) + One(engine = "up") = 0
    BY <2>2, <2>3 DEF Started
  <2>5. Alive = {} /\ engine # "up"
    BY <1>0, <2>4, FS_EmptySet DEF One
  <2>6. Alive' = {} /\ engine' # "up" /\ service' = 0 /\ Cardinality({}) = 0 /\ IsFiniteSet({})
    BY <2>1, <2>2, <2>5, FS_EmptySet DEF Alive
  <2>7. One(engine = "up")' = 0
    BY <2>6 DEF One
  <2>8. QED
    BY <2>3, <2>6, <2>7 DEF Started
<1>5. ASSUME EngineInit(a) PROVE Started'
  <2>1. engine = "off" /\ service' = service + 1 /\ UNCHANGED <<life, open>>
    BY <1>5 DEF EngineInit
  <2>2. Alive' = Alive
    BY <2>1 DEF Alive
  <2>3. CASE service = 0
    <3>1. pc' = [pc EXCEPT ![a] = "pipe"] /\ UNCHANGED engine
      BY <1>5, <2>3 DEF EngineInit, Go
    <3>2. service' = 1
      BY <2>1, <2>3
    <3>3. QED
      BY <2>1, <2>3, <3>1, <3>2, StartedFirst
  <2>4. CASE service # 0
    <3>1. engine' = "up" /\ pc' = pc
      BY <1>5, <2>4 DEF EngineInit
    <3>2. One(engine' = "up") = 1 /\ One(engine = "up") = 0
      BY <2>1, <3>1 DEF One
    <3>3. Cardinality(Alive') + One(engine' = "up") = Cardinality(Alive) + One(engine = "up") + 1
      BY <1>0, <2>2, <3>2
    <3>4. QED
      BY <1>0, <2>1, <2>2, <2>4, <3>1, <3>3, StartedMore
  <2>5. QED
    BY <2>3, <2>4
<1>6. ASSUME EngineStop(a) PROVE Started'
  <2>1. /\ engine = "up" /\ pc[a] = "user" /\ engine' = "stopped" /\ Leave(a)
        /\ UNCHANGED <<life, open>>
    BY <1>6 DEF EngineStop
  <2>2. Alive' = Alive
    BY <2>1 DEF Alive
  <2>3. One(engine' = "up") = 0 /\ One(engine = "up") = 1
    BY <2>1 DEF One
  <2>4. Cardinality(Alive') + One(engine' = "up") = Cardinality(Alive) + One(engine = "up") - 1
    BY <1>0, <2>2, <2>3
  <2>5. QED
    BY <2>1, <2>2, <2>4, StartedLeave
<1>7. QED
  BY <1>1, <1>2, <1>3, <1>4, <1>5, <1>6

CallSteps(a) ==
  \/ \E q \in Queues : \/ Cancel(a, q) \/ Release(a, q)
                       \/ \E r \in Requests : BeginEnqueue(a, q, r)
  \/ AwaitDispatch(a) \/ PushRequest(a) \/ ConnectAtOnce(a) \/ AcquireRoot(a)
  \/ WriteCommand(a) \/ Retain(a) \/ SendFails(a) \/ DropChannel(a)

\* What every step of a call leaves alone, and where it goes.
LEMMA CallMove ==
  ASSUME TypeOK, Places, NEW a \in Agents, CallSteps(a)
  PROVE  /\ UNCHANGED <<life, engines, open, clients, batch, hand, seen, after>>
         /\ \A b \in Agents \ {a} : pc'[b] = pc[b] /\ arg'[b] = arg[b]
         /\ pc[a] \in Calls \cup {"user", "join"}
         /\ pc[a] = "join" => a # Dispatch
         /\ pc'[a] \in Calls \cup {"destroy", "poll", "user"}
         /\ a = Dispatch /\ pc'[a] = "poll" => after = "poll"
<1> USE DEF requests, queues, locks, control, dispatch
<1>1. UNCHANGED <<life, engines, open, clients, batch, hand, seen, after>>
  BY DEF CallSteps, Cancel, Release, BeginEnqueue, AwaitDispatch, PushRequest, ConnectAtOnce,
     AcquireRoot, WriteCommand, Retain, SendFails, DropChannel, engines
<1> DEFINE Moved == /\ \A b \in Agents \ {a} : pc'[b] = pc[b] /\ arg'[b] = arg[b]
                    /\ pc'[a] \in Calls \cup {"destroy", "poll", "user"}
                    /\ a = Dispatch /\ pc'[a] = "poll" => after = "poll"
<1>2. ASSUME Return(a) PROVE Moved
  BY <1>2, ReturnType DEF TypeOK, Back
<1>3. ASSUME NEW place \in Calls, pc' = [pc EXCEPT ![a] = place],
             \/ arg' = arg
             \/ \E c, q, r : arg' = [arg EXCEPT ![a] = [cmd |-> c, queue |-> q, request |-> r]]
      PROVE Moved
  BY <1>3 DEF TypeOK, Calls
<1>4. ASSUME Sent(a) PROVE Moved
  <2>1. CASE Return(a)
    BY <1>2, <2>1
  <2>2. CASE arg' = arg /\ pc' = [pc EXCEPT ![a] = "drop"]
    BY <1>3, <2>2 DEF Calls
  <2>3. QED
    BY <1>4, <2>1, <2>2, SentType
<1>5. ASSUME DropChannel(a) PROVE Moved
  <2>1. arg[a].queue \in Queues /\ ReleaseRefs(a, arg[a].queue, 1)
    BY <1>5 DEF DropChannel, Places, TypeOK, Calls
  <2>2. CASE refs[arg[a].queue] = 1
    BY <2>1, <2>2 DEF ReleaseRefs, Call, Go, TypeOK
  <2>3. CASE refs[arg[a].queue] # 1
    BY <1>2, <2>1, <2>3 DEF ReleaseRefs
  <2>4. QED
    BY <2>2, <2>3
<1>6. ASSUME NEW q \in Queues, \/ Cancel(a, q) \/ Release(a, q)
                               \/ \E r \in Requests : BeginEnqueue(a, q, r)
      PROVE  Moved /\ pc[a] = "user"
  <2>1. pc[a] = "user" /\ \E place \in {"root", "local"} : \E c, r : Call(a, place, c, q, r)
    BY <1>6 DEF Cancel, Release, BeginEnqueue, Usable
  <2>2. PICK place \in {"root", "local"} : \E c, r : Call(a, place, c, q, r)
    BY <2>1
  <2>3. QED
    BY <1>3, <2>1, <2>2 DEF Call, Go, Calls
<1>7. ASSUME AwaitDispatch(a)
      PROVE  Moved /\ pc[a] = "join" /\ a # Dispatch
  BY <1>2, <1>7 DEF AwaitDispatch
<1>8. ASSUME ConnectAtOnce(a) PROVE Moved /\ pc[a] \in Calls
  BY <1>2, <1>8 DEF ConnectAtOnce, Calls
<1>9. ASSUME Retain(a) \/ SendFails(a) PROVE Moved /\ pc[a] \in Calls
  BY <1>4, <1>9 DEF Retain, SendFails, Calls
<1>10. ASSUME PushRequest(a) \/ AcquireRoot(a) \/ WriteCommand(a) PROVE Moved /\ pc[a] \in Calls
  BY <1>3, <1>10 DEF PushRequest, AcquireRoot, WriteCommand, Go, Calls
<1>11. Moved /\ pc[a] \in Calls \cup {"user", "join"} /\ (pc[a] = "join" => a # Dispatch)
  <2> HIDE DEF Moved
  <2>1. DropChannel(a) => pc[a] \in Calls
    BY DEF DropChannel, Calls
  <2>2. "join" \notin Calls
    BY DEF Calls
  <2>3. QED
    BY <1>5, <1>6, <1>7, <1>8, <1>9, <1>10, <2>1, <2>2 DEF CallSteps
<1>12. QED
  BY <1>1, <1>11

DispatchSteps == DispatchNext \/ LockedNext

LEMMA DispatchMove ==
  ASSUME TypeOK, Places, DispatchSteps
  PROVE  /\ UNCHANGED <<life, engines, open, asked>>
         /\ \A b \in Agents \ {Dispatch} : pc'[b] = pc[b] /\ arg'[b] = arg[b]
         /\ pc[Dispatch] \in HandPlaces \cup {"poll", "visit", "user", "read"}
         /\ pc'[Dispatch] \in HandPlaces \cup {"poll", "visit", "user", "read", "destroy", "ended"}
<1> USE DEF requests, queues, locks, control, dispatch
<1>0. Dispatch \in Agents
  BY DEF Agents
<1>1. UNCHANGED <<life, engines, open, asked>>
  BY DEF DispatchSteps, DispatchNext, LockedNext, Poll, Sweep, ReadCommand, HandlerReturns,
     ReviseClient, UpdateClient, RemoveClient, DispatchEnds, Visit, PeekRead, PeekWrite, Drain, engines
<1> DEFINE Moved == /\ \A b \in Agents \ {Dispatch} : pc'[b] = pc[b] /\ arg'[b] = arg[b]
                    /\ pc[Dispatch] \in HandPlaces \cup {"poll", "visit", "user", "read"}
                    /\ pc'[Dispatch] \in HandPlaces \cup {"poll", "visit", "user", "read", "destroy", "ended"}
<1>2. ASSUME RemoveClient PROVE Moved
  <2>1. /\ hand \in Queues /\ pc[Dispatch] = "remove"
        /\ ReleaseRefs(Dispatch, hand, 1 + Cardinality({hand} \cap Polled))
    BY <1>2 DEF RemoveClient, Places, TypeOK, HandPlaces
  <2>2. /\ \A b \in Agents \ {Dispatch} : pc'[b] = pc[b] /\ arg'[b] = arg[b]
        /\ pc'[Dispatch] \in {"destroy", "poll", "user"}
    <3>1. CASE refs[hand] = 1 + Cardinality({hand} \cap Polled)
      BY <1>0, <2>1, <3>1 DEF ReleaseRefs, Call, Go, TypeOK
    <3>2. CASE refs[hand] # 1 + Cardinality({hand} \cap Polled)
      <4>1. Return(Dispatch)
        BY <2>1, <3>2 DEF ReleaseRefs
      <4>2. QED
        BY <1>0, <4>1, ReturnType DEF TypeOK
    <3>3. QED
      BY <3>1, <3>2
  <2>3. QED
    BY <2>1, <2>2 DEF HandPlaces
<1>3. ASSUME ReadCommand PROVE Moved
  <2>1. /\ arg' = arg /\ pc[Dispatch] = "read" /\ pipe # <<>>
        /\ pc' = [pc EXCEPT ![Dispatch] = CASE Head(pipe).cmd = "update"   -> "peek_read"
                                            [] Head(pipe).cmd = "cancel"   -> "drain"
                                            [] Head(pipe).cmd = "shutdown" -> "remove"]
    BY <1>3 DEF ReadCommand, Go
  <2>2. Head(pipe).cmd \in {"update", "cancel", "shutdown"}
    BY <2>1, PipeLemma DEF Commanded
  <2>3. QED
    BY <1>0, <2>1, <2>2 DEF HandPlaces, TypeOK
<1>4. ASSUME HandlerReturns PROVE Moved
  BY <1>0, <1>4 DEF HandlerReturns, Go, HandPlaces, TypeOK
<1>5. ASSUME NEW place \in HandPlaces \cup {"poll", "visit", "user", "read", "ended"},
             pc[Dispatch] \in HandPlaces \cup {"poll", "visit", "read"},
             Go(Dispatch, place), arg' = arg
      PROVE  Moved
  BY <1>0, <1>5 DEF Go, TypeOK
<1>6. ASSUME Poll \/ Sweep \/ ReviseClient \/ UpdateClient \/ DispatchEnds \/ PeekRead \/ PeekWrite \/ Drain
      PROVE  Moved
  <2>1. \E place \in HandPlaces \cup {"poll", "visit", "user", "read", "ended"} : Go(Dispatch, place)
    BY <1>6 DEF Poll, Sweep, ReviseClient, UpdateClient, DispatchEnds, PeekRead, PeekWrite, Drain,
       CancelNext, Handler, HandPlaces
  <2>2. /\ pc[Dispatch] \in HandPlaces \cup {"poll", "visit", "read"} /\ arg' = arg
    BY <1>6 DEF Poll, Sweep, ReviseClient, UpdateClient, DispatchEnds, PeekRead, PeekWrite, Drain, HandPlaces
  <2>3. QED
    BY <1>5, <2>1, <2>2
<1>7. ASSUME NEW q \in Queues, NEW s \in Sides, Visit(q, s) PROVE Moved
  <2>1. pc[Dispatch] = "visit" /\ arg' = arg /\ (pc' = pc \/ Go(Dispatch, "user"))
    BY <1>7 DEF Visit, Handler
  <2>2. QED
    BY <1>0, <2>1 DEF Go, TypeOK
<1>8. Moved
  <2> HIDE DEF Moved
  <2>1. QED
    BY <1>2, <1>3, <1>4, <1>6, <1>7 DEF DispatchSteps, DispatchNext, LockedNext
<1>9. QED
  BY <1>1, <1>8

LifeSteps(a) == \/ \E q \in Queues : CreateQueue(a, q)
                \/ CreatePipe(a) \/ Destroy(a) \/ ClosePipe(a)
                \/ a \in Threads /\ (EngineInit(a) \/ EngineStop(a))

LEMMA NextSteps ==
  ASSUME [ProgramNext]_program
  PROVE  \/ \E a \in Agents : CallSteps(a) \/ LifeSteps(a)
         \/ DispatchSteps
         \/ UNCHANGED program
<1>1. Threads \subseteq Agents
  BY DEF Agents
<1>2. QED
  BY <1>1 DEF ProgramNext, LifeNext, LockNext, SendNext, CallSteps, LifeSteps, DispatchSteps

LEMMA StartedStep ==
  ASSUME TypeOK, Places, Users, Started, ~Hurried, ~Hurried', [ProgramNext]_program
  PROVE  Started'
<1>1. ASSUME NEW a \in Agents, CallSteps(a) PROVE Started'
  <2>1. /\ UNCHANGED <<life, service, engine, open>>
        /\ \A b \in Agents \ {a} : pc'[b] = pc[b]
        /\ pc[a] # "pipe" /\ pc'[a] # "pipe"
    BY <1>1, CallMove DEF engines, Calls
  <2>2. QED
    BY <2>1, StartedFrame
<1>2. ASSUME NEW a \in Agents, LifeSteps(a) PROVE Started'
  BY <1>2, StartedLife DEF LifeSteps
<1>3. CASE DispatchSteps
  <2>1. /\ UNCHANGED <<life, service, engine, open>> /\ Dispatch \in Agents
        /\ \A b \in Agents \ {Dispatch} : pc'[b] = pc[b]
        /\ pc[Dispatch] # "pipe" /\ pc'[Dispatch] # "pipe"
    BY <1>3, DispatchMove DEF engines, HandPlaces, Agents
  <2>2. QED
    BY <2>1, StartedFrame
<1>4. CASE UNCHANGED program
  BY <1>4 DEF program, queues, engines, control, Started, Alive, One
<1>5. QED
  BY <1>1, <1>2, <1>3, <1>4, NextSteps

-----------------------------------------------------------------------------
(* The phases of the dispatch.                                             *)

\* What a step that makes, destroys or leaves changes, but for the one that makes
\* the pipe.
LEMMA LifeMove ==
  ASSUME TypeOK, Places, LinesOK, NEW a \in Agents, LifeSteps(a), ~CreatePipe(a)
  PROVE  /\ UNCHANGED <<asked, pipe, clients, batch, hand, seen, after>>
         /\ \A b \in Agents \ {a} : pc'[b] = pc[b] /\ arg'[b] = arg[b]
         /\ pc[a] \in {"user", "destroy", "stop"}
         /\ pc'[a] \in {"user", "pipe", "stop", "join", "poll"}
         /\ a = Dispatch /\ pc'[a] = "poll" => after = "poll"
         /\ \A q \in Queues, s \in Sides : line'[q][s] # <<>> => line[q][s] # <<>>
<1> USE DEF requests, queues, locks, engines, control, dispatch
<1> DEFINE Moved == /\ \A b \in Agents \ {a} : pc'[b] = pc[b] /\ arg'[b] = arg[b]
                    /\ pc'[a] \in {"user", "pipe", "stop", "join", "poll"}
                    /\ a = Dispatch /\ pc'[a] = "poll" => after = "poll"
<1>1. UNCHANGED <<asked, pipe, clients, batch, hand, seen, after>>
  BY DEF LifeSteps, CreateQueue, Destroy, ClosePipe, EngineInit, EngineStop
<1>2. ASSUME Leave(a) PROVE Moved
  <2>1. CASE service = 1
    BY <1>2, <2>1 DEF Leave, Call, Go, TypeOK
  <2>2. CASE service # 1
    <3>1. Return(a)
      BY <1>2, <2>2 DEF Leave
    <3>2. QED
      BY <3>1, ReturnType DEF TypeOK, Back
  <2>3. QED
    BY <2>1, <2>2
<1>3. ASSUME NEW q \in Queues, CreateQueue(a, q)
      PROVE  Moved /\ pc[a] = "user" /\ line' = line
  <2>1. pc[a] = "user" /\ line' = line
    BY <1>3 DEF CreateQueue
  <2>2. pc'[a] \in {"user", "pipe"} /\ \A b \in Agents \ {a} : pc'[b] = pc[b] /\ arg'[b] = arg[b]
    BY <1>3 DEF CreateQueue, Join, Usable, Call, Go, TypeOK
  <2>3. QED
    BY <2>1, <2>2
<1>4. ASSUME Destroy(a)
      PROVE  /\ Moved /\ pc[a] = "destroy"
             /\ \A q \in Queues, s \in Sides : line'[q][s] # <<>> => line[q][s] # <<>>
  <2>1. /\ pc[a] = "destroy" /\ Leave(a)
        /\ line' = [line EXCEPT ![arg[a].queue] = [s \in Sides |-> <<>>]]
    BY <1>4 DEF Destroy
  <2>2. \A q \in Queues, s \in Sides : line'[q][s] # <<>> => line[q][s] # <<>>
    BY <2>1 DEF LinesOK
  <2>3. QED
    BY <1>2, <2>1, <2>2
<1>5. ASSUME ClosePipe(a) \/ (a \in Threads /\ EngineInit(a))
      PROVE  Moved /\ pc[a] \in {"user", "stop"} /\ line' = line
  <2>1. /\ pc[a] \in {"user", "stop"} /\ line' = line /\ arg' = arg
        /\ (pc' = pc /\ pc[a] = "user") \/ (\E place \in {"join", "pipe"} : pc' = [pc EXCEPT ![a] = place])
    BY <1>5 DEF ClosePipe, EngineInit, Go
  <2>2. QED
    BY <2>1 DEF TypeOK
<1>6. ASSUME EngineStop(a) PROVE Moved /\ pc[a] = "user" /\ line' = line
  BY <1>2, <1>6 DEF EngineStop
<1>7. QED
  <2> HIDE DEF Moved
  <2>1. /\ Moved /\ pc[a] \in {"user", "destroy", "stop"}
        /\ \A q \in Queues, s \in Sides : line'[q][s] # <<>> => line[q][s] # <<>>
    BY <1>3, <1>4, <1>5, <1>6 DEF LifeSteps
  <2> USE DEF Moved
  <2>2. QED
    BY <1>1, <2>1

LEMMA PhasesFrame ==
  ASSUME TypeOK, Phases, NEW a \in Agents, UNCHANGED <<batch, hand, after, clients>>,
         \A b \in Agents \ {a} : pc'[b] = pc[b],
         pc[a] # "visit", pc'[a] \notin {"none", "ended", "visit", "drain"},
         a = Dispatch /\ pc'[a] = "poll" => after = "poll"
  PROVE  Phases'
<1>1. /\ pc'[Dispatch] # "visit" <=> pc[Dispatch] # "visit"
      /\ pc'[Dispatch] \in {"none", "poll", "ended"} => after = "poll"
      /\ pc'[Dispatch] = "drain" => pc[Dispatch] = "drain"
  BY DEF Phases, Agents
<1>2. Polled' = Polled
  BY DEF Polled
<1>3. QED
  BY <1>1, <1>2 DEF Phases

LEMMA PhasesStep ==
  ASSUME TypeOK, Places, Users, LinesOK, Phases, [ProgramNext]_program
  PROVE  Phases'
<1> USE DEF requests, queues, locks, engines, control, dispatch
<1>0. Dispatch \in Agents
  BY DEF Agents
<1>1. ASSUME NEW a \in Agents, CallSteps(a) PROVE Phases'
  <2>1. /\ UNCHANGED <<batch, hand, after, clients>>
        /\ \A b \in Agents \ {a} : pc'[b] = pc[b]
        /\ pc[a] # "visit" /\ pc'[a] \notin {"none", "ended", "visit", "drain"}
        /\ a = Dispatch /\ pc'[a] = "poll" => after = "poll"
    BY <1>1, CallMove DEF Calls
  <2>2. QED
    BY <2>1, PhasesFrame
<1>2. ASSUME NEW a \in Agents, LifeSteps(a), ~CreatePipe(a) PROVE Phases'
  <2>1. /\ UNCHANGED <<batch, hand, after, clients>>
        /\ \A b \in Agents \ {a} : pc'[b] = pc[b]
        /\ pc[a] # "visit" /\ pc'[a] \notin {"none", "ended", "visit", "drain"}
        /\ a = Dispatch /\ pc'[a] = "poll" => after = "poll"
    BY <1>2, LifeMove
  <2>2. QED
    BY <2>1, PhasesFrame
<1>3. ASSUME NEW a \in Agents, CreatePipe(a) PROVE Phases'
  <2>1. /\ pc[a] = "pipe" /\ pc' = [pc EXCEPT ![a] = Back(a), ![Dispatch] = "poll"]
        /\ after' = "poll" /\ UNCHANGED <<batch, hand, clients>>
    BY <1>3 DEF CreatePipe
  <2>2. pc[Dispatch] \in {"none", "ended"} /\ after = "poll" /\ batch = {}
    BY <1>3 DEF CreatePipe, Phases
  <2>3. pc'[Dispatch] = "poll"
    BY <1>0, <2>1, <2>2 DEF TypeOK
  <2>4. QED
    BY <2>1, <2>2, <2>3 DEF Phases
<1>4. ASSUME Poll PROVE Phases'
  <2>1. /\ pc'[Dispatch] = "visit" /\ batch' \subseteq Polled \X Sides /\ after = "poll"
        /\ UNCHANGED <<clients, hand, after>>
    BY <1>0, <1>4 DEF Poll, Go, TypeOK, Phases
  <2>2. QED
    BY <2>1 DEF Phases, Polled
<1>5. ASSUME NEW q \in Queues, NEW s \in Sides, Visit(q, s) PROVE Phases'
  <2>1. /\ pc[Dispatch] = "visit" /\ <<q, s>> \in batch /\ batch' = batch \ {<<q, s>>} /\ clients' = clients
        /\ \/ UNCHANGED <<pc, hand, after>>
           \/ pc'[Dispatch] = "user" /\ after' = "visit"
           \/ pc'[Dispatch] = "user" /\ after' = "revise" /\ hand' = q
    BY <1>0, <1>5 DEF Visit, Handler, Go, TypeOK
  <2>2. q \in Polled
    BY <2>1 DEF Phases
  <2>3. batch' \subseteq Polled' \X Sides /\ Polled' = Polled
    BY <2>1 DEF Phases, Polled
  <2>4. QED
    BY <2>1, <2>2, <2>3 DEF Phases
<1>6. ASSUME HandlerReturns PROVE Phases'
  <2>1. /\ pc[Dispatch] = "user" /\ UNCHANGED <<batch, hand, after, clients>>
        /\ pc'[Dispatch] = IF after = "revise" THEN "peek_read" ELSE after
    BY <1>0, <1>6 DEF HandlerReturns, Go, TypeOK
  <2>2. after \in {"poll", "visit", "revise", "drain"}
    BY DEF TypeOK
  <2>3. QED
    BY <2>1, <2>2 DEF Phases, Polled
<1>7. ASSUME Sweep PROVE Phases'
  <2>1. batch' = {} /\ after' = "poll" /\ pc'[Dispatch] \in {"read", "poll"}
    BY <1>0, <1>7 DEF Sweep, Go, TypeOK
  <2>2. QED
    BY <2>1 DEF Phases
<1>8. ASSUME ReadCommand PROVE Phases'
  <2>1. /\ pc[Dispatch] = "read" /\ UNCHANGED <<batch, after, clients>>
        /\ pc'[Dispatch] \in HandPlaces \cup {"poll", "visit", "user", "read", "destroy", "ended"}
    BY <1>8, DispatchMove DEF ReadCommand, DispatchSteps, DispatchNext
  <2>2. after = "poll" /\ batch = {}
    BY <2>1 DEF Places, Phases
  <2>3. QED
    BY <2>1, <2>2 DEF Phases
<1>9. ASSUME PeekRead \/ PeekWrite PROVE Phases'
  <2>1. /\ pc[Dispatch] \in {"peek_read", "peek_write"} /\ UNCHANGED <<batch, hand, after, clients>>
        /\ pc'[Dispatch] \in {"peek_write", "assign"}
    BY <1>0, <1>9 DEF PeekRead, PeekWrite, Go, TypeOK
  <2>2. QED
    BY <2>1 DEF Phases, Polled
<1>10. ASSUME ReviseClient PROVE Phases'
  <2>1. /\ pc[Dispatch] = "assign" /\ after = "revise" /\ UNCHANGED <<batch, hand, after>>
        /\ clients' = [clients EXCEPT ![hand] = seen] /\ pc'[Dispatch] = "visit"
    BY <1>0, <1>10 DEF ReviseClient, Revise, Go, TypeOK
  <2>2. Polled' = Polled
    BY <2>1 DEF Polled
  <2>3. QED
    BY <2>1, <2>2 DEF Phases
<1>11. ASSUME UpdateClient \/ RemoveClient \/ DispatchEnds PROVE Phases'
  <2>1. /\ pc[Dispatch] \in {"assign", "remove", "read", "poll"} /\ after = "poll"
        /\ UNCHANGED <<batch, after>>
    BY <1>11 DEF UpdateClient, RemoveClient, DispatchEnds, Places, Phases
  <2>2. batch = {}
    BY <2>1 DEF Phases
  <2>3. QED
    BY <2>1, <2>2 DEF Phases
<1>12. ASSUME Drain PROVE Phases'
  <2>1. /\ pc[Dispatch] = "drain" /\ batch' = batch
        /\ \/ pc'[Dispatch] = "user" /\ after' = "drain"
           \/ pc'[Dispatch] = "remove" /\ after' = "poll"
    BY <1>0, <1>12 DEF Drain, CancelNext, Handler, Go, TypeOK
  <2>2. batch = {}
    BY <2>1 DEF Phases
  <2>3. QED
    BY <2>1, <2>2 DEF Phases
<1>13. CASE UNCHANGED program
  BY <1>13 DEF program, Phases, Polled
<1>14. QED
  BY <1>1, <1>2, <1>3, <1>4, <1>5, <1>6, <1>7, <1>8, <1>9, <1>10, <1>11, <1>12, <1>13, NextSteps
     DEF DispatchSteps, DispatchNext, LockedNext

-----------------------------------------------------------------------------
(* What the dispatch knows.                                                *)

\* What the dispatch has been told of a queue stays in the pipe, or with the caller.
LEMMA ToldFrame ==
  ASSUME TypeOK, NEW a \in Agents, NEW q \in Queues,
         \A b \in Agents \ {a} : pc'[b] = pc[b] /\ arg'[b] = arg[b],
         \A i \in DOMAIN pipe : i \in DOMAIN pipe' /\ pipe'[i] = pipe[i],
         arg[a].queue = q /\ arg[a].cmd = "update" /\ pc[a] \in {"root", "write"} => Told(q)',
         Told(q)
  PROVE  Told(q)'
<1>1. CASE \E i \in DOMAIN pipe : pipe[i].cmd = "update" /\ pipe[i].queue = q
  <2>1. \E i \in DOMAIN pipe' : pipe'[i].cmd = "update" /\ pipe'[i].queue = q
    BY <1>1
  <2>2. QED
    BY <2>1 DEF Told
<1>2. CASE \E b \in Agents : /\ arg[b].queue = q /\ arg[b].cmd = "update"
                              /\ pc[b] \in {"root", "write"}
  <2>1. PICK b \in Agents : arg[b].queue = q /\ arg[b].cmd = "update" /\ pc[b] \in {"root", "write"}
    BY <1>2
  <2>2. CASE b = a
    BY <2>1, <2>2
  <2>3. CASE b # a
    BY <2>1, <2>3 DEF Told
  <2>4. QED
    BY <2>2, <2>3
<1>3. QED
  BY <1>1, <1>2 DEF Told

LEMMA WatchedFrame ==
  ASSUME TypeOK, Watched, NEW a \in Agents, UNCHANGED <<clients, hand, seen>>,
         \A b \in Agents \ {a} : pc'[b] = pc[b] /\ arg'[b] = arg[b],
         pc[a] \in Calls \cup {"user", "destroy", "stop", "join"}, pc[a] = "join" => a # Dispatch,
         pc'[a] \in Calls \cup {"user", "destroy", "stop", "join", "poll", "pipe"},
         \A q \in Queues : asked[q] \subseteq asked'[q],
         \A q \in Queues, s \in Sides : line'[q][s] # <<>> => line[q][s] # <<>> \/ Told(q)',
         \A q \in Queues : Told(q) => Told(q)'
  PROVE  Watched'
<1>1. ASSUME Running' PROVE Running
  <2>1. CASE a = Dispatch
    BY <2>1 DEF Running, Calls
  <2>2. CASE a # Dispatch
    BY <1>1, <2>2 DEF Running, Agents
  <2>3. QED
    BY <2>1, <2>2
<1>2. ASSUME NEW q \in Queues, NEW s \in Sides
      PROVE  (WillLook(q, s) => WillLook(q, s)') /\ (Looking(q)' => Looking(q))
  <2>1. CASE a = Dispatch
    BY <2>1 DEF WillLook, Looking, Calls
  <2>2. CASE a # Dispatch
    BY <2>2 DEF WillLook, Looking, Agents
  <2>3. QED
    BY <2>1, <2>2
<1>3. ASSUME NEW q \in Queues, NEW s \in Sides, Watch(q, s) PROVE Watch(q, s)'
  <2>1. /\ Told(q) => Told(q)'
        /\ WillLook(q, s) => WillLook(q, s)'
        /\ Looking(q)' => Looking(q)
        /\ line'[q][s] # <<>> => line[q][s] # <<>> \/ Told(q)'
        /\ "release" \notin asked'[q] => "release" \notin asked[q]
        /\ clients' = clients /\ Polled' = Polled
    BY <1>2 DEF Polled
  <2>2. QED
    BY <1>3, <2>1 DEF Watch
<1>4. QED
  BY <1>1, <1>3 DEF Watched

LEMMA WatchedCall ==
  ASSUME TypeOK, Places, Users, LinesOK, Served, Started, Watched, NEW a \in Agents, CallSteps(a)
  PROVE  Watched'
<1> USE DEF requests, queues, locks, engines, control, dispatch
<1>1. /\ UNCHANGED <<clients, hand, seen>>
      /\ \A b \in Agents \ {a} : pc'[b] = pc[b] /\ arg'[b] = arg[b]
      /\ pc[a] \in Calls \cup {"user", "destroy", "stop", "join"}
      /\ pc[a] = "join" => a # Dispatch
      /\ pc'[a] \in Calls \cup {"user", "destroy", "stop", "join", "poll", "pipe"}
  BY CallMove
<1>2. ASSUME NEW q \in Queues, Cancel(a, q) \/ Release(a, q) PROVE Watched'
  <2>1. /\ UNCHANGED <<line, pipe>> /\ pc[a] = "user"
        /\ \E what \in {"cancel", "release"} : asked' = [asked EXCEPT ![q] = @ \cup {what}]
    BY <1>2 DEF Cancel, Release, Usable
  <2>2. \A p \in Queues : asked[p] \subseteq asked'[p]
    BY <2>1 DEF TypeOK
  <2>3. \A p \in Queues : Told(p) => Told(p)'
    BY <1>1, <2>1, ToldFrame
  <2>4. QED
    BY <1>1, <2>1, <2>2, <2>3, WatchedFrame
<1>3. ASSUME pc[a] \notin {"root", "write"}, UNCHANGED <<line, asked, pipe>> PROVE Watched'
  <2>1. \A p \in Queues : Told(p) => Told(p)'
    BY <1>1, <1>3, ToldFrame
  <2>2. QED
    BY <1>1, <1>3, <2>1, WatchedFrame
<1>4. ASSUME \/ \E q \in Queues, r \in Requests : BeginEnqueue(a, q, r)
             \/ AwaitDispatch(a) \/ ConnectAtOnce(a) \/ Retain(a) \/ DropChannel(a)
      PROVE  pc[a] \notin {"root", "write"} /\ UNCHANGED <<line, asked, pipe>>
  BY <1>4 DEF BeginEnqueue, AwaitDispatch, ConnectAtOnce, Retain, DropChannel, Usable
<1>5. ASSUME PushRequest(a) PROVE Watched'
  <2>1. PICK q, r, s : q = arg[a].queue /\ r = arg[a].request /\ s = SideOf(r)
    OBVIOUS
  <2>2. /\ pc[a] = "local" /\ line' = [line EXCEPT ![q][s] = Append(@, r)]
        /\ UNCHANGED <<asked, pipe, arg>> /\ pc' = [pc EXCEPT ![a] = "root"]
    BY <1>5, <2>1 DEF PushRequest, Go
  <2>3. arg[a].cmd = "update" /\ q \in Queues /\ s \in Sides
    BY <2>1, <2>2, AtLocal, InHandLemma, SideLemma
  <2>4. pc'[a] = "root" /\ arg'[a].queue = q /\ arg'[a].cmd = "update"
    BY <2>1, <2>2, <2>3 DEF TypeOK
  <2>5. Told(q)'
    BY <2>4 DEF Told
  <2>6. \A p \in Queues : Told(p) => Told(p)'
    BY <1>1, <2>2, ToldFrame
  <2>7. \A p \in Queues, x \in Sides : p # q => line'[p][x] = line[p][x]
    BY <2>2, <2>3 DEF LinesOK
  <2>8. \A p \in Queues, x \in Sides : line'[p][x] # <<>> => line[p][x] # <<>> \/ Told(p)'
    <3>1. ASSUME NEW p \in Queues, NEW x \in Sides, line'[p][x] # <<>>
          PROVE  line[p][x] # <<>> \/ Told(p)'
      <4>1. CASE p = q
        <5>1. Told(p)'
          BY <2>5, <4>1 DEF Told
        <5>2. QED
          BY <5>1
      <4>2. CASE p # q
        BY <2>7, <3>1, <4>2
      <4>3. QED
        BY <4>1, <4>2
    <3>2. QED
      BY <3>1
  <2>9. QED
    BY <1>1, <2>2, <2>6, <2>8, WatchedFrame
<1>6. ASSUME AcquireRoot(a) PROVE Watched'
  <2>1. /\ pc[a] = "root" /\ pc'[a] = "write" /\ UNCHANGED <<line, asked, pipe, arg>>
    BY <1>6 DEF AcquireRoot, Go, TypeOK
  <2>2. ASSUME NEW p \in Queues, Told(p) PROVE Told(p)'
    <3>1. arg[a].queue = p /\ arg[a].cmd = "update" => Told(p)'
      BY <2>1 DEF Told
    <3>2. QED
      BY <1>1, <2>1, <2>2, <3>1, ToldFrame
  <2>3. QED
    BY <1>1, <2>1, <2>2, WatchedFrame
<1>7. ASSUME WriteCommand(a) PROVE Watched'
  <2>1. PICK c : c = [cmd |-> arg[a].cmd, queue |-> arg[a].queue]
    OBVIOUS
  <2>2. pc[a] = "write" /\ pipe' = Append(pipe, c) /\ UNCHANGED <<line, asked>>
    BY <1>7, <2>1 DEF WriteCommand
  <2>3. c \in Commanded
    BY <2>1, <2>2 DEF Commanded, TypeOK, Places, Calls
  <2>4. /\ DOMAIN pipe' = DOMAIN pipe \cup {Len(pipe) + 1} /\ pipe'[Len(pipe) + 1] = c
        /\ \A i \in DOMAIN pipe : pipe'[i] = pipe[i]
    BY <2>2, <2>3, PipeLemma
  <2>5. ASSUME NEW p \in Queues, Told(p) PROVE Told(p)'
    <3>1. arg[a].queue = p /\ arg[a].cmd = "update" => Told(p)'
      BY <2>1, <2>4 DEF Told
    <3>2. QED
      BY <1>1, <2>4, <2>5, <3>1, ToldFrame
  <2>6. QED
    BY <1>1, <2>2, <2>5, WatchedFrame
\* Nobody is refused while the dispatch runs: the queue keeps the pipe open.
<1>8. ASSUME SendFails(a) PROVE Watched'
  <2>1. pc[a] = "write" /\ (~open \/ pc[Dispatch] = "ended")
    BY <1>8 DEF SendFails
  <2>2. arg[a].queue \in Alive
    BY <2>1 DEF Alive, Users, Places, TypeOK, Calls
  <2>3. pc[Dispatch] = "ended" /\ a # Dispatch
    BY <2>1, <2>2 DEF Started
  <2>4. pc'[Dispatch] = "ended"
    BY <1>1, <2>3 DEF Agents
  <2>5. QED
    BY <2>4 DEF Watched, Running
<1>9. QED
  BY <1>2, <1>3, <1>4, <1>5, <1>6, <1>7, <1>8 DEF CallSteps

LEMMA WatchedLife ==
  ASSUME TypeOK, Places, Users, LinesOK, Served, Started, Watched, NEW a \in Agents, LifeSteps(a)
  PROVE  Watched'
<1>1. CASE ~CreatePipe(a)
  <2>1. /\ UNCHANGED <<asked, pipe, clients, hand, seen>>
        /\ \A b \in Agents \ {a} : pc'[b] = pc[b] /\ arg'[b] = arg[b]
        /\ pc[a] \in Calls \cup {"user", "destroy", "stop", "join"}
        /\ pc[a] \notin {"root", "write", "join"}
        /\ pc'[a] \in Calls \cup {"user", "destroy", "stop", "join", "poll", "pipe"}
        /\ \A q \in Queues, s \in Sides : line'[q][s] # <<>> => line[q][s] # <<>>
    BY <1>1, LifeMove
  <2>2. \A p \in Queues : Told(p) => Told(p)'
    BY <2>1, ToldFrame
  <2>3. \A q \in Queues, s \in Sides : line'[q][s] # <<>> => line[q][s] # <<>> \/ Told(q)'
    BY <2>1
  <2>4. QED
    BY <2>1, <2>2, <2>3, WatchedFrame
<1>2. CASE CreatePipe(a)
  <2>1. pc[a] = "pipe" /\ line' = line
    BY <1>2 DEF CreatePipe, requests
  <2>2. Alive = {}
    BY <2>1 DEF Started
  <2>3. \A q \in Queues, s \in Sides : line[q][s] = <<>>
    BY <2>2 DEF Served, Owned, Alive
  <2>4. QED
    BY <2>1, <2>3 DEF Watched, Watch
<1>3. QED
  BY <1>1, <1>2

\* A step of the dispatch that reads no command.
LEMMA ToldStays ==
  ASSUME TypeOK, Places, DispatchSteps, UNCHANGED pipe, NEW q \in Queues, Told(q)
  PROVE  Told(q)'
<1>1. /\ \A b \in Agents \ {Dispatch} : pc'[b] = pc[b] /\ arg'[b] = arg[b]
      /\ pc[Dispatch] \notin {"root", "write"} /\ Dispatch \in Agents
  BY DispatchMove DEF HandPlaces, Agents
<1>2. QED
  BY <1>1, ToldFrame

\* A step after which no more requests wait, as many sides are polled, and the
\* dispatch is not about to look.
LEMMA WatchedDispatchFrame ==
  ASSUME TypeOK, Places, Watched, DispatchSteps, UNCHANGED pipe,
         \A q \in Queues, s \in Sides : line'[q][s] # <<>> => line[q][s] # <<>>,
         \A q \in Queues, s \in Sides :
           q \in Polled /\ s \in clients[q] => q \in Polled' /\ s \in clients'[q],
         pc[Dispatch] \in {"poll", "visit", "user", "drain"},
         pc'[Dispatch] \in {"poll", "visit", "user", "read", "drain"}
  PROVE  Watched'
<1>1. Running
  BY DEF Running
<1>2. ASSUME NEW q \in Queues, NEW s \in Sides PROVE Watch(q, s)'
  <2>1. Watch(q, s) /\ asked' = asked
    BY <1>1, DispatchMove DEF Watched
  <2>2. ~WillLook(q, s) /\ ~Looking(q)'
    BY DEF WillLook, Looking
  <2>3. Told(q) => Told(q)'
    BY ToldStays
  <2>4. QED
    BY <2>1, <2>2, <2>3 DEF Watch
<1>3. QED
  BY <1>2 DEF Watched

LEMMA WatchedVisit ==
  ASSUME TypeOK, Places, LinesOK, Watched,
         Poll \/ Sweep \/ \E q \in Queues, s \in Sides : Visit(q, s)
  PROVE  Watched'
<1> USE DEF requests, queues, locks, engines, control, dispatch
<1>0. Dispatch \in Agents /\ DispatchSteps
  BY DEF Agents, DispatchSteps, DispatchNext, LockedNext
<1>1. CASE Poll
  <2>1. /\ pc[Dispatch] = "poll" /\ pc'[Dispatch] = "visit" /\ UNCHANGED <<line, pipe, clients>>
    BY <1>0, <1>1 DEF Poll, Go, TypeOK
  <2>2. QED
    BY <1>0, <2>1, WatchedDispatchFrame DEF Polled
<1>2. CASE Sweep
  <2>1. /\ pc[Dispatch] = "visit" /\ pc'[Dispatch] \in {"read", "poll"} /\ UNCHANGED <<line, pipe>>
        /\ clients' = Without({q \in Polled : clients[q] = {}})
    BY <1>0, <1>2 DEF Sweep, Go, TypeOK
  <2>2. ASSUME NEW q \in Queues, NEW s \in Sides, q \in Polled, s \in clients[q]
        PROVE  q \in Polled' /\ s \in clients'[q]
    BY <2>1, <2>2 DEF Without, Polled
  <2>3. QED
    BY <1>0, <2>1, <2>2, WatchedDispatchFrame
<1>3. ASSUME NEW q \in Queues, NEW s \in Sides, Visit(q, s) PROVE Watched'
  <2>1. /\ pc[Dispatch] = "visit" /\ pc'[Dispatch] \in {"visit", "user"} /\ UNCHANGED <<pipe, clients>>
        /\ \/ line' = line
           \/ line[q][s] # <<>> /\ line' = [line EXCEPT ![q][s] = Tail(@)]
    BY <1>0, <1>3 DEF Visit, Handler, Go, TypeOK
  <2>2. ASSUME NEW p \in Queues, NEW x \in Sides, line'[p][x] # <<>> PROVE line[p][x] # <<>>
    BY <2>1, <2>2 DEF LinesOK
  <2>3. QED
    BY <1>0, <2>1, <2>2, WatchedDispatchFrame DEF Polled
<1>4. QED
  BY <1>1, <1>2, <1>3

LEMMA WatchedHandler ==
  ASSUME TypeOK, Places, LinesOK, Watched, HandlerReturns \/ Drain
  PROVE  Watched'
<1> USE DEF requests, queues, locks, engines, control, dispatch
<1>0. Dispatch \in Agents /\ DispatchSteps /\ Running
  BY DEF Agents, DispatchSteps, DispatchNext, LockedNext, HandlerReturns, Drain, Running
<1>1. CASE HandlerReturns
  <2>1. /\ pc[Dispatch] = "user" /\ UNCHANGED <<line, asked, pipe, clients, hand>>
        /\ pc'[Dispatch] = IF after = "revise" THEN "peek_read" ELSE after
    BY <1>0, <1>1 DEF HandlerReturns, Go, TypeOK
  <2>2. CASE after = "revise"
    <3>1. ASSUME NEW q \in Queues, NEW s \in Sides PROVE Watch(q, s)'
      <4>1. Watch(q, s) /\ (Told(q) => Told(q)') /\ ~WillLook(q, s)
        BY <1>0, <2>1, ToldStays DEF Watched, WillLook
      <4>2. CASE hand = q
        BY <2>1, <2>2, <4>2 DEF Watch, WillLook
      <4>3. CASE hand # q
        BY <2>1, <4>1, <4>3 DEF Watch, Looking, Polled
      <4>4. QED
        BY <4>2, <4>3
    <3>2. QED
      BY <3>1 DEF Watched
  <2>3. CASE after # "revise"
    <3>1. pc'[Dispatch] \in {"poll", "visit", "drain"}
      BY <2>1, <2>3 DEF TypeOK
    <3>2. QED
      BY <1>0, <2>1, <3>1, WatchedDispatchFrame DEF Polled
  <2>4. QED
    BY <2>2, <2>3
<1>2. CASE Drain
  <2>1. /\ pc[Dispatch] = "drain" /\ UNCHANGED <<asked, pipe, clients, hand>> /\ hand \in Queues
    BY <1>2 DEF Drain, Places, HandPlaces, TypeOK
  <2>2. ASSUME NEW s \in Sides, CancelNext(s) PROVE Watched'
    <3>1. /\ line[hand][s] # <<>> /\ line' = [line EXCEPT ![hand][s] = Tail(@)]
          /\ pc'[Dispatch] = "user"
      BY <1>0, <2>2 DEF CancelNext, Handler, Go, TypeOK
    <3>2. ASSUME NEW p \in Queues, NEW x \in Sides, line'[p][x] # <<>> PROVE line[p][x] # <<>>
      BY <2>1, <3>1, <3>2 DEF LinesOK
    <3>3. QED
      BY <1>0, <2>1, <3>1, <3>2, WatchedDispatchFrame DEF Polled
  \* The queue is empty when it is removed.
  <2>3. CASE PendingOf(hand) = {} /\ Go(Dispatch, "remove") /\ UNCHANGED line
    <3>1. pc'[Dispatch] = "remove"
      BY <1>0, <2>3 DEF Go, TypeOK
    <3>2. ASSUME NEW s \in Sides PROVE line[hand][s] = <<>>
      <4>1. PICK t : t = line[hand][s]
        OBVIOUS
      <4>2. t \in Seq(Requests)
        BY <2>1, <4>1 DEF LinesOK
      <4>3. \A i \in DOMAIN t : t[i] \in PendingOf(hand)
        BY <4>1 DEF PendingOf, Members
      <4>4. DOMAIN t = {}
        BY <2>3, <4>3
      <4>5. t # <<>> => Len(t) > 0 /\ DOMAIN t = 1..Len(t) /\ Len(t) \in Nat
        BY <4>2, SeqLemma
      <4>6. t # <<>> => 1 \in DOMAIN t
        BY <4>5
      <4>7. QED
        BY <4>1, <4>4, <4>6
    <3>3. ASSUME NEW q \in Queues, NEW s \in Sides PROVE Watch(q, s)'
      <4>1. Watch(q, s) /\ (Told(q) => Told(q)') /\ ~WillLook(q, s)
        BY <1>0, <2>1, ToldStays DEF Watched, WillLook
      <4>2. CASE hand = q
        BY <2>3, <3>2, <4>2 DEF Watch
      <4>3. CASE hand # q
        BY <2>1, <2>3, <4>1, <4>3 DEF Watch, Looking, Polled
      <4>4. QED
        BY <4>2, <4>3
    <3>4. QED
      BY <3>3 DEF Watched
  <2>4. QED
    BY <1>2, <2>2, <2>3 DEF Drain, Sides
<1>3. QED
  BY <1>1, <1>2

LEMMA WatchedCommand ==
  ASSUME TypeOK, Places, Served, Watched, ReadCommand
  PROVE  Watched'
<1> USE DEF requests, queues, locks, engines, control, dispatch
<1>0. Dispatch \in Agents /\ DispatchSteps /\ Running
  BY DEF Agents, DispatchSteps, DispatchNext, ReadCommand, Running
<1>1. /\ pc[Dispatch] = "read" /\ pipe # <<>> /\ pipe' = Tail(pipe) /\ hand' = Head(pipe).queue
      /\ UNCHANGED <<line, asked, clients>>
      /\ pc' = [pc EXCEPT ![Dispatch] = CASE Head(pipe).cmd = "update"   -> "peek_read"
                                          [] Head(pipe).cmd = "cancel"   -> "drain"
                                          [] Head(pipe).cmd = "shutdown" -> "remove"]
  BY DEF ReadCommand, Go
<1>2. PICK c : c = Head(pipe)
  OBVIOUS
<1>3. /\ c = pipe[1] /\ 1 \in DOMAIN pipe /\ c.cmd \in {"update", "cancel", "shutdown"}
  BY <1>1, <1>2, PipeLemma DEF Commanded
<1>4. pc'[Dispatch] = CASE c.cmd = "update" -> "peek_read" [] c.cmd = "cancel" -> "drain"
                        [] c.cmd = "shutdown" -> "remove"
  BY <1>0, <1>1, <1>2 DEF TypeOK
<1>5. c.cmd = "shutdown" => "release" \in asked[c.queue]
  BY <1>3 DEF Served, Asks, Meant
\* Only the command read is told no more.
<1>6. ASSUME NEW q \in Queues, Told(q), ~(c.cmd = "update" /\ c.queue = q) PROVE Told(q)'
  <2>1. CASE \E i \in DOMAIN pipe : pipe[i].cmd = "update" /\ pipe[i].queue = q
    <3>1. PICK i \in DOMAIN pipe : pipe[i].cmd = "update" /\ pipe[i].queue = q
      BY <2>1
    <3>2. /\ pipe \in Seq(Commanded) /\ pipe # <<>> /\ i # 1
      BY <1>1, <1>3, <1>6, <3>1 DEF TypeOK, Commanded
    <3>3. i - 1 \in DOMAIN Tail(pipe) /\ Tail(pipe)[i - 1] = pipe[i]
      BY <3>1, <3>2
    <3>4. \E j \in DOMAIN pipe' : pipe'[j].cmd = "update" /\ pipe'[j].queue = q
      BY <1>1, <3>1, <3>3
    <3>5. QED
      BY <3>4 DEF Told
  <2>2. CASE \E a \in Agents : /\ arg[a].queue = q /\ arg[a].cmd = "update"
                                /\ pc[a] \in {"root", "write"}
    <3>1. PICK a \in Agents : arg[a].queue = q /\ arg[a].cmd = "update" /\ pc[a] \in {"root", "write"}
      BY <2>2
    <3>2. a # Dispatch
      BY <1>1, <3>1
    <3>3. pc'[a] = pc[a] /\ arg'[a] = arg[a]
      BY <1>0, <3>2, DispatchMove
    <3>4. QED
      BY <3>1, <3>3 DEF Told
  <2>3. QED
    BY <1>6, <2>1, <2>2 DEF Told
<1>7. ASSUME NEW q \in Queues, NEW s \in Sides PROVE Watch(q, s)'
  <2>1. Watch(q, s) /\ ~WillLook(q, s) /\ ~Looking(q)
    BY <1>0, <1>1 DEF Watched, WillLook, Looking
  <2>2. CASE c.queue # q
    <3>1. ~Looking(q)' /\ (Told(q) => Told(q)')
      BY <1>1, <1>2, <1>6, <2>2 DEF Looking
    <3>2. QED
      BY <1>1, <2>1, <3>1 DEF Watch, Polled
  <2>3. CASE c.queue = q /\ c.cmd = "update"
    BY <1>1, <1>2, <1>4, <2>3 DEF Watch, WillLook
  <2>4. CASE c.queue = q /\ c.cmd = "cancel"
    <3>1. ~Looking(q)' /\ (Told(q) => Told(q)')
      BY <1>4, <1>6, <2>4 DEF Looking
    <3>2. QED
      BY <1>1, <2>1, <3>1 DEF Watch, Polled
  <2>5. CASE c.queue = q /\ c.cmd = "shutdown"
    BY <1>1, <1>5, <2>5 DEF Watch
  <2>6. QED
    BY <1>3, <2>2, <2>3, <2>4, <2>5
<1>8. QED
  BY <1>7 DEF Watched

\* The dispatch looks at both sides, then sets what it polls for.
LEMMA WatchedLook ==
  ASSUME TypeOK, Places, Phases, Watched, NEW q \in Queues, NEW s \in Sides,
         PeekRead \/ PeekWrite \/ ReviseClient \/ UpdateClient \/ RemoveClient
  PROVE  Watch(q, s)'
<1> USE DEF requests, queues, locks, engines, control, dispatch
<1>0. Dispatch \in Agents /\ DispatchSteps /\ Running /\ UNCHANGED <<line, asked, pipe, hand>>
  BY DEF Agents, DispatchSteps, DispatchNext, LockedNext, PeekRead, PeekWrite, ReviseClient,
     UpdateClient, RemoveClient, Running
<1>1. Watch(q, s) /\ (Told(q) => Told(q)') /\ s \in {"read", "write"}
  BY <1>0, ToldStays DEF Watched, Sides
<1>2. CASE hand # q
  <2>1. (q \in Polled /\ s \in clients[q] => q \in Polled' /\ s \in clients'[q])
    BY <1>2 DEF PeekRead, PeekWrite, ReviseClient, UpdateClient, RemoveClient, Revise, Inserted,
       Without, Polled
  <2>2. ~WillLook(q, s) /\ ~Looking(q)'
    BY <1>0, <1>2 DEF WillLook, Looking
  <2>3. QED
    BY <1>0, <1>1, <2>1, <2>2 DEF Watch
<1>3. CASE hand = q /\ PeekRead
  <2>1. /\ pc'[Dispatch] = "peek_write"
        /\ line[q]["read"] # <<>> => "read" \in seen'
    BY <1>0, <1>3 DEF PeekRead, Peek, Go, TypeOK
  <2>2. QED
    BY <1>0, <1>1, <1>3, <2>1 DEF Watch, WillLook
<1>4. CASE hand = q /\ PeekWrite
  <2>1. /\ pc[Dispatch] = "peek_write" /\ pc'[Dispatch] = "assign"
        /\ line[q]["write"] # <<>> => "write" \in seen'
        /\ "read" \in seen => "read" \in seen'
    BY <1>0, <1>4 DEF PeekWrite, Peek, Go, TypeOK
  <2>2. Looking(q)
    BY <1>4, <2>1 DEF Looking
  <2>3. QED
    BY <1>0, <1>1, <1>4, <2>1, <2>2 DEF Watch, WillLook
<1>5. CASE hand = q /\ ReviseClient
  <2>1. /\ pc[Dispatch] = "assign" /\ pc'[Dispatch] = "visit" /\ q \in Polled
        /\ clients' = [clients EXCEPT ![q] = seen]
    BY <1>0, <1>5 DEF ReviseClient, Revise, Go, TypeOK, Phases
  <2>2. Looking(q) /\ ~Looking(q)' /\ (WillLook(q, s) => s \in seen)
    BY <1>5, <2>1 DEF Looking, WillLook
  <2>3. q \in Polled' /\ clients'[q] = seen
    BY <2>1 DEF Polled
  <2>4. QED
    BY <1>0, <1>1, <2>2, <2>3 DEF Watch
<1>6. CASE hand = q /\ UpdateClient
  <2>1. pc[Dispatch] = "assign" /\ Looking(q) /\ (WillLook(q, s) => s \in seen)
    BY <1>6 DEF UpdateClient, Looking, WillLook
  <2>2. CASE seen = {}
    BY <1>0, <1>1, <2>1, <2>2 DEF Watch
  <2>3. CASE seen # {}
    <3>1. clients' = Inserted /\ pc'[Dispatch] = "poll"
      BY <1>0, <1>6, <2>3 DEF UpdateClient, Go, TypeOK
    <3>2. q \in Polled' /\ clients'[q] = seen /\ ~Looking(q)'
      BY <1>6, <3>1 DEF Inserted, Polled, Looking
    <3>3. QED
      BY <1>0, <1>1, <2>1, <3>2 DEF Watch
  <2>4. QED
    BY <2>2, <2>3
<1>7. CASE hand = q /\ RemoveClient
  <2>1. Looking(q) /\ ~WillLook(q, s)
    BY <1>7 DEF RemoveClient, Looking, WillLook
  <2>2. QED
    BY <1>0, <1>1, <2>1 DEF Watch
<1>8. QED
  BY <1>2, <1>3, <1>4, <1>5, <1>6, <1>7

LEMMA WatchedStep ==
  ASSUME IInv, SInv, KInv, [ProgramNext]_program
  PROVE  Watched'
<1>1. TypeOK /\ Places /\ Users /\ LinesOK /\ Served /\ Started /\ Phases /\ Watched
  BY DEF IInv, SInv, KInv
<1>2. CASE DispatchEnds
  <2>1. pc'[Dispatch] = "ended"
    BY <1>1, <1>2 DEF DispatchEnds, Go, TypeOK, Agents
  <2>2. QED
    BY <2>1 DEF Watched, Running
<1>3. CASE PeekRead \/ PeekWrite \/ ReviseClient \/ UpdateClient \/ RemoveClient
  BY <1>1, <1>3, WatchedLook DEF Watched
<1>4. CASE UNCHANGED program
  BY <1>1, <1>4 DEF program, requests, control, dispatch, Watched, Watch, Running, Told, WillLook, Looking, Polled
<1>5. QED
  BY <1>1, <1>2, <1>3, <1>4, NextSteps, WatchedCall, WatchedLife, WatchedVisit, WatchedHandler,
     WatchedCommand DEF DispatchSteps, DispatchNext, LockedNext

LEMMA KInvInit == ASSUME Init PROVE KInv
<1> USE DEF requests, queues, locks, engines, control, dispatch
<1>1. Alive = {}
  BY DEF Init, Alive
<1>2. /\ \A a \in Agents : pc[a] \in {"none", "user"}
      /\ pc[Dispatch] = "none"
      /\ engine = "off" /\ service = 0 /\ batch = {} /\ after = "poll"
  BY DEF Init, Agents
<1>3. IsFiniteSet(Alive)
  BY <1>1, FS_EmptySet
<1>4. Started
  <2>1. Cardinality({}) = 0 /\ One(engine = "up") = 0
    BY <1>2, FS_EmptySet DEF One
  <2>2. QED
    BY <1>1, <1>2, <1>3, <2>1 DEF Started
<1>5. Phases
  BY <1>2 DEF Phases
<1>6. Watched
  BY <1>2 DEF Watched, Running
<1>7. QED
  BY <1>4, <1>5, <1>6 DEF KInv

LEMMA KInvStep ==
  ASSUME IInv, SInv, KInv, ~Hurried, ~Hurried', [ProgramNext]_program
  PROVE  KInv'
BY StartedStep, PhasesStep, WatchedStep DEF IInv, SInv, KInv

LEMMA Known ==
  ASSUME TypeOK, KInv PROVE Registered
<1> SUFFICES ASSUME Running, NEW q \in Queues, NEW s \in Sides,
                    line[q][s] # <<>>, "release" \notin asked[q]
             PROVE  \/ q \in Polled /\ s \in clients[q]
                    \/ [cmd |-> "update", queue |-> q] \in Members(pipe)
                    \/ \E a \in Agents : arg[a].queue = q /\ pc[a] \in {"root", "write"}
                    \/ WillLook(q, s)
  BY DEF Registered
<1>1. Told(q) \/ WillLook(q, s) \/ (q \in Polled /\ s \in clients[q])
  BY DEF KInv, Watched, Watch
<1>2. ASSUME NEW i \in DOMAIN pipe, pipe[i].cmd = "update", pipe[i].queue = q
      PROVE  [cmd |-> "update", queue |-> q] \in Members(pipe)
  <2>1. pipe[i] \in Commanded
    BY <1>2, PipeLemma
  <2>2. pipe[i] = [cmd |-> "update", queue |-> q]
    BY <1>2, <2>1 DEF Commanded
  <2>3. QED
    BY <1>2, <2>2 DEF Members
<1>3. QED
  BY <1>1, <1>2 DEF Told

\* While no race has been lost.
Unlost == races = {} => ~Snatched /\ ~Hurried
Knowing == Unlost /\ (races = {} => KInv)

LEMMA UnlostInit == Init => Unlost
BY DEF Init, Unlost, Snatched, Hurried, Agents

LEMMA UnlostStep ==
  ASSUME Unlost, [Next]_vars
  PROVE  Unlost'
<1>1. CASE Next
  <2>1. races' = Lost'
    BY <1>1 DEF Next
  <2>2. ASSUME races' = {} PROVE ~Snatched' /\ ~Hurried'
    BY <2>1, <2>2 DEF Lost
  <2>3. QED
    BY <2>2 DEF Unlost
<1>2. CASE UNCHANGED vars
  BY <1>2, SameRaces DEF vars, Unlost
<1>3. QED
  BY <1>1, <1>2

LEMMA KnowingStep ==
  ASSUME Unsnatched, Serving, Knowing, [Next]_vars
  PROVE  Knowing'
<1>1. Unlost'
  BY UnlostStep DEF Knowing
<1>2. ASSUME races' = {} PROVE KInv'
  <2>1. races = {} /\ [ProgramNext]_program
    BY <1>2 DEF Next, vars
  <2>2. IInv /\ SInv /\ KInv /\ ~Hurried /\ ~Hurried'
    BY <1>1, <1>2, <2>1 DEF Unsnatched, Serving, Knowing, Unlost
  <2>3. QED
    BY <2>1, <2>2, KInvStep
<1>3. QED
  BY <1>1, <1>2 DEF Knowing

\* No request is forgotten (Registered): as long as no race of the program has
\* been lost, the dispatch knows of every request that waits.
THEOREM RegisteredCorrect == Spec => []Registered
<1>1. Init => Serving /\ Knowing
  BY SInvInit, KInvInit, UnlostInit DEF Serving, Knowing
<1>2. Unsnatched /\ Serving /\ Knowing /\ [Next]_vars => Serving' /\ Knowing'
  BY ServingStep, KnowingStep
<1>3. Unsnatched /\ Knowing => Registered
  <2>1. races # {} => Registered
    BY DEF Registered
  <2>2. QED
    BY <2>1, Known DEF Unsnatched, Knowing, IInv
<1>4. QED
  BY <1>1, <1>2, <1>3, Inductive, PTL DEF Spec

-----------------------------------------------------------------------------
(* The command that tells of a new request is counted in time.             *)

\* Its sender holds the root lock and the queue's: the command stays the last of
\* the pipe or, when the dispatch has read it, makes it wait for the queue's lock.
TellingAt(a) ==
  LET q == arg[a].queue IN
    pc[a] = "retain" /\ arg[a].cmd = "update" =>
      /\ localSync[q] = a
      /\ \/ pipe # <<>> /\ Last(pipe).queue = q /\ Last(pipe).cmd = "update"
         \/ hand = q /\ pc[Dispatch] = "peek_read" /\ after = "poll"
Telling == \A a \in Agents : TellingAt(a)

\* The references that are counted are there.
LEMMA PrimedType ==
  ASSUME TypeOK', NEW q \in Queues
  PROVE  Cardinality(Commands(q)') \in Nat /\ refs'[q] \in Int
<1>1. TypeOK' => (IsFiniteSet(Commands(q)) /\ Cardinality(Commands(q)) \in Nat)'
  BY CommandsType, PTL
<1>2. QED
  BY <1>1 DEF TypeOK

\* Only its own step moves a thread, and to "retain" only WriteCommand.
LEMMA RetainMove ==
  ASSUME IInv, SInv, [ProgramNext]_program, NEW a \in Agents, pc'[a] = "retain"
  PROVE  \/ WriteCommand(a)
         \/ /\ pc[a] = "retain" /\ arg'[a] = arg[a] /\ ~CallSteps(a)
            /\ ~LifeSteps(a) /\ (DispatchSteps => a # Dispatch)
<1> USE DEF IInv
<1>1. Return(a) => pc'[a] \in {"poll", "user"}
  BY ReturnType DEF TypeOK
<1>2. ASSUME CallSteps(a) PROVE WriteCommand(a)
  <2>1. ~Return(a) /\ ~Sent(a)
    BY <1>1, SentType DEF TypeOK
  <2>2. ASSUME NEW q \in Queues, \/ Cancel(a, q) \/ Release(a, q)
                                 \/ \E r \in Requests : BeginEnqueue(a, q, r)
        PROVE  FALSE
    BY <2>2 DEF Cancel, Release, BeginEnqueue, Call, Go, TypeOK
  <2>3. ~PushRequest(a) /\ ~AcquireRoot(a)
    BY DEF PushRequest, AcquireRoot, Go, TypeOK
  <2>4. ~DropChannel(a)
    BY <2>1 DEF DropChannel, ReleaseRefs, Call, Go, TypeOK
  <2>5. QED
    BY <1>2, <2>1, <2>2, <2>3, <2>4 DEF CallSteps, AwaitDispatch, ConnectAtOnce, Retain, SendFails
<1>3. ~LifeSteps(a)
  <2>1. ASSUME CreatePipe(a) PROVE FALSE
    BY <2>1 DEF CreatePipe, Back, TypeOK, Agents
  <2>2. ASSUME LifeSteps(a), ~CreatePipe(a) PROVE FALSE
    BY <2>2, LifeMove DEF SInv
  <2>3. QED
    BY <2>1, <2>2
<1>4. DispatchSteps => a # Dispatch
  BY DispatchMove DEF HandPlaces
<1>5. ASSUME NEW b \in Agents \ {a}, CreatePipe(b) PROVE pc[a] = "retain" /\ arg'[a] = arg[a]
  <2>1. a # Dispatch
    BY <1>5 DEF CreatePipe, Back, TypeOK, Agents
  <2>2. QED
    BY <1>5, <2>1 DEF CreatePipe, TypeOK
<1>6. ASSUME NEW b \in Agents \ {a}, CallSteps(b) \/ (LifeSteps(b) /\ ~CreatePipe(b))
      PROVE  pc[a] = "retain" /\ arg'[a] = arg[a]
  BY <1>6, CallMove, LifeMove DEF SInv
<1>7. DispatchSteps => pc[a] = "retain" /\ arg'[a] = arg[a]
  BY <1>4, DispatchMove
<1>8. UNCHANGED program => pc[a] = "retain" /\ arg'[a] = arg[a]
  BY DEF program
<1>9. QED
  BY <1>2, <1>3, <1>4, <1>5, <1>6, <1>7, <1>8, NextSteps

LEMMA TellingStep ==
  ASSUME IInv, ~Snatched, SInv, KInv, Telling, [ProgramNext]_program
  PROVE  Telling' /\ UpdateCounted'
<1> USE DEF IInv, requests, queues, locks, engines, control, dispatch
<1> SUFFICES ASSUME NEW a \in Agents, pc'[a] = "retain", arg'[a].cmd = "update"
             PROVE  TellingAt(a)' /\ refs'[arg'[a].queue] # 0
  BY DEF Telling, TellingAt, UpdateCounted
<1>0. Dispatch \in Agents /\ TypeOK'
  BY TypeStep DEF Agents
\* Before the step.
<1>1. pc[a] \in {"write", "retain"} /\ arg'[a] = arg[a] /\ root = a
  BY RetainMove DEF WriteCommand, Places
<1> PICK q : q = arg[a].queue
  OBVIOUS
<1>2. q \in Queues /\ life[q] = "alive" /\ q = arg[a].queue /\ q = arg'[a].queue /\ arg[a].cmd = "update"
  BY <1>1, NilAssumption DEF Places, Users, Calls, TypeOK
<1>3. localSync[q] = a
  <2>1. CASE pc[a] = "write"
    BY <1>1, <1>2, <2>1 DEF SInv, Served, FreshAt, PushedAt, Calls
  <2>2. CASE pc[a] = "retain"
    BY <1>2, <2>2 DEF Telling, TellingAt
  <2>3. QED
    BY <1>1, <2>1, <2>2
<1>4. \A b \in Agents : ~CreatePipe(b)
  BY <1>2 DEF CreatePipe, KInv, Started, Alive
\* The queue and its lock stay.
<1>5. life'[q] = "alive"
  <2>1. ASSUME NEW b \in Agents, Destroy(b) PROVE arg[b].queue # q
    <3>1. pc[b] = "destroy" /\ arg[b].queue \in Queues
      BY <2>1 DEF Destroy, Places, TypeOK
    <3>2. arg[b].queue = q => a = b
      BY <1>2, <3>1, NilAssumption DEF Users, Alone
    <3>3. QED
      BY <1>1, <3>1, <3>2
  <2>2. ASSUME NEW b \in Agents, LifeSteps(b) PROVE life'[q] = "alive"
    <3>1. \/ life' = life
          \/ \E p \in Queues : life' = [life EXCEPT ![p] = "alive"]
          \/ Destroy(b)
      BY <1>4, <2>2 DEF LifeSteps, CreateQueue, Join, ClosePipe, EngineInit, EngineStop
    <3>2. QED
      BY <1>2, <2>1, <3>1 DEF Destroy, TypeOK
  <2>3. QED
    BY <1>2, <2>2, CallMove, DispatchMove, NextSteps DEF program
<1>6. localSync'[q] = a
  <2>1. ASSUME NEW b \in Agents, CallSteps(b) PROVE localSync'[q] = a
    <3>1. CASE b = a
      <4>1. WriteCommand(a)
        BY <2>1, <3>1, RetainMove
      <4>2. QED
        BY <1>3, <4>1 DEF WriteCommand
    <3>2. CASE PushRequest(b)
      <4>1. localSync[arg[b].queue] = Nil /\ localSync' = [localSync EXCEPT ![arg[b].queue] = b]
        BY <3>2 DEF PushRequest
      <4>2. arg[b].queue # q
        BY <1>3, <4>1, NilAssumption
      <4>3. QED
        BY <1>2, <1>3, <4>1, <4>2 DEF SInv, LinesOK
    <3>3. CASE b # a /\ (Retain(b) \/ SendFails(b))
      BY <1>2, <1>3, <3>3 DEF Retain, SendFails, Unlocked
    <3>4. CASE ~PushRequest(b) /\ ~Retain(b) /\ ~SendFails(b)
      BY <1>3, <2>1, <3>4 DEF CallSteps, Cancel, Release, BeginEnqueue, AwaitDispatch, ConnectAtOnce,
         AcquireRoot, WriteCommand, DropChannel
    <3>5. QED
      BY <3>1, <3>2, <3>3, <3>4
  <2>2. ASSUME NEW b \in Agents, LifeSteps(b) PROVE localSync'[q] = a
    BY <1>3, <1>4, <2>2 DEF LifeSteps, CreateQueue, Destroy, ClosePipe, EngineInit, EngineStop
  <2>3. DispatchSteps => localSync'[q] = a
    BY <1>3 DEF DispatchSteps, DispatchNext, LockedNext, Poll, Sweep, ReadCommand, HandlerReturns,
       ReviseClient, UpdateClient, RemoveClient, DispatchEnds, Visit, PeekRead, PeekWrite, Drain
  <2>4. QED
    BY <1>3, <2>1, <2>2, <2>3, NextSteps DEF program
\* So does the command, until it is read.
<1>7. \/ pipe' # <<>> /\ Last(pipe').queue = q /\ Last(pipe').cmd = "update"
      \/ hand' = q /\ pc'[Dispatch] = "peek_read" /\ after' = "poll"
  <2>1. CASE WriteCommand(a)
    <3> PICK c : c = [cmd |-> arg[a].cmd, queue |-> arg[a].queue]
      OBVIOUS
    <3>1. pipe' = Append(pipe, c) /\ c.queue = q /\ c.cmd = "update"
      BY <1>2, <2>1 DEF WriteCommand
    <3>2. c \in Commanded /\ pipe \in Seq(Commanded)
      BY <1>2 DEF Commanded, TypeOK
    <3>3. pipe' # <<>> /\ Last(pipe') = c
      BY <3>1, <3>2, SeqLemma
    <3>4. QED
      BY <3>1, <3>3
  <2>2. CASE ~WriteCommand(a)
    <3>1. /\ pc[a] = "retain" /\ ~CallSteps(a) /\ ~LifeSteps(a)
          /\ \/ pipe # <<>> /\ Last(pipe).queue = q /\ Last(pipe).cmd = "update"
             \/ hand = q /\ pc[Dispatch] = "peek_read" /\ after = "poll"
      BY <1>2, <2>2, RetainMove DEF Telling, TellingAt
    <3>2. \A b \in Agents : ~WriteCommand(b)
      BY <1>1, <2>2 DEF WriteCommand, Places
    <3>3. ASSUME NEW b \in Agents \ {a}, CallSteps(b) \/ LifeSteps(b)
          PROVE  /\ pipe' = pipe /\ UNCHANGED <<hand, after>>
                 /\ pc[Dispatch] = "peek_read" => pc'[Dispatch] = "peek_read"
      <4>1. pipe' = pipe
        BY <1>4, <3>2, <3>3 DEF CallSteps, LifeSteps, Cancel, Release, BeginEnqueue, AwaitDispatch,
           PushRequest, ConnectAtOnce, AcquireRoot, Retain, SendFails, DropChannel, CreateQueue,
           Destroy, ClosePipe, EngineInit, EngineStop
      <4>2. CASE CallSteps(b)
        BY <1>0, <4>1, <4>2, CallMove DEF Calls
      <4>3. CASE LifeSteps(b)
        BY <1>0, <1>4, <4>1, <4>3, LifeMove DEF SInv
      <4>4. QED
        BY <3>3, <4>2, <4>3
    <3>4. ASSUME DispatchSteps, ~ReadCommand
          PROVE  pipe' = pipe /\ ~(hand = q /\ pc[Dispatch] = "peek_read")
      <4>1. pipe' = pipe
        BY <3>4 DEF DispatchSteps, DispatchNext, LockedNext, Poll, Sweep, HandlerReturns,
           ReviseClient, UpdateClient, RemoveClient, DispatchEnds, Visit, PeekRead, PeekWrite, Drain
      <4>2. pc[Dispatch] = "peek_read" => PeekRead
        BY <3>4 DEF DispatchSteps, DispatchNext, LockedNext, Poll, Sweep, HandlerReturns,
           ReviseClient, UpdateClient, RemoveClient, DispatchEnds, Visit, PeekWrite, Drain
      <4>3. PeekRead => localSync[hand] = Nil
        BY DEF PeekRead, Peek
      <4>4. QED
        BY <1>3, <4>1, <4>2, <4>3, NilAssumption
    <3>5. ASSUME ReadCommand
          PROVE  \/ pipe' # <<>> /\ Last(pipe').queue = q /\ Last(pipe').cmd = "update"
                 \/ hand' = q /\ pc'[Dispatch] = "peek_read" /\ after' = "poll"
      <4>1. /\ pc[Dispatch] = "read" /\ after = "poll" /\ pipe # <<>> /\ pipe' = Tail(pipe)
            /\ hand' = Head(pipe).queue /\ after' = after
            /\ pipe \in Seq(Commanded)
        BY <3>5 DEF ReadCommand, Places, TypeOK, Commanded
      <4>2. Last(pipe).queue = q /\ Last(pipe).cmd = "update"
        BY <3>1, <4>1
      <4>3. CASE Len(pipe) # 1
        <5>1. Len(pipe) \in Nat /\ Len(pipe) > 1
          <6>1. pipe \in Seq(Commanded) /\ pipe # <<>>
            BY <4>1
          <6>2. Len(pipe) \in Nat /\ Len(pipe) > 0
            BY <6>1, SeqLemma
          <6>3. QED
            BY <4>3, <6>2
        <5>2. Len(Tail(pipe)) = Len(pipe) - 1 /\ Tail(pipe)[Len(pipe) - 1] = pipe[Len(pipe)]
          BY <4>1, <5>1
        <5>3. Tail(pipe) # <<>> /\ Last(Tail(pipe)) = Last(pipe)
          BY <5>1, <5>2 DEF Last
        <5>4. QED
          BY <4>1, <4>2, <5>3
      <4>4. CASE Len(pipe) = 1
        <5>1. Head(pipe).queue = q /\ Head(pipe).cmd = "update"
          BY <4>1, <4>2, <4>4 DEF Last
        <5>2. pc'[Dispatch] = "peek_read"
          BY <1>0, <3>5, <5>1 DEF ReadCommand, Go, TypeOK
        <5>3. QED
          BY <4>1, <5>1, <5>2
      <4>5. QED
        BY <4>3, <4>4
    <3>6. QED
      BY <3>1, <3>3, <3>4, <3>5, NextSteps DEF program, control, dispatch
  <2>3. QED
    BY <2>1, <2>2
<1>8. TellingAt(a)'
  BY <1>2, <1>6, <1>7 DEF TellingAt
\* The count: the channel's reference, and the command's own.
<1>9. refs'[q] # 0
  <2>1. Channel(q)' /\ Owed(q)'
    BY <1>2, <1>5 DEF Channel, Owed, Calls
  <2>2. InHand(q)' \/ Cardinality(Commands(q)') >= 1
    <3>1. CASE hand' = q /\ pc'[Dispatch] = "peek_read" /\ after' = "poll"
      BY <3>1 DEF InHand, HandPlaces
    <3>2. CASE pipe' # <<>> /\ Last(pipe').queue = q
      <4>1. Len(pipe') \in DOMAIN pipe'
        BY <1>0, <3>2 DEF TypeOK
      <4>2. Commands(q)' # {}
        BY <3>2, <4>1 DEF Commands, Last
      <4>3. (TypeOK => IsFiniteSet(Commands(q)))'
        BY CommandsType, <1>2, PTL
      <4>4. Cardinality(Commands(q)') # 0
        BY <1>0, <4>2, <4>3, FS_EmptySet
      <4>5. QED
        BY <1>0, <1>2, <4>4, PrimedType
    <3>3. QED
      BY <1>7, <3>1, <3>2
  <2>3. CountedAt(q)'
    BY <1>0, <1>2, CountStep DEF Counted
  <2>4. Cardinality(Commands(q)') \in Nat /\ refs'[q] \in Int
    BY <1>0, <1>2, PrimedType
  <2>5. QED
    BY <2>1, <2>2, <2>3, <2>4 DEF CountedAt, Held, One
<1>10. QED
  BY <1>2, <1>8, <1>9

\* The sender of a command that tells of a new request does not lose its race
\* against the dispatch (UpdateCounted), though it writes the command first.
THEOREM UpdateCorrect == Spec => []UpdateCounted
<1> DEFINE Prompt == UpdateCounted /\ (races = {} => Telling)
<1>1. Init => Serving /\ Knowing /\ Prompt
  <2>1. Init => Telling /\ UpdateCounted
    BY DEF Init, Telling, TellingAt, UpdateCounted, Agents
  <2>2. QED
    BY <2>1, SInvInit, KInvInit, UnlostInit DEF Serving, Knowing
<1>2. ASSUME Unsnatched, Serving, Knowing, Prompt, [Next]_vars PROVE Prompt'
  <2>1. CASE Next
    <3>1. races = {} /\ [ProgramNext]_program
      BY <2>1 DEF Next
    <3>2. IInv /\ ~Snatched /\ SInv /\ KInv /\ Telling
      BY <1>2, <3>1 DEF Unsnatched, Serving, Knowing
    <3>3. QED
      BY <3>1, <3>2, TellingStep
  <2>2. CASE UNCHANGED vars
    BY <1>2, <2>2 DEF vars, program, queues, locks, control, dispatch, Telling, TellingAt, UpdateCounted
  <2>3. QED
    BY <1>2, <2>1, <2>2
<1>3. Unsnatched /\ Serving /\ Knowing /\ Prompt /\ [Next]_vars => Serving' /\ Knowing' /\ Prompt'
  BY <1>2, ServingStep, KnowingStep
<1>4. Prompt => UpdateCounted
  OBVIOUS
<1> HIDE DEF Prompt
<1>5. QED
  BY <1>1, <1>3, <1>4, Inductive, PTL DEF Spec

-----------------------------------------------------------------------------
(* No reference is kept by nobody.                                         *)

LEMMA KeptFrame ==
  ASSUME TypeOK, NEW q \in Queues, KeptAt(q), refs'[q] = refs[q],
         Channel(q) => Channel(q)', InHand(q) => InHand(q)', q \in Polled => q \in Polled',
         Owed(q)' => Owed(q), Cardinality(Commands(q)') = Cardinality(Commands(q))
  PROVE  KeptAt(q)'
<1>1. Cardinality(Commands(q)) \in Nat /\ refs[q] \in Int
  BY CommandsType DEF TypeOK
<1>2. QED
  BY <1>1 DEF KeptAt, Held, One

LEMMA DyingFrame ==
  ASSUME NEW a \in Agents, NEW q, DyingAt(q), pc[a] # "destroy",
         \A b \in Agents \ {a} : pc'[b] = pc[b] /\ arg'[b] = arg[b],
         life'[q] = life[q], refs'[q] = refs[q]
  PROVE  DyingAt(q)'
BY DEF DyingAt

\* A count that is not zero, because the channel is there or another holder is.
LEMMA AliveLemma ==
  ASSUME TypeOK, Counted, Users, ~Snatched, NEW q \in Queues, life[q] = "alive", refs[q] = 0
  PROVE  ~Channel(q) /\ ~InHand(q) /\ q \notin Polled /\ Commands(q) = {}
<1>1. ~Channel(q) /\ ~InHand(q) /\ q \notin Polled
  BY HeldLemma
<1>2. ~Owed(q)
  BY <1>1 DEF Owed, Channel, Calls
<1>3. Cardinality(Commands(q)) \in Nat /\ IsFiniteSet(Commands(q))
  BY CommandsType
<1>4. Cardinality(Commands(q)) = 0
  BY <1>1, <1>2, <1>3 DEF Counted, CountedAt, Held, One
<1>5. QED
  BY <1>1, <1>3, <1>4, FS_EmptySet

\* The steps of a call give up the channel only where they drop it, and owe a
\* reference only where they have written a command.
LEMMA CallKeeps ==
  ASSUME IInv, SInv, NEW a \in Agents, CallSteps(a), NEW q \in Queues
  PROVE  /\ InHand(q)' <=> InHand(q)
         /\ Channel(q) => Channel(q)' \/ (DropChannel(a) /\ arg[a].queue = q)
         /\ Owed(q)' => Owed(q) \/ (WriteCommand(a) /\ arg[a].queue = q)
<1> USE DEF IInv, requests, queues, locks, engines, control, dispatch
<1>1. /\ UNCHANGED <<life, clients, hand, after>>
      /\ \A b \in Agents \ {a} : pc'[b] = pc[b] /\ arg'[b] = arg[b]
      /\ pc[a] \in Calls \cup {"user", "join"}
      /\ pc'[a] \in Calls \cup {"destroy", "poll", "user"}
  BY CallMove
<1>2. InHand(q)' <=> InHand(q)
  BY <1>1 DEF InHand, HandPlaces, Calls, Agents
<1>3. ASSUME Return(a) PROVE pc'[a] \in {"poll", "user"}
  BY <1>3, ReturnType DEF TypeOK
<1>4. ASSUME Sent(a)
      PROVE  \/ arg[a].cmd = "shutdown" /\ arg'[a] = arg[a] /\ pc'[a] = "drop"
             \/ arg[a].cmd # "shutdown" /\ pc'[a] \in {"poll", "user"}
  BY <1>3, <1>4, SentType DEF TypeOK
<1>5. ASSUME DropChannel(a) PROVE pc'[a] \in {"destroy", "poll", "user"} /\ pc[a] = "drop"
  <2>1. arg[a].queue \in Queues /\ ReleaseRefs(a, arg[a].queue, 1) /\ pc[a] = "drop"
    BY <1>5 DEF DropChannel, Places, TypeOK, Calls
  <2>2. QED
    BY <1>3, <2>1, ReleaseType DEF TypeOK
<1>6. ASSUME NEW p \in Queues, \/ Cancel(a, p) \/ Release(a, p)
                               \/ \E r \in Requests : BeginEnqueue(a, p, r)
      PROVE  /\ pc[a] = "user" /\ pc'[a] \in {"root", "local"} /\ arg'[a].queue = p
             /\ "release" \in asked'[q] => "release" \in asked[q] \/ p = q
  <2>1. /\ pc[a] = "user" /\ \E place \in {"root", "local"} : \E c, r : Call(a, place, c, p, r)
        /\ asked' = asked \/ \E x : asked' = [asked EXCEPT ![p] = @ \cup {x}]
    BY <1>6 DEF Cancel, Release, BeginEnqueue, Usable
  <2>2. pc'[a] \in {"root", "local"} /\ arg'[a].queue = p
    BY <2>1 DEF Call, Go, TypeOK
  <2>3. p # q => asked'[q] = asked[q]
    BY <2>1 DEF TypeOK
  <2>4. QED
    BY <2>1, <2>2, <2>3
<1>7. (\E p \in Queues : \/ Cancel(a, p) \/ Release(a, p)
                         \/ \E r \in Requests : BeginEnqueue(a, p, r))
      \/ asked' = asked
  BY DEF CallSteps, AwaitDispatch, PushRequest, ConnectAtOnce, AcquireRoot, WriteCommand, Retain,
     SendFails, DropChannel
<1>8. ASSUME PushRequest(a) \/ AcquireRoot(a) \/ WriteCommand(a)
      PROVE  arg' = arg /\ pc'[a] \in Calls /\ (pc'[a] = "retain" => WriteCommand(a))
  BY <1>8 DEF PushRequest, AcquireRoot, WriteCommand, Go, Calls, TypeOK
<1>9. ASSUME pc[a] \in Calls, arg[a].queue = q, "release" \in asked[q], ~DropChannel(a)
      PROVE  arg'[a] = arg[a] /\ pc'[a] \in Calls
  <2>1. arg[a].cmd = "shutdown"
    BY <1>9, NilAssumption DEF Users
  <2>2. pc[a] # "local"
    BY <2>1 DEF SInv, Served, FreshAt
  <2>3. ~ConnectAtOnce(a) /\ ~AwaitDispatch(a)
    BY <1>9, <2>2 DEF ConnectAtOnce, AwaitDispatch, Calls
  <2>4. ~\E p \in Queues : \/ Cancel(a, p) \/ Release(a, p)
                           \/ \E r \in Requests : BeginEnqueue(a, p, r)
    BY <1>6, <1>9 DEF Calls
  <2>5. CASE Retain(a) \/ SendFails(a)
    BY <1>4, <2>1, <2>5 DEF Retain, SendFails, Calls
  <2>6. QED
    BY <1>8, <1>9, <2>3, <2>4, <2>5 DEF CallSteps
<1>10. ASSUME Channel(q), ~(DropChannel(a) /\ arg[a].queue = q) PROVE Channel(q)'
  <2>1. CASE "release" \in asked[q]
    <3>1. PICK b \in Agents : arg[b].queue = q /\ pc[b] \in Calls
      BY <1>10, <2>1 DEF Channel
    <3>2. arg'[b] = arg[b] /\ pc'[b] \in Calls
      BY <1>1, <1>9, <1>10, <2>1, <3>1
    <3>3. QED
      BY <1>1, <1>10, <3>1, <3>2 DEF Channel
  <2>2. CASE "release" \notin asked[q]
    BY <1>1, <1>6, <1>7, <1>10, <2>2 DEF Channel, Calls
  <2>3. QED
    BY <2>1, <2>2
<1>11. pc'[a] = "retain" => WriteCommand(a)
  <2>1. AwaitDispatch(a) \/ ConnectAtOnce(a) => pc'[a] # "retain"
    BY <1>3 DEF AwaitDispatch, ConnectAtOnce
  <2>2. Retain(a) \/ SendFails(a) => pc'[a] # "retain"
    BY <1>4 DEF Retain, SendFails
  <2>3. QED
    BY <1>5, <1>6, <1>8, <2>1, <2>2 DEF CallSteps
<1>12. Owed(q)' => Owed(q) \/ (WriteCommand(a) /\ arg[a].queue = q)
  <2>1. WriteCommand(a) => arg' = arg
    BY DEF WriteCommand
  <2>2. QED
    BY <1>1, <1>11, <2>1 DEF Owed
<1>13. QED
  BY <1>2, <1>10, <1>12

LEMMA KeptCall ==
  ASSUME IInv, IInv', SInv, Kept, NEW a \in Agents, CallSteps(a)
  PROVE  Kept'
<1> USE DEF IInv, requests, queues, locks, engines, control, dispatch
<1> SUFFICES ASSUME NEW q \in Queues PROVE KeptAt(q)' /\ DyingAt(q)'
  BY DEF Kept
<1>1. /\ life' = life /\ clients' = clients
      /\ \A b \in Agents \ {a} : pc'[b] = pc[b] /\ arg'[b] = arg[b]
      /\ pc[a] \in Calls \cup {"user", "join"} /\ pc[a] # "destroy"
  BY CallMove DEF Calls
<1>2. /\ InHand(q)' <=> InHand(q)
      /\ Channel(q) => Channel(q)' \/ (DropChannel(a) /\ arg[a].queue = q)
      /\ Owed(q)' => Owed(q) \/ (WriteCommand(a) /\ arg[a].queue = q)
  BY CallKeeps
<1>3. /\ KeptAt(q) /\ DyingAt(q) /\ CountedAt(q) /\ Polled' = Polled
      /\ refs[q] \in Int /\ refs'[q] \in Int
      /\ Cardinality(Commands(q)) \in Nat /\ Cardinality(Commands(q)') \in Nat
  BY <1>1, CommandsType, PrimedType DEF Kept, Counted, Polled, TypeOK
<1>4. ASSUME WriteCommand(a) PROVE KeptAt(q)' /\ DyingAt(q)'
  <2>1. /\ pipe' = Append(pipe, [cmd |-> arg[a].cmd, queue |-> arg[a].queue]) /\ refs' = refs
    BY <1>4 DEF WriteCommand
  <2>2. Cardinality(Commands(q)') = Cardinality(Commands(q)) + One(arg[a].queue = q)
    BY <2>1, AppendLemma
  <2>3. ~DropChannel(a)
    BY <1>4 DEF WriteCommand, DropChannel
  <2>4. KeptAt(q)'
    BY <1>2, <1>3, <2>1, <2>2, <2>3 DEF KeptAt, Held, One
  <2>5. DyingAt(q)'
    BY <1>1, <1>3, <2>1, DyingFrame
  <2>6. QED
    BY <2>4, <2>5
<1>5. ASSUME Retain(a) PROVE KeptAt(q)' /\ DyingAt(q)'
  <2>1. /\ pc[a] = "retain" /\ refs' = [refs EXCEPT ![arg[a].queue] = @ + 1] /\ pipe' = pipe
        /\ root = a /\ ~DropChannel(a) /\ ~WriteCommand(a)
    BY <1>5 DEF Retain, Places, DropChannel, WriteCommand
  <2>2. Commands(q)' = Commands(q)
    BY <2>1 DEF Commands
  <2>3. CASE arg[a].queue = q
    <3>1. refs'[q] = refs[q] + 1 /\ Owed(q)
      BY <2>1, <2>3 DEF TypeOK, Owed
    <3>2. refs'[q] > 0
      <4>1. Channel(q)
        BY <2>1, <2>3, NilAssumption DEF Channel, Calls, Users
      <4>2. QED
        BY <1>3, <3>1, <4>1 DEF CountedAt, Held, One
    <3>3. ~Owed(q)'
      <4>1. \A b \in Agents \ {a} : pc[b] # "retain"
        BY <2>1 DEF Places
      <4>2. Sent(a)
        BY <1>5 DEF Retain
      <4>3. Return(a) => pc'[a] \in {"poll", "user"}
        BY ReturnType DEF TypeOK
      <4>4. pc'[a] # "retain"
        BY <4>2, <4>3, SentType DEF TypeOK
      <4>5. QED
        BY <1>1, <4>1, <4>4 DEF Owed
    <3>4. KeptAt(q)'
      BY <1>2, <1>3, <2>1, <2>2, <3>1, <3>3 DEF KeptAt, Held, One
    <3>5. QED
      BY <3>2, <3>4 DEF DyingAt
  <2>4. CASE arg[a].queue # q
    <3>1. refs'[q] = refs[q]
      BY <2>1, <2>4 DEF TypeOK
    <3>2. KeptAt(q)'
      BY <1>2, <1>3, <2>1, <2>2, <3>1, KeptFrame
    <3>3. QED
      BY <1>1, <1>3, <3>1, <3>2, DyingFrame
  <2>5. QED
    BY <2>3, <2>4
<1>6. ASSUME DropChannel(a) PROVE KeptAt(q)' /\ DyingAt(q)'
  <2>1. /\ arg[a].queue \in Queues /\ ReleaseRefs(a, arg[a].queue, 1) /\ pipe' = pipe
        /\ ~WriteCommand(a)
    BY <1>6 DEF DropChannel, Places, TypeOK, Calls, WriteCommand
  <2>2. Commands(q)' = Commands(q)
    BY <2>1 DEF Commands
  <2>3. refs' = [refs EXCEPT ![arg[a].queue] = @ - 1]
    BY <2>1, ReleaseType
  <2>4. CASE arg[a].queue = q
    <3>1. refs'[q] = refs[q] - 1
      BY <2>3, <2>4 DEF TypeOK
    <3>2. KeptAt(q)'
      BY <1>2, <1>3, <2>1, <2>2, <3>1 DEF KeptAt, Held, One
    <3>3. refs'[q] = 0 => pc'[a] = "destroy" /\ arg'[a].queue = q
      <4>1. refs'[q] = 0 => refs[q] = 1
        BY <1>3, <3>1
      <4>2. refs[q] = 1 => Call(a, "destroy", "none", q, Nil)
        BY <2>1, <2>4 DEF ReleaseRefs
      <4>3. QED
        BY <4>1, <4>2 DEF Call, Go, TypeOK
    <3>4. QED
      BY <3>2, <3>3 DEF DyingAt
  <2>5. CASE arg[a].queue # q
    <3>1. refs'[q] = refs[q]
      BY <2>3, <2>5 DEF TypeOK
    <3>2. KeptAt(q)'
      BY <1>2, <1>3, <2>1, <2>2, <2>5, <3>1, KeptFrame
    <3>3. QED
      BY <1>1, <1>3, <3>1, <3>2, DyingFrame
  <2>6. QED
    BY <2>4, <2>5
<1>7. ASSUME ~WriteCommand(a), ~Retain(a), ~DropChannel(a) PROVE KeptAt(q)' /\ DyingAt(q)'
  <2>1. refs' = refs /\ pipe' = pipe
    BY <1>7 DEF CallSteps, Cancel, Release, BeginEnqueue, AwaitDispatch, PushRequest, ConnectAtOnce,
       AcquireRoot, SendFails
  <2>2. Commands(q)' = Commands(q)
    BY <2>1 DEF Commands
  <2>3. KeptAt(q)'
    BY <1>2, <1>3, <1>7, <2>1, <2>2, KeptFrame
  <2>4. QED
    BY <1>1, <1>3, <2>1, <2>3, DyingFrame
<1>8. QED
  BY <1>4, <1>5, <1>6, <1>7

\* A queue that is made has its channel, one that is destroyed had nothing left.
LEMMA KeptLife ==
  ASSUME IInv, IInv', ~Snatched, SInv, KInv, XInv, NEW a \in Agents, LifeSteps(a)
  PROVE  Kept'
<1> USE DEF IInv, requests, queues, locks, engines, control, dispatch
<1> SUFFICES ASSUME NEW q \in Queues PROVE KeptAt(q)' /\ DyingAt(q)'
  BY DEF Kept
<1>1. /\ KeptAt(q) /\ DyingAt(q) /\ CountedAt(q)
      /\ refs[q] \in Int /\ refs'[q] \in Int
      /\ Cardinality(Commands(q)) \in Nat /\ Cardinality(Commands(q)') \in Nat
  BY CommandsType, PrimedType DEF XInv, Kept, Counted, TypeOK
<1>2. ASSUME CreatePipe(a) PROVE KeptAt(q)' /\ DyingAt(q)'
  <2>1. pc[a] = "pipe" /\ Alive = {} /\ asked' = asked
    BY <1>2 DEF CreatePipe, KInv, Started
  <2>2. life[q] # "alive" /\ refs[q] = 0 /\ ~Owed(q)
    BY <2>1, NotAlive DEF Alive
  <2>3. \A b \in Agents : pc'[b] = "retain" => pc[b] = "retain" /\ arg'[b] = arg[b]
    BY <1>2 DEF CreatePipe, Back, TypeOK
  <2>4. ~Owed(q)'
    BY <2>2, <2>3 DEF Owed
  <2>5. CASE arg[a].queue = q
    <3>1. life'[q] = "alive" /\ refs'[q] = 1 /\ life[q] = "unborn"
      BY <1>2, <2>1, <2>5, NilAssumption DEF CreatePipe, TypeOK, Users
    <3>2. Channel(q)'
      BY <2>1, <3>1 DEF Channel, XInv, Farewell
    <3>3. QED
      BY <1>1, <2>4, <3>1, <3>2 DEF KeptAt, DyingAt, Held, One
  <2>6. CASE arg[a].queue # q
    <3>1. life'[q] = life[q] /\ refs'[q] = refs[q]
      BY <1>2, <2>6 DEF CreatePipe, TypeOK
    <3>2. QED
      BY <1>1, <2>2, <2>4, <3>1 DEF KeptAt, DyingAt, Held, One
  <2>7. QED
    BY <2>5, <2>6
<1>3. ASSUME ~CreatePipe(a) PROVE KeptAt(q)' /\ DyingAt(q)'
  <2>1. /\ UNCHANGED <<asked, pipe, clients, hand, after>>
        /\ \A b \in Agents \ {a} : pc'[b] = pc[b] /\ arg'[b] = arg[b]
        /\ pc[a] \in {"user", "destroy", "stop"}
        /\ pc'[a] \in {"user", "pipe", "stop", "join", "poll"}
    BY <1>3, LifeMove DEF SInv, KInv
  <2>2. (InHand(q)' <=> InHand(q)) /\ Commands(q)' = Commands(q) /\ Polled' = Polled
    BY <2>1 DEF InHand, HandPlaces, Commands, Polled, Agents
  <2>3. Owed(q)' => Owed(q)
    BY <2>1 DEF Owed
  <2>4. ASSUME life'[q] = life[q] PROVE Channel(q) => Channel(q)'
    BY <2>1, <2>4 DEF Channel, Calls
  <2>5. CASE \E p \in Queues : CreateQueue(a, p)
    <3>1. PICK p \in Queues : CreateQueue(a, p)
      BY <2>5
    <3>2. pc[a] = "user" /\ life[p] = "unborn"
      BY <3>1 DEF CreateQueue
    <3>3. \/ UNCHANGED <<life, refs>>
          \/ life' = [life EXCEPT ![p] = "alive"] /\ refs' = [refs EXCEPT ![p] = 1]
      BY <3>1 DEF CreateQueue, Join
    <3>4. CASE UNCHANGED <<life, refs>>
      <4>1. KeptAt(q)'
        BY <1>1, <2>2, <2>3, <2>4, <3>4, KeptFrame
      <4>2. QED
        BY <1>1, <2>1, <3>2, <3>4, <4>1, DyingFrame
    <3>5. CASE p = q /\ life' = [life EXCEPT ![p] = "alive"] /\ refs' = [refs EXCEPT ![p] = 1]
      <4>1. life'[q] = "alive" /\ refs'[q] = 1 /\ "release" \notin asked'[q]
        BY <2>1, <3>2, <3>5 DEF TypeOK, XInv, Farewell
      <4>2. Channel(q)' /\ ~Owed(q)'
        BY <2>3, <3>2, <3>5, <4>1, NotAlive DEF Channel
      <4>3. QED
        BY <1>1, <4>1, <4>2 DEF KeptAt, DyingAt, Held, One
    <3>6. CASE p # q /\ life' = [life EXCEPT ![p] = "alive"] /\ refs' = [refs EXCEPT ![p] = 1]
      <4>1. life'[q] = life[q] /\ refs'[q] = refs[q]
        BY <3>6 DEF TypeOK
      <4>2. KeptAt(q)'
        BY <1>1, <2>2, <2>3, <2>4, <4>1, KeptFrame
      <4>3. QED
        BY <1>1, <2>1, <3>2, <4>1, <4>2, DyingFrame
    <3>7. QED
      BY <3>3, <3>4, <3>5, <3>6
  <2>6. CASE Destroy(a)
    <3>1. /\ pc[a] = "destroy" /\ arg[a].queue \in Queues /\ refs' = refs
          /\ life' = [life EXCEPT ![arg[a].queue] = "freed"]
      BY <2>6 DEF Destroy, Places, TypeOK
    <3>2. refs[arg[a].queue] = 0 /\ life[arg[a].queue] = "alive"
      BY <3>1, NilAssumption DEF Users
    <3>3. ~Channel(arg[a].queue)
      BY <3>1, <3>2, HeldLemma
    <3>4. Channel(q) => arg[a].queue # q /\ Channel(q)'
      BY <2>4, <3>1, <3>3 DEF TypeOK
    <3>5. KeptAt(q)'
      BY <1>1, <2>2, <2>3, <3>1, <3>4, KeptFrame
    <3>6. CASE arg[a].queue = q
      <4>1. life'[q] = "freed"
        BY <3>1, <3>6 DEF TypeOK
      <4>2. QED
        BY <3>5, <4>1 DEF DyingAt
    <3>7. CASE arg[a].queue # q
      <4>1. life'[q] = life[q] /\ refs'[q] = refs[q]
        BY <3>1, <3>7 DEF TypeOK
      <4>2. DyingAt(q)'
        BY <1>1, <2>1, <3>7, <4>1 DEF DyingAt
      <4>3. QED
        BY <3>5, <4>2
    <3>8. QED
      BY <3>6, <3>7
  <2>7. CASE ClosePipe(a) \/ EngineInit(a) \/ EngineStop(a)
    <3>1. UNCHANGED <<life, refs>> /\ pc[a] # "destroy"
      BY <2>7 DEF ClosePipe, EngineInit, EngineStop
    <3>2. KeptAt(q)'
      BY <1>1, <2>2, <2>3, <2>4, <3>1, KeptFrame
    <3>3. QED
      BY <1>1, <2>1, <3>1, <3>2, DyingFrame
  <2>8. QED
    BY <1>3, <2>5, <2>6, <2>7 DEF LifeSteps
<1>4. QED
  BY <1>2, <1>3

\* What the dispatch has in its hands stays there until it is through with it,
\* and comes there only with a command.
LEMMA DispatchHands ==
  ASSUME TypeOK, Places, Phases, pc[Dispatch] = "visit" => after # "drain",
         DispatchSteps, ~ReadCommand
  PROVE  /\ pipe' = pipe /\ (arg' = arg \/ RemoveClient)
         /\ pc'[Dispatch] = "visit" => after' # "drain"
         /\ \A q \in Queues : InHand(q)' => InHand(q)
         /\ \A q \in Queues : InHand(q) =>
              InHand(q)' \/ (hand = q /\ (RemoveClient \/ (UpdateClient /\ seen # {})))
<1> USE DEF requests, queues, locks, engines, control, dispatch, Go
<1>0. Dispatch \in Agents /\ after \in {"poll", "visit", "revise", "drain"}
  BY DEF Agents, TypeOK
<1>1. pipe' = pipe /\ (arg' = arg \/ RemoveClient)
  BY DEF DispatchSteps, DispatchNext, LockedNext, Poll, Sweep, HandlerReturns, ReviseClient,
     UpdateClient, RemoveClient, DispatchEnds, Visit, PeekRead, PeekWrite, Drain
<1> DEFINE Same == /\ pc'[Dispatch] = "visit" => after' # "drain"
                   /\ \A q \in Queues : InHand(q)' <=> InHand(q)
           Less == /\ pc'[Dispatch] = "visit" => after' # "drain"
                   /\ \A q \in Queues : InHand(q)' => InHand(q)
                   /\ \A q \in Queues : InHand(q) => hand = q
\* Nothing is in its hands before such a step, nor after it.
<1>2. ASSUME pc[Dispatch] \notin {"drain", "remove"}, after # "drain",
             pc[Dispatch] \in HandPlaces => after # "poll",
             pc'[Dispatch] \notin HandPlaces, after' # "drain"
      PROVE  Same
  BY <1>2 DEF InHand, HandPlaces
<1>3. ASSUME Poll \/ DispatchEnds PROVE Same
  <2>1. /\ pc[Dispatch] \in {"poll", "read"} /\ after' = after
        /\ pc'[Dispatch] \in {"visit", "ended"}
    BY <1>0, <1>3 DEF Poll, DispatchEnds, TypeOK
  <2>2. after = "poll"
    BY <2>1 DEF Places, Phases
  <2>3. QED
    BY <1>2, <2>1, <2>2 DEF HandPlaces
<1>4. ASSUME Sweep \/ (\E q \in Queues, s \in Sides : Visit(q, s)) PROVE Same
  <2>1. /\ pc[Dispatch] = "visit"
        /\ \/ after' \in {"poll", "visit", "revise"} /\ pc'[Dispatch] \in {"read", "poll", "user"}
           \/ after' = after /\ pc' = pc
    BY <1>0, <1>4 DEF Sweep, Visit, Handler, TypeOK
  <2>2. QED
    BY <1>2, <2>1 DEF HandPlaces
<1>5. ASSUME HandlerReturns PROVE Same
  <2>1. /\ pc[Dispatch] = "user" /\ after' = after /\ hand' = hand
        /\ pc'[Dispatch] = IF after = "revise" THEN "peek_read" ELSE after
    BY <1>0, <1>5 DEF HandlerReturns, TypeOK
  <2>2. QED
    BY <1>0, <2>1 DEF InHand, HandPlaces
<1>6. ASSUME PeekRead \/ PeekWrite PROVE Same
  <2>1. /\ pc[Dispatch] \in {"peek_read", "peek_write"} /\ after' = after /\ hand' = hand
        /\ pc'[Dispatch] \in {"peek_write", "assign"}
    BY <1>0, <1>6 DEF PeekRead, PeekWrite, TypeOK
  <2>2. QED
    BY <2>1 DEF InHand, HandPlaces
<1>7. ASSUME Drain PROVE Same
  <2>1. /\ pc[Dispatch] = "drain" /\ hand' = hand
        /\ \/ pc'[Dispatch] = "user" /\ after' = "drain"
           \/ pc'[Dispatch] = "remove" /\ after' = "poll"
    BY <1>0, <1>7 DEF Drain, CancelNext, Handler, TypeOK
  <2>2. QED
    BY <2>1 DEF InHand, HandPlaces
<1>8. ASSUME ReviseClient PROVE Same
  <2>1. /\ pc[Dispatch] = "assign" /\ after = "revise" /\ after' = after
        /\ pc'[Dispatch] = "visit"
    BY <1>0, <1>8 DEF ReviseClient, TypeOK
  <2>2. QED
    BY <1>2, <2>1 DEF HandPlaces
<1>9. ASSUME UpdateClient, seen = {} PROVE Same
  <2>1. /\ pc[Dispatch] = "assign" /\ after = "poll" /\ after' = after /\ hand' = hand
        /\ pc'[Dispatch] = "remove"
    BY <1>0, <1>9 DEF UpdateClient, TypeOK
  <2>2. QED
    BY <2>1 DEF InHand, HandPlaces
<1>10. ASSUME RemoveClient \/ (UpdateClient /\ seen # {}) PROVE Less
  <2>1. pc[Dispatch] \in {"remove", "assign"} /\ after' = after /\ after = "poll"
    BY <1>10 DEF RemoveClient, UpdateClient, Places
  <2>2. pc'[Dispatch] \notin HandPlaces
    <3>1. CASE UpdateClient /\ seen # {}
      BY <1>0, <3>1 DEF UpdateClient, TypeOK, HandPlaces
    <3>2. CASE RemoveClient
      <4>1. CASE Call(Dispatch, "destroy", "none", hand, Nil)
        BY <1>0, <4>1 DEF Call, TypeOK, HandPlaces
      <4>2. CASE Return(Dispatch)
        BY <1>0, <4>2, ReturnType DEF TypeOK, HandPlaces
      <4>3. QED
        BY <3>2, <4>1, <4>2 DEF RemoveClient, ReleaseRefs
    <3>3. QED
      BY <1>10, <3>1, <3>2
  <2>3. QED
    BY <2>1, <2>2 DEF InHand, HandPlaces
<1>11. Same \/ (Less /\ (RemoveClient \/ (UpdateClient /\ seen # {})))
  <2> HIDE DEF Same, Less
  <2>1. QED
    BY <1>3, <1>4, <1>5, <1>6, <1>7, <1>8, <1>9, <1>10 DEF DispatchSteps, DispatchNext, LockedNext
<1>12. QED
  BY <1>1, <1>11

\* The element of clients is never the last reference of its queue.
LEMMA NotDying ==
  ASSUME IInv, IInv', ~Snatched, ~Snatched', Farewell, NEW q \in Queues, q \in Polled,
         UNCHANGED <<life, asked, arg, pipe>>,
         \A b \in Agents \ {Dispatch} : pc'[b] = pc[b],
         pc[Dispatch] \notin Calls \cup {"ended", "remove"}, pc'[Dispatch] \notin Calls
  PROVE  refs'[q] # 0
<1> SUFFICES ASSUME refs'[q] = 0 PROVE FALSE
  OBVIOUS
<1>1. life[q] = "alive"
  BY HeldLemma DEF IInv
<1>2. (TypeOK /\ Counted /\ Users /\ ~Snatched /\ life[q] = "alive" /\ refs[q] = 0 =>
         ~Channel(q) /\ Commands(q) = {})'
  BY AliveLemma, PTL
<1>3. ~Channel(q)' /\ Commands(q)' = {}
  BY <1>1, <1>2 DEF IInv
<1>4. ~Channel(q) /\ Commands(q) = {}
  <2>1. Commands(q)' = Commands(q)
    BY DEF Commands
  <2>2. QED
    BY <1>3, <2>1, DispatchSame
<1>5. ~Unsaid(q)
  BY <1>1, <1>4 DEF Unsaid, Channel, Calls
<1>6. Final(q)
  BY <1>5 DEF Farewell, Backed, Spoken, Leaving
<1>7. QED
  BY <1>4, <1>6 DEF Final, Commands

LEMMA KeptDispatch ==
  ASSUME IInv, IInv', ~Snatched, ~Snatched', KInv, XInv, DispatchSteps
  PROVE  Kept'
<1> USE DEF IInv, requests, queues, locks, engines, control, dispatch, Go
<1> SUFFICES ASSUME NEW q \in Queues PROVE KeptAt(q)' /\ DyingAt(q)'
  BY DEF Kept
<1>0. Dispatch \in Agents
  BY DEF Agents
<1>1. /\ KeptAt(q) /\ DyingAt(q) /\ Phases /\ Farewell
      /\ refs[q] \in Int /\ refs'[q] \in Int
      /\ Cardinality(Commands(q)) \in Nat /\ Cardinality(Commands(q)') \in Nat
      /\ pc[Dispatch] = "visit" => after # "drain"
  BY CommandsType, PrimedType DEF XInv, Kept, KInv, Farewell, TypeOK
<1>2. /\ UNCHANGED <<life, asked>>
      /\ \A b \in Agents \ {Dispatch} : pc'[b] = pc[b] /\ arg'[b] = arg[b]
      /\ pc[Dispatch] \notin Calls \cup {"destroy", "ended"} /\ pc'[Dispatch] \notin Calls
  BY DispatchMove DEF Calls, HandPlaces
<1>3. ASSUME ~ReadCommand
      PROVE  /\ Commands(q)' = Commands(q) /\ (arg' = arg \/ RemoveClient)
             /\ pipe' = pipe
             /\ InHand(q) =>
                  InHand(q)' \/ (hand = q /\ (RemoveClient \/ (UpdateClient /\ seen # {})))
  BY <1>1, <1>3, DispatchHands DEF Commands
<1>4. ASSUME arg' = arg PROVE (Channel(q)' <=> Channel(q)) /\ (Owed(q)' <=> Owed(q))
  BY <1>2, <1>4, DispatchSame
<1>5. ASSUME ~ReadCommand, ~RemoveClient, refs'[q] = refs[q], q \in Polled => q \in Polled',
             ~(hand = q /\ UpdateClient /\ seen # {})
      PROVE  KeptAt(q)' /\ DyingAt(q)'
  <2>1. KeptAt(q)'
    BY <1>1, <1>3, <1>4, <1>5, KeptFrame
  <2>2. DyingAt(q)'
    BY <1>1, <1>2, <1>5, DyingFrame, <1>0
  <2>3. QED
    BY <2>1, <2>2
<1>6. ASSUME NEW S, S \subseteq Polled, DropClients(S), Polled' = Polled \ S,
             ~ReadCommand, ~RemoveClient, ~UpdateClient, pc[Dispatch] # "remove"
      PROVE  KeptAt(q)' /\ DyingAt(q)'
  <2>1. CASE q \in S
    <3>1. refs'[q] = refs[q] - 1 /\ q \in Polled /\ q \notin Polled'
      BY <1>6, <2>1 DEF DropClients
    <3>2. KeptAt(q)'
      BY <1>1, <1>3, <1>4, <1>6, <3>1 DEF KeptAt, Held, One
    <3>3. refs'[q] # 0
      BY <1>1, <1>2, <1>3, <1>6, <3>1, NotDying
    <3>4. QED
      BY <3>2, <3>3 DEF DyingAt
  <2>2. CASE q \notin S
    <3>1. refs'[q] = refs[q]
      BY <1>1, <1>6, <2>2 DEF DropClients
    <3>2. QED
      BY <1>5, <1>6, <2>2, <3>1
  <2>3. QED
    BY <2>1, <2>2
<1>7. ASSUME Sweep PROVE KeptAt(q)' /\ DyingAt(q)'
  <2> DEFINE gone == {p \in Polled : clients[p] = {}}
  <2>1. /\ pc[Dispatch] = "visit" /\ DropClients(gone) /\ clients' = Without(gone)
    BY <1>7 DEF Sweep
  <2>2. gone \subseteq Polled /\ Polled' = Polled \ gone
    BY <2>1 DEF Without, Polled
  <2>3. ~ReadCommand /\ ~RemoveClient /\ ~UpdateClient
    BY <2>1 DEF ReadCommand, RemoveClient, UpdateClient
  <2> HIDE DEF gone
  <2>4. QED
    BY <1>6, <2>1, <2>2, <2>3
<1>8. ASSUME DispatchEnds PROVE KeptAt(q)' /\ DyingAt(q)'
  <2>1. /\ pc[Dispatch] \in {"read", "poll"} /\ DropClients(Polled) /\ clients' = <<>>
        /\ pc'[Dispatch] = "ended"
    BY <1>0, <1>8 DEF DispatchEnds, TypeOK
  <2>2. Polled' = Polled \ Polled
    BY <2>1 DEF Polled
  <2>3. ~ReadCommand
    BY <1>8, <2>1 DEF ReadCommand, DispatchEnds
  <2>4. ~RemoveClient /\ ~UpdateClient
    BY <2>1 DEF RemoveClient, UpdateClient
  <2>5. QED
    BY <1>6, <2>1, <2>2, <2>3, <2>4
<1>9. ASSUME UpdateClient PROVE KeptAt(q)' /\ DyingAt(q)'
  <2>1. /\ pc[Dispatch] = "assign" /\ after = "poll" /\ after' = after /\ arg' = arg /\ pipe' = pipe
        /\ hand \in Queues /\ ~ReadCommand /\ ~RemoveClient
    BY <1>9 DEF UpdateClient, TypeOK, Places, HandPlaces, ReadCommand, RemoveClient
  <2>2. CASE seen = {}
    <3>1. UNCHANGED <<refs, clients>>
      BY <1>9, <2>2 DEF UpdateClient
    <3>2. QED
      BY <1>5, <2>1, <2>2, <3>1 DEF Polled
  <2>3. CASE seen # {}
    <3>1. /\ clients' = Inserted /\ DropClients({hand} \cap Polled)
      BY <1>9, <2>3 DEF UpdateClient
    <3>2. Polled' = Polled \cup {hand}
      BY <3>1 DEF Inserted, Polled
    <3>3. CASE q = hand
      <4>1. InHand(q) /\ q \in Polled'
        BY <2>1, <3>2, <3>3 DEF InHand, HandPlaces
      <4>2. refs'[q] = refs[q] - One(q \in Polled)
        BY <1>1, <3>1, <3>3 DEF DropClients, One
      <4>3. KeptAt(q)'
        BY <1>1, <1>3, <1>4, <2>1, <4>1, <4>2 DEF KeptAt, Held, One
      <4>4. refs'[q] # 0
        <5>1. CASE q \in Polled
          BY <1>1, <1>2, <2>1, <5>1, NotDying
        <5>2. CASE q \notin Polled
          <6>1. refs[q] > 0
            BY <4>1, HeldLemma
          <6>2. QED
            BY <1>1, <4>2, <5>2, <6>1 DEF One
        <5>3. QED
          BY <5>1, <5>2
      <4>5. QED
        BY <4>3, <4>4 DEF DyingAt
    <3>4. CASE q # hand
      <4>1. refs'[q] = refs[q]
        BY <1>1, <3>1, <3>4 DEF DropClients
      <4>2. QED
        BY <1>5, <2>1, <3>2, <3>4, <4>1
    <3>5. QED
      BY <3>3, <3>4
  <2>4. QED
    BY <2>2, <2>3
<1>10. ASSUME RemoveClient PROVE KeptAt(q)' /\ DyingAt(q)'
  <2>1. /\ hand \in Queues /\ pc[Dispatch] = "remove"
        /\ clients' = Without({hand}) /\ ~ReadCommand
        /\ ReleaseRefs(Dispatch, hand, 1 + Cardinality({hand} \cap Polled))
    BY <1>10 DEF RemoveClient, TypeOK, Places, HandPlaces, ReadCommand
  <2>2. Cardinality({hand} \cap Polled) = One(hand \in Polled)
    BY OnePolled DEF TypeOK
  <2>3. Polled' = Polled \ {hand}
    BY <2>1 DEF Without, Polled
  <2>4. Channel(q) => Channel(q)'
    BY <1>2, <2>1 DEF Channel, Calls
  <2>5. Owed(q)' => Owed(q)
    BY <1>2 DEF Owed, Calls
  <2>6. CASE q = hand
    <3>1. refs'[q] = refs[q] - (1 + One(q \in Polled)) /\ InHand(q) /\ q \notin Polled'
      BY <2>1, <2>2, <2>3, <2>6 DEF ReleaseRefs, TypeOK, InHand
    <3>2. KeptAt(q)'
      BY <1>1, <1>3, <2>1, <2>4, <2>5, <3>1 DEF KeptAt, Held, One
    <3>3. ASSUME refs'[q] = 0 PROVE pc'[Dispatch] = "destroy" /\ arg'[Dispatch].queue = q
      <4>1. refs[q] = 1 + One(q \in Polled)
        BY <1>1, <3>1, <3>3 DEF One
      <4>2. Call(Dispatch, "destroy", "none", q, Nil)
        BY <2>1, <2>2, <2>6, <4>1 DEF ReleaseRefs
      <4>3. QED
        BY <1>0, <4>2 DEF Call, TypeOK
    <3>4. QED
      BY <1>0, <3>2, <3>3 DEF DyingAt
  <2>7. CASE q # hand
    <3>1. refs'[q] = refs[q] /\ (q \in Polled => q \in Polled') /\ ~InHand(q)
      BY <2>1, <2>3, <2>7 DEF ReleaseRefs, TypeOK, InHand
    <3>2. KeptAt(q)'
      BY <1>1, <1>3, <2>1, <2>4, <2>5, <3>1, KeptFrame
    <3>3. DyingAt(q)'
      BY <1>0, <1>1, <1>2, <3>1, DyingFrame
    <3>4. QED
      BY <3>2, <3>3
  <2>8. QED
    BY <2>6, <2>7
<1>11. ASSUME ReadCommand PROVE KeptAt(q)' /\ DyingAt(q)'
  <2>1. /\ pc[Dispatch] = "read" /\ after = "poll" /\ pipe # <<>> /\ pipe' = Tail(pipe)
        /\ hand' = Head(pipe).queue
        /\ UNCHANGED <<refs, arg, clients, after>>
    BY <1>11 DEF ReadCommand, Places
  <2>2. pc'[Dispatch] \in HandPlaces
    <3>1. Head(pipe).cmd \in {"update", "cancel", "shutdown"}
      BY <2>1, PipeLemma DEF Commanded
    <3>2. QED
      BY <1>0, <1>11, <3>1 DEF ReadCommand, HandPlaces, TypeOK
  <2>3. ~InHand(q) /\ (InHand(q)' <=> Head(pipe).queue = q)
    BY <2>1, <2>2 DEF InHand, HandPlaces
  <2>4. Cardinality(Commands(q)') + One(Head(pipe).queue = q) = Cardinality(Commands(q))
    BY <2>1, TailLemma
  <2>5. Polled' = Polled /\ refs'[q] = refs[q]
    BY <2>1 DEF Polled
  <2>6. KeptAt(q)'
    BY <1>1, <1>4, <2>1, <2>3, <2>4, <2>5 DEF KeptAt, Held, One
  <2>7. DyingAt(q)'
    BY <1>0, <1>1, <1>2, <2>5, DyingFrame
  <2>8. QED
    BY <2>6, <2>7
<1>12. ASSUME Poll \/ HandlerReturns \/ ReviseClient \/ LockedNext PROVE KeptAt(q)' /\ DyingAt(q)'
  <2>1. /\ refs' = refs
        /\ \/ clients' = clients
           \/ clients' = [clients EXCEPT ![hand] = seen]
    BY <1>12 DEF Poll, HandlerReturns, ReviseClient, Revise, LockedNext, Visit, PeekRead, PeekWrite, Drain
  <2>2. Polled' = Polled
    BY <2>1 DEF Polled
  <2>3. pc[Dispatch] \notin {"read", "remove"} /\ (pc[Dispatch] = "assign" => after # "poll")
    BY <1>12 DEF Poll, HandlerReturns, ReviseClient, LockedNext, Visit, PeekRead, PeekWrite, Drain
  <2>4. ~ReadCommand /\ ~RemoveClient /\ ~UpdateClient
    BY <2>3 DEF ReadCommand, RemoveClient, UpdateClient
  <2>5. QED
    BY <1>5, <2>1, <2>2, <2>4
<1>13. QED
  BY <1>7, <1>8, <1>9, <1>10, <1>11, <1>12 DEF DispatchSteps, DispatchNext

-----------------------------------------------------------------------------
(* The last word about a queue.                                            *)

Saying(a) == arg[a].cmd = "shutdown" /\ pc[a] \in {"root", "write"}

\* What is meant by the last word, in terms of who is about to say it.
LEMMA UnsaidLemma ==
  ASSUME NEW q
  PROVE  /\ Unsaid(q) <=> ("release" \notin asked[q] \/ \E a \in Agents : arg[a].queue = q /\ Saying(a))
         /\ Unsaid(q)' <=>
              ("release" \notin asked'[q] \/ \E a \in Agents : arg'[a].queue = q /\ Saying(a)')
BY DEF Unsaid, Saying

\* A step outside the pipe: nothing new is known of any queue, and what is yet
\* to be said still is.
LEMMA FarewellFrame ==
  ASSUME Farewell, pipe' = pipe, pc'[Dispatch] = "visit" => after' # "drain",
         \A q \in Queues : (q \in Polled)' \/ InHand(q)' => q \in Polled \/ InHand(q),
         pc'[Dispatch] # "ended" => pc[Dispatch] # "ended",
         \A q \in Queues : Leaving(q) => Leaving(q)' \/ ~Spoken(q)',
         \A q \in Queues : Unsaid(q) => Unsaid(q)' \/ pc'[Dispatch] = "ended",
         \A a \in Agents : Saying(a)' => \/ Saying(a) /\ arg'[a] = arg[a]
                                         \/ ~Final(arg'[a].queue),
         \A q \in Queues : "release" \in asked'[q] => life'[q] # "unborn"
  PROVE  Farewell'
<1>1. \A q : (Final(q)' <=> Final(q)) /\ Commands(q)' = Commands(q)
  BY DEF Final, Commands
<1>2. LastWord'
  BY DEF Farewell, LastWord
<1>3. SaidOnce'
  <2>1. ASSUME NEW a \in Agents, Saying(a)' PROVE ~Final(arg'[a].queue)
    BY <2>1 DEF Farewell, SaidOnce, Saying
  <2>2. QED
    BY <1>1, <2>1 DEF SaidOnce, Saying
<1>4. ASSUME NEW q \in Queues PROVE Backed(q)'
  <2>1. Spoken(q)' => Spoken(q)
    BY <1>1 DEF Spoken
  <2>2. QED
    BY <1>1, <2>1 DEF Farewell, Backed
<1>5. QED
  BY <1>2, <1>3, <1>4 DEF Farewell

\* Who begins to say it, and who goes on without.
LEMMA SayingCall ==
  ASSUME TypeOK, SInv, NEW a \in Agents, CallSteps(a)
  PROVE  /\ Saying(a)' => \/ Saying(a) /\ arg'[a] = arg[a]
                          \/ \E q \in Queues : Release(a, q) /\ arg'[a].queue = q
         /\ Saying(a) => \/ Saying(a)' /\ arg'[a] = arg[a]
                         \/ WriteCommand(a) \/ SendFails(a)
<1>1. Return(a) => pc'[a] \in {"poll", "user"}
  BY ReturnType DEF TypeOK
<1>2. ASSUME NEW q \in Queues, \/ Cancel(a, q) \/ \E r \in Requests : BeginEnqueue(a, q, r)
      PROVE  ~Saying(a) /\ ~Saying(a)'
  <2>1. pc[a] = "user" /\ \E c \in {"cancel", "update"} : \E place, r : Call(a, place, c, q, r)
    BY <1>2 DEF Cancel, BeginEnqueue, Usable
  <2>2. PICK c \in {"cancel", "update"} : \E place, r : Call(a, place, c, q, r)
    BY <2>1
  <2>3. arg'[a].cmd = c
    BY <2>2 DEF Call, TypeOK
  <2>4. QED
    BY <2>1, <2>2, <2>3 DEF Saying
<1>3. ASSUME NEW q \in Queues, Release(a, q) PROVE ~Saying(a) /\ arg'[a].queue = q
  BY <1>3 DEF Release, Usable, Call, TypeOK, Saying
<1>4. ASSUME AwaitDispatch(a) \/ ConnectAtOnce(a) PROVE ~Saying(a) /\ ~Saying(a)'
  BY <1>1, <1>4 DEF AwaitDispatch, ConnectAtOnce, Saying
<1>5. ASSUME PushRequest(a) PROVE ~Saying(a) /\ ~Saying(a)'
  <2>1. arg' = arg /\ pc[a] = "local"
    BY <1>5 DEF PushRequest
  <2>2. arg[a].cmd = "update"
    BY <2>1, AtLocal DEF SInv
  <2>3. QED
    BY <2>1, <2>2 DEF Saying
<1>6. ASSUME AcquireRoot(a) PROVE arg'[a] = arg[a] /\ (Saying(a)' <=> Saying(a))
  BY <1>6 DEF AcquireRoot, Go, TypeOK, Saying
<1>7. ASSUME WriteCommand(a) PROVE ~Saying(a)'
  BY <1>7 DEF WriteCommand, Go, TypeOK, Saying
<1>8. ASSUME Sent(a) PROVE ~Saying(a)'
  BY <1>1, <1>8, SentType DEF TypeOK, Saying
<1>9. ASSUME Retain(a) PROVE ~Saying(a) /\ ~Saying(a)'
  BY <1>8, <1>9 DEF Retain, Saying
<1>10. ASSUME SendFails(a) PROVE ~Saying(a)'
  BY <1>8, <1>10 DEF SendFails
<1>11. ASSUME DropChannel(a) PROVE ~Saying(a) /\ ~Saying(a)'
  <2>1. CASE Call(a, "destroy", "none", arg[a].queue, Nil)
    BY <1>11, <2>1 DEF DropChannel, Call, Go, TypeOK, Saying
  <2>2. CASE Return(a)
    BY <1>1, <1>11, <2>2 DEF DropChannel, Saying
  <2>3. QED
    BY <1>11, <2>1, <2>2 DEF DropChannel, ReleaseRefs
<1>12. CASE \E q \in Queues : \/ Cancel(a, q) \/ Release(a, q)
                                \/ \E r \in Requests : BeginEnqueue(a, q, r)
  <2>1. PICK q \in Queues : \/ Cancel(a, q) \/ Release(a, q)
                            \/ \E r \in Requests : BeginEnqueue(a, q, r)
    BY <1>12
  <2>2. QED
    BY <1>2, <1>3, <2>1
<1>13. CASE \/ AwaitDispatch(a) \/ ConnectAtOnce(a) \/ PushRequest(a) \/ AcquireRoot(a)
            \/ WriteCommand(a) \/ Retain(a) \/ SendFails(a) \/ DropChannel(a)
  BY <1>4, <1>5, <1>6, <1>7, <1>9, <1>10, <1>11, <1>13
<1>14. QED
  BY <1>12, <1>13 DEF CallSteps

\* A command is written: nothing can follow the last word, and it is said once.
LEMMA FarewellWrite ==
  ASSUME IInv, SInv, Farewell, NEW a \in Agents, WriteCommand(a)
  PROVE  Farewell'
<1> USE DEF IInv, requests, queues, locks, engines, control, dispatch
<1> DEFINE p == arg[a].queue
           c == [cmd |-> arg[a].cmd, queue |-> p]
           n == Len(pipe) + 1
<1>1. /\ pc[a] = "write" /\ pipe' = Append(pipe, c)
      /\ UNCHANGED <<life, asked, arg, clients, hand, after>>
  BY DEF WriteCommand
<1>2. /\ pc'[a] = "retain" /\ \A b \in Agents \ {a} : pc'[b] = pc[b]
  BY DEF WriteCommand, Go, TypeOK
<1>3. c \in Commanded /\ p \in Queues /\ p # Nil
  BY <1>1, NilAssumption DEF Places, Calls, TypeOK, Commanded
<1>4. /\ DOMAIN pipe' = DOMAIN pipe \cup {n} /\ pipe'[n] = c
      /\ \A i \in DOMAIN pipe : pipe'[i] = pipe[i] /\ i <= n /\ i \in Int
      /\ n \in Int /\ n \notin DOMAIN pipe
  <2>1. /\ DOMAIN pipe' = DOMAIN pipe \cup {n} /\ pipe'[n] = c
        /\ \A i \in DOMAIN pipe : pipe'[i] = pipe[i]
    BY <1>1, <1>3, PipeLemma
  <2>2. DOMAIN pipe = 1..Len(pipe) /\ Len(pipe) \in Nat
    BY DEF TypeOK
  <2>3. QED
    BY <2>1, <2>2
<1>5. c.cmd = arg[a].cmd /\ c.queue = p
  OBVIOUS
<1> HIDE DEF c, n
<1>6. /\ ("release" \in asked[p] => arg[a].cmd = "shutdown" /\ Alone(a))
      /\ (arg[a].cmd = "shutdown" => "release" \in asked[p])
  BY <1>1, <1>3 DEF Users, Calls
<1>7. ~Final(p)
  <2>1. Final(p) => "release" \in asked[p]
    BY DEF Final, SInv, Served, Asks, Meant
  <2>2. QED
    BY <1>1, <1>6, <2>1 DEF Farewell, SaidOnce
<1>8. \A q : Final(q)' <=> Final(q) \/ (q = p /\ arg[a].cmd = "shutdown")
  BY <1>4, <1>5 DEF Final
<1>9. \A q : q # p => Commands(q)' = Commands(q)
  BY <1>4, <1>5 DEF Commands
<1>10. LastWord'
  <2> SUFFICES ASSUME NEW i \in DOMAIN pipe', NEW j \in DOMAIN pipe',
                      pipe'[i].cmd = "shutdown", pipe'[j].queue = pipe'[i].queue
               PROVE  j <= i
    BY DEF LastWord
  <2>1. CASE i = n
    BY <1>4, <2>1
  <2>2. CASE i \in DOMAIN pipe /\ j \in DOMAIN pipe
    BY <1>4, <2>2 DEF Farewell, LastWord
  <2>3. CASE i \in DOMAIN pipe /\ j = n
    <3>1. pipe[i].cmd = "shutdown" /\ pipe[i].queue = p
      BY <1>4, <1>5, <2>3
    <3>2. QED
      BY <1>7, <2>3, <3>1 DEF Final
  <2>4. QED
    BY <1>4, <2>1, <2>2, <2>3
<1>11. SaidOnce'
  <2> SUFFICES ASSUME NEW b \in Agents, arg[b].cmd = "shutdown", pc'[b] \in {"root", "write"},
                      Final(arg[b].queue)'
               PROVE  FALSE
    BY <1>1 DEF SaidOnce
  <2>1. b # a /\ pc[b] \in {"root", "write"}
    BY <1>2
  <2>2. ~Final(arg[b].queue)
    BY <2>1 DEF Farewell, SaidOnce
  <2>3. arg[b].queue = p /\ arg[a].cmd = "shutdown"
    BY <1>1, <1>4, <1>5, <2>2 DEF Final
  <2>4. QED
    BY <1>6, <2>1, <2>3 DEF Alone
<1>12. pc'[Dispatch] \in {"ended", "remove", "visit", "drain"} \cup HandPlaces =>
         pc'[Dispatch] = pc[Dispatch] /\ Dispatch # a
  BY <1>2 DEF HandPlaces, Agents
<1>13. \A q \in Queues : (InHand(q)' => InHand(q)) /\ ((q \in Polled)' <=> q \in Polled)
  BY <1>1, <1>12 DEF InHand, HandPlaces, Polled
<1>14. ASSUME NEW q \in Queues PROVE Backed(q)'
  <2>1. CASE q = p
    <3>1. CASE arg[a].cmd = "shutdown"
      BY <1>8, <2>1, <3>1 DEF Backed
    <3>2. CASE arg[a].cmd # "shutdown"
      BY <1>1, <1>6, <2>1, <3>2 DEF Backed, Unsaid
    <3>3. QED
      BY <3>1, <3>2
  <2>2. CASE q # p
    <3>1. Commands(q)' = Commands(q) /\ (Final(q)' <=> Final(q))
      BY <1>8, <1>9, <2>2
    <3>2. Unsaid(q) => Unsaid(q)'
      BY <1>1, <1>2, <2>2 DEF Unsaid
    <3>3. Leaving(q) => Leaving(q)'
      BY <1>1, <1>2, <3>1 DEF Leaving, Agents
    <3>4. Spoken(q)' => Spoken(q)
      BY <1>13, <3>1 DEF Spoken
    <3>5. pc'[Dispatch] # "ended" => pc[Dispatch] # "ended"
      BY <1>1, <1>2 DEF Agents
    <3>6. QED
      BY <3>1, <3>2, <3>3, <3>4, <3>5 DEF Farewell, Backed
  <2>3. QED
    BY <2>1, <2>2
<1>15. QED
  BY <1>1, <1>10, <1>11, <1>12, <1>14 DEF Farewell

LEMMA FarewellCall ==
  ASSUME IInv, SInv, KInv, Farewell, NEW a \in Agents, CallSteps(a), ~WriteCommand(a)
  PROVE  Farewell'
<1> USE DEF IInv, requests, queues, locks, engines, control, dispatch
<1>1. /\ UNCHANGED <<life, open, clients, hand, after>>
      /\ \A b \in Agents \ {a} : pc'[b] = pc[b] /\ arg'[b] = arg[b]
      /\ pc[a] \in Calls \cup {"user", "join"}
      /\ pc'[a] \in Calls \cup {"destroy", "poll", "user"}
  BY CallMove
<1>2. pipe' = pipe
  BY DEF CallSteps, Cancel, Release, BeginEnqueue, AwaitDispatch, PushRequest, ConnectAtOnce,
     AcquireRoot, Retain, SendFails, DropChannel
<1>3. /\ pc'[Dispatch] \in {"ended", "visit", "remove"} => pc'[Dispatch] = pc[Dispatch]
      /\ pc[Dispatch] \in {"ended", "visit", "remove"} => pc'[Dispatch] = pc[Dispatch]
  BY <1>1 DEF Calls, Agents
<1>4. \A q \in Queues : (q \in Polled)' \/ InHand(q)' => q \in Polled \/ InHand(q)
  BY <1>1, CallKeeps DEF Polled
<1>5. ASSUME NEW q \in Queues, Leaving(q) PROVE Leaving(q)'
  BY <1>1, <1>2, <1>3, <1>5 DEF Leaving, Commands
\* Asking for a release is what makes the last word due.
<1>6. ASSUME NEW p \in Queues, Release(a, p)
      PROVE  /\ ~Final(p) /\ life[p] = "alive" /\ arg'[a].queue = p /\ Saying(a)'
             /\ asked' = [asked EXCEPT ![p] = @ \cup {"release"}]
  <2>1. /\ "release" \notin asked[p] /\ life[p] = "alive" /\ Call(a, "root", "shutdown", p, Nil)
        /\ asked' = [asked EXCEPT ![p] = @ \cup {"release"}]
    BY <1>6 DEF Release, Usable
  <2>2. ~Final(p)
    BY <2>1 DEF Final, SInv, Served, Asks, Meant
  <2>3. arg'[a].queue = p /\ arg'[a].cmd = "shutdown" /\ pc'[a] = "root"
    BY <2>1 DEF Call, Go, TypeOK
  <2>4. QED
    BY <2>1, <2>2, <2>3 DEF Saying
<1>7. ASSUME ~\E p \in Queues : Release(a, p), NEW q \in Queues
      PROVE  "release" \in asked'[q] <=> "release" \in asked[q]
  <2>1. asked' = asked \/ \E p \in Queues : asked' = [asked EXCEPT ![p] = @ \cup {"cancel"}]
    BY <1>7 DEF CallSteps, Cancel, BeginEnqueue, AwaitDispatch, PushRequest, ConnectAtOnce,
       AcquireRoot, WriteCommand, Retain, SendFails, DropChannel
  <2>2. QED
    BY <2>1 DEF TypeOK
<1>8. ASSUME NEW q \in Queues, Unsaid(q) PROVE Unsaid(q)' \/ pc'[Dispatch] = "ended"
  <2>1. CASE "release" \notin asked[q]
    <3>1. CASE \E p \in Queues : Release(a, p)
      <4>1. PICK p \in Queues : Release(a, p)
        BY <3>1
      <4>2. CASE p = q
        BY <1>6, <4>1, <4>2, UnsaidLemma
      <4>3. CASE p # q
        <5>1. "release" \notin asked'[q]
          BY <1>6, <2>1, <4>1, <4>3 DEF TypeOK
        <5>2. QED
          BY <5>1 DEF Unsaid
      <4>4. QED
        BY <4>2, <4>3
    <3>2. CASE ~\E p \in Queues : Release(a, p)
      BY <1>7, <2>1, <3>2 DEF Unsaid
    <3>3. QED
      BY <3>1, <3>2
  <2>2. CASE "release" \in asked[q]
    <3>1. PICK b \in Agents : arg[b].queue = q /\ Saying(b)
      BY <1>8, <2>2, UnsaidLemma
    <3>2. CASE b # a \/ (Saying(a)' /\ arg'[a] = arg[a])
      <4>1. Saying(b)' /\ arg'[b].queue = q
        BY <1>1, <3>1, <3>2 DEF Saying
      <4>2. QED
        BY <4>1, UnsaidLemma
    <3>3. CASE b = a /\ SendFails(a)
      <4>1. life[q] = "alive"
        BY <3>1, <3>3, NilAssumption DEF Saying, Users, Calls
      <4>2. open
        BY <4>1 DEF KInv, Started, Alive
      <4>3. pc[Dispatch] = "ended"
        BY <3>3, <4>2 DEF SendFails
      <4>4. QED
        BY <1>3, <4>3
    <3>4. QED
      BY <3>1, <3>2, <3>3, SayingCall
  <2>3. QED
    BY <2>1, <2>2
<1>9. ASSUME NEW b \in Agents, Saying(b)'
      PROVE  (Saying(b) /\ arg'[b] = arg[b]) \/ ~Final(arg'[b].queue)
  <2>1. CASE b = a
    BY <1>6, <1>9, <2>1, SayingCall
  <2>2. CASE b # a
    BY <1>1, <1>9, <2>2 DEF Saying
  <2>3. QED
    BY <2>1, <2>2
<1>10. ASSUME NEW q \in Queues, "release" \in asked'[q] PROVE life'[q] # "unborn"
  <2>1. CASE \E p \in Queues : Release(a, p)
    <3>1. PICK p \in Queues : Release(a, p)
      BY <2>1
    <3>2. p = q \/ "release" \in asked[q]
      BY <1>6, <1>10, <3>1 DEF TypeOK
    <3>3. QED
      BY <1>1, <1>6, <3>1, <3>2 DEF Farewell
  <2>2. CASE ~\E p \in Queues : Release(a, p)
    BY <1>1, <1>7, <1>10, <2>2 DEF Farewell
  <2>3. QED
    BY <2>1, <2>2
<1>11. pc'[Dispatch] = "visit" => after' # "drain"
  BY <1>1, <1>3 DEF Farewell
<1>12. pc'[Dispatch] # "ended" => pc[Dispatch] # "ended"
  BY <1>3
<1>13. QED
  BY <1>2, <1>4, <1>5, <1>8, <1>9, <1>10, <1>11, <1>12, FarewellFrame

LEMMA FarewellLife ==
  ASSUME IInv, SInv, KInv, Farewell, NEW a \in Agents, LifeSteps(a)
  PROVE  Farewell'
<1> USE DEF IInv, requests, queues, locks, engines, control, dispatch
<1>1. ASSUME CreatePipe(a) PROVE Farewell'
  <2>1. pc[a] = "pipe" /\ Alive = {}
    BY <1>1 DEF CreatePipe, KInv, Started
  <2>2. /\ UNCHANGED <<asked, clients, hand>> /\ pipe' = <<>> /\ after' = "poll"
        /\ pc' = [pc EXCEPT ![a] = Back(a), ![Dispatch] = "poll"]
        /\ \A q \in Queues : life'[q] = "unborn" => life[q] = "unborn"
    BY <1>1, <2>1 DEF CreatePipe, TypeOK
  <2>3. pc'[Dispatch] = "poll"
    BY <2>2 DEF TypeOK, Agents
  <2>4. \A q \in Queues : ~Spoken(q)'
    <3>1. ASSUME NEW q \in Queues PROVE (q \notin Polled)' /\ ~InHand(q)' /\ Commands(q)' = {}
      <4>1. life[q] # "alive"
        BY <2>1 DEF Alive
      <4>2. q \notin Polled
        BY <4>1, NotAlive
      <4>3. (q \notin Polled)'
        BY <2>2, <4>2 DEF Polled
      <4>4. QED
        BY <2>2, <2>3, <4>3 DEF InHand, HandPlaces, Commands
    <3>2. QED
      BY <3>1 DEF Spoken
  <2>5. LastWord' /\ SaidOnce'
    BY <2>2 DEF LastWord, SaidOnce, Final
  <2>6. QED
    BY <2>2, <2>3, <2>4, <2>5 DEF Farewell, Backed
<1>2. ASSUME ~CreatePipe(a) PROVE Farewell'
  <2>1. /\ UNCHANGED <<asked, pipe, clients, hand, after>>
        /\ \A b \in Agents \ {a} : pc'[b] = pc[b] /\ arg'[b] = arg[b]
        /\ pc[a] \in {"user", "destroy", "stop"}
        /\ pc'[a] \in {"user", "pipe", "stop", "join", "poll"}
    BY <1>2, LifeMove DEF SInv, KInv
  <2>2. \A q \in Queues : life'[q] = "unborn" => life[q] = "unborn"
    <3>1. \/ life' = life
          \/ \E q : life' = [life EXCEPT ![q] = "alive"] \/ life' = [life EXCEPT ![q] = "freed"]
      BY <1>2 DEF LifeSteps, CreateQueue, Join, Destroy, ClosePipe, EngineInit, EngineStop
    <3>2. QED
      BY <3>1 DEF TypeOK
  <2>3. /\ pc'[Dispatch] \in {"ended", "visit", "remove"} => pc'[Dispatch] = pc[Dispatch]
        /\ pc[Dispatch] \in {"ended", "visit", "remove"} => pc'[Dispatch] = pc[Dispatch]
    BY <2>1 DEF Agents
  <2>4. \A b \in Agents : Saying(b)' <=> Saying(b)
    BY <2>1 DEF Saying
  <2>5. \A b \in Agents : Saying(b) => arg'[b] = arg[b]
    BY <2>1 DEF Saying
  <2>6. \A q \in Queues : Unsaid(q) => Unsaid(q)'
    BY <2>1, <2>4, <2>5, UnsaidLemma
  <2>7. \A q \in Queues : (q \in Polled)' \/ InHand(q)' => q \in Polled \/ InHand(q)
    BY <2>1 DEF Polled, InHand, HandPlaces, Agents
  <2>8. \A q \in Queues : Leaving(q) => Leaving(q)'
    BY <2>1, <2>3 DEF Leaving, Commands
  <2>9. pc'[Dispatch] = "visit" => after' # "drain"
    BY <2>1, <2>3 DEF Farewell
  <2>10. \A q \in Queues : "release" \in asked'[q] => life'[q] # "unborn"
    BY <2>1, <2>2 DEF Farewell
  <2>11. QED
    BY <2>1, <2>3, <2>4, <2>5, <2>6, <2>7, <2>8, <2>9, <2>10, FarewellFrame
<1>3. QED
  BY <1>1, <1>2

LEMMA FarewellDispatch ==
  ASSUME IInv, KInv, Farewell, DispatchSteps
  PROVE  Farewell'
<1> USE DEF IInv, requests, queues, locks, engines, control, dispatch
<1>0. Dispatch \in Agents
  BY DEF Agents
<1>1. /\ UNCHANGED <<life, asked>>
      /\ \A b \in Agents \ {Dispatch} : pc'[b] = pc[b] /\ arg'[b] = arg[b]
      /\ pc[Dispatch] \notin {"root", "write", "ended"} /\ pc'[Dispatch] \notin {"root", "write"}
  BY DispatchMove DEF HandPlaces
<1>2. \A b \in Agents : (Saying(b)' <=> Saying(b)) /\ (Saying(b) => arg'[b] = arg[b])
  BY <1>1 DEF Saying
<1>3. \A q \in Queues : Unsaid(q) => Unsaid(q)'
  BY <1>1, <1>2, UnsaidLemma
<1>4. \A q \in Queues : "release" \in asked'[q] => life'[q] # "unborn"
  BY <1>1 DEF Farewell
<1>5. ASSUME ~ReadCommand PROVE Farewell'
  <2>1. /\ pipe' = pipe /\ (pc'[Dispatch] = "visit" => after' # "drain")
        /\ \A q \in Queues : InHand(q)' => InHand(q)
    BY <1>5, DispatchHands DEF Farewell, KInv
  <2>2. \A q \in Queues : (q \in Polled)' \/ InHand(q)' => q \in Polled \/ InHand(q)
    <3>1. CASE UpdateClient
      <4>1. /\ pc[Dispatch] = "assign" /\ after = "poll"
            /\ clients' = clients \/ clients' = Inserted
        BY <3>1 DEF UpdateClient
      <4>2. InHand(hand) /\ (Polled' = Polled \/ Polled' = Polled \cup {hand})
        BY <4>1 DEF Inserted, Polled, InHand, HandPlaces
      <4>3. QED
        BY <2>1, <4>2
    <3>2. CASE ~UpdateClient
      <4>1. \/ clients' = clients
            \/ \E S : clients' = Without(S)
            \/ clients' = [clients EXCEPT ![hand] = seen]
            \/ clients' = <<>>
        BY <1>5, <3>2 DEF DispatchSteps, DispatchNext, LockedNext, Poll, Sweep, HandlerReturns,
           ReviseClient, Revise, RemoveClient, DispatchEnds, Visit, PeekRead, PeekWrite, Drain
      <4>2. Polled' \subseteq Polled
        <5>1. ASSUME NEW S, clients' = Without(S) PROVE Polled' \subseteq Polled
          BY <5>1 DEF Polled, Without
        <5>2. clients' = [clients EXCEPT ![hand] = seen] => Polled' = Polled
          BY DEF Polled
        <5>3. clients' = clients \/ clients' = <<>> => Polled' \subseteq Polled
          BY DEF Polled
        <5>4. QED
          BY <4>1, <5>1, <5>2, <5>3
      <4>3. QED
        BY <2>1, <4>2
    <3>3. QED
      BY <3>1, <3>2
  <2>3. ASSUME NEW q \in Queues, Leaving(q) PROVE ~Spoken(q)'
    <3>1. pc[Dispatch] = "remove" /\ hand = q /\ Commands(q)' = {}
      BY <2>1, <2>3 DEF Leaving, Commands
    <3>2. RemoveClient
      BY <1>5, <3>1 DEF DispatchSteps, DispatchNext, LockedNext, Poll, Sweep, HandlerReturns,
         ReviseClient, UpdateClient, DispatchEnds, Visit, PeekRead, PeekWrite, Drain
    <3>3. (q \notin Polled)'
      BY <3>1, <3>2 DEF RemoveClient, Without, Polled
    <3>4. ~InHand(q)'
      <4>1. after' = "poll"
        BY <3>2, <3>1 DEF RemoveClient, Places
      <4>2. pc'[Dispatch] \notin HandPlaces
        <5>1. CASE Call(Dispatch, "destroy", "none", hand, Nil)
          BY <1>0, <5>1 DEF Call, Go, TypeOK, HandPlaces
        <5>2. CASE Return(Dispatch)
          BY <1>0, <5>2, ReturnType DEF TypeOK, HandPlaces
        <5>3. QED
          BY <3>2, <5>1, <5>2 DEF RemoveClient, ReleaseRefs
      <4>3. QED
        BY <4>1, <4>2 DEF InHand, HandPlaces
    <3>5. QED
      BY <3>1, <3>3, <3>4 DEF Spoken
  <2>4. QED
    BY <1>1, <1>2, <1>3, <1>4, <2>1, <2>2, <2>3, FarewellFrame
<1>6. ASSUME ReadCommand PROVE Farewell'
  <2>1. /\ pc[Dispatch] = "read" /\ pipe # <<>> /\ pipe' = Tail(pipe)
        /\ hand' = Head(pipe).queue /\ UNCHANGED <<arg, clients, after>>
        /\ pc' = [pc EXCEPT ![Dispatch] = CASE Head(pipe).cmd = "update"   -> "peek_read"
                                            [] Head(pipe).cmd = "cancel"   -> "drain"
                                            [] Head(pipe).cmd = "shutdown" -> "remove"]
    BY <1>6 DEF ReadCommand, Go
  <2>2. PICK c : c = Head(pipe)
    OBVIOUS
  <2>3. c = pipe[1] /\ 1 \in DOMAIN pipe /\ c.cmd \in {"update", "cancel", "shutdown"}
    BY <2>1, <2>2, PipeLemma DEF Commanded
  <2>4. pc'[Dispatch] = CASE c.cmd = "update" -> "peek_read" [] c.cmd = "cancel" -> "drain"
                          [] c.cmd = "shutdown" -> "remove"
    BY <1>0, <2>1, <2>2 DEF TypeOK
  <2>5. \A i \in DOMAIN pipe' : /\ i + 1 \in DOMAIN pipe /\ pipe'[i] = pipe[i + 1] /\ i \in Int /\ i >= 1
    <3>1. \A i \in DOMAIN pipe' : i + 1 \in DOMAIN pipe /\ pipe'[i] = pipe[i + 1]
      BY <2>1, PipeLemma
    <3>2. DOMAIN pipe' \subseteq Int /\ \A i \in DOMAIN pipe' : i >= 1
      <4>1. pipe \in Seq(Commanded) /\ pipe # <<>>
        BY <2>1 DEF TypeOK, Commanded
      <4>2. pipe' \in Seq(Commanded)
        BY <2>1, <4>1, HeadTail
      <4>3. DOMAIN pipe' = 1..Len(pipe') /\ Len(pipe') \in Nat
        BY <4>2
      <4>4. QED
        BY <4>3
    <3>3. QED
      BY <3>1, <3>2
  <2>6. LastWord'
    <3> SUFFICES ASSUME NEW i \in DOMAIN pipe', NEW j \in DOMAIN pipe',
                        pipe'[i].cmd = "shutdown", pipe'[j].queue = pipe'[i].queue
                 PROVE  j <= i
      BY DEF LastWord
    <3>1. j + 1 <= i + 1
      BY <2>5 DEF Farewell, LastWord
    <3>2. QED
      BY <2>5, <3>1
  <2>7. \A q : (Final(q)' => Final(q)) /\ (Commands(q)' # {} => Commands(q) # {})
    BY <2>5 DEF Final, Commands
  <2>8. SaidOnce'
    BY <1>2, <2>1, <2>7 DEF Farewell, SaidOnce, Saying
  <2>9. ASSUME NEW q \in Queues, Spoken(q)', ~Leaving(q)' PROVE Final(q)' \/ Unsaid(q)'
    <3>1. Spoken(q)
      <4>1. InHand(q)' => Commands(q) # {}
        BY <2>1, <2>2, <2>3 DEF InHand, Commands
      <4>2. (q \in Polled)' => q \in Polled
        BY <2>1 DEF Polled
      <4>3. QED
        BY <2>7, <2>9, <4>1, <4>2 DEF Spoken
    <3>2. Final(q) \/ Unsaid(q)
      BY <2>1, <3>1 DEF Farewell, Backed, Leaving
    <3>3. ASSUME Final(q) PROVE Final(q)'
      <4>1. PICK i \in DOMAIN pipe : pipe[i].cmd = "shutdown" /\ pipe[i].queue = q
        BY <3>3 DEF Final
      <4>2. CASE i = 1
        <5>1. pc'[Dispatch] = "remove" /\ hand' = q
          BY <2>1, <2>2, <2>3, <2>4, <4>1, <4>2
        <5>2. \A j \in DOMAIN pipe' : pipe'[j].queue # q
          <6>1. ASSUME NEW j \in DOMAIN pipe', pipe'[j].queue = q PROVE FALSE
            <7>1. j + 1 <= 1
              BY <2>5, <4>1, <4>2, <6>1 DEF Farewell, LastWord
            <7>2. QED
              BY <2>5, <7>1
          <6>2. QED
            BY <6>1
        <5>3. QED
          BY <2>9, <5>1, <5>2 DEF Leaving, Commands
      <4>3. CASE i # 1
        <5>1. pipe \in Seq(Commanded) /\ pipe # <<>>
          BY <2>1 DEF TypeOK, Commanded
        <5>2. i - 1 \in DOMAIN Tail(pipe) /\ Tail(pipe)[i - 1] = pipe[i]
          BY <4>1, <4>3, <5>1
        <5>3. QED
          BY <2>1, <4>1, <5>2 DEF Final
      <4>4. QED
        BY <4>2, <4>3
    <3>4. QED
      BY <1>3, <3>2, <3>3
  <2>10. pc'[Dispatch] # "visit"
    BY <2>3, <2>4
  <2>11. QED
    BY <1>4, <2>6, <2>8, <2>9, <2>10 DEF Farewell, Backed
<1>7. QED
  BY <1>5, <1>6

-----------------------------------------------------------------------------
(* No queue object is leaked.                                              *)

LEMMA XInvInit == ASSUME Init PROVE XInv
<1>1. /\ \A a \in Agents : pc[a] \in {"none", "user"}
      /\ pipe = <<>> /\ clients = <<>> /\ after = "poll" /\ hand = Nil
      /\ \A q \in Queues : asked[q] = {} /\ life[q] = "unborn" /\ refs[q] = 0
      /\ pc[Dispatch] = "none" /\ Dispatch \in Agents
  BY DEF Init, Agents
<1>2. Farewell
  BY <1>1 DEF Farewell, LastWord, SaidOnce, Backed, Unsaid
<1>3. ASSUME NEW q \in Queues PROVE KeptAt(q) /\ DyingAt(q)
  <2>1. Commands(q) = {} /\ Cardinality({}) = 0 /\ ~Owed(q) /\ ~Channel(q)
    BY <1>1, FS_EmptySet DEF Commands, Owed, Channel
  <2>2. QED
    BY <1>1, <2>1 DEF KeptAt, DyingAt, Held, One
<1>4. QED
  BY <1>2, <1>3 DEF XInv, Kept

LEMMA XInvStep ==
  ASSUME IInv, IInv', ~Snatched, ~Snatched', SInv, KInv, XInv, [ProgramNext]_program
  PROVE  XInv'
<1>1. Farewell /\ Kept
  BY DEF XInv
<1>2. ASSUME NEW a \in Agents, CallSteps(a) PROVE XInv'
  BY <1>1, <1>2, KeptCall, FarewellCall, FarewellWrite DEF XInv
<1>3. ASSUME NEW a \in Agents, LifeSteps(a) PROVE XInv'
  BY <1>1, <1>3, KeptLife, FarewellLife DEF XInv
<1>4. CASE DispatchSteps
  BY <1>1, <1>4, KeptDispatch, FarewellDispatch DEF XInv
<1>5. CASE UNCHANGED program
  <2>1. UNCHANGED <<asked, life, refs, pipe, clients, pc, arg, hand, after>>
    BY <1>5 DEF program, queues, control, dispatch
  <2>2. Farewell'
    BY <1>1, <2>1 DEF Farewell, LastWord, SaidOnce, Backed, Unsaid, Spoken, Leaving, Final, InHand,
       Commands, Polled
  <2>3. ASSUME NEW q \in Queues PROVE KeptAt(q)' /\ DyingAt(q)'
    <3>1. /\ (Channel(q)' <=> Channel(q)) /\ (InHand(q)' <=> InHand(q))
          /\ (Owed(q)' <=> Owed(q)) /\ Commands(q)' = Commands(q) /\ Polled' = Polled
      BY <2>1 DEF Channel, InHand, Owed, Commands, Polled
    <3>2. KeptAt(q) /\ DyingAt(q)
      BY <1>1 DEF Kept
    <3>3. KeptAt(q)'
      BY <2>1, <3>1, <3>2 DEF KeptAt, Held, One
    <3>4. DyingAt(q)'
      BY <2>1, <3>2 DEF DyingAt
    <3>5. QED
      BY <3>3, <3>4
  <2>4. QED
    BY <2>2, <2>3 DEF XInv, Kept
<1>6. QED
  BY <1>2, <1>3, <1>4, <1>5, NextSteps

LEMMA NotLeaked ==
  ASSUME IInv, XInv PROVE NoneLeaked
<1> SUFFICES ASSUME NEW q \in Queues, life[q] = "alive", "release" \in asked[q], q \notin Polled,
                    ~Busy(q), \A a \in Agents : arg[a].queue # q,
                    \A i \in DOMAIN pipe : pipe[i].queue # q
             PROVE  FALSE
  BY DEF NoneLeaked
<1>1. ~Channel(q) /\ ~Owed(q)
  BY DEF Channel, Owed
<1>2. ~InHand(q)
  BY DEF InHand, Busy, HandPlaces
<1>3. Commands(q) = {} /\ Cardinality({}) = 0
  BY FS_EmptySet DEF Commands
<1>4. KeptAt(q) /\ DyingAt(q) /\ CountedAt(q) /\ refs[q] \in Int
  BY DEF XInv, Kept, IInv, Counted, TypeOK
<1>5. refs[q] = 0
  BY <1>1, <1>2, <1>3, <1>4 DEF KeptAt, CountedAt, Held, One
<1>6. QED
  BY <1>4, <1>5 DEF DyingAt

LEMMA KeepingStep ==
  ASSUME Unsnatched, Unsnatched', Serving, Knowing, Knowing', races = {} => XInv, [Next]_vars
  PROVE  races' = {} => XInv'
<1> SUFFICES ASSUME races' = {} PROVE XInv'
  OBVIOUS
<1>1. races = {} /\ [ProgramNext]_program
  BY DEF Next, vars
<1>2. IInv /\ IInv' /\ ~Snatched /\ ~Snatched' /\ SInv /\ KInv /\ XInv
  BY <1>1 DEF Unsnatched, Serving, Knowing
<1>3. QED
  BY <1>1, <1>2, XInvStep

\* No queue object is leaked, even when the dispatch thread dies (NoneLeaked), as
\* long as no race of the program has been lost.
THEOREM LeakedCorrect == Spec => []NoneLeaked
<1> DEFINE Keeping == races = {} => XInv
<1>1. Init => Serving /\ Knowing /\ Keeping
  BY SInvInit, KInvInit, XInvInit, UnlostInit DEF Serving, Knowing
<1>2. Unsnatched /\ Unsnatched' /\ Serving /\ Knowing /\ Keeping /\ [Next]_vars
        => Serving' /\ Knowing' /\ Keeping'
  BY ServingStep, KnowingStep, KeepingStep
<1>3. Unsnatched /\ Keeping => NoneLeaked
  <2>1. races # {} => NoneLeaked
    BY DEF NoneLeaked
  <2>2. QED
    BY <2>1, NotLeaked DEF Unsnatched
<1> HIDE DEF Keeping
<1>4. QED
  BY <1>1, <1>2, <1>3, Inductive, PTL DEF Spec
=============================================================================
