--------------------------- MODULE NetworkDispatch --------------------------
(***************************************************************************)
(* NetworkRequestQueue (moduli/Communicatio-Linux/CommUnix.cxx): every     *)
(* socket has a queue object with requests that read and requests that     *)
(* write; one dispatch thread polls the sockets of the queues it knows     *)
(* (clients) and the control pipe, through which the users tell it that a  *)
(* queue has a new request, is to be cancelled or is let go.  The queues   *)
(* are counted: by their channel, by clients, by each command in the pipe. *)
(*                                                                         *)
(* A handler, which the dispatch thread calls with no lock held, may do    *)
(* what any user does.  TLS requests (ProcessConnection) are left out.     *)
(***************************************************************************)
EXTENDS Integers, Sequences, FiniteSets

CONSTANTS Queues, Threads, Dispatch,
          Requests,
          Reads,       \* those in _requests_read: receive and accept
          Accepts,     \* those that may call their handler more than once
          PipeSize,    \* commands the pipe holds
          EngineFirst, \* the program calls NetworkEngineInit before it makes a queue
          Mortal,      \* the dispatch thread may end with an exception
          Nil

Agents == Threads \cup {Dispatch}
Sides == {"read", "write"}
SideOf(r) == IF r \in Reads THEN "read" ELSE "write"

ASSUME AgentAssumption == Dispatch \notin Threads
ASSUME NilAssumption == Nil \notin Queues \cup Agents \cup Requests
ASSUME RequestAssumption == Accepts \subseteq Reads /\ Reads \subseteq Requests
ASSUME PipeAssumption == PipeSize \in Nat \ {0}
ASSUME FlagAssumption == {EngineFirst, Mortal} \subseteq BOOLEAN

VARIABLES line, outcome,        \* the request queues; how each request ended
          asked,                \* what the users have asked of each queue
          life, refs,           \* "unborn", "alive" or "freed"; reference count
          localSync, root,      \* holders of _local_sync and of the root lock
          service, engine,      \* _service_refcnt; state of the program's own reference
          pipe, open,           \* the commands in the pipe; _command_in >= 0
          clients,              \* [queue -> sides polled], {} for REMOVE
          pc, arg,              \* place of each thread and what its call is about
          batch, ready,         \* what poll reported: sockets, and the pipe
          hand, seen, after,    \* the dispatch's current queue, sides peeked, where it goes on
          races                 \* history: which races of the program have been lost

requests == <<line, outcome>>
queues == <<life, refs>>
locks == <<localSync, root>>
engines == <<service, engine>>
control == <<pipe, open>>
dispatch == <<batch, ready, hand, seen, after>>
program == <<requests, asked, queues, locks, engines, control, clients, pc, arg, dispatch>>
vars == <<program, races>>

-----------------------------------------------------------------------------
NoCall == [cmd |-> "none", queue |-> Nil, request |-> Nil]

Init == /\ line = [q \in Queues |-> [s \in Sides |-> <<>>]]
        /\ outcome = [r \in Requests |-> "none"]
        /\ asked = [q \in Queues |-> {}]
        /\ life = [q \in Queues |-> "unborn"]
        /\ refs = [q \in Queues |-> 0]
        /\ localSync = [q \in Queues |-> Nil] /\ root = Nil
        /\ service = 0 /\ engine = "off"
        /\ pipe = <<>> /\ open = FALSE
        /\ clients = <<>>
        /\ pc = [a \in Agents |-> IF a = Dispatch THEN "none" ELSE "user"]
        /\ arg = [a \in Agents |-> NoCall]
        /\ batch = {} /\ ready = FALSE
        /\ hand = Nil /\ seen = {} /\ after = "poll"
        /\ races = {}

Go(a, place) == pc' = [pc EXCEPT ![a] = place]
Call(a, place, c, q, r) == /\ Go(a, place)
                           /\ arg' = [arg EXCEPT ![a] = [cmd |-> c, queue |-> q, request |-> r]]

\* A user goes on with its program, the dispatch thread with the handler it
\* is in or, when it was not in one, with the next poll.
Back(a) == IF a = Dispatch /\ after = "poll" THEN "poll" ELSE "user"
Return(a) == Call(a, Back(a), "none", Nil, Nil)

Members(s) == {s[i] : i \in DOMAIN s}
PendingOf(q) == UNION {Members(line[q][s]) : s \in Sides}
Pending == UNION {PendingOf(q) : q \in Queues}
End(S, how) == outcome' = [r \in Requests |-> IF r \in S THEN how ELSE outcome[r]]

-----------------------------------------------------------------------------
(* CreateDispatch and StopDispatch.                                        *)

\* The first one to need the dispatch opens the pipe and starts the thread,
\* but the others do not wait for it.
Join(a, q) == /\ service' = service + 1
              /\ IF service = 0
                   THEN Call(a, "pipe", "none", q, Nil) /\ UNCHANGED queues
                   ELSE /\ UNCHANGED <<pc, arg>>
                        /\ life' = [life EXCEPT ![q] = "alive"]
                        /\ refs' = [refs EXCEPT ![q] = 1]

CreateQueue(a, q) == /\ pc[a] = "user"
                     /\ EngineFirst => engine = "up"
                     /\ life[q] = "unborn"
                     /\ \A b \in Agents : arg[b].queue # q
                     /\ Join(a, q)
                     /\ UNCHANGED <<requests, asked, locks, engine, control, clients, dispatch>>

\* A program may call NetworkEngineInit at any time, or never; once is a bound.
EngineInit(a) == /\ engine = "off"
                 /\ pc[a] = "user"
                 /\ service' = service + 1
                 /\ IF service = 0 THEN Go(a, "pipe") /\ UNCHANGED engine
                                   ELSE engine' = "up" /\ UNCHANGED pc
                 /\ UNCHANGED <<requests, asked, queues, locks, control, clients, arg, dispatch>>

CreatePipe(a) == LET q == arg[a].queue IN
  /\ pc[a] = "pipe"
  /\ pc[Dispatch] \in {"none", "ended"}
  /\ open' = TRUE /\ pipe' = <<>>
  /\ IF q = Nil THEN engine' = "up" /\ UNCHANGED queues
                ELSE /\ life' = [life EXCEPT ![q] = "alive"]
                     /\ refs' = [refs EXCEPT ![q] = 1]
                     /\ UNCHANGED engine
  /\ pc' = [pc EXCEPT ![a] = Back(a), ![Dispatch] = "poll"]
  /\ arg' = [arg EXCEPT ![a] = NoCall, ![Dispatch] = NoCall]
  /\ after' = "poll"
  /\ UNCHANGED <<requests, asked, locks, service, clients, batch, ready, hand, seen>>

Leave(a) == /\ service' = service - 1
            /\ IF service = 1 THEN Call(a, "stop", "none", Nil, Nil) ELSE Return(a)

EngineStop(a) == /\ engine = "up"
                 /\ pc[a] = "user"
                 /\ engine' = "stopped"
                 /\ Leave(a)
                 /\ UNCHANGED <<requests, asked, queues, locks, control, clients, dispatch>>

ClosePipe(a) == /\ pc[a] = "stop"
                /\ root = Nil
                /\ open' = FALSE
                /\ Go(a, "join")
                /\ UNCHANGED <<requests, asked, queues, locks, engines, pipe, clients, arg, dispatch>>

\* The dispatch thread itself never gets past this.
AwaitDispatch(a) == /\ pc[a] = "join"
                    /\ pc[Dispatch] = "ended"
                    /\ Return(a)
                    /\ UNCHANGED <<requests, asked, queues, locks, engines, control, clients, dispatch>>

\* The last reference goes: what waits is cancelled.
Destroy(a) == LET q == arg[a].queue IN
  /\ pc[a] = "destroy"
  /\ line' = [line EXCEPT ![q] = [s \in Sides |-> <<>>]]
  /\ End(PendingOf(q), "cancelled")
  /\ life' = [life EXCEPT ![q] = "freed"]
  /\ Leave(a)
  /\ UNCHANGED <<asked, refs, locks, engine, control, clients, dispatch>>

-----------------------------------------------------------------------------
(* EnqueueRequest, CancelRequests, Shutdown and the channel's destructor.  *)

Usable(a, q) == pc[a] = "user" /\ life[q] = "alive" /\ "release" \notin asked[q]

BeginEnqueue(a, q, r) == /\ Usable(a, q)
                         /\ outcome[r] = "none" /\ r \notin Pending
                         /\ \A b \in Agents : arg[b].request # r
                         /\ Call(a, "local", "update", q, r)
                         /\ UNCHANGED <<requests, asked, queues, locks, engines, control, clients, dispatch>>

\* EnqueueConnectRequest when connect does not answer EINPROGRESS.
ConnectAtOnce(a) == /\ pc[a] = "local"
                    /\ arg[a].request \notin Reads
                    /\ localSync[arg[a].queue] = Nil
                    /\ End({arg[a].request}, "done")
                    /\ Return(a)
                    /\ UNCHANGED <<line, asked, queues, locks, engines, control, clients, dispatch>>

PushRequest_First(a) == LET q == arg[a].queue   r == arg[a].request IN   \* mutant: InsertFirst
  /\ pc[a] = "local"
  /\ localSync[q] = Nil
  /\ localSync' = [localSync EXCEPT ![q] = a]
  /\ line' = [line EXCEPT ![q][SideOf(r)] = <<r>> \o @]
  /\ Go(a, "root")
  /\ UNCHANGED <<outcome, asked, queues, root, engines, control, clients, arg, dispatch>>

PushRequest(a) == LET q == arg[a].queue   r == arg[a].request IN
  /\ pc[a] = "local"
  /\ localSync[q] = Nil
  /\ localSync' = [localSync EXCEPT ![q] = a]
  /\ line' = [line EXCEPT ![q][SideOf(r)] = Append(@, r)]
  /\ Go(a, "root")
  /\ UNCHANGED <<outcome, asked, queues, root, engines, control, clients, arg, dispatch>>

\* Each queue is cancelled at most once: a bound.
Cancel(a, q) == /\ Usable(a, q)
                /\ "cancel" \notin asked[q]
                /\ asked' = [asked EXCEPT ![q] = @ \cup {"cancel"}]
                /\ Call(a, "root", "cancel", q, Nil)
                /\ UNCHANGED <<requests, queues, locks, engines, control, clients, dispatch>>

\* ~UnixNetworkChannel, when nobody uses the channel any more.
Release(a, q) == /\ Usable(a, q)
                 /\ \A b \in Agents : arg[b].queue # q
                 /\ asked' = [asked EXCEPT ![q] = @ \cup {"release"}]
                 /\ Call(a, "root", "shutdown", q, Nil)
                 /\ UNCHANGED <<requests, queues, locks, engines, control, clients, dispatch>>

AcquireRoot(a) == /\ pc[a] = "root"
                  /\ root = Nil
                  /\ root' = a
                  /\ Go(a, "write")
                  /\ UNCHANGED <<requests, asked, queues, localSync, engines, control, clients, arg, dispatch>>

\* _control_send writes the queue's address first and counts it afterwards.
WriteCommand(a) == /\ pc[a] = "write"
                   /\ open /\ pc[Dispatch] # "ended"
                   /\ Len(pipe) < PipeSize
                   /\ pipe' = Append(pipe, [cmd |-> arg[a].cmd, queue |-> arg[a].queue])
                   /\ Go(a, "retain")
                   /\ UNCHANGED <<requests, asked, queues, locks, engines, open, clients, arg, dispatch>>

\* What follows _control_send: the locks are opened, a channel that goes
\* drops its queue.
Unlocked(a) == /\ root' = Nil
               /\ localSync' = [q \in Queues |-> IF localSync[q] = a THEN Nil ELSE localSync[q]]
Sent(a) == IF arg[a].cmd = "shutdown" THEN Go(a, "drop") /\ UNCHANGED arg ELSE Return(a)

Retain_Forgotten(a) == /\ pc[a] = "retain"   \* mutant
                       /\ Unlocked(a) /\ Sent(a)
                       /\ UNCHANGED <<requests, asked, queues, engines, control, clients, dispatch>>

Retain(a) == /\ pc[a] = "retain"
             /\ refs' = [refs EXCEPT ![arg[a].queue] = @ + 1]
             /\ Unlocked(a) /\ Sent(a)
             /\ UNCHANGED <<requests, asked, life, engines, control, clients, dispatch>>

\* Nobody reads the pipe: a request just pushed is taken back and refused.
SendFails(a) == LET q == arg[a].queue   r == arg[a].request IN
  /\ pc[a] = "write"
  /\ ~open \/ pc[Dispatch] = "ended"
  /\ IF r = Nil THEN UNCHANGED requests
                ELSE /\ line' = [line EXCEPT ![q][SideOf(r)] = SubSeq(@, 1, Len(@) - 1)]
                     /\ End({r}, "refused")
  /\ Unlocked(a) /\ Sent(a)
  /\ UNCHANGED <<asked, queues, engines, control, clients, dispatch>>

\* Releases n references; the thread that releases the last one destroys.
ReleaseRefs(a, q, n) == /\ refs' = [refs EXCEPT ![q] = @ - n]
                        /\ IF refs[q] = n THEN Call(a, "destroy", "none", q, Nil) ELSE Return(a)

DropChannel(a) == /\ pc[a] = "drop"
                  /\ ReleaseRefs(a, arg[a].queue, 1)
                  /\ UNCHANGED <<requests, asked, life, locks, engines, control, clients, dispatch>>

-----------------------------------------------------------------------------
(* _dispatch.                                                              *)

Polled == DOMAIN clients
Without(S) == [q \in Polled \ S |-> clients[q]]
DropClients(S) == refs' = [q \in Queues |-> refs[q] - (IF q \in S THEN 1 ELSE 0)]

\* POLLHUP and POLLERR make it look at both sides, whatever was asked for.
Poll == /\ pc[Dispatch] = "poll"
        /\ batch' \in SUBSET (Polled \X Sides)
        /\ ready' = (pipe # <<>> \/ ~open)
        /\ batch' # {} \/ ready'
        /\ Go(Dispatch, "visit")
        /\ UNCHANGED <<requests, asked, queues, locks, engines, control, clients, arg, hand, seen, after>>

Handler(next) == Go(Dispatch, "user") /\ after' = next

\* _handle_connection: the oldest request of the side goes on; it may end, an
\* accept may call its handler and stay.
Visit(q, s) == LET r == Head(line[q][s]) IN
  /\ pc[Dispatch] = "visit"
  /\ <<q, s>> \in batch
  /\ s = "write" => <<q, "read">> \notin batch
  /\ localSync[q] = Nil
  /\ batch' = batch \ {<<q, s>>}
  /\ \/ UNCHANGED <<requests, pc, hand, after>>
     \/ /\ line[q][s] # <<>>
        /\ r \in Accepts
        /\ Handler("visit")
        /\ UNCHANGED <<requests, hand>>
     \/ /\ line[q][s] # <<>>
        /\ line' = [line EXCEPT ![q][s] = Tail(@)]
        /\ End({r}, "done")
        /\ hand' = q
        /\ Handler("revise")
  /\ UNCHANGED <<asked, queues, locks, engines, control, clients, arg, ready, seen>>

HandlerReturns == /\ pc[Dispatch] = "user"
                  /\ Go(Dispatch, IF after = "revise" THEN "peek_read" ELSE after)
                  /\ UNCHANGED <<requests, asked, queues, locks, engines, control, clients, arg, dispatch>>

\* Clients without requests go, and one command is read.
Sweep == LET gone == {q \in Polled : clients[q] = {}} IN
  /\ pc[Dispatch] = "visit" /\ batch = {}
  /\ clients' = Without(gone)
  /\ DropClients(gone)
  /\ Go(Dispatch, IF ready THEN "read" ELSE "poll")
  /\ after' = "poll"
  /\ UNCHANGED <<requests, asked, life, locks, engines, control, arg, batch, ready, hand, seen>>

ReadCommand == /\ pc[Dispatch] = "read"
               /\ pipe # <<>>
               /\ pipe' = Tail(pipe)
               /\ hand' = Head(pipe).queue
               /\ Go(Dispatch, CASE Head(pipe).cmd = "update"   -> "peek_read"
                                 [] Head(pipe).cmd = "cancel"   -> "drain"
                                 [] Head(pipe).cmd = "shutdown" -> "remove")
               /\ UNCHANGED <<requests, asked, queues, locks, engines, open, clients, arg, batch, ready, seen, after>>

Peek_Unlocked(s) == seen' = (seen \ {s}) \cup {x \in {s} : line[hand][s] # <<>>}   \* mutant

\* Each look at a line takes _local_sync for itself.
Peek(s) == /\ localSync[hand] = Nil
           /\ seen' = (seen \ {s}) \cup {x \in {s} : line[hand][s] # <<>>}

PeekRead == /\ pc[Dispatch] = "peek_read"
            /\ Peek("read")
            /\ Go(Dispatch, "peek_write")
            /\ UNCHANGED <<requests, asked, queues, locks, engines, control, clients, arg, batch, ready, hand, after>>

PeekWrite == /\ pc[Dispatch] = "peek_write"
             /\ Peek("write")
             /\ Go(Dispatch, "assign")
             /\ UNCHANGED <<requests, asked, queues, locks, engines, control, clients, arg, batch, ready, hand, after>>

Revise(sides) == clients' = [clients EXCEPT ![hand] = sides]

ReviseClient == /\ pc[Dispatch] = "assign" /\ after = "revise"
                /\ Revise(seen)
                /\ seen' = {}
                /\ Go(Dispatch, "visit")
                /\ UNCHANGED <<requests, asked, queues, locks, engines, control, arg, batch, ready, hand, after>>

Inserted_Kept == IF hand \in Polled THEN clients   \* mutant: an element that exists is left as it is
                 ELSE [q \in Polled \cup {hand} |-> IF q = hand THEN seen ELSE clients[q]]
Inserted == [q \in Polled \cup {hand} |-> IF q = hand THEN seen ELSE clients[q]]

UpdateClient_Keeps ==   \* mutant: the reference of a command for an element that exists is kept
  /\ pc[Dispatch] = "assign" /\ after = "poll"
  /\ IF seen = {} THEN Go(Dispatch, "remove") /\ UNCHANGED <<refs, clients>>
                  ELSE clients' = Inserted /\ UNCHANGED refs /\ Go(Dispatch, "poll")
  /\ seen' = {}
  /\ UNCHANGED <<requests, asked, life, locks, engines, control, arg, batch, ready, hand, after>>

\* The reference of the command becomes that of the new element, or goes.
UpdateClient == /\ pc[Dispatch] = "assign" /\ after = "poll"
                /\ IF seen = {} THEN Go(Dispatch, "remove") /\ UNCHANGED <<refs, clients>>
                                ELSE /\ clients' = Inserted
                                     /\ DropClients({hand} \cap Polled)
                                     /\ Go(Dispatch, "poll")
                /\ seen' = {}
                /\ UNCHANGED <<requests, asked, life, locks, engines, control, arg, batch, ready, hand, after>>

CancelNext(s) == /\ line[hand][s] # <<>>
                 /\ line' = [line EXCEPT ![hand][s] = Tail(@)]
                 /\ End({Head(line[hand][s])}, "cancelled")
                 /\ Handler("drain")

Drain == /\ pc[Dispatch] = "drain"
         /\ localSync[hand] = Nil
         /\ \/ CancelNext("read")
            \/ line[hand]["read"] = <<>> /\ CancelNext("write")
            \/ /\ PendingOf(hand) = {}
               /\ Go(Dispatch, "remove")
               /\ after' = "poll"
               /\ UNCHANGED requests
         /\ UNCHANGED <<asked, queues, locks, engines, control, clients, arg, batch, ready, hand, seen>>

RemoveClient_Stays == /\ pc[Dispatch] = "remove"   \* mutant: only commands that find the queue empty remove it
                      /\ clients' = Without({hand} \ {q \in Queues : PendingOf(q) # {}})
                      /\ ReleaseRefs(Dispatch, hand, 1 + Cardinality(({hand} \cap Polled) \ DOMAIN clients'))
                      /\ UNCHANGED <<requests, asked, life, locks, engines, control, dispatch>>

RemoveClient == /\ pc[Dispatch] = "remove"
                /\ clients' = Without({hand})
                /\ ReleaseRefs(Dispatch, hand, 1 + Cardinality({hand} \cap Polled))
                /\ UNCHANGED <<requests, asked, life, locks, engines, control, dispatch>>

\* End of file on the pipe, or an exception: clients go, the commands in the
\* pipe are lost with their references.
DispatchEnds == /\ \/ pc[Dispatch] = "read" /\ pipe = <<>>
                   \/ Mortal /\ pc[Dispatch] = "poll"
                /\ clients' = <<>>
                /\ DropClients(Polled)
                /\ Go(Dispatch, "ended")
                /\ UNCHANGED <<requests, asked, life, locks, engines, control, arg, dispatch>>

-----------------------------------------------------------------------------
SendNext(a) == WriteCommand(a) \/ Retain(a) \/ SendFails(a) \/ DropChannel(a)
LockNext(a) == PushRequest(a) \/ ConnectAtOnce(a) \/ AcquireRoot(a) \/ ClosePipe(a)
LifeNext(a) == CreatePipe(a) \/ AwaitDispatch(a) \/ Destroy(a)

DispatchNext == \/ Poll \/ Sweep \/ ReadCommand \/ HandlerReturns
                \/ ReviseClient \/ UpdateClient \/ RemoveClient \/ DispatchEnds
LockedNext == \/ \E q \in Queues, s \in Sides : Visit(q, s)
              \/ PeekRead \/ PeekWrite \/ Drain

ProgramNext ==
        \/ \E a \in Agents :
             \/ \E q \in Queues : \/ CreateQueue(a, q) \/ Cancel(a, q) \/ Release(a, q)
                                  \/ \E r \in Requests : BeginEnqueue(a, q, r)
             \/ LifeNext(a) \/ LockNext(a) \/ SendNext(a)
        \/ \E t \in Threads : EngineInit(t) \/ EngineStop(t)
        \/ DispatchNext \/ LockedNext

-----------------------------------------------------------------------------
(* Two races the program may lose, and then uses memory or descriptors that *)
(* are gone or not yet there.  The history variable tells which; what the   *)
(* program does after one is undefined, and the model ends there.           *)

\* _control_send: the last reference to the queue is gone while the sender of
\* a command about it has still to count the command.
Snatched == \E a \in Agents : pc[a] = "retain" /\ refs[arg[a].queue] = 0

\* CreateDispatch and StopDispatch: the dispatch is in use while another thread
\* is still starting or stopping it.
Hurried == \E a \in Agents : \/ pc[a] = "pipe" /\ service > 1
                             \/ pc[a] \in {"stop", "join"} /\ service > 0

Lost == {r \in {"snatched", "hurried"} : \/ r = "snatched" /\ Snatched
                                         \/ r = "hurried" /\ Hurried}

Next == races = {} /\ ProgramNext /\ races' = Lost'

Spec == Init /\ [][Next]_vars

\* Threads run, and a thread that waits for a lock gets it in the end (they
\* are held for a few steps); handlers return.  Nobody is obliged to make a
\* request and no socket to be ready.
Going(A) == races = {} /\ A
Fairness == /\ \A a \in Agents : /\ WF_program(Going(SendNext(a) \/ LifeNext(a)))
                                 /\ SF_program(Going(LockNext(a)))
            /\ WF_program(Going(DispatchNext)) /\ SF_program(Going(LockedNext))

FairSpec == Spec /\ Fairness

-----------------------------------------------------------------------------
(* Properties.                                                             *)

Running == pc[Dispatch] \notin {"none", "ended", "join"}

\* The dispatch thread is about to look at side s of q.
WillLook(q, s) ==
  /\ hand = q
  /\ \/ pc[Dispatch] = "peek_read"
     \/ pc[Dispatch] = "peek_write" /\ (s = "write" \/ s \in seen)
     \/ pc[Dispatch] = "assign" /\ s \in seen

\* No request is forgotten: while the dispatch runs, a request that waits in a
\* queue whose channel is there is polled for, or a command that will make it
\* so is in the pipe or about to be written, or the dispatch is about to look.  It
\* takes a dispatch that was started before it was used.
Registered ==
  races = {} /\ Running => \A q \in Queues, s \in Sides :
    line[q][s] # <<>> /\ "release" \notin asked[q] =>
      \/ q \in Polled /\ s \in clients[q]
      \/ [cmd |-> "update", queue |-> q] \in Members(pipe)
      \/ \E a \in Agents : arg[a].queue = q /\ pc[a] \in {"root", "write"}
      \/ WillLook(q, s)

\* A command that tells of a new request is always counted in time, though its
\* sender writes it first: the dispatch, which reads it at once, has to wait for
\* _local_sync before it can let go of the queue.  Only the senders of "cancel"
\* and "shutdown", who hold no lock of the queue, can lose that race.
UpdateCounted ==
  \A a \in Agents : pc[a] = "retain" /\ refs[arg[a].queue] = 0 => arg[a].cmd # "update"

\* Nobody touches a queue object after it was destroyed: no call, no command
\* in the pipe, not the dispatch with the sockets it polls; unless the sender
\* of a command has lost its race.
FreedUnused ==
  "snatched" \notin races => \A q \in Queues : life[q] = "freed" =>
    /\ \A a \in Agents : arg[a].queue # q
    /\ \A i \in DOMAIN pipe : pipe[i].queue # q
    /\ q \notin Polled

\* The dispatch thread is busy with q.
Busy(q) == /\ hand = q
           /\ \/ pc[Dispatch] \in {"peek_read", "peek_write", "assign", "drain", "remove"}
              \/ after = "drain"

\* No queue object is leaked: one that was not destroyed has its channel, or is
\* polled, or is in the hands of the dispatch or of a caller (which may be the
\* one that destroys it), or a command in the pipe still holds it.
NoneLeaked ==
  races = {} => \A q \in Queues : life[q] = "alive" =>
    \/ "release" \notin asked[q]
    \/ q \in Polled \/ Busy(q)
    \/ \E a \in Agents : arg[a].queue = q
    \/ \E i \in DOMAIN pipe : pipe[i].queue = q

\* A channel that is let go takes its queue and all requests with it, unless the
\* dispatch thread dies with the reference in the pipe.
Released == \A q \in Queues : "release" \in asked[q]
              ~> (life[q] = "freed" \/ (pc[Dispatch] = "ended" /\ pipe # <<>>) \/ races # {})

Service == INSTANCE RequestService WITH down <- ~open \/ pc[Dispatch] = "ended"

\* Every request ends once, in order, and for a cause.
Implements == Service!Init /\ [][Service!Next \/ "snatched" \in races']_Service!vars
=============================================================================
