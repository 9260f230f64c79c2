------------------------------ MODULE Playback ------------------------------
(***************************************************************************)
(* PlaybackRoutine (moduli/EngineRuntime/Media/MediaRoutines.cpp) over the *)
(* Scheduler: the user's thread interrupts the dispatch thread to begin,   *)
(* seek and stop, the dispatch thread runs the streams' tasks, which       *)
(* schedule themselves anew until the stream ends.  An object of the       *)
(* program that is queued again and again is a request of its kind each    *)
(* time.  Decoders, devices and errors are left out: a stream goes on or   *)
(* ends.                                                                   *)
(***************************************************************************)
EXTENDS Scheduler

CONSTANTS User, Dispatch,   \* the two threads
          Streams,          \* the streams that have an input and an output, in order
          Kind              \* Kind[t]: what is queued by request t

Methods == {"init", "first", "seek", "stop", "shutdown"}

\* One thread inside Process; the destructor and the tasks call CancelAll; what
\* is queued is the task of a method or of a stream.
Player == /\ Users = {User} /\ Workers = {Dispatch} /\ Cancellers = Agents
          /\ Streams \in Seq(ToSet(Streams)) /\ IsInjective(Streams)
          /\ ToSet(Streams) \cap Methods = {}
          /\ Kind \in [Requests -> Methods \cup ToSet(Streams)]

VARIABLES playing, eos,   \* _state & 1, _state & 2
          active,         \* _streams_active
          script,         \* what is left to do of the task that runs
          call            \* the method the user's thread is in

routine == <<playing, eos, active, script, call>>
allVars == <<vars, routine>>

Step(what, s) == [do |-> what, stream |-> s]

Seek_NoReset == <<Step("cancel", None)>> \o [i \in DOMAIN Streams |-> Step("open", Streams[i])]   \* mutant

Seek_NoCancel == <<Step("reset", None)>> \o [i \in DOMAIN Streams |-> Step("open", Streams[i])]    \* mutant

\* SeekInterrupt::DoTask: CancelAll, _streams_active = 0, then each stream.
Seek == <<Step("cancel", None), Step("reset", None)>>
        \o [i \in DOMAIN Streams |-> Step("open", Streams[i])]

Body(t) == IF t \in {None, Void} THEN <<>> ELSE
           CASE Kind[t] = "init" -> <<Step("begin", None), Step("first", None)>>
             [] Kind[t] \in {"first", "seek"} -> Seek
             [] Kind[t] = "stop" -> <<Step("cancel", None), Step("stop", None)>>
             [] Kind[t] = "shutdown" -> <<Step("break", None)>>
             [] OTHER -> <<Step("play", Kind[t])>>

PlaybackInit == /\ Init
                /\ playing = FALSE /\ eos = FALSE /\ active = 0
                /\ script = <<>>
                /\ call = "none"

-----------------------------------------------------------------------------
(* The user's thread: a method looks at _state, then queues its interrupt. *)

\* The requests of a kind are used up in a fixed order; their number bounds the
\* behaviours.
Unused(kind) == {t \in Requests : Kind[t] = kind /\ fate[t] = "new"}
Fresh(kind) == CHOOSE t \in Unused(kind) : TRUE
Queue(a, kind) == Unused(kind) # {} /\ Interrupt(a, Fresh(kind))

Enter(method, condition) == /\ call = "none"
                            /\ condition /\ Unused(method) # {}
                            /\ call' = method
                            /\ UNCHANGED <<vars, playing, eos, active, script>>

CallPlay == Enter("init", ~playing)
CallPause == Enter("stop", playing)
CallSeek == Enter("seek", playing)

Submit == /\ call \in {"init", "stop", "seek"}
          /\ Queue(User, call)
          /\ call' = "none"
          /\ UNCHANGED <<playing, eos, active, script>>

\* The destructor, once there is a dispatch thread; afterwards the memory of the
\* routine is gone.
Destroy == /\ call = "none"
           /\ \E t \in Requests : Kind[t] = "init" /\ fate[t] # "new"
           /\ CancelAll(User)
           /\ call' = "destroy"
           /\ UNCHANGED <<playing, eos, active, script>>

Shutdown == /\ call = "destroy"
            /\ Queue(User, "shutdown")
            /\ call' = "gone"
            /\ UNCHANGED <<playing, eos, active, script>>

-----------------------------------------------------------------------------
(* The dispatch thread.                                                    *)

Pick == /\ Serve(Dispatch) \/ RunNearest(Dispatch)
        /\ script' = Body(task'[Dispatch])
        /\ UNCHANGED <<playing, eos, active, call>>

Wait == /\ \/ Tick \/ WakeProcess(Dispatch)
           \/ Scan(Dispatch) \/ Sleep(Dispatch) \/ TakeToken(Dispatch) \/ TimeOut(Dispatch)
           \/ script = <<>> /\ Finish(Dispatch)
        /\ UNCHANGED routine

Doing(what) == script # <<>> /\ Head(script).do = what /\ pc[Dispatch] = "run"
Did == script' = Tail(script)

Cancel == /\ Doing("cancel") /\ Did
          /\ CancelAll(Dispatch)
          /\ UNCHANGED <<playing, eos, active, call>>

Reset == /\ Doing("reset") /\ Did
         /\ active' = 0
         /\ UNCHANGED <<vars, playing, eos, call>>

Begins == /\ Doing("begin") /\ Did
          /\ playing' = TRUE /\ eos' = FALSE
          /\ UNCHANGED <<vars, active, call>>

SeekFirst == /\ Doing("first") /\ Did
             /\ Queue(Dispatch, "first")
             /\ UNCHANGED <<playing, eos, active, call>>

Stop == /\ Doing("stop") /\ Did
        /\ playing' = FALSE /\ eos' = FALSE
        /\ UNCHANGED <<vars, active, call>>

Leave == /\ Doing("break") /\ Did
         /\ Break(Dispatch)
         /\ UNCHANGED <<playing, eos, active, call>>

\* _stream_shutdown
StreamEnds(left) == /\ active' = left
                    /\ playing' = (playing /\ left # 0)
                    /\ eos' = (eos \/ left = 0)
                    /\ UNCHANGED vars

\* A stream's Seek counts the stream and its DoTask does not; both schedule it
\* or, at its end, shut it down.
Counted == IF Head(script).do = "open" THEN active + 1 ELSE active

GoOn == /\ Doing("open") \/ Doing("play")
        /\ Did
        /\ \/ /\ active' = Counted
              /\ Unused(Head(script).stream) # {}
              /\ \E d \in Times : Schedule(Dispatch, Fresh(Head(script).stream), d)
              /\ UNCHANGED <<playing, eos>>
           \/ StreamEnds(Counted - 1)
        /\ UNCHANGED call

Act == Pick \/ Wait \/ Cancel \/ Reset \/ Begins \/ SeekFirst \/ Stop \/ Leave \/ GoOn

PlaybackNext == CallPlay \/ CallPause \/ CallSeek \/ Submit \/ Destroy \/ Shutdown \/ Act

PlaybackSpec == PlaybackInit /\ [][PlaybackNext]_allVars

-----------------------------------------------------------------------------
(* Properties.                                                             *)

Records(s) == {i \in With("timed") : Kind[slots[i].task] = s}
Playing(s) == script # <<>> /\ Head(script) = Step("play", s)
Live == {s \in ToSet(Streams) : Records(s) # {} \/ Playing(s)}
AtRest == script = <<>> \/ Head(script).do = "play"

\* A stream's buffers are used by one task at a time: however seeks, pauses,
\* restarts and the streams' own tasks follow each other, a stream is never
\* queued twice.
StreamOnce == \A s \in ToSet(Streams) :
                Cardinality(Records(s)) + (IF Playing(s) THEN 1 ELSE 0) <= 1

\* While streams are queued, _streams_active is their number, so that the end of
\* the last one, and no other, can be told; until the destructor cancels them.
ActiveExact == AtRest /\ Live # {} /\ call \notin {"destroy", "gone"} => active = Cardinality(Live)

\* OnEndOfStream is called, and the routine is not playing any more, when every
\* stream has ended.
EosTrue == eos => With("timed") = {}

=============================================================================
