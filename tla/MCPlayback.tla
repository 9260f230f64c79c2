----------------------------- MODULE MCPlayback -----------------------------
EXTENDS Playback, TLC

\* Requests enough for a start, a seek, a pause, a restart and each stream
\* queued twice.
MCKind == [i1 |-> "init", i2 |-> "init", f1 |-> "first", f2 |-> "first", s1 |-> "seek",
           p1 |-> "stop", x1 |-> "shutdown",
           a1 |-> "audio", a2 |-> "audio",
           v1 |-> "video", v2 |-> "video"]
MCRequests == DOMAIN MCKind
MCStreams == <<"audio", "video">>

ASSUME PlayerAssumption == Player
=============================================================================
