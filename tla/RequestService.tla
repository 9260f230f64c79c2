--------------------------- MODULE RequestService ---------------------------
(***************************************************************************)
(* What INetworkChannel and INetworkListener promise of the requests they  *)
(* take: on each side of a queue requests end in the order in which they   *)
(* were made, each once, with what the socket did; they are cancelled only *)
(* when somebody has cancelled them or let the channel go, and refused     *)
(* only when nothing dispatches them.  NetworkDispatch implements this.    *)
(***************************************************************************)
EXTENDS Integers, Sequences

CONSTANTS Queues, Requests, Reads, Sides

VARIABLES line,      \* line[q][s]: the requests that wait, oldest first
          outcome,   \* outcome[r]: "none" while nobody has made r or r waits
          asked,     \* asked[q]: what the users have asked for
          down       \* the dispatch is not running

vars == <<line, outcome, asked, down>>

SideOf(r) == IF r \in Reads THEN "read" ELSE "write"
Members(s) == {s[i] : i \in DOMAIN s}
PendingOf(q) == UNION {Members(line[q][s]) : s \in Sides}
Pending == UNION {PendingOf(q) : q \in Queues}
End(S, how) == outcome' = [r \in Requests |-> IF r \in S THEN how ELSE outcome[r]]

Init == /\ line = [q \in Queues |-> [s \in Sides |-> <<>>]]
        /\ outcome = [r \in Requests |-> "none"]
        /\ asked = [q \in Queues |-> {}]
        /\ down = TRUE

Make(q, r) == /\ outcome[r] = "none" /\ r \notin Pending
              /\ "release" \notin asked[q]
              /\ line' = [line EXCEPT ![q][SideOf(r)] = Append(@, r)]
              /\ UNCHANGED <<outcome, asked, down>>

\* connect may succeed or fail at once.
MakeAndEnd(q, r) == /\ outcome[r] = "none" /\ r \notin Pending
                    /\ "release" \notin asked[q]
                    /\ End({r}, "done")
                    /\ UNCHANGED <<line, asked, down>>

Oldest(q, s, how) == /\ line[q][s] # <<>>
                     /\ line' = [line EXCEPT ![q][s] = Tail(@)]
                     /\ End({Head(line[q][s])}, how)
                     /\ UNCHANGED <<asked, down>>

Finish(q, s) == Oldest(q, s, "done")
Cancel(q, s) == "cancel" \in asked[q] /\ Oldest(q, s, "cancelled")

Refuse(q, s) == /\ down
                /\ line[q][s] # <<>>
                /\ line' = [line EXCEPT ![q][s] = SubSeq(@, 1, Len(@) - 1)]
                /\ End({line[q][s][Len(line[q][s])]}, "refused")
                /\ UNCHANGED <<asked, down>>

Abandon(q) == /\ "release" \in asked[q]
              /\ line' = [line EXCEPT ![q] = [s \in Sides |-> <<>>]]
              /\ End(PendingOf(q), "cancelled")
              /\ UNCHANGED <<asked, down>>

Ask(q) == /\ \E what \in {"cancel", "release"} : asked' = [asked EXCEPT ![q] = @ \cup {what}]
          /\ UNCHANGED <<line, outcome, down>>

StartOrStop == /\ down' # down
               /\ UNCHANGED <<line, outcome, asked>>

Next == \/ \E q \in Queues : \/ \E r \in Requests : Make(q, r) \/ MakeAndEnd(q, r)
                             \/ \E s \in Sides : Finish(q, s) \/ Cancel(q, s) \/ Refuse(q, s)
                             \/ Abandon(q) \/ Ask(q)
        \/ StartOrStop
=============================================================================
