------------------------- MODULE ConstructRunProofs -------------------------
(***************************************************************************)
(* Theorems about the build, for any number of threads of the pool, any    *)
(* sources and scripts with any commands.                                  *)
(***************************************************************************)
EXTENDS ConstructRun, SequenceTheorems, TLAPS

Compiling == {"compiler", "gather", "spawn", "build", "insert"}
Gathered == {"spawn", "build"}
Scripting == {"script", "commands"}
Reporting == {"report", "commit", "committing", "return"}
Places == {"idle"} \cup Compiling \cup Scripting \cup Reporting

Ahead == {"commit", "committing", "wait"}             \* the main thread has not awaited the pool
Beyond == {"resources", "link", "ok", "failed"}

Locals == [line : Nat, wd : Sources \cup {Nil}, start : SUBSET Defines, seen : SUBSET Defines,
           whole : BOOLEAN, ok : BOOLEAN]
Requests == [source : Sources, defines : SUBSET Defines]

PlacesOK ==
  /\ pc \in [Agents -> Places \cup Ahead \cup Beyond]
  /\ pc[Main] \in Ahead \cup Beyond /\ \A w \in Workers : pc[w] \in Places

LocalsOK ==
  /\ local \in [Workers -> Locals]
  /\ \A w \in Workers : pc[w] = "commands" => local[w].line > 0

DataOK ==
  /\ compileList \in Seq(Sources) /\ linkList \in Seq(Sources) /\ sourceOf \in Seq(Sources)
  /\ defines \in SUBSET Defines /\ alive \in BOOLEAN
  /\ cwd \in Sources \cup {Nil}
  /\ lock \in Agents \cup {Nil} /\ scriptLock \in Workers \cup {Nil}
  /\ queue \in Seq(Nat)
  /\ slot \in [Workers -> Nat \cup {Nil}]
  /\ done \in SUBSET Nat /\ broken \in SUBSET Nat
  /\ asked \in SUBSET Requests

TypeOK == PlacesOK /\ LocalsOK /\ DataOK

Running == {slot[w] : w \in Workers} \ {Nil}

\* A source that was asked for is in the list or has a task; a task is queued,
\* with a worker or done.
Whereabouts ==
  /\ \A w \in Workers : pc[w] = "idle" <=> slot[w] = Nil
  /\ Entries(queue) \cup Running \cup done = DOMAIN sourceOf
  /\ Asked = Entries(compileList) \cup Entries(sourceOf)

\* What a tool that has ended leaves behind.
Built(t) == t \in broken \/ sourceOf[t] \in Scripts \cup Entries(linkList)

Results ==
  /\ \A w \in Workers : pc[w] \in Compiling => Source(w) \notin Scripts
  /\ \A w \in Workers : pc[w] \in Scripting => Source(w) \in Scripts
  /\ \A w \in Workers : pc[w] \in Reporting => Built(slot[w])
  /\ \A t \in done : Built(t)

\* A failure is in *cstat or about to be.
Failures ==
  broken # {} => ~alive \/ \E w \in Workers : pc[w] = "report" /\ ~local[w].ok

\* What the place of the main thread means for the others.
Stages ==
  /\ compileList # <<>> => \/ pc[Main] \in {"commit", "committing"}
                           \/ \E w \in Workers : pc[w] \notin {"idle", "return"}
  /\ pc[Main] \in Beyond => queue = <<>> /\ \A w \in Workers : pc[w] = "idle"
  /\ PastCompiling => alive

\* One script at a time has the working directory; it gives back the one it
\* found unless it fails.
Directory ==
  /\ \A w \in Workers : pc[w] = "commands" <=> scriptLock = w
  /\ \A w \in Workers : pc[w] = "commands" =>
       cwd = Source(w) /\ (broken = {} => local[w].wd = Nil)
  /\ broken = {} /\ scriptLock = Nil => cwd = Nil

\* Definitions are never taken back; what a compiler that was not disturbed has
\* read it keeps.
Known ==
  /\ \A e \in asked : e.defines \subseteq defines
  /\ \A w \in Workers : pc[w] \in Gathered /\ local[w].whole =>
       \E e \in asked : e.source = Source(w) /\ e.defines \subseteq local[w].seen

IInv == TypeOK /\ Whereabouts /\ Results /\ Failures /\ Stages /\ Directory /\ Known

-----------------------------------------------------------------------------
(* Sequences and places.                                                   *)

LEMMA AppendEntries ==
  ASSUME NEW C, NEW s \in Seq(C), NEW e \in C
  PROVE  /\ Append(s, e) \in Seq(C)
         /\ Entries(Append(s, e)) = Entries(s) \cup {e}
         /\ DOMAIN Append(s, e) = DOMAIN s \cup {Len(s) + 1}
         /\ \A i \in DOMAIN s : Append(s, e)[i] = s[i]
         /\ Append(s, e)[Len(s) + 1] = e
         /\ Len(s) + 1 \notin DOMAIN s
         /\ Append(s, e) # <<>>
<1>1. /\ Append(s, e) \in Seq(C) /\ Len(Append(s, e)) = Len(s) + 1 /\ Len(s) \in Nat
      /\ DOMAIN s = 1..Len(s) /\ DOMAIN Append(s, e) = 1..Len(s) + 1
      /\ \A i \in 1..Len(s) : Append(s, e)[i] = s[i]
      /\ Append(s, e)[Len(s) + 1] = e
  OBVIOUS
<1>2. 1..Len(s) + 1 = 1..Len(s) \cup {Len(s) + 1} /\ Len(s) + 1 \notin 1..Len(s)
  BY <1>1
<1>3. QED
  BY <1>1, <1>2 DEF Entries

LEMMA HeadEntries ==
  ASSUME NEW C, NEW s \in Seq(C), s # <<>>
  PROVE  /\ Head(s) \in C /\ Tail(s) \in Seq(C)
         /\ Entries(s) = Entries(Tail(s)) \cup {Head(s)}
<1>1. /\ Len(s) \in Nat \ {0} /\ Head(s) = s[1] /\ Head(s) \in C /\ Tail(s) \in Seq(C)
      /\ DOMAIN s = 1..Len(s) /\ DOMAIN Tail(s) = 1..Len(s) - 1
      /\ \A i \in 1..Len(s) - 1 : Tail(s)[i] = s[i + 1]
  OBVIOUS
<1>2. ASSUME NEW x \in Entries(s) PROVE x \in Entries(Tail(s)) \cup {Head(s)}
  <2>1. PICK i \in 1..Len(s) : x = s[i]
    BY <1>1, <1>2 DEF Entries
  <2>2. CASE i = 1
    BY <1>1, <2>1, <2>2
  <2>3. CASE i # 1
    <3>1. i - 1 \in 1..Len(s) - 1 /\ (i - 1) + 1 = i
      BY <1>1, <2>3
    <3>2. Tail(s)[i - 1] = x
      BY <1>1, <2>1, <3>1
    <3>3. QED
      BY <1>1, <3>1, <3>2 DEF Entries
  <2>4. QED
    BY <2>2, <2>3
<1>3. ASSUME NEW x \in Entries(Tail(s)) PROVE x \in Entries(s)
  <2>1. PICK i \in 1..Len(s) - 1 : x = s[i + 1]
    BY <1>1, <1>3 DEF Entries
  <2>2. i + 1 \in 1..Len(s)
    BY <1>1, <2>1
  <2>3. QED
    BY <1>1, <2>1, <2>2 DEF Entries
<1>4. Head(s) \in Entries(s)
  BY <1>1 DEF Entries
<1>5. QED
  BY <1>1, <1>2, <1>3, <1>4

LEMMA AgentLemma == Main \in Agents /\ Main \notin Workers /\ \A w \in Workers : w \in Agents
BY AgentAssumption DEF Agents

\* A worker that is not idle has a task, and a source.
LEMMA BusyLemma ==
  ASSUME TypeOK, Whereabouts, NEW w \in Workers, pc[w] # "idle"
  PROVE  /\ slot[w] \in DOMAIN sourceOf /\ slot[w] \in Nat /\ slot[w] # Nil
         /\ Source(w) \in Sources
<1>1. slot[w] # Nil /\ slot[w] \in Nat
  BY DEF TypeOK, DataOK, Whereabouts
<1>2. slot[w] \in DOMAIN sourceOf
  BY <1>1 DEF Whereabouts, Running
<1>3. QED
  BY <1>1, <1>2 DEF TypeOK, DataOK, Source

\* The command a script is at.
LEMMA CommandLemma ==
  ASSUME TypeOK, Whereabouts, Results, NEW w \in Workers, AtCommand(w)
  PROVE  Program[Source(w)][local[w].line] \in Commands
<1>1. Source(w) \in Scripts /\ Program[Source(w)] \in Seq(Commands)
  BY SourceAssumption DEF AtCommand, Results, Scripting
<1>2. local[w].line \in 1..Len(Program[Source(w)])
  BY <1>1 DEF AtCommand, TypeOK, LocalsOK, Locals
<1>3. QED
  BY <1>1, <1>2

-----------------------------------------------------------------------------
(* Types.                                                                  *)

LEMMA PlaceLemma ==
  ASSUME PlacesOK, NEW a \in Agents, NEW place, Go(a, place),
         a = Main => place \in Ahead \cup Beyond, a # Main => place \in Places
  PROVE  PlacesOK' /\ pc'[a] = place /\ \A b \in Agents \ {a} : pc'[b] = pc[b]
BY AgentLemma DEF PlacesOK, Go

LEMMA MoveLemma ==
  ASSUME PlacesOK, NEW a \in Agents, NEW place, Go(a, place)
  PROVE  /\ pc'[a] = place /\ \A w \in Workers : w # a => pc'[w] = pc[w]
         /\ a # Main => pc'[Main] = pc[Main]
BY AgentLemma DEF PlacesOK, Go

\* What a tool that fails does to the locals of its worker.
LEMMA FailsLemma ==
  ASSUME PlacesOK, LocalsOK, NEW w \in Workers, Fails(w)
  PROVE  /\ local' \in [Workers -> Locals] /\ local'[w].ok = FALSE
         /\ \A v \in Workers : v # w => local'[v] = local[v]
         /\ pc'[w] = "report" /\ \A v \in Workers : v # w => pc'[v] = pc[v]
         /\ pc'[Main] = pc[Main]
<1>1. local[w] \in Locals /\ [local[w] EXCEPT !.ok = FALSE] \in Locals
  BY DEF LocalsOK, Locals
<1>2. local' = [local EXCEPT ![w] = [local[w] EXCEPT !.ok = FALSE]]
  BY DEF Fails
<1>3. local'[w] = [local[w] EXCEPT !.ok = FALSE]
  BY <1>2 DEF LocalsOK
<1>4. local'[w].ok = FALSE
  BY <1>1, <1>3 DEF Locals
<1>5. QED
  BY <1>1, <1>2, <1>4, MoveLemma, AgentLemma DEF Fails, LocalsOK

\* What the loop over defines_list does to the locals of its worker.
LEMMA StartLemma ==
  ASSUME LocalsOK, NEW w \in Workers, NEW S \in SUBSET Defines,
         local' = [local EXCEPT ![w].start = S]
  PROVE  /\ local' \in [Workers -> Locals]
         /\ \A v \in Workers : v # w => local'[v] = local[v]
<1>1. local[w] \in Locals /\ [local[w] EXCEPT !.start = S] \in Locals
  BY DEF LocalsOK, Locals
<1>2. local' = [local EXCEPT ![w] = [local[w] EXCEPT !.start = S]]
  OBVIOUS
<1>3. QED
  BY <1>1, <1>2 DEF LocalsOK

LEMMA SeenLemma ==
  ASSUME LocalsOK, NEW w \in Workers, NEW S \in SUBSET Defines, NEW b \in BOOLEAN,
         local' = [local EXCEPT ![w].start = {}, ![w].seen = S, ![w].whole = b]
  PROVE  /\ local' \in [Workers -> Locals]
         /\ local'[w].seen = S /\ local'[w].whole = b
         /\ \A v \in Workers : v # w => local'[v] = local[v]
<1> DEFINE l == [[[local[w] EXCEPT !.start = {}] EXCEPT !.seen = S] EXCEPT !.whole = b]
<1>1. l \in Locals /\ l.seen = S /\ l.whole = b
  BY DEF LocalsOK, Locals
<1>2. local' = [local EXCEPT ![w] = l]
  OBVIOUS
<1>3. local'[w] = l
  BY <1>2 DEF LocalsOK
<1>4. QED
  BY <1>1, <1>2, <1>3 DEF LocalsOK

\* A step of the compiler that may fail.
LEMMA TryLemma ==
  ASSUME PlacesOK, LocalsOK, NEW w \in Workers, Spawn(w) \/ Compile(w)
  PROVE  /\ pc[w] \in {"spawn", "build"} /\ pc'[w] \in {"build", "insert", "report"}
         /\ pc'[w] = "build" => pc[w] = "spawn" /\ UNCHANGED local
         /\ \A v \in Workers : v # w => pc'[v] = pc[v] /\ local'[v] = local[v]
         /\ pc'[Main] = pc[Main]
<1>1. pc[w] \in {"spawn", "build"}
  BY DEF Spawn, Compile
<1>2. CASE Fails(w)
  BY <1>1, <1>2, FailsLemma
<1>3. CASE pc[w] = "spawn" /\ Go(w, "build") /\ UNCHANGED local
  BY <1>1, <1>3, MoveLemma, AgentLemma
<1>4. CASE pc[w] = "build" /\ Go(w, "insert") /\ UNCHANGED local
  BY <1>1, <1>4, MoveLemma, AgentLemma
<1>5. QED
  BY <1>2, <1>3, <1>4 DEF Spawn, Compile

LEMMA PlacesStep ==
  ASSUME PlacesOK, [Next]_vars
  PROVE  PlacesOK'
<1> USE AgentLemma, SourceAssumption DEF build, pool, history, Places, Ahead, Beyond, Compiling, Scripting, Reporting
<1>1. ASSUME NEW a \in Agents, EnterCommit(a) PROVE PlacesOK'
  BY <1>1, PlaceLemma DEF EnterCommit, PlacesOK, Fails, Tool, AfterReport
<1>2. ASSUME NEW a \in Agents, SubmitFirst(a) PROVE PlacesOK'
  BY <1>2, PlaceLemma DEF SubmitFirst, PlacesOK, Fails, Tool, AfterReport
<1>3. ASSUME NEW a \in Agents, LeaveCommit(a) PROVE PlacesOK'
  BY <1>3, PlaceLemma DEF LeaveCommit, PlacesOK, Fails, Tool, AfterReport
<1>4. ASSUME NEW w \in Workers, StartTask(w) PROVE PlacesOK'
  BY <1>4, PlaceLemma DEF StartTask, PlacesOK, Fails, Tool, AfterReport
<1>5. ASSUME NEW w \in Workers, Report(w) PROVE PlacesOK'
  BY <1>5, PlaceLemma DEF Report, PlacesOK, Fails, Tool, AfterReport
<1>6. ASSUME NEW w \in Workers, EndTask(w) PROVE PlacesOK'
  BY <1>6, PlaceLemma DEF EndTask, PlacesOK, Fails, Tool, AfterReport
<1>7. ASSUME NEW w \in Workers, SkipFresh(w) PROVE PlacesOK'
  BY <1>7, PlaceLemma DEF SkipFresh, PlacesOK, Fails, Tool, AfterReport
<1>8. ASSUME NEW w \in Workers, BeginGather(w) PROVE PlacesOK'
  BY <1>8, PlaceLemma DEF BeginGather, PlacesOK, Fails, Tool, AfterReport
<1>9. ASSUME NEW w \in Workers, EndGather(w) PROVE PlacesOK'
  BY <1>9, PlaceLemma DEF EndGather, PlacesOK, Fails, Tool, AfterReport
<1>10. ASSUME NEW w \in Workers, Spawn(w) PROVE PlacesOK'
  BY <1>10, PlaceLemma DEF Spawn, PlacesOK, Fails, Tool, AfterReport
<1>11. ASSUME NEW w \in Workers, Compile(w) PROVE PlacesOK'
  BY <1>11, PlaceLemma DEF Compile, PlacesOK, Fails, Tool, AfterReport
<1>12. ASSUME NEW w \in Workers, Insert(w) PROVE PlacesOK'
  BY <1>12, PlaceLemma DEF Insert, PlacesOK, Fails, Tool, AfterReport
<1>13. ASSUME NEW w \in Workers, EnterScript(w) PROVE PlacesOK'
  BY <1>13, PlaceLemma DEF EnterScript, PlacesOK, Fails, Tool, AfterReport
<1>14. ASSUME NEW w \in Workers, NoScript(w) PROVE PlacesOK'
  BY <1>14, PlaceLemma DEF NoScript, PlacesOK, Fails, Tool, AfterReport
<1>15. ASSUME NEW w \in Workers, Command(w) PROVE PlacesOK'
  BY <1>15, PlaceLemma DEF Command, PlacesOK, Fails, Tool, AfterReport
<1>16. ASSUME NEW w \in Workers, CommandFails(w) PROVE PlacesOK'
  BY <1>16, PlaceLemma DEF CommandFails, PlacesOK, Fails, Tool, AfterReport
<1>17. ASSUME NEW w \in Workers, EndScript(w) PROVE PlacesOK'
  BY <1>17, PlaceLemma DEF EndScript, PlacesOK, Fails, Tool, AfterReport
<1>18. ASSUME AwaitPool PROVE PlacesOK'
  BY <1>18, PlaceLemma DEF AwaitPool, PlacesOK, Fails, Tool, AfterReport
<1>19. ASSUME MakeResources PROVE PlacesOK'
  BY <1>19, PlaceLemma DEF MakeResources, PlacesOK, Fails, Tool, AfterReport
<1>20. ASSUME Link PROVE PlacesOK'
  BY <1>20, PlaceLemma DEF Link, PlacesOK, Fails, Tool, AfterReport
<1>21. CASE UNCHANGED vars
  BY <1>21 DEF vars, PlacesOK
<1>22. QED
  BY <1>1, <1>2, <1>3, <1>4, <1>5, <1>6, <1>7, <1>8, <1>9, <1>10, <1>11, <1>12, <1>13, <1>14, <1>15, <1>16, <1>17, <1>18, <1>19, <1>20, <1>21
     DEF Next, Step, Finished, CommitNext, WorkerNext, MainNext

LEMMA DataStep ==
  ASSUME TypeOK, Whereabouts, Results, [Next]_vars
  PROVE  DataOK'
<1> USE AgentLemma, SourceAssumption DEF build, pool, history, Requests
<1>1. ASSUME NEW a \in Agents, EnterCommit(a) PROVE DataOK'
  BY <1>1 DEF EnterCommit, TypeOK, DataOK
<1>2. ASSUME NEW a \in Agents, SubmitFirst(a) PROVE DataOK'
  BY <1>2 DEF SubmitFirst, TypeOK, DataOK
<1>3. ASSUME NEW a \in Agents, LeaveCommit(a) PROVE DataOK'
  BY <1>3 DEF LeaveCommit, TypeOK, DataOK
<1>4. ASSUME NEW w \in Workers, StartTask(w) PROVE DataOK'
  BY <1>4, HeadEntries DEF StartTask, TypeOK, DataOK
<1>5. ASSUME NEW w \in Workers, Report(w) PROVE DataOK'
  <2>1. Alive(w) \in BOOLEAN
    BY DEF Alive, TypeOK, DataOK
  <2>2. QED
    BY <1>5, <2>1 DEF Report, TypeOK, DataOK
<1>6. ASSUME NEW w \in Workers, EndTask(w) PROVE DataOK'
  <2>1. slot[w] \in Nat
    BY <1>6, BusyLemma DEF EndTask
  <2>2. QED
    BY <1>6, <2>1 DEF EndTask, TypeOK, DataOK
<1>7. ASSUME NEW w \in Workers, SkipFresh(w) PROVE DataOK'
  BY <1>7 DEF SkipFresh, TypeOK, DataOK
<1>8. ASSUME NEW w \in Workers, BeginGather(w) PROVE DataOK'
  BY <1>8 DEF BeginGather, TypeOK, DataOK
<1>9. ASSUME NEW w \in Workers, EndGather(w) PROVE DataOK'
  BY <1>9 DEF EndGather, TypeOK, DataOK
<1>10. ASSUME NEW w \in Workers, Spawn(w) PROVE DataOK'
  <2>1. slot[w] \in Nat
    BY <1>10, BusyLemma DEF Spawn
  <2>2. QED
    BY <1>10, <2>1 DEF Spawn, Fails, TypeOK, DataOK
<1>11. ASSUME NEW w \in Workers, Compile(w) PROVE DataOK'
  <2>1. slot[w] \in Nat
    BY <1>11, BusyLemma DEF Compile
  <2>2. QED
    BY <1>11, <2>1 DEF Compile, Fails, TypeOK, DataOK
<1>12. ASSUME NEW w \in Workers, Insert(w) PROVE DataOK'
  <2>1. Source(w) \in Sources
    BY <1>12, BusyLemma DEF Insert
  <2>2. linkList' \in Seq(Sources)
    BY <1>12, <2>1, AppendEntries DEF Insert, TypeOK, DataOK
  <2>3. QED
    BY <1>12, <2>2 DEF Insert, TypeOK, DataOK
<1>13. ASSUME NEW w \in Workers, EnterScript(w) PROVE DataOK'
  <2>1. Source(w) \in Sources
    BY <1>13, BusyLemma DEF EnterScript
  <2>2. QED
    BY <1>13, <2>1 DEF EnterScript, TypeOK, DataOK
<1>14. ASSUME NEW w \in Workers, NoScript(w) PROVE DataOK'
  <2>1. slot[w] \in Nat
    BY <1>14, BusyLemma DEF NoScript
  <2>2. QED
    BY <1>14, <2>1 DEF NoScript, Fails, TypeOK, DataOK
<1>15. ASSUME NEW w \in Workers, Command(w) PROVE DataOK'
  <2> DEFINE c == Program[Source(w)][local[w].line]
  <2>1. c \in Commands
    BY <1>15, CommandLemma DEF Command
  <2>2. CASE c.do = "compile"
    <3>1. c.what \in Sources
      BY <2>1, <2>2 DEF Commands
    <3>2. c.what \notin Entries(compileList) => Append(compileList, c.what) \in Seq(Sources)
      BY <3>1 DEF TypeOK, DataOK
    <3>3. compileList' \in Seq(Sources) /\ asked' \in SUBSET Requests /\ defines' = defines
      <4>1. AddSource(c.what) /\ defines' = defines
        BY <1>15, <2>2 DEF Command
      <4>2. Ask(c.what) \in Requests
        BY <3>1 DEF Ask, TypeOK, DataOK
      <4>3. QED
        BY <3>2, <4>1, <4>2 DEF AddSource, TypeOK, DataOK
    <3>4. QED
      BY <1>15, <3>3 DEF Command, TypeOK, DataOK
  <2>3. CASE c.do = "define"
    <3>1. c.what \in Defines
      BY <2>1, <2>3 DEF Commands
    <3>2. QED
      BY <1>15, <2>3, <3>1 DEF Command, TypeOK, DataOK
  <2>4. CASE c.do = "run"
    BY <1>15, <2>4 DEF Command, TypeOK, DataOK
  <2>5. QED
    BY <2>1, <2>2, <2>3, <2>4 DEF Commands
<1>16. ASSUME NEW w \in Workers, CommandFails(w) PROVE DataOK'
  <2>1. slot[w] \in Nat
    BY <1>16, BusyLemma DEF CommandFails, AtCommand
  <2>2. QED
    BY <1>16, <2>1 DEF CommandFails, Fails, TypeOK, DataOK
<1>17. ASSUME NEW w \in Workers, EndScript(w) PROVE DataOK'
  BY <1>17 DEF EndScript, Unlocked, TypeOK, DataOK, LocalsOK, Locals
<1>18. ASSUME AwaitPool PROVE DataOK'
  BY <1>18 DEF AwaitPool, TypeOK, DataOK
<1>19. ASSUME MakeResources PROVE DataOK'
  BY <1>19 DEF MakeResources, TypeOK, DataOK
<1>20. ASSUME Link PROVE DataOK'
  BY <1>20 DEF Link, TypeOK, DataOK
<1>21. CASE UNCHANGED vars
  BY <1>21 DEF vars, DataOK, TypeOK
<1>22. QED
  BY <1>1, <1>2, <1>3, <1>4, <1>5, <1>6, <1>7, <1>8, <1>9, <1>10, <1>11, <1>12, <1>13, <1>14, <1>15, <1>16, <1>17, <1>18, <1>19, <1>20, <1>21
     DEF Next, Step, Finished, CommitNext, WorkerNext, MainNext

LEMMA LocalsStep ==
  ASSUME TypeOK, [Next]_vars
  PROVE  LocalsOK'
<1> USE AgentLemma DEF build, pool, history, TypeOK
<1>1. ASSUME NEW a \in Agents, EnterCommit(a) PROVE LocalsOK'
  BY <1>1, MoveLemma DEF EnterCommit, LocalsOK
<1>2. ASSUME NEW a \in Agents, SubmitFirst(a) PROVE LocalsOK'
  BY <1>2, MoveLemma DEF SubmitFirst, LocalsOK
<1>3. ASSUME NEW a \in Agents, LeaveCommit(a) PROVE LocalsOK'
  BY <1>3, MoveLemma DEF LeaveCommit, LocalsOK
<1>4. ASSUME NEW w \in Workers, StartTask(w) PROVE LocalsOK'
  BY <1>4, MoveLemma DEF StartTask, NoLocals, Tool, LocalsOK, Locals
<1>5. ASSUME NEW w \in Workers, Report(w) PROVE LocalsOK'
  BY <1>5, MoveLemma DEF Report, AfterReport, LocalsOK, Locals
<1>6. ASSUME NEW w \in Workers, EndTask(w) PROVE LocalsOK'
  BY <1>6, MoveLemma DEF EndTask, LocalsOK
<1>7. ASSUME NEW w \in Workers, SkipFresh(w) PROVE LocalsOK'
  BY <1>7, MoveLemma DEF SkipFresh, LocalsOK
<1>8. ASSUME NEW w \in Workers, BeginGather(w) PROVE LocalsOK'
  <2>1. defines \in SUBSET Defines /\ local' = [local EXCEPT ![w].start = defines]
    BY <1>8 DEF BeginGather, DataOK
  <2>2. local' \in [Workers -> Locals] /\ \A v \in Workers : v # w => local'[v] = local[v]
    BY <2>1, StartLemma
  <2>3. pc'[w] = "gather" /\ \A v \in Workers : v # w => pc'[v] = pc[v]
    BY <1>8, MoveLemma DEF BeginGather
  <2>4. QED
    BY <2>2, <2>3 DEF LocalsOK
<1>9. ASSUME NEW w \in Workers, EndGather(w) PROVE LocalsOK'
  <2>1. PICK S \in SUBSET Defines, b \in BOOLEAN :
          local' = [local EXCEPT ![w].start = {}, ![w].seen = S, ![w].whole = b]
    BY <1>9 DEF EndGather, DataOK
  <2>2. local' \in [Workers -> Locals] /\ \A v \in Workers : v # w => local'[v] = local[v]
    BY <2>1, SeenLemma
  <2>3. pc'[w] = "spawn" /\ \A v \in Workers : v # w => pc'[v] = pc[v]
    BY <1>9, MoveLemma DEF EndGather
  <2>4. QED
    BY <2>2, <2>3 DEF LocalsOK
<1>10. ASSUME NEW w \in Workers, Spawn(w) PROVE LocalsOK'
  <2>1. Fails(w) \/ (UNCHANGED local /\ \E place \in Compiling : Go(w, place))
    BY <1>10 DEF Spawn, Compiling
  <2>2. CASE Fails(w)
    BY <2>2, FailsLemma DEF LocalsOK
  <2>3. CASE UNCHANGED local /\ \E place \in Compiling : Go(w, place)
    BY <2>3, MoveLemma DEF Compiling, LocalsOK
  <2>4. QED
    BY <2>1, <2>2, <2>3
<1>11. ASSUME NEW w \in Workers, Compile(w) PROVE LocalsOK'
  <2>1. Fails(w) \/ (UNCHANGED local /\ \E place \in Compiling : Go(w, place))
    BY <1>11 DEF Compile, Compiling
  <2>2. CASE Fails(w)
    BY <2>2, FailsLemma DEF LocalsOK
  <2>3. CASE UNCHANGED local /\ \E place \in Compiling : Go(w, place)
    BY <2>3, MoveLemma DEF Compiling, LocalsOK
  <2>4. QED
    BY <2>1, <2>2, <2>3
<1>12. ASSUME NEW w \in Workers, Insert(w) PROVE LocalsOK'
  BY <1>12, MoveLemma DEF Insert, LocalsOK
<1>13. ASSUME NEW w \in Workers, EnterScript(w) PROVE LocalsOK'
  <2>1. [local[w] EXCEPT !.line = 1, !.wd = cwd] \in Locals
    BY DEF DataOK, LocalsOK, Locals
  <2>2. local' = [local EXCEPT ![w] = [local[w] EXCEPT !.line = 1, !.wd = cwd]]
    BY <1>13 DEF EnterScript
  <2>3. local'[w].line = 1
    BY <2>2 DEF LocalsOK, Locals
  <2>4. QED
    BY <1>13, <2>1, <2>2, <2>3, MoveLemma DEF EnterScript, LocalsOK
<1>14. ASSUME NEW w \in Workers, NoScript(w) PROVE LocalsOK'
  BY <1>14, FailsLemma DEF NoScript, LocalsOK
<1>15. ASSUME NEW w \in Workers, Command(w) PROVE LocalsOK'
  BY <1>15, MoveLemma DEF Command, NextCommand, AtCommand, LocalsOK, Locals
<1>16. ASSUME NEW w \in Workers, CommandFails(w) PROVE LocalsOK'
  BY <1>16, FailsLemma DEF CommandFails, LocalsOK
<1>17. ASSUME NEW w \in Workers, EndScript(w) PROVE LocalsOK'
  BY <1>17, MoveLemma DEF EndScript, LocalsOK
<1>18. ASSUME AwaitPool PROVE LocalsOK'
  BY <1>18, MoveLemma DEF AwaitPool, LocalsOK
<1>19. ASSUME MakeResources PROVE LocalsOK'
  BY <1>19, MoveLemma DEF MakeResources, LocalsOK
<1>20. ASSUME Link PROVE LocalsOK'
  BY <1>20, MoveLemma DEF Link, LocalsOK
<1>21. CASE UNCHANGED vars
  BY <1>21 DEF vars, LocalsOK
<1>22. QED
  BY <1>1, <1>2, <1>3, <1>4, <1>5, <1>6, <1>7, <1>8, <1>9, <1>10, <1>11, <1>12, <1>13, <1>14, <1>15, <1>16, <1>17, <1>18, <1>19, <1>20, <1>21
     DEF Next, Step, Finished, CommitNext, WorkerNext, MainNext

LEMMA TypeStep ==
  ASSUME TypeOK, Whereabouts, Results, [Next]_vars
  PROVE  TypeOK'
BY PlacesStep, DataStep, LocalsStep DEF TypeOK

-----------------------------------------------------------------------------
(* Where the sources and the tasks are.                                    *)

\* A step in which no task and no source moves.
LEMMA StayLemma ==
  ASSUME Whereabouts, UNCHANGED <<pool, compileList, asked>>,
         \A w \in Workers : pc'[w] = "idle" <=> pc[w] = "idle"
  PROVE  Whereabouts'
BY DEF Whereabouts, Running, Asked, pool

LEMMA WhereaboutsStep ==
  ASSUME TypeOK, Whereabouts, Results, [Next]_vars
  PROVE  Whereabouts'
<1> USE AgentLemma DEF build, pool, history, TypeOK
<1>1. ASSUME NEW a \in Agents, EnterCommit(a) PROVE Whereabouts'
  BY <1>1, MoveLemma, StayLemma DEF EnterCommit
<1>2. ASSUME NEW a \in Agents, SubmitFirst(a) PROVE Whereabouts'
  <2>1. /\ Entries(queue') = Entries(queue) \cup {Len(sourceOf) + 1}
        /\ DOMAIN sourceOf' = DOMAIN sourceOf \cup {Len(sourceOf) + 1}
        /\ Entries(sourceOf') = Entries(sourceOf) \cup {Head(compileList)}
    <3>1. /\ queue \in Seq(Nat) /\ sourceOf \in Seq(Sources) /\ Len(sourceOf) + 1 \in Nat
          /\ Head(compileList) \in Sources
      BY <1>2, HeadEntries DEF SubmitFirst, DataOK
    <3>2. queue' = Append(queue, Len(sourceOf) + 1) /\ sourceOf' = Append(sourceOf, Head(compileList))
      BY <1>2 DEF SubmitFirst
    <3>3. Entries(queue') = Entries(queue) \cup {Len(sourceOf) + 1}
      BY <3>1, <3>2, AppendEntries
    <3>4. QED
      BY <3>1, <3>2, <3>3, AppendEntries
  <2>2. Entries(compileList) = Entries(compileList') \cup {Head(compileList)}
    BY <1>2, HeadEntries DEF SubmitFirst, DataOK
  <2>3. UNCHANGED <<slot, done, pc, asked>>
    BY <1>2 DEF SubmitFirst
  <2>4. QED
    BY <2>1, <2>2, <2>3 DEF Whereabouts, Running, Asked
<1>3. ASSUME NEW a \in Agents, LeaveCommit(a) PROVE Whereabouts'
  BY <1>3, MoveLemma, StayLemma DEF LeaveCommit
<1>4. ASSUME NEW w \in Workers, StartTask(w) PROVE Whereabouts'
  <2>1. /\ slot[w] = Nil /\ slot'[w] = Head(queue)
        /\ \A v \in Workers : v # w => slot'[v] = slot[v]
    BY <1>4 DEF StartTask, Whereabouts, DataOK
  <2>2. Head(queue) \in Nat /\ Entries(queue) = Entries(queue') \cup {Head(queue)}
    BY <1>4, HeadEntries DEF StartTask, DataOK
  <2>3. Running' = Running \cup {Head(queue)}
    BY <2>1, <2>2, SourceAssumption DEF Running
  <2>4. pc'[w] # "idle" /\ \A v \in Workers : v # w => pc'[v] = pc[v]
    BY <1>4, MoveLemma DEF StartTask, Tool
  <2>5. UNCHANGED <<sourceOf, done, compileList, asked>>
    BY <1>4 DEF StartTask
  <2>6. \A v \in Workers : pc'[v] = "idle" <=> slot'[v] = Nil
    BY <2>1, <2>2, <2>4, SourceAssumption DEF Whereabouts
  <2>7. QED
    BY <2>2, <2>3, <2>5, <2>6 DEF Whereabouts, Asked
<1>5. ASSUME NEW w \in Workers, Report(w) PROVE Whereabouts'
  BY <1>5, MoveLemma, StayLemma DEF Report, AfterReport
<1>6. ASSUME NEW w \in Workers, EndTask(w) PROVE Whereabouts'
  <2>1. /\ slot'[w] = Nil /\ \A v \in Workers : v # w => slot'[v] = slot[v]
        /\ slot[w] \in DOMAIN sourceOf /\ slot[w] # Nil
    BY <1>6, BusyLemma DEF EndTask, DataOK
  <2>2. Running' \cup done' = Running \cup done
    BY <1>6, <2>1 DEF EndTask, Running
  <2>3. pc'[w] = "idle" /\ \A v \in Workers : v # w => pc'[v] = pc[v]
    BY <1>6, MoveLemma DEF EndTask
  <2>4. UNCHANGED <<sourceOf, queue, compileList, asked>>
    BY <1>6 DEF EndTask
  <2>5. QED
    BY <2>1, <2>2, <2>3, <2>4 DEF Whereabouts, Asked
<1>7. ASSUME NEW w \in Workers, SkipFresh(w) PROVE Whereabouts'
  BY <1>7, MoveLemma, StayLemma DEF SkipFresh
<1>8. ASSUME NEW w \in Workers, BeginGather(w) PROVE Whereabouts'
  BY <1>8, MoveLemma, StayLemma DEF BeginGather
<1>9. ASSUME NEW w \in Workers, EndGather(w) PROVE Whereabouts'
  BY <1>9, MoveLemma, StayLemma DEF EndGather
<1>10. ASSUME NEW w \in Workers, Spawn(w) PROVE Whereabouts'
  BY <1>10, MoveLemma, StayLemma DEF Spawn, Fails
<1>11. ASSUME NEW w \in Workers, Compile(w) PROVE Whereabouts'
  BY <1>11, MoveLemma, StayLemma DEF Compile, Fails
<1>12. ASSUME NEW w \in Workers, Insert(w) PROVE Whereabouts'
  BY <1>12, MoveLemma, StayLemma DEF Insert
<1>13. ASSUME NEW w \in Workers, EnterScript(w) PROVE Whereabouts'
  BY <1>13, MoveLemma, StayLemma DEF EnterScript
<1>14. ASSUME NEW w \in Workers, NoScript(w) PROVE Whereabouts'
  BY <1>14, MoveLemma, StayLemma DEF NoScript, Fails
<1>15. ASSUME NEW w \in Workers, Command(w) PROVE Whereabouts'
  <2> DEFINE c == Program[Source(w)][local[w].line]
  <2>1. c \in Commands
    BY <1>15, CommandLemma DEF Command
  <2>2. UNCHANGED <<pool, pc>>
    BY <1>15 DEF Command
  <2>3. CASE c.do = "compile"
    <3>1. c.what \in Sources
      BY <2>1, <2>3 DEF Commands
    <3>2. AddSource(c.what)
      BY <1>15, <2>3 DEF Command
    <3>3. CASE c.what \in Entries(compileList)
      BY <2>2, <3>2, <3>3, StayLemma DEF AddSource
    <3>4. CASE c.what \notin Entries(compileList)
      <4>1. Entries(compileList') = Entries(compileList) \cup {c.what}
        <5>1. compileList \in Seq(Sources) /\ compileList' = Append(compileList, c.what)
          BY <3>2, <3>4 DEF AddSource, DataOK
        <5>2. QED
          BY <3>1, <5>1, AppendEntries
      <4>2. Asked' = Asked \cup {c.what}
        <5>1. asked' = asked \cup {Ask(c.what)} /\ Ask(c.what).source = c.what
          BY <3>2, <3>4 DEF AddSource, Ask
        <5>2. QED
          BY <5>1 DEF Asked
      <4>3. QED
        BY <2>2, <4>1, <4>2 DEF Whereabouts, Running
    <3>5. QED
      BY <3>3, <3>4
  <2>4. CASE c.do # "compile"
    BY <1>15, <2>4, StayLemma DEF Command
  <2>5. QED
    BY <2>3, <2>4
<1>16. ASSUME NEW w \in Workers, CommandFails(w) PROVE Whereabouts'
  BY <1>16, MoveLemma, StayLemma DEF CommandFails, AtCommand, Fails
<1>17. ASSUME NEW w \in Workers, EndScript(w) PROVE Whereabouts'
  BY <1>17, MoveLemma, StayLemma DEF EndScript
<1>18. ASSUME AwaitPool PROVE Whereabouts'
  BY <1>18, MoveLemma, StayLemma DEF AwaitPool
<1>19. ASSUME MakeResources PROVE Whereabouts'
  BY <1>19, MoveLemma, StayLemma DEF MakeResources
<1>20. ASSUME Link PROVE Whereabouts'
  BY <1>20, MoveLemma, StayLemma DEF Link
<1>21. CASE UNCHANGED vars
  BY <1>21, StayLemma DEF vars
<1>22. QED
  BY <1>1, <1>2, <1>3, <1>4, <1>5, <1>6, <1>7, <1>8, <1>9, <1>10, <1>11, <1>12, <1>13, <1>14, <1>15, <1>16, <1>17, <1>18, <1>19, <1>20, <1>21
     DEF Next, Step, Finished, CommitNext, WorkerNext, MainNext

-----------------------------------------------------------------------------
(* What the tools leave behind.                                            *)

\* What is built stays built, and a task keeps its source.
LEMMA KeepLemma ==
  ASSUME TypeOK, Whereabouts,
         broken \subseteq broken', Entries(linkList) \subseteq Entries(linkList'),
         \A t \in DOMAIN sourceOf : sourceOf'[t] = sourceOf[t]
  PROVE  /\ \A t \in DOMAIN sourceOf : Built(t) => Built(t)'
         /\ \A w \in Workers : pc[w] # "idle" /\ slot'[w] = slot[w] => Source(w)' = Source(w)
<1>1. ASSUME NEW t \in DOMAIN sourceOf, Built(t) PROVE Built(t)'
  BY <1>1 DEF Built
<1>2. ASSUME NEW w \in Workers, pc[w] # "idle", slot'[w] = slot[w] PROVE Source(w)' = Source(w)
  BY <1>2, BusyLemma DEF Source
<1>3. QED
  BY <1>1, <1>2

\* A step of a worker that has a task and keeps it.
LEMMA TurnLemma ==
  ASSUME TypeOK, Whereabouts, Results, NEW w \in Workers, pc[w] # "idle",
         UNCHANGED <<sourceOf, slot, done>>,
         broken \subseteq broken', Entries(linkList) \subseteq Entries(linkList'),
         \A v \in Workers : v # w => pc'[v] = pc[v],
         pc'[w] \in Compiling => pc[w] \in Compiling,
         pc'[w] \in Scripting => pc[w] \in Scripting,
         pc'[w] \in Reporting => pc[w] \in Reporting \/ Built(slot[w])'
  PROVE  Results'
<1>1. \A t \in DOMAIN sourceOf : Built(t) => Built(t)'
  BY KeepLemma
<1>2. \A v \in Workers : Source(v)' = Source(v)
  BY DEF Source
<1>3. \A v \in Workers : pc[v] # "idle" => slot[v] \in DOMAIN sourceOf
  BY BusyLemma
<1>4. \A t \in done : t \in DOMAIN sourceOf
  BY DEF Whereabouts
<1>5. \A v \in Workers : v # w /\ pc'[v] \in Reporting => Built(slot[v])'
  BY <1>1, <1>3 DEF Results, Reporting
<1>6. pc'[w] \in Reporting => Built(slot[w])'
  BY <1>1, <1>3 DEF Results
<1>7. \A t \in done' : Built(t)'
  BY <1>1, <1>4 DEF Results
<1>8. \A v \in Workers : (pc'[v] \in Compiling => pc[v] \in Compiling) /\ (pc'[v] \in Scripting => pc[v] \in Scripting)
  OBVIOUS
<1>9. \A v \in Workers : pc'[v] \in Reporting => Built(slot[v])'
  BY <1>5, <1>6
<1>10. QED
  BY <1>2, <1>7, <1>8, <1>9 DEF Results

LEMMA ResultsStep ==
  ASSUME TypeOK, Whereabouts, Results, [Next]_vars
  PROVE  Results'
<1> USE AgentLemma DEF build, pool, history, TypeOK
<1>1. ASSUME NEW a \in Agents, EnterCommit(a) PROVE Results'
  <2>1. CASE a = Main
    BY <1>1, <2>1, MoveLemma DEF EnterCommit, Results, Source, Built
  <2>2. CASE a \in Workers
    BY <1>1, <2>2, TurnLemma, MoveLemma DEF EnterCommit, Compiling, Scripting, Reporting
  <2>3. QED
    BY <2>1, <2>2 DEF Agents
<1>2. ASSUME NEW a \in Agents, SubmitFirst(a) PROVE Results'
  <2>1. \A t \in DOMAIN sourceOf : sourceOf'[t] = sourceOf[t]
    <3>1. sourceOf \in Seq(Sources) /\ Head(compileList) \in Sources
      BY <1>2, HeadEntries DEF SubmitFirst, DataOK
    <3>2. QED
      BY <1>2, <3>1, AppendEntries DEF SubmitFirst
  <2>2. UNCHANGED <<linkList, broken, slot, done, pc>>
    BY <1>2 DEF SubmitFirst
  <2>3. /\ \A t \in DOMAIN sourceOf : Built(t) => Built(t)'
        /\ \A v \in Workers : pc[v] # "idle" => Source(v)' = Source(v) /\ slot[v] \in DOMAIN sourceOf
    BY <2>1, <2>2, KeepLemma, BusyLemma
  <2>4. \A t \in done : t \in DOMAIN sourceOf
    BY DEF Whereabouts
  <2>5. \A v \in Workers : pc'[v] \in Reporting => Built(slot[v])'
    BY <2>2, <2>3 DEF Results, Reporting
  <2>6. QED
    BY <2>2, <2>3, <2>4, <2>5 DEF Results, Compiling, Scripting
<1>3. ASSUME NEW a \in Agents, LeaveCommit(a) PROVE Results'
  <2>1. CASE a = Main
    BY <1>3, <2>1, MoveLemma DEF LeaveCommit, Results, Source, Built
  <2>2. CASE a \in Workers
    BY <1>3, <2>2, TurnLemma, MoveLemma DEF LeaveCommit, Compiling, Scripting, Reporting
  <2>3. QED
    BY <2>1, <2>2 DEF Agents
<1>4. ASSUME NEW w \in Workers, StartTask(w) PROVE Results'
  <2>1. /\ slot'[w] = Head(queue) /\ \A v \in Workers : v # w => slot'[v] = slot[v]
        /\ UNCHANGED <<sourceOf, linkList, broken, done>>
    BY <1>4 DEF StartTask, DataOK
  <2>2. /\ pc'[w] = Tool(sourceOf[Head(queue)])
        /\ \A v \in Workers : v # w => pc'[v] = pc[v]
    BY <1>4, MoveLemma DEF StartTask
  <2>3. Source(w)' = sourceOf[Head(queue)] /\ \A v \in Workers : v # w => Source(v)' = Source(v)
    BY <2>1 DEF Source
  <2>4. \A v \in Workers : pc'[v] \in Reporting => Built(slot[v])'
    BY <2>1, <2>2 DEF Results, Reporting, Tool, Built
  <2>5. \A v \in Workers : /\ pc'[v] \in Compiling => Source(v)' \notin Scripts
                           /\ pc'[v] \in Scripting => Source(v)' \in Scripts
    BY <2>2, <2>3 DEF Results, Compiling, Scripting, Tool
  <2>6. \A t \in done' : Built(t)'
    BY <2>1 DEF Results, Built
  <2>7. QED
    BY <2>4, <2>5, <2>6 DEF Results
<1>5. ASSUME NEW w \in Workers, Report(w) PROVE Results'
  BY <1>5, TurnLemma, MoveLemma DEF Report, AfterReport, Compiling, Scripting, Reporting
<1>6. ASSUME NEW w \in Workers, EndTask(w) PROVE Results'
  <2>1. /\ \A v \in Workers : v # w => slot'[v] = slot[v] /\ pc'[v] = pc[v]
        /\ pc'[w] = "idle" /\ done' = done \cup {slot[w]}
        /\ UNCHANGED <<sourceOf, linkList, broken>>
    BY <1>6, MoveLemma DEF EndTask, DataOK
  <2>2. Built(slot[w])
    BY <1>6 DEF EndTask, Results, Reporting
  <2>3. \A t \in done' : Built(t)'
    BY <2>1, <2>2 DEF Results, Built
  <2>4. \A v \in Workers : pc'[v] \in Reporting => Built(slot[v])'
    BY <2>1 DEF Results, Reporting, Built
  <2>5. \A v \in Workers : /\ pc'[v] \in Compiling => Source(v)' \notin Scripts
                           /\ pc'[v] \in Scripting => Source(v)' \in Scripts
    BY <2>1 DEF Results, Compiling, Scripting, Source
  <2>6. QED
    BY <2>3, <2>4, <2>5 DEF Results
<1>7. ASSUME NEW w \in Workers, SkipFresh(w) PROVE Results'
  BY <1>7, TurnLemma, MoveLemma DEF SkipFresh, Compiling, Scripting, Reporting
<1>8. ASSUME NEW w \in Workers, BeginGather(w) PROVE Results'
  BY <1>8, TurnLemma, MoveLemma DEF BeginGather, Compiling, Scripting, Reporting
<1>9. ASSUME NEW w \in Workers, EndGather(w) PROVE Results'
  BY <1>9, TurnLemma, MoveLemma DEF EndGather, Compiling, Scripting, Reporting
<1>10. ASSUME NEW w \in Workers, Spawn(w) PROVE Results'
  <2>1. UNCHANGED <<linkList, pool>> /\ pc[w] \in Compiling
    BY <1>10 DEF Spawn, Compiling
  <2>2. CASE Fails(w)
    <3>1. Built(slot[w])'
      BY <2>1, <2>2 DEF Fails, Built
    <3>2. QED
      BY <2>1, <2>2, <3>1, TurnLemma, FailsLemma DEF Fails, Compiling, Scripting
  <2>3. CASE Go(w, "build") /\ UNCHANGED broken
    BY <2>1, <2>3, TurnLemma, MoveLemma DEF Compiling, Scripting, Reporting
  <2>4. QED
    BY <1>10, <2>2, <2>3 DEF Spawn
<1>11. ASSUME NEW w \in Workers, Compile(w) PROVE Results'
  <2>1. UNCHANGED <<linkList, pool>> /\ pc[w] \in Compiling
    BY <1>11 DEF Compile, Compiling
  <2>2. CASE Fails(w)
    <3>1. Built(slot[w])'
      BY <2>1, <2>2 DEF Fails, Built
    <3>2. QED
      BY <2>1, <2>2, <3>1, TurnLemma, FailsLemma DEF Fails, Compiling, Scripting
  <2>3. CASE Go(w, "insert") /\ UNCHANGED broken
    BY <2>1, <2>3, TurnLemma, MoveLemma DEF Compiling, Scripting, Reporting
  <2>4. QED
    BY <1>11, <2>2, <2>3 DEF Compile
<1>12. ASSUME NEW w \in Workers, Insert(w) PROVE Results'
  <2>1. /\ linkList \in Seq(Sources) /\ Source(w) \in Sources
        /\ linkList' = Append(linkList, Source(w)) /\ UNCHANGED <<pool, broken>> /\ pc[w] = "insert"
    BY <1>12, BusyLemma DEF Insert, DataOK
  <2>2. Entries(linkList') = Entries(linkList) \cup {Source(w)}
    BY <2>1, AppendEntries
  <2>3. Built(slot[w])'
    BY <2>1, <2>2 DEF Built, Source
  <2>4. Go(w, "report")
    BY <1>12 DEF Insert
  <2>5. QED
    BY <2>1, <2>2, <2>3, <2>4, TurnLemma, MoveLemma DEF Compiling, Scripting
<1>13. ASSUME NEW w \in Workers, EnterScript(w) PROVE Results'
  BY <1>13, TurnLemma, MoveLemma DEF EnterScript, Compiling, Scripting, Reporting
<1>14. ASSUME NEW w \in Workers, NoScript(w) PROVE Results'
  <2>1. Fails(w) /\ UNCHANGED <<linkList, pool>> /\ pc[w] # "idle"
    BY <1>14 DEF NoScript
  <2>2. Built(slot[w])'
    BY <2>1 DEF Fails, Built
  <2>3. QED
    BY <2>1, <2>2, TurnLemma, FailsLemma DEF Fails, Compiling, Scripting
<1>15. ASSUME NEW w \in Workers, Command(w) PROVE Results'
  BY <1>15, TurnLemma DEF Command, AtCommand
<1>16. ASSUME NEW w \in Workers, CommandFails(w) PROVE Results'
  <2>1. Fails(w) /\ UNCHANGED <<linkList, pool>> /\ pc[w] # "idle"
    BY <1>16 DEF CommandFails, AtCommand
  <2>2. Built(slot[w])'
    BY <2>1 DEF Fails, Built
  <2>3. QED
    BY <2>1, <2>2, TurnLemma, FailsLemma DEF Fails, Compiling, Scripting
<1>17. ASSUME NEW w \in Workers, EndScript(w) PROVE Results'
  <2>1. Source(w) \in Scripts /\ UNCHANGED <<linkList, pool, broken>> /\ pc[w] = "commands"
    BY <1>17 DEF EndScript, Results, Scripting
  <2>2. Built(slot[w])'
    BY <2>1 DEF Built, Source
  <2>3. pc'[w] = "report" /\ \A v \in Workers : v # w => pc'[v] = pc[v]
    BY <1>17, MoveLemma DEF EndScript
  <2>4. QED
    BY <2>1, <2>2, <2>3, TurnLemma DEF Compiling, Scripting
<1>18. ASSUME AwaitPool PROVE Results'
  BY <1>18, MoveLemma DEF AwaitPool, Results, Source, Built
<1>19. ASSUME MakeResources PROVE Results'
  BY <1>19, MoveLemma DEF MakeResources, Results, Source, Built
<1>20. ASSUME Link PROVE Results'
  BY <1>20, MoveLemma DEF Link, Results, Source, Built
<1>21. CASE UNCHANGED vars
  BY <1>21 DEF vars, Results, Source, Built
<1>22. QED
  BY <1>1, <1>2, <1>3, <1>4, <1>5, <1>6, <1>7, <1>8, <1>9, <1>10, <1>11, <1>12, <1>13, <1>14, <1>15, <1>16, <1>17, <1>18, <1>19, <1>20, <1>21
     DEF Next, Step, Finished, CommitNext, WorkerNext, MainNext

LEMMA FailuresStep ==
  ASSUME TypeOK, Failures, [Next]_vars
  PROVE  Failures'
<1> USE AgentLemma DEF build, pool, history, TypeOK
<1>1. ASSUME NEW a \in Agents, EnterCommit(a) PROVE Failures'
  BY <1>1, MoveLemma DEF EnterCommit, Failures
<1>2. ASSUME NEW a \in Agents, SubmitFirst(a) PROVE Failures'
  BY <1>2, MoveLemma DEF SubmitFirst, Failures
<1>3. ASSUME NEW a \in Agents, LeaveCommit(a) PROVE Failures'
  BY <1>3, MoveLemma DEF LeaveCommit, Failures
<1>4. ASSUME NEW w \in Workers, StartTask(w) PROVE Failures'
  <2>1. \A v \in Workers : v # w => local'[v] = local[v]
    BY <1>4 DEF StartTask, LocalsOK
  <2>2. QED
    BY <1>4, <2>1, MoveLemma DEF StartTask, Failures
<1>5. ASSUME NEW w \in Workers, Report(w) PROVE Failures'
  BY <1>5, MoveLemma DEF Report, Alive, Failures
<1>6. ASSUME NEW w \in Workers, EndTask(w) PROVE Failures'
  BY <1>6, MoveLemma DEF EndTask, Failures
<1>7. ASSUME NEW w \in Workers, SkipFresh(w) PROVE Failures'
  BY <1>7, MoveLemma DEF SkipFresh, Failures
<1>8. ASSUME NEW w \in Workers, BeginGather(w) PROVE Failures'
  <2>1. \A v \in Workers : v # w => local'[v] = local[v]
    BY <1>8 DEF BeginGather, LocalsOK
  <2>2. QED
    BY <1>8, <2>1, MoveLemma DEF BeginGather, Failures
<1>9. ASSUME NEW w \in Workers, EndGather(w) PROVE Failures'
  <2>1. \A v \in Workers : v # w => local'[v] = local[v]
    BY <1>9 DEF EndGather, LocalsOK
  <2>2. QED
    BY <1>9, <2>1, MoveLemma DEF EndGather, Failures
<1>10. ASSUME NEW w \in Workers, Spawn(w) PROVE Failures'
  <2>1. CASE Fails(w)
    BY <2>1, FailsLemma DEF Failures
  <2>2. CASE UNCHANGED <<local, broken>> /\ Go(w, "build")
    BY <1>10, <2>2, MoveLemma DEF Spawn, Failures
  <2>3. QED
    BY <1>10, <2>1, <2>2 DEF Spawn
<1>11. ASSUME NEW w \in Workers, Compile(w) PROVE Failures'
  <2>1. CASE Fails(w)
    BY <2>1, FailsLemma DEF Failures
  <2>2. CASE UNCHANGED <<local, broken>> /\ Go(w, "insert")
    BY <1>11, <2>2, MoveLemma DEF Compile, Failures
  <2>3. QED
    BY <1>11, <2>1, <2>2 DEF Compile
<1>12. ASSUME NEW w \in Workers, Insert(w) PROVE Failures'
  BY <1>12, MoveLemma DEF Insert, Failures
<1>13. ASSUME NEW w \in Workers, EnterScript(w) PROVE Failures'
  <2>1. \A v \in Workers : v # w => local'[v] = local[v]
    BY <1>13 DEF EnterScript, LocalsOK
  <2>2. QED
    BY <1>13, <2>1, MoveLemma DEF EnterScript, Failures
<1>14. ASSUME NEW w \in Workers, NoScript(w) PROVE Failures'
  BY <1>14, FailsLemma DEF NoScript, Failures
<1>15. ASSUME NEW w \in Workers, Command(w) PROVE Failures'
  <2>1. \A v \in Workers : v # w => local'[v] = local[v]
    BY <1>15 DEF Command, NextCommand, LocalsOK
  <2>2. QED
    BY <1>15, <2>1 DEF Command, AtCommand, Failures
<1>16. ASSUME NEW w \in Workers, CommandFails(w) PROVE Failures'
  BY <1>16, FailsLemma DEF CommandFails, Failures
<1>17. ASSUME NEW w \in Workers, EndScript(w) PROVE Failures'
  BY <1>17, MoveLemma DEF EndScript, Failures
<1>18. ASSUME AwaitPool PROVE Failures'
  BY <1>18, MoveLemma DEF AwaitPool, Failures
<1>19. ASSUME MakeResources PROVE Failures'
  BY <1>19, MoveLemma DEF MakeResources, Failures
<1>20. ASSUME Link PROVE Failures'
  BY <1>20, MoveLemma DEF Link, Failures
<1>21. CASE UNCHANGED vars
  BY <1>21 DEF vars, Failures
<1>22. QED
  BY <1>1, <1>2, <1>3, <1>4, <1>5, <1>6, <1>7, <1>8, <1>9, <1>10, <1>11, <1>12, <1>13, <1>14, <1>15, <1>16, <1>17, <1>18, <1>19, <1>20, <1>21
     DEF Next, Step, Finished, CommitNext, WorkerNext, MainNext

-----------------------------------------------------------------------------
(* The main thread and the others.                                         *)

\* A worker with a task keeps the main thread waiting, and commits after it.
LEMMA PresentLemma ==
  ASSUME Stages, NEW w \in Workers, pc[w] # "idle", pc'[w] \notin {"idle", "return"},
         pc'[Main] = pc[Main]
  PROVE  Stages'
BY DEF Stages, PastCompiling, Beyond

LEMMA StagesStep ==
  ASSUME TypeOK, Whereabouts, Stages, [Next]_vars
  PROVE  Stages'
<1> USE AgentLemma DEF build, pool, history, TypeOK
<1>1. ASSUME NEW a \in Agents, EnterCommit(a) PROVE Stages'
  <2>1. CASE a = Main
    <3>1. pc[Main] = "commit" /\ pc'[Main] = "committing" /\ UNCHANGED compileList
      BY <1>1, <2>1, MoveLemma DEF EnterCommit
    <3>2. QED
      BY <3>1 DEF Stages, PastCompiling, Beyond
  <2>2. CASE a \in Workers
    BY <1>1, <2>2, MoveLemma, PresentLemma DEF EnterCommit
  <2>3. QED
    BY <2>1, <2>2 DEF Agents
<1>2. ASSUME NEW a \in Agents, SubmitFirst(a) PROVE Stages'
  <2>1. CASE a = Main
    BY <1>2, <2>1 DEF SubmitFirst, Stages, PastCompiling, Beyond
  <2>2. CASE a \in Workers
    BY <1>2, <2>2, PresentLemma DEF SubmitFirst
  <2>3. QED
    BY <2>1, <2>2 DEF Agents
<1>3. ASSUME NEW a \in Agents, LeaveCommit(a) PROVE Stages'
  <2>1. CASE a = Main
    <3>1. pc'[Main] = "wait" /\ compileList' = <<>>
      BY <1>3, <2>1, MoveLemma DEF LeaveCommit
    <3>2. QED
      BY <3>1 DEF Stages, PastCompiling, Beyond
  <2>2. CASE a \in Workers
    <3>1. pc'[Main] = pc[Main] /\ compileList' = <<>> /\ pc[a] # "idle"
      BY <1>3, <2>2, MoveLemma DEF LeaveCommit
    <3>2. QED
      BY <2>2, <3>1 DEF Stages, PastCompiling, Beyond
  <2>3. QED
    BY <2>1, <2>2 DEF Agents
<1>4. ASSUME NEW w \in Workers, StartTask(w) PROVE Stages'
  <2>1. pc'[Main] = pc[Main] /\ pc[Main] \notin Beyond /\ pc'[w] \notin {"idle", "return"}
    BY <1>4, MoveLemma DEF StartTask, Stages, Tool
  <2>2. QED
    BY <2>1 DEF Stages, PastCompiling, Beyond
<1>5. ASSUME NEW w \in Workers, Report(w) PROVE Stages'
  BY <1>5, MoveLemma, PresentLemma DEF Report, AfterReport
<1>6. ASSUME NEW w \in Workers, EndTask(w) PROVE Stages'
  <2>1. /\ pc'[Main] = pc[Main] /\ pc[Main] \notin Beyond /\ compileList' = compileList
        /\ \A v \in Workers : v # w => pc'[v] = pc[v]
    BY <1>6, MoveLemma DEF EndTask, Stages
  <2>2. QED
    BY <1>6, <2>1 DEF EndTask, Stages, PastCompiling, Beyond
<1>7. ASSUME NEW w \in Workers, SkipFresh(w) PROVE Stages'
  BY <1>7, MoveLemma, PresentLemma DEF SkipFresh
<1>8. ASSUME NEW w \in Workers, BeginGather(w) PROVE Stages'
  BY <1>8, MoveLemma, PresentLemma DEF BeginGather
<1>9. ASSUME NEW w \in Workers, EndGather(w) PROVE Stages'
  BY <1>9, MoveLemma, PresentLemma DEF EndGather
<1>10. ASSUME NEW w \in Workers, Spawn(w) PROVE Stages'
  <2>1. pc'[w] \notin {"idle", "return"} /\ pc'[Main] = pc[Main]
    BY <1>10, TryLemma
  <2>2. QED
    BY <1>10, <2>1, PresentLemma DEF Spawn
<1>11. ASSUME NEW w \in Workers, Compile(w) PROVE Stages'
  <2>1. pc'[w] \notin {"idle", "return"} /\ pc'[Main] = pc[Main]
    BY <1>11, TryLemma
  <2>2. QED
    BY <1>11, <2>1, PresentLemma DEF Compile
<1>12. ASSUME NEW w \in Workers, Insert(w) PROVE Stages'
  BY <1>12, MoveLemma, PresentLemma DEF Insert
<1>13. ASSUME NEW w \in Workers, EnterScript(w) PROVE Stages'
  BY <1>13, MoveLemma, PresentLemma DEF EnterScript
<1>14. ASSUME NEW w \in Workers, NoScript(w) PROVE Stages'
  BY <1>14, FailsLemma, PresentLemma DEF NoScript
<1>15. ASSUME NEW w \in Workers, Command(w) PROVE Stages'
  BY <1>15, PresentLemma DEF Command, AtCommand
<1>16. ASSUME NEW w \in Workers, CommandFails(w) PROVE Stages'
  BY <1>16, FailsLemma, PresentLemma DEF CommandFails, AtCommand
<1>17. ASSUME NEW w \in Workers, EndScript(w) PROVE Stages'
  BY <1>17, MoveLemma, PresentLemma DEF EndScript
<1>18. ASSUME AwaitPool PROVE Stages'
  <2>1. \A w \in Workers : pc[w] = "idle" /\ pc'[w] = "idle"
    BY <1>18, MoveLemma DEF AwaitPool, PoolQuiet, Whereabouts
  <2>2. compileList = <<>>
    BY <1>18, <2>1 DEF AwaitPool, Stages
  <2>3. pc'[Main] = IF alive THEN "resources" ELSE "failed"
    BY <1>18, MoveLemma DEF AwaitPool
  <2>4. QED
    BY <1>18, <2>1, <2>2, <2>3 DEF AwaitPool, PoolQuiet, Stages, PastCompiling
<1>19. ASSUME MakeResources PROVE Stages'
  <2>1. pc'[Main] \in Beyond /\ (pc'[Main] # "failed" => PastCompiling) /\ pc[Main] \in Beyond
        /\ \A w \in Workers : pc'[w] = pc[w]
    BY <1>19, MoveLemma DEF MakeResources, Beyond, PastCompiling
  <2>2. QED
    BY <1>19, <2>1 DEF MakeResources, Stages, Beyond, PastCompiling
<1>20. ASSUME Link PROVE Stages'
  <2>1. pc'[Main] \in Beyond /\ (pc'[Main] # "failed" => PastCompiling) /\ pc[Main] \in Beyond
        /\ \A w \in Workers : pc'[w] = pc[w]
    BY <1>20, MoveLemma DEF Link, Beyond, PastCompiling
  <2>2. QED
    BY <1>20, <2>1 DEF Link, Stages, Beyond, PastCompiling
<1>21. CASE UNCHANGED vars
  BY <1>21 DEF vars, Stages, PastCompiling
<1>22. QED
  BY <1>1, <1>2, <1>3, <1>4, <1>5, <1>6, <1>7, <1>8, <1>9, <1>10, <1>11, <1>12, <1>13, <1>14, <1>15, <1>16, <1>17, <1>18, <1>19, <1>20, <1>21
     DEF Next, Step, Finished, CommitNext, WorkerNext, MainNext

-----------------------------------------------------------------------------
(* The working directory.                                                  *)

\* A step that is no script's.
LEMMA AsideLemma ==
  ASSUME Directory, UNCHANGED <<scriptLock, cwd>>, broken \subseteq broken',
         \A v \in Workers : pc'[v] = "commands" <=> pc[v] = "commands",
         \A v \in Workers : pc[v] = "commands" => local'[v].wd = local[v].wd /\ Source(v)' = Source(v)
  PROVE  Directory'
BY DEF Directory

LEMMA DirectoryStep ==
  ASSUME TypeOK, Whereabouts, Results, Directory, [Next]_vars
  PROVE  Directory'
<1> USE AgentLemma DEF build, pool, history, TypeOK
<1>1. ASSUME NEW a \in Agents, EnterCommit(a) PROVE Directory'
  BY <1>1, MoveLemma, AsideLemma DEF EnterCommit, Source
<1>2. ASSUME NEW a \in Agents, SubmitFirst(a) PROVE Directory'
  <2>1. \A t \in DOMAIN sourceOf : sourceOf'[t] = sourceOf[t]
    <3>1. sourceOf \in Seq(Sources) /\ Head(compileList) \in Sources
      BY <1>2, HeadEntries DEF SubmitFirst, DataOK
    <3>2. QED
      BY <1>2, <3>1, AppendEntries DEF SubmitFirst
  <2>2. \A v \in Workers : pc[v] = "commands" => Source(v)' = Source(v)
    BY <1>2, <2>1, BusyLemma DEF SubmitFirst, Source
  <2>3. QED
    BY <1>2, <2>2, AsideLemma DEF SubmitFirst
<1>3. ASSUME NEW a \in Agents, LeaveCommit(a) PROVE Directory'
  BY <1>3, MoveLemma, AsideLemma DEF LeaveCommit, Source
<1>4. ASSUME NEW w \in Workers, StartTask(w) PROVE Directory'
  <2>1. \A v \in Workers : pc'[v] = "commands" <=> pc[v] = "commands"
    BY <1>4, MoveLemma DEF StartTask, Tool
  <2>2. \A v \in Workers : v # w => local'[v] = local[v] /\ slot'[v] = slot[v]
    BY <1>4 DEF StartTask, LocalsOK, DataOK
  <2>3. QED
    BY <1>4, <2>1, <2>2, AsideLemma DEF StartTask, Source
<1>5. ASSUME NEW w \in Workers, Report(w) PROVE Directory'
  BY <1>5, MoveLemma, AsideLemma DEF Report, AfterReport, Source
<1>6. ASSUME NEW w \in Workers, EndTask(w) PROVE Directory'
  <2>1. \A v \in Workers : pc'[v] = "commands" <=> pc[v] = "commands"
    BY <1>6, MoveLemma DEF EndTask
  <2>2. \A v \in Workers : v # w => slot'[v] = slot[v]
    BY <1>6 DEF EndTask, DataOK
  <2>3. QED
    BY <1>6, <2>1, <2>2, AsideLemma DEF EndTask, Source
<1>7. ASSUME NEW w \in Workers, SkipFresh(w) PROVE Directory'
  BY <1>7, MoveLemma, AsideLemma DEF SkipFresh, Source
<1>8. ASSUME NEW w \in Workers, BeginGather(w) PROVE Directory'
  <2>1. \A v \in Workers : pc'[v] = "commands" <=> pc[v] = "commands"
    BY <1>8, MoveLemma DEF BeginGather
  <2>2. \A v \in Workers : v # w => local'[v] = local[v]
    BY <1>8 DEF BeginGather, LocalsOK
  <2>3. QED
    BY <1>8, <2>1, <2>2, AsideLemma DEF BeginGather, Source
<1>9. ASSUME NEW w \in Workers, EndGather(w) PROVE Directory'
  <2>1. \A v \in Workers : pc'[v] = "commands" <=> pc[v] = "commands"
    BY <1>9, MoveLemma DEF EndGather
  <2>2. \A v \in Workers : v # w => local'[v] = local[v]
    BY <1>9 DEF EndGather, LocalsOK
  <2>3. QED
    BY <1>9, <2>1, <2>2, AsideLemma DEF EndGather, Source
<1>10. ASSUME NEW w \in Workers, Spawn(w) PROVE Directory'
  <2>1. UNCHANGED <<scriptLock, cwd, sourceOf, slot>> /\ broken \subseteq broken'
    BY <1>10 DEF Spawn, Fails
  <2>2. QED
    BY <1>10, <2>1, TryLemma, AsideLemma DEF Source
<1>11. ASSUME NEW w \in Workers, Compile(w) PROVE Directory'
  <2>1. UNCHANGED <<scriptLock, cwd, sourceOf, slot>> /\ broken \subseteq broken'
    BY <1>11 DEF Compile, Fails
  <2>2. QED
    BY <1>11, <2>1, TryLemma, AsideLemma DEF Source
<1>12. ASSUME NEW w \in Workers, Insert(w) PROVE Directory'
  BY <1>12, MoveLemma, AsideLemma DEF Insert, Source
<1>13. ASSUME NEW w \in Workers, EnterScript(w) PROVE Directory'
  <2>1. scriptLock = Nil /\ scriptLock' = w /\ cwd' = Source(w)
        /\ UNCHANGED <<broken, sourceOf, slot>>
    BY <1>13 DEF EnterScript, ScriptFree
  <2>2. \A v \in Workers : pc[v] # "commands"
    BY <2>1, SourceAssumption DEF Directory
  <2>3. pc'[w] = "commands" /\ \A v \in Workers : v # w => pc'[v] = pc[v]
    BY <1>13, MoveLemma DEF EnterScript
  <2>4. local'[w].wd = cwd
    BY <1>13 DEF EnterScript, LocalsOK, Locals
  <2>5. broken' = {} => local'[w].wd = Nil
    BY <2>1, <2>4 DEF Directory
  <2>6. Source(w)' = Source(w)
    BY <2>1 DEF Source
  <2>7. w # Nil
    BY SourceAssumption
  <2>8. QED
    BY <2>1, <2>2, <2>3, <2>5, <2>6, <2>7 DEF Directory
<1>14. ASSUME NEW w \in Workers, NoScript(w) PROVE Directory'
  <2>1. UNCHANGED <<scriptLock, cwd, sourceOf, slot>> /\ broken \subseteq broken'
    BY <1>14 DEF NoScript, Fails
  <2>2. QED
    BY <1>14, <2>1, FailsLemma, AsideLemma DEF NoScript, Source
<1>15. ASSUME NEW w \in Workers, Command(w) PROVE Directory'
  <2>1. UNCHANGED <<pc, scriptLock, cwd, sourceOf, slot, broken>>
    BY <1>15 DEF Command
  <2>2. \A v \in Workers : local'[v].wd = local[v].wd
    BY <1>15 DEF Command, NextCommand, LocalsOK, Locals
  <2>3. QED
    BY <2>1, <2>2, AsideLemma DEF Source
<1>16. ASSUME NEW w \in Workers, CommandFails(w) PROVE Directory'
  <2>1. \A v \in Workers : pc'[v] # "commands"
    BY <1>16, FailsLemma DEF CommandFails, AtCommand, Directory
  <2>2. scriptLock' = Nil /\ broken' # {}
    BY <1>16 DEF CommandFails, Fails
  <2>3. QED
    BY <2>1, <2>2, SourceAssumption DEF Directory
<1>17. ASSUME NEW w \in Workers, EndScript(w) PROVE Directory'
  <2>1. \A v \in Workers : pc'[v] # "commands"
    BY <1>17, MoveLemma DEF EndScript, Directory
  <2>2. scriptLock' = Nil /\ (broken' = {} => cwd' = Nil)
    BY <1>17 DEF EndScript, Unlocked, Directory
  <2>3. QED
    BY <2>1, <2>2, SourceAssumption DEF Directory
<1>18. ASSUME AwaitPool PROVE Directory'
  BY <1>18, MoveLemma, AsideLemma DEF AwaitPool, Source
<1>19. ASSUME MakeResources PROVE Directory'
  BY <1>19, MoveLemma, AsideLemma DEF MakeResources, Source
<1>20. ASSUME Link PROVE Directory'
  BY <1>20, MoveLemma, AsideLemma DEF Link, Source
<1>21. CASE UNCHANGED vars
  BY <1>21, AsideLemma DEF vars, Source
<1>22. QED
  BY <1>1, <1>2, <1>3, <1>4, <1>5, <1>6, <1>7, <1>8, <1>9, <1>10, <1>11, <1>12, <1>13, <1>14, <1>15, <1>16, <1>17, <1>18, <1>19, <1>20, <1>21
     DEF Next, Step, Finished, CommitNext, WorkerNext, MainNext

-----------------------------------------------------------------------------
(* The definitions a compiler knows.                                       *)

\* A step in which no compiler begins and no definition is made.
LEMMA AwareLemma ==
  ASSUME Known, UNCHANGED <<asked, defines>>,
         \A v \in Workers : pc'[v] \in Gathered =>
           pc[v] \in Gathered /\ Source(v)' = Source(v) /\ local'[v].seen = local[v].seen /\ local'[v].whole = local[v].whole
  PROVE  Known'
BY DEF Known

LEMMA KnownStep ==
  ASSUME TypeOK, Whereabouts, Results, Known, [Next]_vars
  PROVE  Known'
<1> USE AgentLemma DEF build, pool, history, TypeOK
<1>1. ASSUME NEW a \in Agents, EnterCommit(a) PROVE Known'
  BY <1>1, MoveLemma, AwareLemma DEF EnterCommit, Source, Gathered
<1>2. ASSUME NEW a \in Agents, SubmitFirst(a) PROVE Known'
  <2>1. \A t \in DOMAIN sourceOf : sourceOf'[t] = sourceOf[t]
    <3>1. sourceOf \in Seq(Sources) /\ Head(compileList) \in Sources
      BY <1>2, HeadEntries DEF SubmitFirst, DataOK
    <3>2. QED
      BY <1>2, <3>1, AppendEntries DEF SubmitFirst
  <2>2. \A v \in Workers : pc[v] \in Gathered => Source(v)' = Source(v)
    BY <1>2, <2>1, BusyLemma DEF SubmitFirst, Source, Gathered
  <2>3. QED
    BY <1>2, <2>2, AwareLemma DEF SubmitFirst
<1>3. ASSUME NEW a \in Agents, LeaveCommit(a) PROVE Known'
  BY <1>3, MoveLemma, AwareLemma DEF LeaveCommit, Source, Gathered
<1>4. ASSUME NEW w \in Workers, StartTask(w) PROVE Known'
  <2>1. \A v \in Workers : v # w => local'[v] = local[v] /\ slot'[v] = slot[v]
    BY <1>4 DEF StartTask, LocalsOK, DataOK
  <2>2. pc'[w] \notin Gathered /\ \A v \in Workers : v # w => pc'[v] = pc[v]
    BY <1>4, MoveLemma DEF StartTask, Tool, Gathered
  <2>3. QED
    BY <1>4, <2>1, <2>2, AwareLemma DEF StartTask, Source
<1>5. ASSUME NEW w \in Workers, Report(w) PROVE Known'
  BY <1>5, MoveLemma, AwareLemma DEF Report, AfterReport, Source, Gathered
<1>6. ASSUME NEW w \in Workers, EndTask(w) PROVE Known'
  <2>1. \A v \in Workers : v # w => slot'[v] = slot[v]
    BY <1>6 DEF EndTask, DataOK
  <2>2. pc'[w] \notin Gathered /\ \A v \in Workers : v # w => pc'[v] = pc[v]
    BY <1>6, MoveLemma DEF EndTask, Gathered
  <2>3. QED
    BY <1>6, <2>1, <2>2, AwareLemma DEF EndTask, Source
<1>7. ASSUME NEW w \in Workers, SkipFresh(w) PROVE Known'
  BY <1>7, MoveLemma, AwareLemma DEF SkipFresh, Source, Gathered
<1>8. ASSUME NEW w \in Workers, BeginGather(w) PROVE Known'
  <2>1. \A v \in Workers : v # w => local'[v] = local[v]
    BY <1>8, StartLemma DEF BeginGather, DataOK
  <2>2. pc'[w] = "gather" /\ \A v \in Workers : v # w => pc'[v] = pc[v]
    BY <1>8, MoveLemma DEF BeginGather
  <2>3. QED
    BY <1>8, <2>1, <2>2, AwareLemma DEF BeginGather, Source, Gathered
<1>9. ASSUME NEW w \in Workers, EndGather(w) PROVE Known'
  <2>1. PICK S \in SUBSET Defines, b \in BOOLEAN :
          /\ b => S = defines
          /\ local' = [local EXCEPT ![w].start = {}, ![w].seen = S, ![w].whole = b]
    BY <1>9 DEF EndGather, Seen, DataOK
  <2>2. /\ local'[w].whole => local'[w].seen = defines
        /\ \A v \in Workers : v # w => local'[v] = local[v]
    BY <2>1, SeenLemma
  <2>3. \A v \in Workers : v # w => pc'[v] = pc[v]
    BY <1>9, MoveLemma DEF EndGather
  <2>4. UNCHANGED <<asked, defines, sourceOf, slot>>
    BY <1>9 DEF EndGather
  <2>5. slot[w] \in DOMAIN sourceOf
    BY <1>9, BusyLemma DEF EndGather
  <2>6. PICK e \in asked : e.source = Source(w)
    BY <2>5 DEF Whereabouts, Asked, Entries, Source
  <2>7. e.defines \subseteq defines
    BY DEF Known
  <2>8. QED
    BY <2>2, <2>3, <2>4, <2>6, <2>7 DEF Known, Source
<1>10. ASSUME NEW w \in Workers, Spawn(w) PROVE Known'
  <2>1. UNCHANGED <<asked, defines, sourceOf, slot>>
    BY <1>10 DEF Spawn
  <2>2. \A v \in Workers : pc'[v] \in Gathered =>
          pc[v] \in Gathered /\ local'[v].seen = local[v].seen /\ local'[v].whole = local[v].whole
    BY <1>10, TryLemma DEF Gathered
  <2>3. QED
    BY <2>1, <2>2, AwareLemma DEF Source
<1>11. ASSUME NEW w \in Workers, Compile(w) PROVE Known'
  <2>1. UNCHANGED <<asked, defines, sourceOf, slot>>
    BY <1>11 DEF Compile
  <2>2. \A v \in Workers : pc'[v] \in Gathered =>
          pc[v] \in Gathered /\ local'[v].seen = local[v].seen /\ local'[v].whole = local[v].whole
    BY <1>11, TryLemma DEF Gathered
  <2>3. QED
    BY <2>1, <2>2, AwareLemma DEF Source
<1>12. ASSUME NEW w \in Workers, Insert(w) PROVE Known'
  BY <1>12, MoveLemma, AwareLemma DEF Insert, Source, Gathered
<1>13. ASSUME NEW w \in Workers, EnterScript(w) PROVE Known'
  <2>1. \A v \in Workers : v # w => local'[v] = local[v]
    BY <1>13 DEF EnterScript, LocalsOK
  <2>2. pc'[w] = "commands" /\ \A v \in Workers : v # w => pc'[v] = pc[v]
    BY <1>13, MoveLemma DEF EnterScript
  <2>3. QED
    BY <1>13, <2>1, <2>2, AwareLemma DEF EnterScript, Source, Gathered
<1>14. ASSUME NEW w \in Workers, NoScript(w) PROVE Known'
  <2>1. UNCHANGED <<asked, defines, sourceOf, slot>>
    BY <1>14 DEF NoScript
  <2>2. \A v \in Workers : pc'[v] \in Gathered =>
          pc[v] \in Gathered /\ local'[v].seen = local[v].seen /\ local'[v].whole = local[v].whole
    BY <1>14, FailsLemma DEF NoScript, Gathered
  <2>3. QED
    BY <2>1, <2>2, AwareLemma DEF Source
<1>15. ASSUME NEW w \in Workers, Command(w) PROVE Known'
  <2> DEFINE c == Program[Source(w)][local[w].line]
  <2>1. /\ \A v \in Workers : v # w => local'[v] = local[v]
        /\ pc[w] \notin Gathered /\ UNCHANGED <<pc, sourceOf, slot>>
    BY <1>15 DEF Command, AtCommand, NextCommand, LocalsOK, Gathered
  <2>2. asked \subseteq asked' /\ \A e \in asked' : e.defines \subseteq defines'
    <3>1. CASE c.do = "compile" /\ AddSource(c.what) /\ UNCHANGED defines
      BY <3>1 DEF AddSource, Ask, Known
    <3>2. CASE c.do = "define" /\ defines' = defines \cup {c.what} /\ UNCHANGED asked
      BY <3>2 DEF Known
    <3>3. CASE c.do = "run" /\ UNCHANGED <<asked, defines>>
      BY <3>3 DEF Known
    <3>4. QED
      BY <1>15, <3>1, <3>2, <3>3 DEF Command
  <2>3. \A v \in Workers : pc'[v] \in Gathered => pc[v] \in Gathered /\ local'[v] = local[v]
    BY <2>1
  <2>4. QED
    BY <2>1, <2>2, <2>3 DEF Known, Source
<1>16. ASSUME NEW w \in Workers, CommandFails(w) PROVE Known'
  <2>1. UNCHANGED <<asked, defines, sourceOf, slot>>
    BY <1>16 DEF CommandFails
  <2>2. \A v \in Workers : pc'[v] \in Gathered =>
          pc[v] \in Gathered /\ local'[v].seen = local[v].seen /\ local'[v].whole = local[v].whole
    BY <1>16, FailsLemma DEF CommandFails, Gathered
  <2>3. QED
    BY <2>1, <2>2, AwareLemma DEF Source
<1>17. ASSUME NEW w \in Workers, EndScript(w) PROVE Known'
  BY <1>17, MoveLemma, AwareLemma DEF EndScript, Source, Gathered
<1>18. ASSUME AwaitPool PROVE Known'
  BY <1>18, MoveLemma, AwareLemma DEF AwaitPool, Source, Gathered
<1>19. ASSUME MakeResources PROVE Known'
  BY <1>19, MoveLemma, AwareLemma DEF MakeResources, Source, Gathered
<1>20. ASSUME Link PROVE Known'
  BY <1>20, MoveLemma, AwareLemma DEF Link, Source, Gathered
<1>21. CASE UNCHANGED vars
  BY <1>21, AwareLemma DEF vars, Source
<1>22. QED
  BY <1>1, <1>2, <1>3, <1>4, <1>5, <1>6, <1>7, <1>8, <1>9, <1>10, <1>11, <1>12, <1>13, <1>14, <1>15, <1>16, <1>17, <1>18, <1>19, <1>20, <1>21
     DEF Next, Step, Finished, CommitNext, WorkerNext, MainNext

-----------------------------------------------------------------------------
(* The theorems.                                                           *)

LEMMA InitInv == Init => IInv
<1> SUFFICES ASSUME Init PROVE IInv
  OBVIOUS
<1> USE AgentLemma, SourceAssumption DEF Init
<1>1. \A w \in Workers : pc[w] = "idle" /\ slot[w] = Nil
  OBVIOUS
<1>2. pc[Main] = "commit"
  OBVIOUS
<1>3. PlacesOK
  BY <1>1, <1>2 DEF PlacesOK, Places, Ahead
<1>4. LocalsOK
  <2>1. NoLocals \in Locals
    BY DEF NoLocals, Locals
  <2>2. QED
    BY <1>1, <2>1 DEF LocalsOK
<1>5. DataOK
  <2>1. Entries(Project) \subseteq Sources
    BY DEF Entries
  <2>2. asked \in SUBSET Requests
    BY <2>1 DEF Requests
  <2>3. QED
    BY <2>2 DEF DataOK
<1>6. Whereabouts
  <2>1. Asked = Entries(Project)
    <3>1. ASSUME NEW s \in Entries(Project) PROVE s \in Asked
      <4>1. [source |-> s, defines |-> {}] \in asked /\ [source |-> s, defines |-> {}].source = s
        OBVIOUS
      <4>2. QED
        BY <4>1 DEF Asked
    <3>2. ASSUME NEW e \in asked PROVE e.source \in Entries(Project)
      OBVIOUS
    <3>3. QED
      BY <3>1, <3>2 DEF Asked
  <2>2. Entries(queue) = {} /\ Entries(sourceOf) = {} /\ DOMAIN sourceOf = {}
    BY DEF Entries
  <2>3. Running = {} /\ done = {}
    BY <1>1 DEF Running
  <2>4. QED
    BY <1>1, <2>1, <2>2, <2>3 DEF Whereabouts
<1>7. Results /\ Failures
  BY <1>1 DEF Results, Failures, Compiling, Scripting, Reporting
<1>8. Stages
  BY <1>2 DEF Stages, PastCompiling, Beyond
<1>9. Directory
  BY <1>1 DEF Directory
<1>10. Known
  BY <1>1 DEF Known, Gathered
<1>11. QED
  BY <1>3, <1>4, <1>5, <1>6, <1>7, <1>8, <1>9, <1>10 DEF IInv, TypeOK

LEMMA StepInv == IInv /\ [Next]_vars => IInv'
BY TypeStep, WhereaboutsStep, ResultsStep, FailuresStep, StagesStep, DirectoryStep, KnownStep DEF IInv

\* The inductive invariant holds in every reachable state of a build.
THEOREM Invariant == Spec => []IInv
BY InitInv, StepInv, PTL DEF Spec

\* Every variable of a build keeps its type.
THEOREM TypeCorrect == Spec => []TypeOK
BY Invariant, PTL DEF IInv

\* Past the compile phase every task has returned, and none of them failed.
LEMMA QuietLemma ==
  ASSUME IInv, PastCompiling
  PROVE  broken = {} /\ compileList = <<>> /\ done = DOMAIN sourceOf
<1>1. queue = <<>> /\ alive /\ \A w \in Workers : pc[w] = "idle" /\ slot[w] = Nil
  BY DEF IInv, Stages, Whereabouts, PastCompiling, Beyond
<1>2. broken = {}
  BY <1>1 DEF IInv, Failures
<1>3. compileList = <<>>
  BY <1>1 DEF IInv, Stages, PastCompiling
<1>4. Running = {} /\ Entries(queue) = {}
  BY <1>1 DEF Running, Entries
<1>5. QED
  BY <1>2, <1>3, <1>4 DEF IInv, Whereabouts

\* construct goes on to the resources only when the object of every source of
\* the project, and of every source a script has added, is in the link list.
THEOREM ForgottenCorrect == Spec => []NothingForgotten
<1>1. IInv => NothingForgotten
  <2> SUFFICES ASSUME IInv, PastCompiling
               PROVE  broken = {} /\ compileList = <<>> /\ Asked \ Scripts \subseteq Entries(linkList)
    BY DEF NothingForgotten
  <2>1. broken = {} /\ compileList = <<>> /\ done = DOMAIN sourceOf
    BY QuietLemma
  <2>2. Asked = Entries(sourceOf)
    BY <2>1 DEF IInv, Whereabouts, Entries
  <2>3. \A t \in DOMAIN sourceOf : sourceOf[t] \in Scripts \cup Entries(linkList)
    BY <2>1 DEF IInv, Results, Built
  <2>4. QED
    BY <2>1, <2>2, <2>3 DEF Entries
<1>2. QED
  BY <1>1, Invariant, PTL

\* A script runs in its own directory, whatever the other threads do, and a
\* build that goes on to the resources is back where it was started.
THEOREM DirectoryCorrect == Spec => []OwnDirectory
<1>1. IInv => OwnDirectory
  <2> SUFFICES ASSUME IInv PROVE OwnDirectory
    OBVIOUS
  <2>1. PastCompiling => cwd = Nil
    <3> SUFFICES ASSUME PastCompiling PROVE cwd = Nil
      OBVIOUS
    <3>1. \A w \in Workers : scriptLock # w
      BY DEF IInv, Stages, PastCompiling, Beyond, Directory
    <3>2. scriptLock = Nil
      BY <3>1 DEF IInv, TypeOK, DataOK
    <3>3. QED
      BY <3>2, QuietLemma DEF IInv, Directory
  <2>2. QED
    BY <2>1 DEF IInv, Directory, OwnDirectory
<1>2. QED
  BY <1>1, Invariant, PTL

\* The compiler is given every definition made before its source was added,
\* unless one is inserted just while it reads them.
THEOREM DefinesCorrect == Spec => []DefinesReach
<1>1. IInv => DefinesReach
  BY DEF IInv, Known, Gathered, DefinesReach
<1>2. QED
  BY <1>1, Invariant, PTL

-----------------------------------------------------------------------------
(* The pool.                                                               *)

Closed == pc[Main] \in {"ok", "failed"}

\* What leaves the tasks alone changes nothing in the executor.
LEMMA StutterLemma ==
  ASSUME UNCHANGED <<queue, slot, done>>, Closed' <=> Closed
  PROVE  UNCHANGED Executor!vars
<1>1. (pc[Main] \in {"ok", "failed"})' = (pc[Main] \in {"ok", "failed"})
  BY DEF Closed
<1>2. QED
  BY <1>1 DEF Executor!vars

\* What the main thread closes holds no task.
LEMMA CloseLemma ==
  ASSUME UNCHANGED <<queue, slot, done>>, ~Closed, Closed',
         queue = <<>>, \A w \in Workers : slot[w] = Nil
  PROVE  Executor!Close
<1>1. (pc[Main] \in {"ok", "failed"})' = TRUE /\ ~(pc[Main] \in {"ok", "failed"})
  BY DEF Closed
<1>2. Executor!Running = {}
  BY DEF Executor!Running
<1>3. QED
  BY <1>1, <1>2 DEF Executor!Close

\* A thread that commits keeps the executor open, and the task it submits is new.
LEMMA AcceptLemma ==
  ASSUME IInv, NEW a \in Agents, SubmitFirst(a)
  PROVE  Executor!Accept
<1> DEFINE n == Len(sourceOf) + 1
<1>1. sourceOf \in Seq(Sources) /\ queue \in Seq(Nat) /\ n \in Nat /\ n \notin DOMAIN sourceOf
  BY DEF IInv, TypeOK, DataOK
<1>2. UNCHANGED <<slot, done, pc>> /\ queue' = Append(queue, n) /\ pc[a] = "committing"
  BY DEF SubmitFirst
<1>3. ~(pc[Main] \in {"ok", "failed"})
  BY <1>2, AgentLemma DEF IInv, Stages, Beyond, Agents
<1>4. n \notin Executor!Known
  BY <1>1 DEF IInv, Whereabouts, Executor!Known, Executor!Running, Executor!Entries, Running, Entries
<1> HIDE DEF n
<1>5. /\ Len(queue') = Len(queue) + 1 /\ Len(queue) \in Nat /\ queue' \in Seq(Nat)
      /\ \A i \in 1..Len(queue) : queue'[i] = queue[i]
      /\ queue'[Len(queue) + 1] = n
  BY <1>1, <1>2
<1>6. SubSeq(queue', 1, Len(queue)) = queue
  BY <1>1, <1>5
<1> DEFINE new == SubSeq(queue', Len(queue) + 1, Len(queue'))
<1>7. Len(new) = 1 /\ new \in Seq(Nat) /\ new[1] = n /\ DOMAIN new = 1..1
  BY <1>1, <1>5
<1> HIDE DEF new
<1>8. DOMAIN new = {1}
  BY <1>7
<1>9. Executor!Entries(new) = {n}
  BY <1>7, <1>8 DEF Executor!Entries
<1>10. Executor!Entries(new) \subseteq Nat \ Executor!Known /\ \A i, j \in DOMAIN new : new[i] = new[j] => i = j
  BY <1>1, <1>4, <1>8, <1>9
<1>11. QED
  BY <1>2, <1>3, <1>5, <1>6, <1>10 DEF Executor!Accept, new

LEMMA PoolStep ==
  ASSUME IInv, [Next]_vars
  PROVE  [Executor!Next]_(Executor!vars)
<1> USE AgentLemma DEF build, pool, history, IInv, TypeOK
<1>1. ASSUME NEW a \in Agents, EnterCommit(a) PROVE [Executor!Next]_(Executor!vars)
  <2>1. ~Closed /\ ~Closed'
    BY <1>1, MoveLemma, AgentLemma DEF EnterCommit, IInv, Stages, Beyond, Closed, Agents
  <2>2. QED
    BY <1>1, <2>1, StutterLemma DEF EnterCommit
<1>2. ASSUME NEW a \in Agents, SubmitFirst(a) PROVE [Executor!Next]_(Executor!vars)
  BY <1>2, AcceptLemma DEF Executor!Next
<1>3. ASSUME NEW a \in Agents, LeaveCommit(a) PROVE [Executor!Next]_(Executor!vars)
  <2>1. ~Closed /\ ~Closed'
    BY <1>3, MoveLemma, AgentLemma DEF LeaveCommit, IInv, Stages, Beyond, Closed, Agents
  <2>2. QED
    BY <1>3, <2>1, StutterLemma DEF LeaveCommit
<1>4. ASSUME NEW w \in Workers, StartTask(w) PROVE [Executor!Next]_(Executor!vars)
  <2>1. (pc[Main] \in {"ok", "failed"})' = (pc[Main] \in {"ok", "failed"})
    BY <1>4, MoveLemma DEF StartTask
  <2>2. slot[w] = Nil
    BY <1>4 DEF StartTask, Whereabouts
  <2>3. Executor!Start(w)
    BY <1>4, <2>1, <2>2 DEF StartTask, Executor!Start
  <2>4. QED
    BY <2>3 DEF Executor!Next
<1>5. ASSUME NEW w \in Workers, Report(w) PROVE [Executor!Next]_(Executor!vars)
  BY <1>5, MoveLemma, StutterLemma DEF Report, AfterReport, Closed
<1>6. ASSUME NEW w \in Workers, EndTask(w) PROVE [Executor!Next]_(Executor!vars)
  <2>1. (pc[Main] \in {"ok", "failed"})' = (pc[Main] \in {"ok", "failed"})
    BY <1>6, MoveLemma DEF EndTask
  <2>2. slot[w] # Nil
    BY <1>6 DEF EndTask, Whereabouts
  <2>3. Executor!Finish(w)
    BY <1>6, <2>1, <2>2 DEF EndTask, Executor!Finish
  <2>4. QED
    BY <2>3 DEF Executor!Next
<1>7. ASSUME NEW w \in Workers, SkipFresh(w) PROVE [Executor!Next]_(Executor!vars)
  BY <1>7, MoveLemma, StutterLemma DEF SkipFresh, Closed
<1>8. ASSUME NEW w \in Workers, BeginGather(w) PROVE [Executor!Next]_(Executor!vars)
  BY <1>8, MoveLemma, StutterLemma DEF BeginGather, Closed
<1>9. ASSUME NEW w \in Workers, EndGather(w) PROVE [Executor!Next]_(Executor!vars)
  BY <1>9, MoveLemma, StutterLemma DEF EndGather, Closed
<1>10. ASSUME NEW w \in Workers, Spawn(w) PROVE [Executor!Next]_(Executor!vars)
  <2>1. Closed' <=> Closed
    BY <1>10, TryLemma DEF Closed
  <2>2. QED
    BY <1>10, <2>1, StutterLemma DEF Spawn
<1>11. ASSUME NEW w \in Workers, Compile(w) PROVE [Executor!Next]_(Executor!vars)
  <2>1. Closed' <=> Closed
    BY <1>11, TryLemma DEF Closed
  <2>2. QED
    BY <1>11, <2>1, StutterLemma DEF Compile
<1>12. ASSUME NEW w \in Workers, Insert(w) PROVE [Executor!Next]_(Executor!vars)
  BY <1>12, MoveLemma, StutterLemma DEF Insert, Closed
<1>13. ASSUME NEW w \in Workers, EnterScript(w) PROVE [Executor!Next]_(Executor!vars)
  BY <1>13, MoveLemma, StutterLemma DEF EnterScript, Closed
<1>14. ASSUME NEW w \in Workers, NoScript(w) PROVE [Executor!Next]_(Executor!vars)
  <2>1. Closed' <=> Closed
    BY <1>14, FailsLemma DEF NoScript, Closed
  <2>2. QED
    BY <1>14, <2>1, StutterLemma DEF NoScript
<1>15. ASSUME NEW w \in Workers, Command(w) PROVE [Executor!Next]_(Executor!vars)
  BY <1>15, StutterLemma DEF Command, Closed
<1>16. ASSUME NEW w \in Workers, CommandFails(w) PROVE [Executor!Next]_(Executor!vars)
  <2>1. Closed' <=> Closed
    BY <1>16, FailsLemma DEF CommandFails, Closed
  <2>2. QED
    BY <1>16, <2>1, StutterLemma DEF CommandFails
<1>17. ASSUME NEW w \in Workers, EndScript(w) PROVE [Executor!Next]_(Executor!vars)
  BY <1>17, MoveLemma, StutterLemma DEF EndScript, Closed
<1>18. ASSUME AwaitPool PROVE [Executor!Next]_(Executor!vars)
  <2>1. ~Closed /\ UNCHANGED <<queue, slot, done>> /\ queue = <<>> /\ \A w \in Workers : slot[w] = Nil
    BY <1>18 DEF AwaitPool, Closed, IInv, Stages, Whereabouts, Beyond, PoolQuiet
  <2>2. Closed' \/ (Closed' <=> Closed)
    BY <2>1
  <2>3. QED
    BY <2>1, <2>2, CloseLemma, StutterLemma DEF Executor!Next
<1>19. ASSUME MakeResources PROVE [Executor!Next]_(Executor!vars)
  <2>1. ~Closed /\ UNCHANGED <<queue, slot, done>> /\ queue = <<>> /\ \A w \in Workers : slot[w] = Nil
    BY <1>19 DEF MakeResources, Closed, IInv, Stages, Whereabouts, Beyond, PoolQuiet
  <2>2. Closed' \/ (Closed' <=> Closed)
    BY <2>1
  <2>3. QED
    BY <2>1, <2>2, CloseLemma, StutterLemma DEF Executor!Next
<1>20. ASSUME Link PROVE [Executor!Next]_(Executor!vars)
  <2>1. ~Closed /\ UNCHANGED <<queue, slot, done>> /\ queue = <<>> /\ \A w \in Workers : slot[w] = Nil
    BY <1>20 DEF Link, Closed, IInv, Stages, Whereabouts, Beyond, PoolQuiet
  <2>2. Closed' \/ (Closed' <=> Closed)
    BY <2>1
  <2>3. QED
    BY <2>1, <2>2, CloseLemma, StutterLemma DEF Executor!Next
<1>21. CASE UNCHANGED vars
  BY <1>21, StutterLemma DEF vars, Closed
<1>22. QED
  BY <1>1, <1>2, <1>3, <1>4, <1>5, <1>6, <1>7, <1>8, <1>9, <1>10, <1>11, <1>12, <1>13, <1>14, <1>15, <1>16, <1>17, <1>18, <1>19, <1>20, <1>21
     DEF Next, Step, Finished, CommitNext, WorkerNext, MainNext

\* The build uses the pool as an executor may be used: each task is submitted
\* once, from the main thread or from a task, and none after the pool has gone.
THEOREM PoolUsed == Spec => UsesPool
<1>1. ASSUME Init PROVE Executor!Init
  <2>1. (pc[Main] \in {"ok", "failed"}) = FALSE
    BY <1>1, AgentLemma DEF Init
  <2>2. QED
    BY <1>1, <2>1 DEF Init, Executor!Init
<1>2. IInv /\ [Next]_vars => [Executor!Next]_(Executor!vars)
  BY PoolStep
<1>3. QED
  BY <1>1, <1>2, Invariant, PTL DEF Spec, UsesPool, Executor!Safety

=============================================================================
