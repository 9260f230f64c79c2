---------------------------- MODULE ConstructRun ----------------------------
(***************************************************************************)
(* construct (constructor/kernel.cxx): one run of the build on a thread    *)
(* pool.  The main thread submits a task per source, every task runs the   *)
(* tool for its source and then submits what a script has added meanwhile; *)
(* when the pool is quiescent the resources are made and the program is    *)
(* linked.  The tools are the compiler (esse_cc.cxx) and the interpreter   *)
(* of scripts (esse_scaenaria.cxx), whose commands change the state of the *)
(* build and the working directory of the process.                         *)
(*                                                                         *)
(* The pool, Engine::ThreadPool, is used through what TaskExecutor         *)
(* promises and LegacyPool implements.  `lock` is the semaphore construct  *)
(* makes; short critical sections are one step that needs it free.  A      *)
(* source without a tool fails as one whose compiler does not start.       *)
(* idle_mode, where no tool does anything, is left out.                    *)
(***************************************************************************)
EXTENDS Integers, Sequences, FiniteSets

CONSTANTS Workers,   \* threads of the pool
          Main,      \* the thread that runs construct
          Sources,   \* source files, scripts among them
          Scripts,   \* those with the extension ertbs
          Program,   \* Program[s]: the commands the interpreter executes
          Defines,   \* preprocessor definitions
          Project,   \* compile_list at the start
          Fresh,     \* sources whose object is newer than they are
          Nil        \* no task, nobody, the directory the build started in

Agents == Workers \cup {Main}
Commands == [do : {"compile"}, what : Sources]
       \cup [do : {"define"}, what : Defines]
       \cup {[do |-> "run"]}   \* anything that leaves the build state alone

ASSUME AgentAssumption == Main \notin Workers
ASSUME SourceAssumption ==
  /\ Scripts \subseteq Sources /\ Fresh \subseteq Sources \ Scripts
  /\ Program \in [Scripts -> Seq(Commands)]
  /\ Project \in Seq(Sources)
  /\ Nil \notin Agents \cup Sources \cup Nat

VARIABLES compileList,   \* state.compile_list
          linkList,      \* state.link_list, by the source of the object
          defines,       \* state.defines_list
          alive,         \* *cstat
          cwd,           \* working directory of the process: of a script, or Nil
          lock,          \* who is in the critical section of the build state
          scriptLock,    \* who holds script_compiler::sync
          sourceOf,      \* sourceOf[t]: what task t, the t-th submitted, builds
          queue, slot,   \* the pool: queued tasks, the task of each worker
          pc,            \* where each thread stands
          local,         \* locals of the tool a worker runs
          done,          \* history: tasks that have returned
          asked,         \* history: entries made to compile_list
          broken         \* history: tasks whose tool failed

build == <<compileList, linkList, defines, alive>>
pool == <<sourceOf, queue, slot, done>>
history == <<asked, broken>>
vars == <<build, cwd, lock, scriptLock, pool, pc, local, history>>

Entries(s) == {s[i] : i \in DOMAIN s}
Go(a, place) == pc' = [pc EXCEPT ![a] = place]
Source(w) == sourceOf[slot[w]]
NoLocals == [line |-> 0, wd |-> Nil, start |-> {}, seen |-> {}, whole |-> TRUE, ok |-> TRUE]

\* An entry of compile_list, with the definitions in force when it was made.
Ask(s) == [source |-> s, defines |-> defines]

Init == /\ compileList = Project
        /\ linkList = <<>> /\ defines = {} /\ alive = TRUE
        /\ cwd = Nil /\ lock = Nil /\ scriptLock = Nil
        /\ sourceOf = <<>> /\ queue = <<>>
        /\ slot = [w \in Workers |-> Nil]
        /\ pc = [a \in Agents |-> IF a = Main THEN "commit" ELSE "idle"]
        /\ local = [w \in Workers |-> NoLocals]
        /\ done = {} /\ broken = {}
        /\ asked = {[source |-> s, defines |-> {}] : s \in Entries(Project)}

-----------------------------------------------------------------------------
(* commit_compile_tasks, by the main thread and at the end of every task.  *)

EnterCommit(a) == /\ pc[a] = "commit"
                  /\ lock = Nil
                  /\ lock' = a
                  /\ Go(a, "committing")
                  /\ UNCHANGED <<build, cwd, scriptLock, pool, local, history>>

SubmitFirst(a) ==
  /\ pc[a] = "committing"
  /\ compileList # <<>>
  /\ compileList' = Tail(compileList)
  /\ sourceOf' = Append(sourceOf, Head(compileList))
  /\ queue' = Append(queue, Len(sourceOf) + 1)
  /\ UNCHANGED <<linkList, defines, alive, cwd, lock, scriptLock, slot, done, pc, local, history>>

LeaveCommit(a) ==
  /\ pc[a] = "committing"
  /\ compileList = <<>>
  /\ lock' = Nil
  /\ Go(a, IF a = Main THEN "wait" ELSE "return")
  /\ UNCHANGED <<build, cwd, scriptLock, pool, local, history>>

-----------------------------------------------------------------------------
(* The pool, and the task of a source.                                     *)

Tool(s) == IF s \in Scripts THEN "script" ELSE "compiler"

StartTask(w) ==
  /\ pc[w] = "idle"
  /\ queue # <<>>
  /\ slot' = [slot EXCEPT ![w] = Head(queue)]
  /\ queue' = Tail(queue)
  /\ local' = [local EXCEPT ![w] = NoLocals]
  /\ Go(w, Tool(sourceOf[Head(queue)]))
  /\ UNCHANGED <<build, cwd, lock, scriptLock, sourceOf, done, history>>

\* The tool reports failure.
Fails(w) == /\ local' = [local EXCEPT ![w].ok = FALSE]
            /\ broken' = broken \cup {slot[w]}
            /\ Go(w, "report")

Alive(w) == alive /\ local[w].ok

AfterReport_Returns == "return"   \* mutant: the task does not commit
AfterReport == "commit"

Report(w) ==
  /\ pc[w] = "report"
  /\ alive' = Alive(w)
  /\ Go(w, AfterReport)
  /\ UNCHANGED <<compileList, linkList, defines, cwd, lock, scriptLock, pool, local, history>>

EndTask(w) ==
  /\ pc[w] = "return"
  /\ slot' = [slot EXCEPT ![w] = Nil]
  /\ done' = done \cup {slot[w]}
  /\ Go(w, "idle")
  /\ UNCHANGED <<build, cwd, lock, scriptLock, sourceOf, queue, local, history>>

-----------------------------------------------------------------------------
(* ccxx_compiler::process_file.                                            *)

Seen_Once == {}   \* mutant: the definitions the run began with
Seen == defines   \* what a loop that nobody disturbs meets

SkipFresh(w) == /\ pc[w] = "compiler"
                /\ Source(w) \in Fresh
                /\ Go(w, "insert")
                /\ UNCHANGED <<build, cwd, lock, scriptLock, pool, local, history>>

\* The loop over defines_list runs without the lock.
BeginGather(w) == /\ pc[w] = "compiler"
                  /\ Source(w) \notin Fresh
                  /\ local' = [local EXCEPT ![w].start = defines]
                  /\ Go(w, "gather")
                  /\ UNCHANGED <<build, cwd, lock, scriptLock, pool, history>>

\* It meets every definition when none is inserted meanwhile.  defines_list is
\* a tree that insertions rotate: a loop they overlap may also miss what was
\* there before it began (`whole` is history).
EndGather(w) == LET untouched == defines = local[w].start IN
  /\ pc[w] = "gather"
  /\ \E S \in SUBSET defines :
       /\ untouched => S = Seen
       /\ local' = [local EXCEPT ![w].start = {}, ![w].seen = S, ![w].whole = untouched]
  /\ Go(w, "spawn")
  /\ UNCHANGED <<build, cwd, lock, scriptLock, pool, history>>

\* The standard streams are redirected and the process is created under the
\* lock; the process may not start, or end with an error.
Spawn(w) == /\ pc[w] = "spawn"
            /\ lock = Nil
            /\ \/ Go(w, "build") /\ UNCHANGED <<local, broken>>
               \/ Fails(w)
            /\ UNCHANGED <<build, cwd, lock, scriptLock, pool, asked>>

Compile(w) == /\ pc[w] = "build"
              /\ \/ Go(w, "insert") /\ UNCHANGED <<local, broken>>
                 \/ Fails(w)
              /\ UNCHANGED <<build, cwd, lock, scriptLock, pool, asked>>

Insert(w) == /\ pc[w] = "insert"
             /\ lock = Nil
             /\ linkList' = Append(linkList, Source(w))
             /\ Go(w, "report")
             /\ UNCHANGED <<compileList, defines, alive, cwd, lock, scriptLock, pool, local, history>>

-----------------------------------------------------------------------------
(* script_compiler::process_file.                                          *)

ScriptFree_Always == TRUE   \* mutant: scripts do not wait for each other
ScriptFree == scriptLock = Nil

\* The working directory of the process becomes the script's.
EnterScript(w) ==
  /\ pc[w] = "script"
  /\ ScriptFree
  /\ scriptLock' = w
  /\ local' = [local EXCEPT ![w].line = 1, ![w].wd = cwd]
  /\ cwd' = Source(w)
  /\ Go(w, "commands")
  /\ UNCHANGED <<build, lock, pool, history>>

\* The script cannot be read.
NoScript(w) == /\ pc[w] = "script"
               /\ ScriptFree
               /\ Fails(w)
               /\ UNCHANGED <<build, cwd, lock, scriptLock, pool, asked>>

AtCommand(w) == pc[w] = "commands" /\ local[w].line <= Len(Program[Source(w)])
NextCommand(w) == local' = [local EXCEPT ![w].line = @ + 1]

\* `compile`: the file is added unless compile_list holds it now.
AddSource(s) ==
  IF s \in Entries(compileList) THEN UNCHANGED <<compileList, asked>>
  ELSE /\ compileList' = Append(compileList, s)
       /\ asked' = asked \cup {Ask(s)}

Command(w) ==
  /\ AtCommand(w)
  /\ LET c == Program[Source(w)][local[w].line] IN
       \/ /\ c.do = "compile" /\ lock = Nil
          /\ AddSource(c.what)
          /\ UNCHANGED defines
       \/ /\ c.do = "define" /\ lock = Nil
          /\ defines' = defines \cup {c.what}
          /\ UNCHANGED <<compileList, asked>>
       \/ c.do = "run" /\ UNCHANGED <<compileList, asked, defines>>
  /\ NextCommand(w)
  /\ UNCHANGED <<linkList, alive, cwd, lock, scriptLock, pool, pc, broken>>

\* A command throws: the working directory stays the script's.
CommandFails(w) == /\ AtCommand(w)
                   /\ scriptLock' = Nil
                   /\ Fails(w)
                   /\ UNCHANGED <<build, cwd, lock, pool, asked>>

Unlocked_Never == scriptLock   \* mutant: sync->Open forgotten
Unlocked == Nil

EndScript(w) == /\ pc[w] = "commands"
                /\ ~AtCommand(w)
                /\ cwd' = local[w].wd
                /\ scriptLock' = Unlocked
                /\ Go(w, "report")
                /\ UNCHANGED <<build, lock, pool, local, history>>

-----------------------------------------------------------------------------
(* The rest of construct.                                                  *)

PoolQuiet_NoQueue == \A w \in Workers : slot[w] = Nil   \* mutant: queued tasks do not count

\* What ThreadPool::Wait waits for.
PoolQuiet == queue = <<>> /\ \A w \in Workers : slot[w] = Nil

AwaitPool == /\ pc[Main] = "wait"
             /\ PoolQuiet
             /\ Go(Main, IF alive THEN "resources" ELSE "failed")
             /\ UNCHANGED <<build, cwd, lock, scriptLock, pool, local, history>>

MakeResources == /\ pc[Main] = "resources"
                 /\ \E place \in {"link", "failed"} : Go(Main, place)
                 /\ UNCHANGED <<build, cwd, lock, scriptLock, pool, local, history>>

Link == /\ pc[Main] = "link"
        /\ \E place \in {"ok", "failed"} : Go(Main, place)
        /\ UNCHANGED <<build, cwd, lock, scriptLock, pool, local, history>>

Finished == pc[Main] \in {"ok", "failed"} /\ UNCHANGED vars

CommitNext(a) == EnterCommit(a) \/ SubmitFirst(a) \/ LeaveCommit(a)
WorkerNext(w) == \/ StartTask(w) \/ Report(w) \/ EndTask(w) \/ SkipFresh(w) \/ BeginGather(w)
                 \/ EndGather(w) \/ Spawn(w) \/ Compile(w) \/ Insert(w) \/ EnterScript(w)
                 \/ NoScript(w) \/ Command(w) \/ CommandFails(w) \/ EndScript(w)
MainNext == AwaitPool \/ MakeResources \/ Link

Step == \/ \E a \in Agents : CommitNext(a)
        \/ \E w \in Workers : WorkerNext(w)
        \/ MainNext
Next == Step \/ Finished

Spec == Init /\ [][Next]_vars

\* Some thread that can run does, and the processes end.  That is enough: no
\* thread repeats itself, so none can keep another from its turn for ever.
Fairness == WF_vars(Step)

FairSpec == Spec /\ Fairness

-----------------------------------------------------------------------------
(* Properties.                                                             *)

PastCompiling == pc[Main] \in {"resources", "link", "ok"}
Asked == {e.source : e \in asked}

\* Once the main thread goes on to the resources, no tool has failed in any
\* thread, and the object of every source of the project and of every source a
\* script has added is there to be linked, however late the script ran.
NothingForgotten ==
  PastCompiling => /\ broken = {}
                   /\ compileList = <<>>
                   /\ Asked \ Scripts \subseteq Entries(linkList)

\* A script's commands are executed in the script's directory, and what runs
\* after the compile phase finds the directory the build was started in.
OwnDirectory == /\ \A w \in Workers : pc[w] = "commands" => cwd = Source(w)
                /\ PastCompiling => cwd = Nil

\* A source a script adds is compiled with every definition that script (or
\* an earlier one) had made by then, unless a definition is inserted just while
\* its compiler reads them: nothing else can take one away, not the order of
\* the scripts and the tasks, not a source that is asked for twice.
DefinesReach ==
  \A w \in Workers : pc[w] = "build" /\ local[w].whole =>
    \E e \in asked : e.source = Source(w) /\ e.defines \subseteq local[w].seen

\* construct returns: tasks that submit tasks, scripts that wait for each
\* other and a failure in any of them do not keep Wait from returning.
Terminates == <>(pc[Main] \in {"ok", "failed"})

Executor == INSTANCE TaskExecutor WITH
  Tasks  <- Nat,
  closed <- pc[Main] \in {"ok", "failed"}

\* The build uses the pool as TaskExecutor allows: every task is submitted
\* once, from the main thread or from a task, and none after the pool is gone.
UsesPool == Executor!Safety
=============================================================================
