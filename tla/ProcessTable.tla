---------------------------- MODULE ProcessTable ----------------------------
(***************************************************************************)
(* Child processes of the Cor runtime on Linux (moduli/Cor-Linux/          *)
(* CorProcesses.cxx).  CreateProcess forks and reads from a pipe whether   *)
(* the child could execute its image, all under the root lock of the       *)
(* program, and enters the child in a list.  A thread that lives while the *)
(* list is not empty waits for any child and tells the child's handle.     *)
(* The kernel's side (children, zombies, pids) is part of the model.       *)
(***************************************************************************)
EXTENDS Integers, FiniteSets, FiniteSetsExt

CONSTANTS Callers,     \* threads of the program
          Procs,       \* calls of CreateProcess, one child each
          Pids, Codes, \* process identifiers, exit codes
          Reuse,       \* whether a pid may come again once its child is reaped
          MaxWaiters,  \* bound on the waiter threads at a time
          Faults,      \* "exec", "memory", "thread": fails; "signal": interrupts
                       \* read; "ignored": the program may ignore SIGCHLD
          None

Killed == -1           \* the exit code of a child that a signal ended
Waiters == 1..MaxWaiters

ASSUME ProcAssumption == None \notin Procs \cup Callers \cup Pids
ASSUME PidAssumption == Pids \subseteq Nat
ASSUME CodeAssumption == Codes \subseteq Nat /\ MaxWaiters \in Nat
ASSUME FaultAssumption ==
  Faults \subseteq {"exec", "memory", "thread", "signal", "ignored"} /\ Reuse \in BOOLEAN

VARIABLES ignores,        \* SIGCHLD is ignored: no zombies, no exit codes
          root,           \* who holds the root lock
          child, pid,     \* the kernel: state and pid of each child
          image,          \* whether the child has executed its image
          status,         \* its exit code, once it has ended
          list,           \* _process_list: the entry of each pid
          handle, told,   \* the Process objects: _exited, _exit_code
          waiter, caught, \* waiter threads: place, what wait() returned
          pc, proc        \* callers: place and child of the current call

kernel == <<child, pid, image, status, ignores>>
handles == <<handle, told>>
threads == <<waiter, caught>>
calls == <<pc, proc>>
vars == <<root, kernel, list, handles, threads, calls>>

Init == /\ root = None
        /\ ignores \in {FALSE, "ignored" \in Faults}
        /\ child = [p \in Procs |-> "unborn"] /\ pid = [p \in Procs |-> None]
        /\ image = [p \in Procs |-> "unknown"] /\ status = [p \in Procs |-> Killed]
        /\ list = [i \in Pids |-> None]
        /\ handle = [p \in Procs |-> "none"] /\ told = [p \in Procs |-> Killed]
        /\ waiter = [k \in Waiters |-> "absent"] /\ caught = [k \in Waiters |-> None]
        /\ pc = [c \in Callers |-> "user"] /\ proc = [c \in Callers |-> None]

Listed == {i \in Pids : list[i] # None}
Active == {k \in Waiters : waiter[k] \in {"wait", "lock", "none"}}

-----------------------------------------------------------------------------
(* The children, as the kernel shows them.                                 *)

Exists(p) == child[p] \in {"forked", "runs", "failed", "zombie"}

Exec(p) == /\ child[p] = "forked"
           /\ \/ /\ child' = [child EXCEPT ![p] = "runs"]
                 /\ image' = [image EXCEPT ![p] = "executed"]
              \/ /\ "exec" \in Faults
                 /\ child' = [child EXCEPT ![p] = "failed"]      \* its message is in the pipe
                 /\ image' = [image EXCEPT ![p] = "refused"]
           /\ UNCHANGED <<ignores, root, pid, status, list, handles, threads, calls>>

End(p, code) == /\ child' = [child EXCEPT ![p] = IF ignores THEN "gone" ELSE "zombie"]
                /\ status' = [status EXCEPT ![p] = IF ignores THEN Killed ELSE code]
                /\ UNCHANGED <<ignores, root, pid, image, list, handles, threads, calls>>

Exit(p) == \/ child[p] = "runs" /\ \E code \in Codes : End(p, code)
           \/ child[p] = "failed" /\ End(p, 0)

\* Terminate: kill(_pid), whoever has that pid now.
Terminate(p) == /\ handle[p] = "open"
                /\ \E q \in Procs : pid[q] = pid[p] /\ child[q] = "runs" /\ End(q, Killed)

-----------------------------------------------------------------------------
(* CreateProcess.                                                          *)

Go(c, place) == pc' = [pc EXCEPT ![c] = place]

Taken == {pid[p] : p \in {q \in Procs : Exists(q) \/ ~Reuse}}

Unborn == {p \in Procs : child[p] = "unborn"}

Fork(c) == /\ pc[c] = "user"
           /\ root = None
           /\ root' = c
           /\ Unborn # {} /\ Pids \ Taken # {}
           /\ LET p == CHOOSE q \in Unborn : TRUE IN
                /\ child' = [child EXCEPT ![p] = "forked"]
                /\ pid' = [pid EXCEPT ![p] = Min(Pids \ Taken)]
                /\ proc' = [proc EXCEPT ![c] = p]
           /\ Go(c, "read")
           /\ UNCHANGED <<ignores, image, status, list, handles, threads>>

\* An interrupted read counts as the end of the file: the image was executed.
Read(c) == /\ pc[c] = "read"
           /\ \/ image[proc[c]] = "refused" /\ Go(c, "reap")
              \/ image[proc[c]] = "executed" /\ Go(c, "enter")
              \/ "signal" \in Faults /\ Go(c, "enter")
           /\ UNCHANGED <<root, kernel, list, handles, threads, proc>>

Return(c) == Go(c, "user") /\ root' = None /\ proc' = [proc EXCEPT ![c] = None]

\* waitpid; another thread's wait() may have been faster.
Reap(c) == /\ pc[c] = "reap"
           /\ child[proc[c]] \in {"zombie", "gone"}
           /\ child' = [child EXCEPT ![proc[c]] = "gone"]
           /\ handle' = [handle EXCEPT ![proc[c]] = "refused"]
           /\ Return(c)
           /\ UNCHANGED <<ignores, pid, image, status, list, told, threads>>

\* Append keeps the entry that a key already has.
Entered(p) == IF list[pid[p]] = None THEN [list EXCEPT ![pid[p]] = p] ELSE list

NeedsWaiter_After(p) == Cardinality({i \in Pids : Entered(p)[i] # None}) = 0            \* mutant

NeedsWaiter(p) == Listed = {}

Absent == {k \in Waiters : waiter[k] = "absent"}

CreateWaiter == /\ Absent # {}                            \* bound
                /\ waiter' = [waiter EXCEPT ![Min(Absent)] = "wait"]

Enter(c) ==
  LET p == proc[c] IN
  /\ pc[c] = "enter"
  /\ list' = Entered(p)
  /\ handle' = [handle EXCEPT ![p] = "open"]
  /\ IF NeedsWaiter(p) THEN CreateWaiter ELSE UNCHANGED waiter
  /\ Return(c)
  /\ UNCHANGED <<kernel, told, caught>>

\* No memory for the handle or the entry, or no thread: the call fails and the
\* child is left to itself.
EnterFails(c) == /\ pc[c] = "enter"
                 /\ \/ "memory" \in Faults
                    \/ "thread" \in Faults /\ NeedsWaiter(proc[c])
                 /\ handle' = [handle EXCEPT ![proc[c]] = "refused"]
                 /\ Return(c)
                 /\ UNCHANGED <<kernel, list, told, threads>>

-----------------------------------------------------------------------------
(* _process_waiter_thread.                                                 *)

Catch(k) == /\ waiter[k] = "wait"
            /\ \/ \E p \in Procs :
                    /\ child[p] = "zombie"
                    /\ child' = [child EXCEPT ![p] = "gone"]
                    /\ caught' = [caught EXCEPT ![k] = p]
                    /\ waiter' = [waiter EXCEPT ![k] = "lock"]
               \/ /\ \A p \in Procs : ~Exists(p)
                  /\ waiter' = [waiter EXCEPT ![k] = "none"]
                  /\ UNCHANGED <<child, caught>>
            /\ UNCHANGED <<ignores, root, pid, image, status, list, handles, calls>>

Mark_All(S, code) == /\ handle' = [p \in Procs |-> IF p \in {list[i] : i \in Listed}
                                                   THEN "exited" ELSE handle[p]]  \* mutant
                     /\ told' = [p \in Procs |-> IF p \in S THEN code ELSE told[p]]

Mark(S, code) == /\ handle' = [p \in Procs |-> IF p \in S THEN "exited" ELSE handle[p]]
                 /\ told' = [p \in Procs |-> IF p \in S THEN code ELSE told[p]]

Onward_Early(k) == IF Cardinality(Listed) = 1 THEN "absent" ELSE "wait"      \* mutant

\* The thread ends when it leaves the list empty.
Onward(k) == IF Listed \subseteq {pid[caught[k]]} THEN "absent" ELSE "wait"

\* The handle that the list has for the pid, which need not be the child's.
Record(k) == LET i == pid[caught[k]] IN
             /\ waiter[k] = "lock"
             /\ root = None
             /\ Mark({list[i]} \ {None}, status[caught[k]])
             /\ list' = [list EXCEPT ![i] = None]
             /\ waiter' = [waiter EXCEPT ![k] = Onward(k)]
             /\ caught' = [caught EXCEPT ![k] = None]
             /\ UNCHANGED <<root, kernel, calls>>

\* wait() has no child to wait for: every handle is told, and the thread stays.
Abandon(k) == /\ waiter[k] = "none"
              /\ root = None
              /\ Mark({list[i] : i \in Listed}, Killed)
              /\ list' = [i \in Pids |-> None]
              /\ waiter' = [waiter EXCEPT ![k] = "wait"]
              /\ UNCHANGED <<root, kernel, caught, calls>>

Serve(k) == Catch(k) \/ Record(k) \/ Abandon(k)
Call(c) == Read(c) \/ Reap(c) \/ Enter(c) \/ EnterFails(c)

Next == \/ \E p \in Procs : Exec(p) \/ Exit(p) \/ Terminate(p)
        \/ \E c \in Callers : Fork(c) \/ Call(c)
        \/ \E k \in Waiters : Serve(k)

Spec == Init /\ [][Next]_vars

\* Threads that can go on go on, and a child comes to its execve; it need not end.
FairSpec == /\ Spec
            /\ \A p \in Procs : WF_vars(Exec(p)) /\ WF_vars(child[p] = "failed" /\ Exit(p))
            /\ \A c \in Callers : WF_vars(Call(c))
            /\ \A k \in Waiters : WF_vars(Serve(k))

-----------------------------------------------------------------------------
(* Properties.                                                             *)

\* A handle says that its child has ended when it has, and with the child's own
\* exit code, in whatever order children end and calls of CreateProcess overlap.
\* (Where SIGCHLD is ignored there is no exit code to tell.)
Truthful ==
  ~ignores => \A p \in Procs : handle[p] = "exited" => child[p] = "gone" /\ told[p] = status[p]

\* One thread waits while there are children to wait for, and none otherwise.
\* (Where SIGCHLD is ignored the thread stays when it has told every handle.)
OneWaiter == ~ignores => Cardinality(Active) = IF Listed = {} THEN 0 ELSE 1

\* Wait returns after the child has ended; where SIGCHLD is ignored the kernel
\* lets the waiter know when there is no child any more.
Ended(p) == child[p] \in {"zombie", "gone"}
ExitSeen == \A p \in Procs :
              (handle[p] = "open" /\ Ended(p))
                ~> (handle[p] = "exited" \/ (ignores /\ \E q \in Procs : Exists(q)))
=============================================================================
