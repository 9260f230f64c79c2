------------------------- MODULE ProcessTableProofs -------------------------
(***************************************************************************)
(* Theorems about ProcessTable, for any number of threads and children and *)
(* any exit codes, where no pid comes twice (OncePid) and SIGCHLD is not   *)
(* ignored.                                                                *)
(***************************************************************************)
EXTENDS ProcessTable, FiniteSetTheorems, WellFoundedInduction, TLAPS

Children == {"unborn", "forked", "runs", "failed", "zombie", "gone"}

TypeOK == /\ root \in Callers \cup {None}
          /\ child \in [Procs -> Children]
          /\ pid \in [Procs -> Pids \cup {None}]
          /\ status \in [Procs -> Int]
          /\ list \in [Pids -> Procs \cup {None}]
          /\ handle \in [Procs -> {"none", "open", "refused", "exited"}]
          /\ told \in [Procs -> Int]
          /\ waiter \in [Waiters -> {"absent", "wait", "lock", "none"}]
          /\ caught \in [Waiters -> Procs \cup {None}]
          /\ pc \in [Callers -> {"user", "read", "reap", "enter"}]
          /\ proc \in [Callers -> Procs \cup {None}]
          /\ \A k \in Waiters : waiter[k] = "lock" => caught[k] \in Procs

\* A call of CreateProcess has the root lock and a child without a handle, and
\* every child without a handle belongs to a call.
Calling == /\ \A c \in Callers : pc[c] # "user" =>
                 /\ root = c /\ proc[c] \in Procs
                 /\ handle[proc[c]] = "none" /\ child[proc[c]] # "unborn"
           /\ \A p \in Procs : handle[p] = "none" /\ child[p] # "unborn" =>
                 \E c \in Callers : pc[c] # "user" /\ proc[c] = p

\* A child has a pid of its own, and the list has those whose handle is open.
Entries == /\ \A p \in Procs : pid[p] = None <=> child[p] = "unborn"
           /\ \A p, q \in Procs : pid[p] = pid[q] /\ pid[p] # None => p = q
           /\ \A p \in Procs : child[p] = "unborn" => handle[p] = "none"
           /\ \A i \in Pids : list[i] # None =>
                 list[i] \in Procs /\ pid[list[i]] = i /\ handle[list[i]] = "open"
           /\ \A p \in Procs : handle[p] = "open" => pid[p] \in Pids /\ list[pid[p]] = p

Told == \A p \in Procs : handle[p] = "exited" => child[p] = "gone" /\ told[p] = status[p]

\* A child that is gone although its handle does not say so is in the hands of a
\* waiter, and a waiter has only such as are gone.
InHand(p) == \E k \in Waiters : waiter[k] = "lock" /\ caught[k] = p
Caught == /\ \A k \in Waiters : waiter[k] = "lock" => child[caught[k]] = "gone"
          /\ \A p \in Procs : child[p] = "gone" /\ handle[p] \in {"none", "open"} => InHand(p)

\* There is one waiter while the list has an entry, and wait() never fails it.
Waiting == /\ Listed = {} => Active = {}
           /\ Listed # {} => \E k \in Waiters : Active = {k}
           /\ \A k \in Waiters : waiter[k] # "none"

OncePid == ~Reuse

Own == Calling /\ Entries /\ Told /\ Caught /\ Waiting

IInv == TypeOK /\ (~ignores => Own)

-----------------------------------------------------------------------------
\* Min belongs to its set and is below the others, whether the set is finite or not.
LEMMA MinLemma ==
  ASSUME NEW S, S \subseteq Nat, S # {}
  PROVE  Min(S) \in S /\ \A x \in S : Min(S) <= x
<1>1. \E x \in S : \A y \in S : ~(<<y, x>> \in OpToRel(<, Nat))
  BY NatLessThanWellFounded, WFMin
<1>2. OpToRel(<, Nat) = {p \in Nat \X Nat : p[1] < p[2]}
  BY DEF OpToRel
<1>3. PICK x \in S : \A y \in S : ~(<<y, x>> \in {p \in Nat \X Nat : p[1] < p[2]})
  BY <1>1, <1>2
<1>4. ASSUME NEW y \in S PROVE x <= y
  <2>1. x \in Nat /\ y \in Nat
    OBVIOUS
  <2>2. ~(y < x)
    BY <1>3, <2>1
  <2>3. QED
    BY <2>1, <2>2
<1>5. QED
  BY <1>4 DEF Min

LEMMA InitInv == Init => IInv
<1> SUFFICES ASSUME Init PROVE IInv
  OBVIOUS
<1>1. Listed = {} /\ Active = {}
  BY DEF Init, Listed, Active
<1>2. TypeOK
  BY CodeAssumption DEF Init, TypeOK, Children, Killed
<1>3. Calling /\ Entries /\ Told /\ Caught /\ Waiting
  <2>1. Calling /\ Told /\ Caught
    BY DEF Init, Calling, Told, Caught
  <2>2. Entries
    BY DEF Init, Entries
  <2>3. Waiting
    BY <1>1 DEF Init, Waiting
  <2>4. QED
    BY <2>1, <2>2, <2>3
<1>4. QED
  BY <1>2, <1>3 DEF IInv, Own

\* A new waiter takes a number that is free.
LEMMA CreateLemma ==
  ASSUME TypeOK, CreateWaiter
  PROVE  \E k \in Waiters : waiter[k] = "absent" /\ waiter' = [waiter EXCEPT ![k] = "wait"]
<1>1. Absent \subseteq Nat /\ Absent # {}
  BY CodeAssumption DEF Absent, CreateWaiter, Waiters
<1>2. Min(Absent) \in Absent
  BY <1>1, MinLemma
<1>3. QED
  BY <1>2 DEF Absent, CreateWaiter

\* fork gives a child that is new a pid that is free.
LEMMA ForkLemma ==
  ASSUME NEW c \in Callers, Fork(c)
  PROVE  \E p \in Procs, i \in Pids :
            /\ child[p] = "unborn" /\ i \notin Taken
            /\ child' = [child EXCEPT ![p] = "forked"]
            /\ pid' = [pid EXCEPT ![p] = i]
            /\ proc' = [proc EXCEPT ![c] = p]
<1> DEFINE p == CHOOSE q \in Unborn : TRUE
<1>1. p \in Unborn
  BY DEF Fork
<1>2. Pids \ Taken \subseteq Nat /\ Pids \ Taken # {}
  BY PidAssumption DEF Fork
<1>3. Min(Pids \ Taken) \in Pids \ Taken
  BY <1>2, MinLemma
<1>4. QED
  BY <1>1, <1>3 DEF Fork, Unborn

-----------------------------------------------------------------------------
LEMMA TypeStep == TypeOK /\ [Next]_vars => TypeOK'
<1> SUFFICES ASSUME TypeOK, [Next]_vars PROVE TypeOK'
  OBVIOUS
<1> USE DEF kernel, handles, threads, calls
<1>1. ASSUME NEW p \in Procs, NEW code \in Int, End(p, code) PROVE TypeOK'
  BY <1>1 DEF End, TypeOK, Children, Killed
<1>2. ASSUME NEW p \in Procs, Exec(p) \/ Exit(p) \/ Terminate(p) PROVE TypeOK'
  <2>1. CASE Exec(p)
    BY <2>1 DEF Exec, TypeOK, Children
  <2>2. CASE Exit(p)
    BY <1>1, <2>2, CodeAssumption DEF Exit
  <2>3. CASE Terminate(p)
    BY <1>1, <2>3 DEF Terminate, Killed
  <2>4. QED
    BY <1>2, <2>1, <2>2, <2>3
<1>3. ASSUME NEW c \in Callers, Fork(c) PROVE TypeOK'
  <2>1. child' \in [Procs -> Children] /\ pid' \in [Procs -> Pids \cup {None}]
          /\ proc' \in [Callers -> Procs \cup {None}]
    BY <1>3, ForkLemma DEF TypeOK, Children
  <2>2. QED
    BY <1>3, <2>1 DEF Fork, Go, TypeOK
<1>4. ASSUME NEW c \in Callers, Call(c) PROVE TypeOK'
  <2>1. CASE Read(c)
    BY <2>1 DEF Read, Go, TypeOK
  <2>2. CASE Reap(c)
    BY <2>2 DEF Reap, Return, Go, TypeOK, Children
  <2>3. CASE EnterFails(c)
    BY <2>3 DEF EnterFails, Return, Go, TypeOK
  <2>4. CASE Enter(c)
    <3>1. list' \in [Pids -> Procs \cup {None}]
      BY <2>4 DEF Enter, Entered, TypeOK
    <3>2. /\ waiter' \in [Waiters -> {"absent", "wait", "lock", "none"}]
          /\ \A k \in Waiters : waiter'[k] = "lock" => waiter[k] = "lock"
      BY <2>4, CreateLemma DEF Enter, TypeOK
    <3>3. UNCHANGED <<child, pid, status, told, caught>>
      BY <2>4 DEF Enter
    <3>4. handle' \in [Procs -> {"none", "open", "refused", "exited"}]
      BY <2>4 DEF Enter, TypeOK
    <3>5. root' = None /\ pc' \in [Callers -> {"user", "read", "reap", "enter"}]
            /\ proc' \in [Callers -> Procs \cup {None}]
      BY <2>4 DEF Enter, Return, Go, TypeOK
    <3>6. QED
      BY <3>1, <3>2, <3>3, <3>4, <3>5 DEF TypeOK
  <2>5. QED
    BY <1>4, <2>1, <2>2, <2>3, <2>4 DEF Call
<1>5. ASSUME NEW k \in Waiters, Serve(k) PROVE TypeOK'
  <2>1. CASE Catch(k)
    BY <2>1 DEF Catch, TypeOK, Children
  <2>2. ASSUME NEW S, NEW code \in Int, Mark(S, code)
        PROVE  /\ handle' \in [Procs -> {"none", "open", "refused", "exited"}]
               /\ told' \in [Procs -> Int]
    BY <2>2 DEF Mark, TypeOK
  <2>3. CASE Record(k)
    <3>1. Mark({list[pid[caught[k]]]} \ {None}, status[caught[k]]) /\ status[caught[k]] \in Int
      BY <2>3 DEF Record, TypeOK
    <3>2. QED
      BY <2>2, <2>3, <3>1 DEF Record, Onward, TypeOK
  <2>4. CASE Abandon(k)
    <3>1. Mark({list[i] : i \in Listed}, Killed) /\ Killed \in Int
      BY <2>4 DEF Abandon, Killed
    <3>2. QED
      BY <2>2, <2>4, <3>1 DEF Abandon, TypeOK
  <2>5. QED
    BY <1>5, <2>1, <2>3, <2>4 DEF Serve
<1>6. CASE UNCHANGED vars
  BY <1>6 DEF vars, TypeOK
<1>7. QED
  BY <1>2, <1>3, <1>4, <1>5, <1>6 DEF Next

\* The kernel's state, the list, the handles and the locals of the threads keep
\* their types, also where pids come again and where SIGCHLD is ignored.
THEOREM TypeCorrect == Spec => []TypeOK
<1>1. Init => TypeOK
  BY InitInv DEF IInv
<1>2. QED
  BY <1>1, TypeStep, PTL DEF Spec

-----------------------------------------------------------------------------
\* What a step of the children does: none of them is created or reaped.
LEMMA ChildStep ==
  ASSUME TypeOK, Own, NEW p \in Procs, ~ignores, Exec(p) \/ Exit(p) \/ Terminate(p)
  PROVE  Own'
<1> USE DEF handles, threads, calls
<1>1. /\ UNCHANGED <<root, pid, list, handle, told, waiter, caught, pc, proc>>
      /\ \E q \in Procs : /\ child[q] \notin {"unborn", "gone"}
                          /\ child'[q] \notin {"unborn", "gone"}
                          /\ \A r \in Procs \ {q} : child'[r] = child[r] /\ status'[r] = status[r]
  BY DEF Exec, Exit, Terminate, End, TypeOK
<1>2. \A q \in Procs : /\ (child'[q] = "unborn") <=> (child[q] = "unborn")
                       /\ (child'[q] = "gone") <=> (child[q] = "gone")
                       /\ child[q] = "gone" => status'[q] = status[q]
  <2>1. PICK r \in Procs : /\ child[r] \notin {"unborn", "gone"}
                           /\ child'[r] \notin {"unborn", "gone"}
                           /\ \A q \in Procs \ {r} : child'[q] = child[q] /\ status'[q] = status[q]
    BY <1>1
  <2>2. QED
    BY <2>1
<1>3. Calling' /\ Entries'
  BY <1>1, <1>2 DEF Own, Calling, Entries
<1>4. Told' /\ Caught'
  BY <1>1, <1>2 DEF Own, Told, Caught, InHand, TypeOK
<1>5. Waiting'
  BY <1>1 DEF Own, Waiting, Listed, Active
<1>6. QED
  BY <1>3, <1>4, <1>5 DEF Own

LEMMA ForkStep ==
  ASSUME TypeOK, Own, OncePid, NEW c \in Callers, Fork(c)
  PROVE  Own'
<1> USE DEF handles, threads
<1>1. PICK p \in Procs, i \in Pids :
            /\ child[p] = "unborn" /\ i \notin Taken
            /\ child' = [child EXCEPT ![p] = "forked"]
            /\ pid' = [pid EXCEPT ![p] = i]
            /\ proc' = [proc EXCEPT ![c] = p]
  BY ForkLemma
<1>2. /\ UNCHANGED <<status, list, handle, told, waiter, caught>>
      /\ root = None /\ root' = c /\ pc' = [pc EXCEPT ![c] = "read"]
  BY DEF Fork, Go
<1>3. \A q \in Procs : pid[q] # i
  BY <1>1 DEF OncePid, Taken
<1>4. i # None
  BY <1>1, ProcAssumption
<1>5. \A d \in Callers : pc[d] = "user"
  BY <1>2, ProcAssumption DEF Own, Calling
<1>6. Calling'
  <2>1. \A d \in Callers : pc'[d] # "user" => d = c
    BY <1>2, <1>5 DEF TypeOK
  <2>2. proc'[c] = p /\ pc'[c] # "user" /\ child'[p] # "unborn" /\ handle'[p] = "none"
    BY <1>1, <1>2 DEF TypeOK, Own, Entries
  <2>3. \A q \in Procs \ {p} : handle'[q] = "none" => child'[q] = "unborn"
    BY <1>1, <1>2, <1>5 DEF Own, Calling, TypeOK
  <2>4. QED
    BY <1>2, <2>1, <2>2, <2>3 DEF Calling
<1>7. Entries'
  <2>1. \A q \in Procs : /\ pid'[q] = IF q = p THEN i ELSE pid[q]
                         /\ child'[q] = IF q = p THEN "forked" ELSE child[q]
    BY <1>1 DEF TypeOK
  <2>2. handle[p] = "none"
    BY <1>1 DEF Own, Entries
  <2>3. QED
    BY <1>2, <1>3, <1>4, <2>1, <2>2 DEF Own, Entries
<1>8. Told'
  BY <1>1, <1>2 DEF Own, Told, Entries, TypeOK
<1>9. Caught'
  BY <1>1, <1>2 DEF Own, Caught, InHand, TypeOK
<1>10. Waiting'
  BY <1>2 DEF Own, Waiting, Listed, Active
<1>11. QED
  BY <1>6, <1>7, <1>8, <1>9, <1>10 DEF Own

\* A call that returns leaves no other behind.
LEMMA ReturnLemma ==
  ASSUME TypeOK, Own, NEW c \in Callers, pc[c] # "user", Return(c),
         NEW h \in {"open", "refused"}, handle' = [handle EXCEPT ![proc[c]] = h],
         \A p \in Procs : child'[p] = "unborn" <=> child[p] = "unborn"
  PROVE  Calling'
<1>1. \A d \in Callers : pc'[d] = "user"
  BY ProcAssumption DEF Own, Calling, Return, Go, TypeOK
<1>2. \A p \in Procs : handle'[p] = "none" => p # proc[c] /\ handle[p] = "none"
  BY DEF Own, Calling, TypeOK
<1>3. \A d \in Callers : pc[d] # "user" => d = c
  BY ProcAssumption DEF Own, Calling
<1>4. \A p \in Procs : handle'[p] = "none" => child'[p] = "unborn"
  BY <1>2, <1>3 DEF Own, Calling
<1>5. QED
  BY <1>1, <1>4 DEF Calling

LEMMA CallStep ==
  ASSUME TypeOK, Own, NEW c \in Callers, Call(c)
  PROVE  Own'
<1> USE DEF kernel, handles, threads
<1> DEFINE p == proc[c]
<1>1. CASE Read(c)
  <2>1. /\ UNCHANGED <<root, child, pid, status, list, handle, told, waiter, caught, proc>>
        /\ \A d \in Callers : pc'[d] # "user" <=> pc[d] # "user"
    BY <1>1 DEF Read, Go, TypeOK
  <2>2. QED
    BY <2>1 DEF Own, Calling, Entries, Told, Caught, InHand, Waiting, Listed, Active
<1>2. ASSUME pc[c] # "user"
      PROVE  p \in Procs /\ handle[p] = "none" /\ child[p] # "unborn" /\ pid[p] \in Pids
  BY <1>2 DEF Own, Calling, Entries, TypeOK
<1>3. CASE Reap(c)
  <2>1. /\ p \in Procs /\ handle[p] = "none" /\ child[p] # "unborn" /\ pid[p] \in Pids
        /\ pc[c] # "user"
    BY <1>2, <1>3 DEF Reap
  <2>2. /\ child' = [child EXCEPT ![p] = "gone"]
        /\ handle' = [handle EXCEPT ![p] = "refused"]
        /\ UNCHANGED <<pid, status, list, told, waiter, caught>>
    BY <1>3 DEF Reap
  <2>3. Calling'
    BY <1>3, <2>1, <2>2, ReturnLemma DEF Reap, TypeOK
  <2>4. Entries'
    BY <2>1, <2>2 DEF Own, Entries, TypeOK
  <2>5. Told' /\ Caught'
    BY <2>1, <2>2 DEF Own, Told, Caught, InHand, TypeOK
  <2>6. Waiting'
    BY <2>2 DEF Own, Waiting, Listed, Active
  <2>7. QED
    BY <2>3, <2>4, <2>5, <2>6 DEF Own
<1>4. CASE EnterFails(c)
  <2>1. /\ p \in Procs /\ handle[p] = "none" /\ child[p] # "unborn" /\ pid[p] \in Pids
        /\ pc[c] # "user"
    BY <1>2, <1>4 DEF EnterFails
  <2>2. /\ handle' = [handle EXCEPT ![p] = "refused"]
        /\ UNCHANGED <<child, pid, status, list, told, waiter, caught>>
    BY <1>4 DEF EnterFails
  <2>3. Calling'
    BY <1>4, <2>1, <2>2, ReturnLemma DEF EnterFails
  <2>4. Entries'
    BY <2>1, <2>2 DEF Own, Entries, TypeOK
  <2>5. Told' /\ Caught'
    BY <2>1, <2>2 DEF Own, Told, Caught, InHand, TypeOK
  <2>6. Waiting'
    BY <2>2 DEF Own, Waiting, Listed, Active
  <2>7. QED
    BY <2>3, <2>4, <2>5, <2>6 DEF Own
<1>5. CASE Enter(c)
  <2>1. /\ p \in Procs /\ handle[p] = "none" /\ child[p] # "unborn" /\ pid[p] \in Pids
        /\ pc[c] # "user"
    BY <1>2, <1>5 DEF Enter
  <2>2. p # None /\ pid[p] # None
    BY <2>1, ProcAssumption
  <2>3. list[pid[p]] = None
    BY <2>1, <2>2 DEF Own, Entries
  <2>4. /\ handle' = [handle EXCEPT ![p] = "open"]
        /\ list' = [list EXCEPT ![pid[p]] = p]
        /\ UNCHANGED <<child, pid, status, told, caught>>
    BY <1>5, <2>3 DEF Enter, Entered
  <2>5. /\ Listed # {} => waiter' = waiter
        /\ Listed = {} => \E k \in Waiters :
              waiter[k] = "absent" /\ waiter' = [waiter EXCEPT ![k] = "wait"]
    BY <1>5, CreateLemma DEF Enter, NeedsWaiter
  <2>6. Calling'
    BY <1>5, <2>1, <2>4, ReturnLemma DEF Enter
  <2>7. Entries'
    BY <2>1, <2>2, <2>3, <2>4 DEF Own, Entries, TypeOK
  <2>8. Told'
    BY <2>1, <2>4 DEF Own, Told, TypeOK
  <2>9. Caught'
    <3>1. \A k \in Waiters : waiter'[k] = "lock" <=> waiter[k] = "lock"
      BY <2>5 DEF TypeOK
    <3>2. \A q \in Procs : handle'[q] \in {"none", "open"} => handle[q] \in {"none", "open"}
      BY <2>1, <2>4 DEF TypeOK
    <3>3. QED
      BY <2>4, <3>1, <3>2 DEF Own, Caught, InHand
  <2>10. Waiting'
    <3>1. Listed' = Listed \cup {pid[p]}
      BY <2>1, <2>2, <2>4 DEF Listed, TypeOK
    <3>2. CASE Listed # {}
      BY <2>5, <3>1, <3>2 DEF Own, Waiting, Active
    <3>3. CASE Listed = {}
      <4>1. PICK k \in Waiters : waiter[k] = "absent" /\ waiter' = [waiter EXCEPT ![k] = "wait"]
        BY <2>5, <3>3
      <4>2. Active = {}
        BY <3>3 DEF Own, Waiting
      <4>3. Active' = {k}
        BY <4>1, <4>2 DEF Active, TypeOK
      <4>4. \A j \in Waiters : waiter'[j] # "none"
        BY <4>1 DEF Own, Waiting, TypeOK
      <4>5. QED
        BY <3>1, <4>3, <4>4 DEF Waiting
    <3>4. QED
      BY <3>2, <3>3
  <2>11. QED
    BY <2>6, <2>7, <2>8, <2>9, <2>10 DEF Own
<1>6. QED
  BY <1>1, <1>3, <1>4, <1>5 DEF Call

LEMMA CatchStep ==
  ASSUME TypeOK, Own, ~ignores, NEW k \in Waiters, Catch(k)
  PROVE  Own'
<1> USE DEF handles, calls
<1>1. waiter[k] = "wait" /\ k \in Active
  BY DEF Catch, Active
<1>2. Listed # {} /\ Active = {k}
  BY <1>1 DEF Own, Waiting
<1>3. ~ \A p \in Procs : ~Exists(p)
  <2>1. PICK i \in Pids : list[i] # None
    BY <1>2 DEF Listed
  <2>2. list[i] \in Procs /\ handle[list[i]] = "open" /\ child[list[i]] # "unborn"
    BY <2>1 DEF Own, Entries
  <2>3. child[list[i]] # "gone"
    BY <1>1, <1>2, <2>2 DEF Own, Caught, InHand, Active
  <2>4. Exists(list[i])
    BY <2>2, <2>3 DEF Exists, TypeOK, Children
  <2>5. QED
    BY <2>2, <2>4
<1>4. PICK p \in Procs : /\ child[p] = "zombie"
                         /\ child' = [child EXCEPT ![p] = "gone"]
                         /\ caught' = [caught EXCEPT ![k] = p]
                         /\ waiter' = [waiter EXCEPT ![k] = "lock"]
  BY <1>3 DEF Catch
<1>5. UNCHANGED <<root, pid, status, list, handle, told, pc, proc>>
  BY DEF Catch
<1>6. Calling' /\ Entries' /\ Told'
  BY <1>4, <1>5 DEF Own, Calling, Entries, Told, TypeOK
<1>7. Caught'
  <2>1. waiter'[k] = "lock" /\ caught'[k] = p /\ child'[p] = "gone"
    BY <1>4 DEF TypeOK
  <2>2. \A j \in Waiters \ {k} : waiter'[j] = waiter[j] /\ caught'[j] = caught[j]
    BY <1>4 DEF TypeOK
  <2>3. \A q \in Procs : child[q] = "gone" => child'[q] = "gone"
    BY <1>4 DEF TypeOK
  <2>4. \A q \in Procs \ {p} : child'[q] = child[q]
    BY <1>4 DEF TypeOK
  <2>5. \A q \in Procs : InHand(q) => InHand(q)'
    BY <1>1, <2>2 DEF InHand
  <2>6. InHand(p)'
    BY <2>1 DEF InHand
  <2>7. QED
    BY <1>5, <2>1, <2>2, <2>3, <2>4, <2>5, <2>6 DEF Own, Caught, TypeOK
<1>8. Waiting'
  <2>1. Active' = Active
    BY <1>1, <1>4 DEF Active, TypeOK
  <2>2. QED
    BY <1>4, <1>5, <2>1 DEF Own, Waiting, Listed, TypeOK
<1>9. QED
  BY <1>6, <1>7, <1>8 DEF Own

\* The list has no other handle for the pid than the child's own, and a child
\* without a handle is not looked up: its call has the root lock.
LEMMA RecordStep ==
  ASSUME TypeOK, Own, NEW k \in Waiters, Record(k)
  PROVE  Own'
<1> USE DEF kernel, calls
<1> DEFINE p == caught[k]
           i == pid[p]
<1>1. waiter[k] = "lock" /\ p \in Procs /\ child[p] = "gone" /\ root = None
  BY DEF Record, Own, Caught, TypeOK
<1>2. UNCHANGED <<root, child, pid, status, pc, proc>>
  BY DEF Record
<1>3. i \in Pids
  BY <1>1 DEF Own, Entries, TypeOK
<1>4. handle[p] # "none"
  BY <1>1, ProcAssumption DEF Own, Calling
<1>5. (handle[p] = "open" /\ list[i] = p) \/ (handle[p] # "open" /\ list[i] = None)
  BY <1>1, <1>3 DEF Own, Entries
<1>6. /\ list' = [list EXCEPT ![i] = None]
      /\ waiter' = [waiter EXCEPT ![k] = Onward(k)] /\ Onward(k) \in {"absent", "wait"}
      /\ caught' = [caught EXCEPT ![k] = None]
  BY DEF Record, Onward
<1>7. \A q \in Procs :
        IF q = p /\ handle[p] = "open"
        THEN handle'[q] = "exited" /\ told'[q] = status[q]
        ELSE handle'[q] = handle[q] /\ told'[q] = told[q]
  <2>1. Mark({list[i]} \ {None}, status[p])
    BY DEF Record
  <2>2. p # None
    BY <1>1, ProcAssumption
  <2>3. QED
    BY <1>5, <2>1, <2>2 DEF Mark
<1> HIDE DEF p, i
<1>8. Calling'
  BY <1>2, <1>7 DEF Own, Calling
<1>9. Entries'
  <2>1. \A j \in Pids : list'[j] = IF j = i THEN None ELSE list[j]
    BY <1>3, <1>6 DEF TypeOK
  <2>2. \A j \in Pids : list'[j] # None =>
          list'[j] \in Procs /\ pid[list'[j]] = j /\ handle'[list'[j]] = "open"
    BY <1>3, <1>7, <2>1 DEF Own, Entries, p, i
  <2>3. \A q \in Procs : handle'[q] = "open" => q # p /\ pid[q] # i
    BY <1>1, <1>3, <1>5, <1>7, ProcAssumption DEF Own, Entries, i
  <2>4. \A q \in Procs : handle'[q] = "open" => pid[q] \in Pids /\ list'[pid[q]] = q
    BY <1>7, <2>1, <2>3 DEF Own, Entries
  <2>5. \A q \in Procs : child[q] = "unborn" => handle'[q] = "none"
    BY <1>1, <1>7 DEF Own, Entries
  <2>6. QED
    BY <1>2, <2>2, <2>4, <2>5 DEF Own, Entries
<1>10. Told'
  BY <1>1, <1>2, <1>7 DEF Own, Told
<1>11. Caught'
  <2>1. \A j \in Waiters \ {k} : waiter'[j] = waiter[j] /\ caught'[j] = caught[j]
    BY <1>6 DEF TypeOK
  <2>2. waiter'[k] # "lock"
    BY <1>6 DEF TypeOK
  <2>3. \A q \in Procs : handle'[q] \in {"none", "open"} => q # p /\ handle[q] \in {"none", "open"}
    BY <1>1, <1>4, <1>7 DEF TypeOK
  <2>4. \A q \in Procs \ {p} : InHand(q) => InHand(q)'
    BY <2>1 DEF InHand, p
  <2>5. QED
    BY <1>2, <2>1, <2>2, <2>3, <2>4 DEF Own, Caught
<1>12. Waiting'
  <2>1. Active = {k} /\ \A j \in Waiters \ {k} : waiter'[j] = waiter[j]
    BY <1>1, <1>6 DEF Own, Waiting, Active, TypeOK
  <2>2. Listed' = Listed \ {i} /\ waiter'[k] = Onward(k)
    BY <1>3, <1>6 DEF Listed, TypeOK
  <2>3. CASE Listed \subseteq {i}
    <3>1. waiter'[k] = "absent"
      BY <2>2, <2>3 DEF Onward, p, i
    <3>2. Listed' = {} /\ Active' = {}
      BY <2>1, <2>2, <2>3, <3>1 DEF Active
    <3>3. QED
      BY <2>1, <3>1, <3>2 DEF Own, Waiting
  <2>4. CASE ~(Listed \subseteq {i})
    <3>1. waiter'[k] = "wait"
      BY <2>2, <2>4 DEF Onward, p, i
    <3>2. Listed' # {} /\ Active' = {k}
      BY <2>1, <2>2, <2>4, <3>1 DEF Active
    <3>3. QED
      BY <2>1, <3>1, <3>2 DEF Own, Waiting
  <2>5. QED
    BY <2>3, <2>4
<1>13. QED
  BY <1>8, <1>9, <1>10, <1>11, <1>12 DEF Own

LEMMA InvStep == ASSUME OncePid PROVE IInv /\ [Next]_vars => IInv'
<1> SUFFICES ASSUME IInv, [Next]_vars PROVE IInv'
  OBVIOUS
<1>1. TypeOK /\ TypeOK'
  BY TypeStep DEF IInv
<1>2. ignores' = ignores
  BY DEF Next, vars, kernel, Exec, Exit, Terminate, End, Fork, Call, Read, Reap, Enter,
         EnterFails, Serve, Catch, Record, Abandon
<1>3. ASSUME ~ignores PROVE Own'
  <2>1. Own
    BY <1>3 DEF IInv
  <2>2. ASSUME NEW p \in Procs, Exec(p) \/ Exit(p) \/ Terminate(p) PROVE Own'
    BY <1>1, <1>3, <2>1, <2>2, ChildStep
  <2>3. ASSUME NEW c \in Callers, Fork(c) \/ Call(c) PROVE Own'
    BY <1>1, <2>1, <2>3, ForkStep, CallStep
  <2>4. ASSUME NEW k \in Waiters, Serve(k) PROVE Own'
    <3>1. ~Abandon(k)
      BY <2>1 DEF Abandon, Own, Waiting
    <3>2. QED
      BY <1>1, <1>3, <2>1, <2>4, <3>1, CatchStep, RecordStep DEF Serve
  <2>5. CASE UNCHANGED vars
    BY <2>1, <2>5 DEF vars, kernel, handles, threads, calls, Own, Calling, Entries, Told,
                      Caught, InHand, Waiting, Listed, Active
  <2>6. QED
    BY <2>2, <2>3, <2>4, <2>5 DEF Next
<1>4. QED
  BY <1>1, <1>2, <1>3 DEF IInv

LEMMA InvCorrect == ASSUME OncePid PROVE Spec => []IInv
BY InitInv, InvStep, PTL DEF Spec

\* No handle claims an end that has not been or an exit code of another child,
\* whatever the number of threads, children and exit codes.
THEOREM TruthfulCorrect == ASSUME OncePid PROVE Spec => []Truthful
<1>1. IInv => Truthful
  BY DEF IInv, Own, Told, Truthful
<1>2. QED
  BY <1>1, InvCorrect, PTL

\* However calls of CreateProcess, ends of children and the waiter interleave,
\* two waiters never coexist and none is missing while a child is listed.
THEOREM WaiterCorrect == ASSUME OncePid PROVE Spec => []OneWaiter
<1>1. IInv => OneWaiter
  <2> SUFFICES ASSUME IInv, ~ignores PROVE Cardinality(Active) = IF Listed = {} THEN 0 ELSE 1
    BY DEF OneWaiter
  <2>1. Listed = {} => Active = {}
    BY DEF IInv, Own, Waiting
  <2>2. Listed # {} => \E k \in Waiters : Active = {k}
    BY DEF IInv, Own, Waiting
  <2>3. QED
    BY <2>1, <2>2, FS_EmptySet, FS_Singleton
<1>2. QED
  BY <1>1, InvCorrect, PTL
=============================================================================
