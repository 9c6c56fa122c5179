--------------------------- MODULE ProcLifeProofs ---------------------------
(***************************************************************************)
(* Proofs about ProcLife for any processes, threads and permissions: the    *)
(* type invariant, and that a process leaves PROCESS_TABLE at most once.    *)
(* Then, for programs that keep fork, waitpid and the exits of one process  *)
(* apart (Alone, Adoptive, Ordered): the threads of a Zombie are over, none *)
(* runs on freed page tables, every process has a live parent, and waitpid  *)
(* loses no child.                                                          *)
(***************************************************************************)
EXTENDS ProcLife, TLAPS

\* A fork in progress owns the pid it allocated until the child is in PROCESS_TABLE.
ForkOwns ==
    \A t \in Tids :
        /\ pc[t] \in {"fork", "forkthread"} => child[t] \in Pids
        /\ pc[t] = "fork" =>
            /\ pstate[child[t]] = "Claimed"
            /\ \A u \in Tids : pc[u] = "fork" /\ child[u] = child[t] => u = t

\* A process has been removed once if it is gone, and not at all before.
ClaimsExact == \A q \in Pids : claims[q] = IF pstate[q] = "Gone" THEN 1 ELSE 0

IInv == TypeOK /\ ForkOwns /\ ClaimsExact

\* The initial state satisfies the inductive invariant.
LEMMA InitIInv == Init => IInv
<1> SUFFICES ASSUME Init PROVE IInv
    BY Zenon
<1>1. TypeOK
    BY ProcLifeAssumption DEF Init, TypeOK, PCs, ThreadsOf
<1>2. ForkOwns
    BY Zenon DEF Init, ForkOwns
<1>3. ClaimsExact
    BY Zenon DEF Init, ClaimsExact
<1> QED
    BY <1>1, <1>2, <1>3, Zenon DEF IInv

\* Steps of the exits and of the scheduler preserve the type invariant.
LEMMA ExitTypes ==
    ASSUME TypeOK, NEW t \in Tids,
           \/ UserReturn(t) \/ DeadPreempted(t) \/ Reap(t)
           \/ ExitCall(t) \/ ExitTids(t) \/ ExitAllDead(t) \/ ExitZombie(t)
           \/ FreeMemory(t) \/ Die(t)
    PROVE  TypeOK'
<1> USE ProcLifeAssumption
<1>1. CASE UserReturn(t)
    BY <1>1, Zenon DEF UserReturn, TypeOK, PCs, Goto, procs, exitvars, waitvars
<1>2. CASE DeadPreempted(t)
    BY <1>2, Zenon DEF DeadPreempted, TypeOK, PCs, Goto, procs, exitvars, waitvars
<1>3. CASE Reap(t)
    BY <1>3, Zenon DEF Reap, TypeOK, procs, exitvars, waitvars
<1>4. CASE ExitCall(t)
    BY <1>4, Zenon DEF ExitCall, TypeOK, PCs, Goto, procs, exitvars, waitvars
<1>5. CASE ExitTids(t)
    BY <1>5, Zenon DEF ExitTids, TypeOK, PCs, Goto, procs, waitvars
<1>6. CASE ExitAllDead(t)
  <2>1. last' \in [Tids -> BOOLEAN]
    BY <1>6, Zenon DEF ExitAllDead, TypeOK
  <2> QED
    BY <1>6, <2>1, Zenon DEF ExitAllDead, TypeOK, PCs, Goto, procs, waitvars
<1>7. CASE ExitZombie(t)
    BY <1>7, Zenon DEF ExitZombie, TypeOK, PCs, Goto, exitvars, waitvars
<1>8. CASE FreeMemory(t)
    BY <1>8, Zenon DEF FreeMemory, Release, TypeOK, PCs, Goto, exitvars, waitvars
<1>9. CASE Die(t)
    BY <1>9, Zenon DEF Die, TypeOK, PCs, Goto, procs, exitvars, waitvars
<1> QED
    BY <1>1, <1>2, <1>3, <1>4, <1>5, <1>6, <1>7, <1>8, <1>9, Zenon

\* Steps of fork and exit_group preserve the type invariant.
LEMMA GroupTypes ==
    ASSUME TypeOK, ForkOwns, NEW t \in Tids,
           \/ (\E q \in Pids : Fork(t, q)) \/ ForkProcess(t) \/ ForkThread(t)
           \/ GroupCall(t) \/ GroupMark(t) \/ GroupZombie(t) \/ GroupOrphans(t)
    PROVE  TypeOK'
<1> USE ProcLifeAssumption
<1>1. CASE \E q \in Pids : Fork(t, q)
    BY <1>1 DEF Fork, TypeOK, PCs, Goto, exitvars, waitvars
<1>2. CASE ForkProcess(t)
    BY <1>2 DEF ForkProcess, ForkOwns, TypeOK, PCs, Goto, exitvars, waitvars
<1>3. CASE ForkThread(t)
    BY <1>3, Zenon DEF ForkThread, TypeOK, PCs, procs, exitvars, waitvars
<1>4. CASE GroupCall(t)
    BY <1>4, Zenon DEF GroupCall, TypeOK, PCs, Goto, procs, exitvars, waitvars
<1>5. CASE GroupMark(t)
    BY <1>5, Zenon DEF GroupMark, TypeOK, PCs, Goto, procs, exitvars, waitvars
<1>6. CASE GroupZombie(t)
  <2> DEFINE p == ProcOf[t]
             gone == Orphans(p)
  <2>1. p \in Pids /\ gone \subseteq Pids
    BY Zenon DEF Orphans
  <2>2. /\ ppid' \in [Tids -> Pids \union {None}]
        /\ pstate' \in [Pids -> {"Unborn", "Claimed", "Active", "Zombie", "Gone"}]
        /\ claims' \in [Pids -> Nat]
    BY <1>6, <2>1 DEF GroupZombie, TypeOK
  <2>3. parent' \in [Pids -> Pids \union {None}]
    BY <1>6, Zenon DEF GroupZombie, Adopt, TypeOK
  <2>4. snap' \in [Tids -> SUBSET Tids]
    BY <1>6, <2>1 DEF GroupZombie, TypeOK
  <2>5. last' \in [Tids -> BOOLEAN]
    BY <1>6, Zenon DEF GroupZombie, TypeOK
  <2>6. pc' \in [Tids -> PCs]
    BY <1>6, Zenon DEF GroupZombie, TypeOK, PCs, Goto
  <2> QED
    BY <1>6, <2>2, <2>3, <2>4, <2>5, <2>6, Zenon DEF GroupZombie, TypeOK, waitvars
<1>7. CASE GroupOrphans(t)
    BY <1>7, Zenon DEF GroupOrphans, Forget, TypeOK, PCs, Goto, procs, exitvars, waitvars
<1> QED
    BY <1>1, <1>2, <1>3, <1>4, <1>5, <1>6, <1>7, Zenon

\* A call of proc::waitpid preserves the type invariant.
LEMMA TryTypes ==
    ASSUME TypeOK, NEW t \in Tids, NEW hit \in PCs, NEW miss \in PCs, Try(t, hit, miss)
    PROVE  TypeOK'
<1>1. CASE \E q \in Pids : Collectable(t, q) /\ Collect(t, q) /\ Goto(t, hit)
    BY <1>1 DEF Try, Collect, Goto, TypeOK, exitvars, waitvars
<1>2. CASE Goto(t, miss) /\ UNCHANGED <<procs, snap>>
    BY <1>2, Zenon DEF Try, Goto, TypeOK, procs, exitvars, waitvars
<1> QED
    BY <1>1, <1>2, Zenon DEF Try

\* Steps of sys_waitpid preserve the type invariant.
LEMMA WaitTypes ==
    ASSUME TypeOK, NEW t \in Tids,
           \/ (\E w \in Wants, b \in BOOLEAN : WaitCall(t, w, b))
           \/ WaitPoll(t) \/ WaitCommit(t) \/ WaitGiveUp(t) \/ WaitRecheck(t)
           \/ WaitResume(t) \/ WaitRetry(t) \/ WaitReap(t) \/ WaitRevert(t)
    PROVE  TypeOK'
<1> USE ProcLifeAssumption
<1>1. CASE \E w \in Wants, b \in BOOLEAN : WaitCall(t, w, b)
  <2>1. PICK w \in Wants, b \in BOOLEAN : WaitCall(t, w, b)
    BY <1>1, Zenon
  <2>2. nohang' \in [Tids -> BOOLEAN]
    BY <2>1, Zenon DEF WaitCall, TypeOK
  <2> QED
    BY <2>1, <2>2 DEF WaitCall, TypeOK, PCs, Goto, procs, exitvars
<1>2. CASE WaitPoll(t)
    BY <1>2, TryTypes, Zenon DEF WaitPoll, PCs
<1>3. CASE WaitCommit(t)
    BY <1>3 DEF WaitCommit, TypeOK, PCs, Goto, procs, exitvars
<1>4. CASE WaitGiveUp(t)
    BY <1>4, Zenon DEF WaitGiveUp, TypeOK, PCs, Goto, procs, exitvars, waitvars
<1>5. CASE WaitRecheck(t)
    BY <1>5, TryTypes, Zenon DEF WaitRecheck, PCs
<1>6. CASE WaitResume(t)
    BY <1>6, Zenon DEF WaitResume, TypeOK, PCs, Goto, procs, exitvars, waitvars
<1>7. CASE WaitRetry(t)
    BY <1>7, TryTypes, Zenon DEF WaitRetry, PCs
<1>8. CASE WaitReap(t)
    BY <1>8, Zenon DEF WaitReap, Forget, TypeOK, PCs, Goto, procs, exitvars, waitvars
<1>9. CASE WaitRevert(t)
    BY <1>9, Zenon DEF WaitRevert, TypeOK, PCs, Goto, procs, exitvars, waitvars
<1> QED
    BY <1>1, <1>2, <1>3, <1>4, <1>5, <1>6, <1>7, <1>8, <1>9, Zenon

\* Every step preserves the type invariant.
LEMMA NextTypes ==
    ASSUME TypeOK, ForkOwns, [Next]_vars
    PROVE  TypeOK'
<1>1. CASE UNCHANGED vars
    BY <1>1, Zenon DEF vars, procs, exitvars, waitvars, TypeOK
<1>2. CASE Next
    BY <1>2, ExitTypes, GroupTypes, WaitTypes, Zenon DEF Next, Kernel, User
<1> QED
    BY <1>1, <1>2, Zenon

\* A step that leaves the processes alone and takes no thread into fork keeps the two
\* other parts of the invariant.
LEMMA QuietOwns ==
    ASSUME ForkOwns, ClaimsExact, UNCHANGED <<pstate, claims, child>>,
           \A u \in Tids : pc'[u] \in {"fork", "forkthread"} => pc'[u] = pc[u]
    PROVE  ForkOwns' /\ ClaimsExact'
    BY DEF ForkOwns, ClaimsExact

\* A step that removes Zombies, each once, keeps them too.
LEMMA CollectOwns ==
    ASSUME TypeOK, ForkOwns, ClaimsExact, NEW gone \in SUBSET Pids, NEW dead \in SUBSET Pids,
           \A q \in gone : pstate[q] = "Zombie", \A q \in dead : InTable(q),
           UNCHANGED child,
           \A u \in Tids : pc'[u] \in {"fork", "forkthread"} => pc'[u] = pc[u],
           pstate' = [q \in Pids |-> IF q \in gone THEN "Gone"
                                     ELSE IF q \in dead THEN "Zombie" ELSE pstate[q]],
           claims' = [q \in Pids |-> IF q \in gone THEN claims[q] + 1 ELSE claims[q]]
    PROVE  ForkOwns' /\ ClaimsExact'
<1>1. ForkOwns'
    BY DEF ForkOwns, TypeOK, InTable
<1>2. ClaimsExact'
    BY DEF ClaimsExact, TypeOK, InTable
<1> QED
    BY <1>1, <1>2, Zenon

\* fork takes a pid nobody has and gives it up when the child is in the table.
LEMMA ForkKeeps ==
    ASSUME TypeOK, ForkOwns, ClaimsExact, NEW t \in Tids,
           (\E q \in Pids : Fork(t, q)) \/ ForkProcess(t) \/ ForkThread(t)
    PROVE  ForkOwns' /\ ClaimsExact'
<1> USE ProcLifeAssumption
<1>1. CASE \E q \in Pids : Fork(t, q)
  <2>1. PICK q \in Pids : Fork(t, q)
    BY <1>1, Zenon
  <2>2. ForkOwns'
    BY <2>1 DEF Fork, Goto, ForkOwns, TypeOK
  <2>3. ClaimsExact'
    BY <2>1, Zenon DEF Fork, ClaimsExact, TypeOK
  <2> QED
    BY <2>2, <2>3, Zenon
<1>2. CASE ForkProcess(t)
  <2>1. ForkOwns'
    BY <1>2 DEF ForkProcess, Goto, ForkOwns, TypeOK
  <2>2. ClaimsExact'
    BY <1>2 DEF ForkProcess, ForkOwns, ClaimsExact, TypeOK
  <2> QED
    BY <2>1, <2>2, Zenon
<1>3. CASE ForkThread(t)
    BY <1>3, QuietOwns DEF ForkThread, procs, TypeOK
<1> QED
    BY <1>1, <1>2, <1>3, Zenon

\* The exits: only the two Zombie marks touch the state of a process.
LEMMA ExitKeeps ==
    ASSUME TypeOK, ForkOwns, ClaimsExact, NEW t \in Tids,
           \/ UserReturn(t) \/ DeadPreempted(t) \/ Reap(t)
           \/ ExitCall(t) \/ ExitTids(t) \/ ExitAllDead(t) \/ ExitZombie(t)
           \/ FreeMemory(t) \/ Die(t)
           \/ GroupCall(t) \/ GroupMark(t) \/ GroupZombie(t) \/ GroupOrphans(t)
    PROVE  ForkOwns' /\ ClaimsExact'
<1> USE ProcLifeAssumption
<1>1. CASE UserReturn(t) \/ DeadPreempted(t) \/ Reap(t)
    BY <1>1, QuietOwns DEF UserReturn, DeadPreempted, Reap, Goto, procs, TypeOK
<1>2. CASE ExitCall(t) \/ ExitTids(t) \/ ExitAllDead(t)
    BY <1>2, QuietOwns DEF ExitCall, ExitTids, ExitAllDead, Goto, procs, TypeOK
<1>3. CASE ExitZombie(t)
  <2> DEFINE dead == {q \in {ProcOf[t]} : InTable(q)}
             gone == {}
  <2>1. /\ pstate' = [q \in Pids |-> IF q \in gone THEN "Gone"
                                     ELSE IF q \in dead THEN "Zombie" ELSE pstate[q]]
        /\ claims' = [q \in Pids |-> IF q \in gone THEN claims[q] + 1 ELSE claims[q]]
    BY <1>3, Zenon DEF ExitZombie, InTable, TypeOK
  <2>2. \A u \in Tids : pc'[u] \in {"fork", "forkthread"} => pc'[u] = pc[u]
    BY <1>3, Zenon DEF ExitZombie, Goto, TypeOK
  <2>3. dead \in SUBSET Pids /\ (\A q \in dead : InTable(q)) /\ UNCHANGED child
    BY <1>3, Zenon DEF ExitZombie
  <2>4. gone \in SUBSET Pids /\ \A q \in gone : pstate[q] = "Zombie"
    BY Zenon
  <2> HIDE DEF dead, gone
  <2> QED
    BY <2>1, <2>2, <2>3, <2>4, CollectOwns, Zenon
<1>4. CASE FreeMemory(t) \/ Die(t)
    BY <1>4, QuietOwns DEF FreeMemory, Release, Die, Goto, procs, TypeOK
<1>5. CASE GroupCall(t) \/ GroupMark(t) \/ GroupOrphans(t)
    BY <1>5, QuietOwns DEF GroupCall, GroupMark, GroupOrphans, Goto, procs, TypeOK
<1>6. CASE GroupZombie(t)
  <2> DEFINE dead == {q \in {ProcOf[t]} : InTable(q)}
             gone == Orphans(ProcOf[t])
  <2>1. /\ pstate' = [q \in Pids |-> IF q \in gone THEN "Gone"
                                     ELSE IF q \in dead THEN "Zombie" ELSE pstate[q]]
        /\ claims' = [q \in Pids |-> IF q \in gone THEN claims[q] + 1 ELSE claims[q]]
    BY <1>6 DEF GroupZombie
  <2>2. \A u \in Tids : pc'[u] \in {"fork", "forkthread"} => pc'[u] = pc[u]
    BY <1>6, Zenon DEF GroupZombie, Goto, TypeOK
  <2>3. dead \in SUBSET Pids /\ (\A q \in dead : InTable(q)) /\ UNCHANGED child
    BY <1>6, Zenon DEF GroupZombie
  <2>4. gone \in SUBSET Pids /\ \A q \in gone : pstate[q] = "Zombie"
    BY Zenon DEF Orphans
  <2> HIDE DEF dead, gone
  <2> QED
    BY <2>1, <2>2, <2>3, <2>4, CollectOwns, Zenon
<1> QED
    BY <1>1, <1>2, <1>3, <1>4, <1>5, <1>6, Zenon

\* A call of proc::waitpid removes one Zombie, or nothing.
LEMMA TryKeeps ==
    ASSUME TypeOK, ForkOwns, ClaimsExact, NEW t \in Tids, NEW hit, NEW miss,
           hit \notin {"fork", "forkthread"}, miss \notin {"fork", "forkthread"},
           Try(t, hit, miss)
    PROVE  ForkOwns' /\ ClaimsExact'
<1>1. CASE \E q \in Pids : Collectable(t, q) /\ Collect(t, q) /\ Goto(t, hit)
  <2>1. PICK c \in Pids : Collectable(t, c) /\ Collect(t, c) /\ Goto(t, hit)
    BY <1>1, Zenon
  <2> DEFINE dead == {}
             gone == {c}
  <2>2. /\ pstate' = [q \in Pids |-> IF q \in gone THEN "Gone"
                                     ELSE IF q \in dead THEN "Zombie" ELSE pstate[q]]
        /\ claims' = [q \in Pids |-> IF q \in gone THEN claims[q] + 1 ELSE claims[q]]
    BY <2>1, Zenon DEF Collect, TypeOK
  <2>3. \A u \in Tids : pc'[u] \in {"fork", "forkthread"} => pc'[u] = pc[u]
    BY <2>1, Zenon DEF Goto, TypeOK
  <2>4. gone \in SUBSET Pids /\ (\A q \in gone : pstate[q] = "Zombie") /\ UNCHANGED child
    BY <2>1, Zenon DEF Collectable, Try
  <2>5. dead \in SUBSET Pids /\ \A q \in dead : InTable(q)
    BY Zenon
  <2> HIDE DEF dead, gone
  <2> QED
    BY <2>2, <2>3, <2>4, <2>5, CollectOwns, Zenon
<1>2. CASE Goto(t, miss) /\ UNCHANGED <<procs, snap>>
    BY <1>2, QuietOwns, Zenon DEF Try, Goto, procs, TypeOK
<1> QED
    BY <1>1, <1>2, Zenon DEF Try

\* sys_waitpid touches the processes in its calls of proc::waitpid only.
LEMMA WaitKeeps ==
    ASSUME TypeOK, ForkOwns, ClaimsExact, NEW t \in Tids,
           \/ (\E w \in Wants, b \in BOOLEAN : WaitCall(t, w, b))
           \/ WaitPoll(t) \/ WaitCommit(t) \/ WaitGiveUp(t) \/ WaitRecheck(t)
           \/ WaitResume(t) \/ WaitRetry(t) \/ WaitReap(t) \/ WaitRevert(t)
    PROVE  ForkOwns' /\ ClaimsExact'
<1>1. CASE \E w \in Wants, b \in BOOLEAN : WaitCall(t, w, b)
    BY <1>1, QuietOwns DEF WaitCall, Goto, procs, TypeOK
<1>2. CASE WaitPoll(t) \/ WaitRecheck(t) \/ WaitRetry(t)
    BY <1>2, TryKeeps, Zenon DEF WaitPoll, WaitRecheck, WaitRetry
<1>3. CASE WaitCommit(t) \/ WaitGiveUp(t) \/ WaitResume(t)
    BY <1>3, QuietOwns DEF WaitCommit, WaitGiveUp, WaitResume, Goto, procs, TypeOK
<1>4. CASE WaitReap(t) \/ WaitRevert(t)
    BY <1>4, QuietOwns DEF WaitReap, WaitRevert, Goto, procs, TypeOK
<1> QED
    BY <1>1, <1>2, <1>3, <1>4, Zenon

\* Every step preserves the inductive invariant.
LEMMA NextIInv == IInv /\ [Next]_vars => IInv'
<1> SUFFICES ASSUME IInv, [Next]_vars PROVE IInv'
    BY Zenon
<1> USE DEF IInv
<1>1. TypeOK'
    BY NextTypes, Zenon
<1>2. ForkOwns' /\ ClaimsExact'
  <2>1. CASE UNCHANGED vars
    BY <2>1, QuietOwns, Zenon DEF vars, procs
  <2>2. CASE Next
    BY <2>2, ForkKeeps, ExitKeeps, WaitKeeps, Zenon DEF Next, Kernel, User
  <2> QED
    BY <2>1, <2>2, Zenon
<1> QED
    BY <1>1, <1>2, Zenon

\* The state of fork, the two exits and waitpid keeps its type.
THEOREM TypeCorrect == Spec => []TypeOK
<1>1. IInv => TypeOK
    BY Zenon DEF IInv
<1> QED
    BY <1>1, InitIInv, NextIInv, PTL DEF Spec

\* However many threads of a parent are in waitpid while it exits, no child is collected
\* twice: the Zombie test and the removal from PROCESS_TABLE are one locked section.
THEOREM OneCollector == Spec => []CollectedOnce
<1>1. IInv => CollectedOnce
    BY DEF IInv, ClaimsExact, CollectedOnce
<1> QED
    BY <1>1, InitIInv, NextIInv, PTL DEF Spec

-----------------------------------------------------------------------------
(* Exits that meet no fork or waitpid of a sibling.                         *)

ForkPCs == {"fork", "forkthread"}
WaitPCs == {"poll", "commit", "recheck", "parked", "retry", "reap", "reaprevert", "revert"}
ExitPCs == {"tids", "alldead", "zombie"}
GroupPCs == {"mark", "group", "orphans"}
Over == {"None", "Dead", "Gone"}

\* A thread is in the calls it makes.
CallsAllowed ==
    \A t \in Tids :
        /\ pc[t] \in ForkPCs => t \in Forks
        /\ pc[t] \in WaitPCs => t \in Waits
        /\ pc[t] = "ret" => t \in Forks \union Waits
        /\ pc[t] \in ExitPCs => t \in Exits
        /\ pc[t] \in GroupPCs => t \in GroupExits

\* A process without a record has no threads yet, and a fork between its two sections
\* has a child without threads.
Unstarted ==
    \A t \in Tids :
        /\ tstate[t] = "None" => pc[t] = "off"
        /\ tstate[t] # "None" => t \in threads[ProcOf[t]]
        /\ pstate[ProcOf[t]] \in {"Unborn", "Claimed"} => tstate[t] = "None"

Newborn ==
    \A t \in Tids : pc[t] = "forkthread" =>
        /\ pstate[child[t]] = "Active" /\ Main[child[t]] \in threads[child[t]]
        /\ \A u \in Tids : ProcOf[u] = child[t] => tstate[u] = "None"
        /\ \A u \in Tids : pc[u] = "forkthread" /\ child[u] = child[t] => u = t

\* A process lists threads of its own only.
Listed == \A p \in Pids, t \in Tids : t \in threads[p] => ProcOf[t] = p

Births == Unstarted /\ Newborn /\ Listed

\* t is on its way out, or will be at its next tick.
Spent(t) ==
    \/ Exiting(t)
    \/ pc[t] = "user" /\ t \notin Forks \union Waits /\ tstate[t] \in {"Dead", "Gone"}

\* What the two exits have seen is still so at their Zombie mark.
SeenAll(t) == pc[t] = "alldead" /\ InTable(ProcOf[t]) =>
    \A u \in Tids : ProcOf[u] = ProcOf[t] => tstate[u] = "None" \/ u \in snap[t]

SeenOver(t) == (pc[t] = "zombie" /\ InTable(ProcOf[t])) \/ pc[t] = "group" =>
    \A u \in Tids \ {t} : ProcOf[u] = ProcOf[t] => tstate[u] \in Over

Marked(t) == pc[t] \in {"orphans", "free"} => pstate[ProcOf[t]] \in {"Zombie", "Gone"}

\* The threads about to leave THREAD_TABLE are listed by processes that are gone.
Removed(t) == pc[t] \in {"orphans", "reap", "reaprevert"} =>
    \A u \in snap[t] : pstate[ProcOf[u]] = "Gone" /\ u \in threads[ProcOf[u]]

Alleged(t) == SeenAll(t) /\ SeenOver(t) /\ Marked(t) /\ Removed(t)

\* The threads of a process that is over are over, and only those of such a process lose
\* their memory.
DeadSpent == \A t \in Tids : tstate[t] \in {"Dead", "Gone"} => Spent(t)

ZombieSpent == \A t \in Tids : pstate[ProcOf[t]] \in {"Zombie", "Gone"} => Spent(t)

FreedExiting == \A t \in Tids : vm[ProcOf[t]] = "freed" =>
    pstate[ProcOf[t]] \in {"Zombie", "Gone"} /\ Exiting(t)

Ends == DeadSpent /\ ZombieSpent /\ FreedExiting /\ \A t \in Tids : Alleged(t)

Orderly == IInv /\ CallsAllowed /\ Births /\ Ends

\* A thread of p that forked is still there, before the adoption of its own exit_group.
Keeper(p) ==
    \E t \in Forks : /\ ProcOf[t] = p /\ tstate[t] \notin Over
                     /\ pc[t] \notin {"orphans", "free", "die", "off"}

\* The parent of every process is Active, and will adopt or remove its children.
Kept(q) ==
    /\ parent[q] \in Pids /\ parent[q] # q /\ pstate[parent[q]] = "Active"
    /\ parent[q] # InitPid => Keeper(parent[q])

Parents ==
    /\ pstate[InitPid] = "Active"
    /\ \A q \in Pids \ {InitPid} : InTable(q) => Kept(q)

\* An exit knows the parent of its process.
Parented ==
    /\ \A p \in Initial \ {InitPid} : parent[p] = InitPid /\ pstate[p] \notin {"Unborn", "Claimed"}
    /\ \A t \in Tids :
        /\ pc[t] \in {"alldead", "zombie"} /\ InTable(ProcOf[t]) => ppid[t] = parent[ProcOf[t]]
        /\ pc[t] = "zombie" => last[t]

-----------------------------------------------------------------------------
\* What Goto does to the place of each thread.
LEMMA GotoFacts ==
    ASSUME TypeOK, NEW t \in Tids, NEW l, Goto(t, l)
    PROVE  pc'[t] = l /\ \A u \in Tids \ {t} : pc'[u] = pc[u]
    BY Zenon DEF Goto, TypeOK

\* A thread found Dead in the kernel would be one that forks or waits: there is none.
LEMMA ReturnsAlive ==
    ASSUME CallsAllowed, Ends, NEW t \in Tids, pc[t] = "ret"
    PROVE  tstate[t] \notin {"Dead", "Gone"}
    BY Zenon DEF CallsAllowed, Ends, DeadSpent, Spent, Exiting

\* Every step keeps the threads in the calls they make.
LEMMA CallsStep ==
    ASSUME Orderly, NEW t \in Tids, Kernel(t) \/ User(t) \/ Reap(t)
    PROVE  CallsAllowed'
<1>0. TypeOK /\ CallsAllowed /\ Ends
    BY Zenon DEF Orderly, IInv
<1>1. ASSUME NEW l, Goto(t, l),
             /\ l \in ForkPCs => t \in Forks
             /\ l \in WaitPCs => t \in Waits
             /\ l = "ret" => t \in Forks \union Waits
             /\ l \in ExitPCs => t \in Exits
             /\ l \in GroupPCs => t \in GroupExits
      PROVE  CallsAllowed'
    BY <1>0, <1>1, GotoFacts, Zenon DEF CallsAllowed
<1> USE DEF ForkPCs, WaitPCs, ExitPCs, GroupPCs
<1>2. CASE UserReturn(t) \/ DeadPreempted(t)
    BY <1>0, <1>1, <1>2, ReturnsAlive, Zenon DEF UserReturn, DeadPreempted
<1>3. CASE (\E q \in Pids : Fork(t, q)) \/ ForkProcess(t)
    BY <1>0, <1>1, <1>3, Zenon DEF Fork, ForkProcess, CallsAllowed
<1>4. CASE ForkThread(t)
    BY <1>0, <1>4, Zenon DEF ForkThread, CallsAllowed, TypeOK
<1>5. CASE ExitCall(t) \/ ExitTids(t) \/ ExitAllDead(t) \/ ExitZombie(t) \/ FreeMemory(t) \/ Die(t)
    BY <1>0, <1>1, <1>5, Zenon DEF ExitCall, ExitTids, ExitAllDead, ExitZombie, FreeMemory,
       Release, Die, CallsAllowed
<1>6. CASE GroupCall(t) \/ GroupMark(t) \/ GroupZombie(t) \/ GroupOrphans(t)
    BY <1>0, <1>1, <1>6, Zenon DEF GroupCall, GroupMark, GroupZombie, GroupOrphans, CallsAllowed
<1>7. CASE \E w \in Wants, b \in BOOLEAN : WaitCall(t, w, b)
    BY <1>0, <1>1, <1>7, Zenon DEF WaitCall
<1>8. CASE WaitPoll(t) \/ WaitRecheck(t) \/ WaitRetry(t)
    BY <1>0, <1>1, <1>8, Zenon DEF WaitPoll, WaitRecheck, WaitRetry, Try, CallsAllowed
<1>9. CASE WaitCommit(t) \/ WaitGiveUp(t) \/ WaitResume(t) \/ WaitReap(t) \/ WaitRevert(t)
    BY <1>0, <1>1, <1>9, Zenon DEF WaitCommit, WaitGiveUp, WaitResume, WaitReap, WaitRevert,
       CallsAllowed
<1>10. CASE Reap(t)
    BY <1>0, <1>10, Zenon DEF Reap, CallsAllowed
<1> QED
    BY <1>2, <1>3, <1>4, <1>5, <1>6, <1>7, <1>8, <1>9, <1>10, Zenon DEF Kernel, User

\* A step of t moves t only, and an exit only on.
Moves(t) ==
    /\ \A u \in Tids \ {t} : pc'[u] = pc[u]
    /\ Exiting(t) => Exiting(t)'
    /\ pc[t] = "off" => pc'[t] = "off"
    /\ pc'[t] # "forkthread"

\* Threads become Gone, and so do those of removed processes that never ran.
Fades ==
    \A u \in Tids :
        /\ tstate[u] \in {"Dead", "Gone"} => tstate'[u] \in {"Dead", "Gone"}
        /\ tstate'[u] = "None" => tstate[u] = "None"
        /\ tstate[u] = "None" /\ tstate'[u] # "None" =>
              tstate'[u] = "Gone" /\ pstate[ProcOf[u]] = "Gone" /\ u \in threads[ProcOf[u]]

\* The process of t becomes a Zombie, and Zombies go.
Falls(t) ==
    \A p \in Pids : \/ pstate'[p] = pstate[p]
                    \/ /\ p = ProcOf[t] /\ InTable(p) /\ pc[t] \in {"zombie", "group"}
                       /\ pstate'[p] = "Zombie"
                    \/ pstate[p] = "Zombie" /\ pstate'[p] = "Gone"

ForkStep(t) == (\E q \in Pids : Fork(t, q)) \/ ForkProcess(t) \/ ForkThread(t)

\* Every step but fork moves its own thread only, and an exit only on.
LEMMA MovesStep ==
    ASSUME Orderly, NEW t \in Tids, Kernel(t) \/ User(t) \/ Reap(t), ~ ForkStep(t)
    PROVE  Moves(t)
<1>0. TypeOK
    BY Zenon DEF Orderly, IInv
<1>1. ASSUME NEW l, Goto(t, l), pc[t] = "off" => l = "off", l # "forkthread",
             Exiting(t) => l \in {"tids", "alldead", "zombie", "mark", "group", "orphans", "free",
                                   "die", "off"}
      PROVE  Moves(t)
    BY <1>0, <1>1, GotoFacts, Zenon DEF Moves, Exiting
<1> USE DEF Exiting
<1>2. CASE UserReturn(t) \/ DeadPreempted(t)
    BY <1>1, <1>2, Zenon DEF UserReturn, DeadPreempted
<1>5. CASE ExitCall(t) \/ ExitTids(t) \/ ExitAllDead(t) \/ ExitZombie(t) \/ FreeMemory(t) \/ Die(t)
    BY <1>1, <1>5, Zenon DEF ExitCall, ExitTids, ExitAllDead, ExitZombie, FreeMemory, Release, Die
<1>6. CASE GroupCall(t) \/ GroupMark(t) \/ GroupZombie(t) \/ GroupOrphans(t)
    BY <1>1, <1>6, Zenon DEF GroupCall, GroupMark, GroupZombie, GroupOrphans
<1>7. CASE \E w \in Wants, b \in BOOLEAN : WaitCall(t, w, b)
    BY <1>1, <1>7, Zenon DEF WaitCall
<1>8. CASE WaitPoll(t) \/ WaitRecheck(t) \/ WaitRetry(t)
    BY <1>1, <1>8, Zenon DEF WaitPoll, WaitRecheck, WaitRetry, Try
<1>9. CASE WaitCommit(t) \/ WaitGiveUp(t) \/ WaitResume(t) \/ WaitReap(t) \/ WaitRevert(t)
    BY <1>1, <1>9, Zenon DEF WaitCommit, WaitGiveUp, WaitResume, WaitReap, WaitRevert
<1>10. CASE Reap(t)
  <2>1. pc' = pc /\ pc[t] # "forkthread"
    BY <1>10, Zenon DEF Reap
  <2> QED
    BY <2>1, Zenon DEF Moves
<1> QED
    BY <1>2, <1>5, <1>6, <1>7, <1>8, <1>9, <1>10, Zenon DEF Kernel, User, ForkStep

\* Every step but fork brings no thread back: waitpid commits Blocked over Dead in a
\* thread that exit_group may mark, and there is none.
LEMMA FadesStep ==
    ASSUME Orderly, NEW t \in Tids, Kernel(t) \/ User(t) \/ Reap(t), ~ ForkStep(t)
    PROVE  Fades
<1>0. TypeOK /\ Births /\ Ends
    BY Zenon DEF Orderly, IInv
<1>1. tstate[t] = "None" => pc[t] = "off"
    BY <1>0, Zenon DEF Births, Unstarted
<1>2. CASE tstate' = tstate
    BY <1>2, Zenon DEF Fades
<1>3. ASSUME NEW s, tstate' = [tstate EXCEPT ![t] = s], tstate[t] # "None", s # "None",
             tstate[t] \in {"Dead", "Gone"} => s \in {"Dead", "Gone"}
      PROVE  Fades
    BY <1>0, <1>3, Zenon DEF Fades, TypeOK
<1>4. CASE Die(t)
    BY <1>0, <1>1, <1>4, Zenon DEF Die, Fades
<1>5. CASE GroupMark(t)
    BY <1>0, <1>5, Zenon DEF GroupMark, Fades
<1>6. CASE Forget(snap[t]) /\ pc[t] \in {"orphans", "reap", "reaprevert"}
  <2>1. \A u \in snap[t] : pstate[ProcOf[u]] = "Gone" /\ u \in threads[ProcOf[u]]
    BY <1>0, <1>6, Zenon DEF Ends, Alleged, Removed
  <2>2. \A u \in Tids : tstate'[u] = IF u \in snap[t] THEN "Gone" ELSE tstate[u]
    BY <1>6, Zenon DEF Forget
  <2> QED
    BY <2>1, <2>2, Zenon DEF Fades
<1>7. CASE WaitCommit(t)
  <2>1. tstate[t] \notin {"None", "Dead", "Gone"}
    BY <1>0, <1>1, <1>7, Zenon DEF WaitCommit, Ends, DeadSpent, Spent, Exiting
  <2> QED
    BY <1>3, <1>7, <2>1, Zenon DEF WaitCommit
<1>8. CASE WaitResume(t)
    BY <1>3, <1>8, Zenon DEF WaitResume
<1>9. CASE WaitRevert(t)
    BY <1>1, <1>2, <1>3, <1>9, Zenon DEF WaitRevert
<1>10. CASE Reap(t)
    BY <1>3, <1>10, Zenon DEF Reap
<1> QED
    BY <1>2, <1>4, <1>5, <1>6, <1>7, <1>8, <1>9, <1>10, Zenon DEF Kernel, User, ForkStep,
       UserReturn, DeadPreempted, ExitCall, ExitTids, ExitAllDead, ExitZombie, FreeMemory,
       Release, GroupCall, GroupZombie, GroupOrphans, WaitCall, WaitPoll, WaitRecheck,
       WaitRetry, Try, WaitGiveUp, WaitReap

\* Every step but fork takes processes towards their removal only.
LEMMA FallsStep ==
    ASSUME Orderly, NEW t \in Tids, Kernel(t) \/ User(t) \/ Reap(t), ~ ForkStep(t)
    PROVE  Falls(t)
<1>0. TypeOK
    BY Zenon DEF Orderly, IInv
<1>1. CASE pstate' = pstate
    BY <1>1, Zenon DEF Falls
<1>2. CASE ExitZombie(t)
    BY <1>0, <1>2, Zenon DEF ExitZombie, Falls, TypeOK
<1>3. CASE GroupZombie(t)
    BY <1>0, <1>3, Zenon DEF GroupZombie, Falls, Orphans
<1>4. CASE WaitPoll(t) \/ WaitRecheck(t) \/ WaitRetry(t)
    BY <1>0, <1>1, <1>4, Zenon DEF WaitPoll, WaitRecheck, WaitRetry, Try, Collectable, Collect,
       Falls, procs, TypeOK
<1> QED
    BY <1>1, <1>2, <1>3, <1>4, Zenon DEF Kernel, User, ForkStep, procs, UserReturn,
       DeadPreempted, Reap, ExitCall, ExitTids, ExitAllDead, FreeMemory, Release, Die,
       GroupCall, GroupMark, GroupOrphans, WaitCall, WaitCommit, WaitResume, WaitRevert,
       WaitGiveUp, WaitReap

\* Only fork writes the thread lists, and a step writes the snapshot of its own thread.
LEMMA QuietStep ==
    ASSUME Orderly, NEW t \in Tids, Kernel(t) \/ User(t) \/ Reap(t), ~ ForkStep(t)
    PROVE  UNCHANGED <<threads, child>> /\ \A u \in Tids \ {t} : snap'[u] = snap[u]
<1>0. TypeOK
    BY Zenon DEF Orderly, IInv
<1>1. UNCHANGED <<threads, child>>
    BY Zenon DEF Kernel, User, ForkStep, procs, UserReturn, DeadPreempted, Reap, ExitCall,
       ExitTids, ExitAllDead, ExitZombie, FreeMemory, Release, Die, GroupCall, GroupMark,
       GroupZombie, GroupOrphans, WaitCall, WaitPoll, WaitRecheck, WaitRetry, Try, Collect,
       WaitCommit, WaitResume, WaitRevert, WaitGiveUp, WaitReap
<1>2. ASSUME snap' = snap
      PROVE  \A u \in Tids \ {t} : snap'[u] = snap[u]
    BY <1>2, Zenon
<1>3. ASSUME NEW S, snap' = [snap EXCEPT ![t] = S]
      PROVE  \A u \in Tids \ {t} : snap'[u] = snap[u]
    BY <1>0, <1>3, Zenon DEF TypeOK
<1>4. \A u \in Tids \ {t} : snap'[u] = snap[u]
    BY <1>2, <1>3, Zenon DEF Kernel, User, ForkStep, UserReturn, DeadPreempted, Reap, ExitCall,
       ExitTids, ExitAllDead, ExitZombie, FreeMemory, Release, Die, GroupCall, GroupMark,
       GroupZombie, GroupOrphans, WaitCall, WaitPoll, WaitRecheck, WaitRetry, Try, Collect,
       WaitCommit, WaitResume, WaitRevert, WaitGiveUp, WaitReap
<1> QED
    BY <1>1, <1>4, Zenon

\* Every step keeps processes and threads that are being created apart from the others.
LEMMA BirthsStep ==
    ASSUME Orderly, NEW t \in Tids, Kernel(t) \/ User(t) \/ Reap(t)
    PROVE  Births'
<1>a. TypeOK
    BY Zenon DEF Orderly, IInv
<1>f. ForkOwns
    BY Zenon DEF Orderly, IInv
<1>u. Unstarted
    BY Zenon DEF Orderly, Births
<1>n. Newborn
    BY Zenon DEF Orderly, Births
<1>l. Listed
    BY Zenon DEF Orderly, Births
<1>p. \A u \in Tids : ProcOf[u] \in Pids
    BY ProcLifeAssumption, Zenon
<1>1. CASE \E q \in Pids : Fork(t, q)
  <2>1. PICK q \in Pids : Fork(t, q)
    BY <1>1, Zenon
  <2>2. /\ pc[t] = "user" /\ pc'[t] \in {"fork", "ret"}
        /\ \A u \in Tids \ {t} : pc'[u] = pc[u] /\ child'[u] = child[u]
    BY <1>a, <2>1, GotoFacts, Zenon DEF Fork, TypeOK
  <2>3. /\ pstate[q] = "Unborn" /\ pstate'[q] = "Claimed"
        /\ \A p \in Pids \ {q} : pstate'[p] = pstate[p]
    BY <1>a, <2>1, Zenon DEF Fork, TypeOK
  <2>4. \A u \in Tids : pc[u] = "forkthread" => child[u] \in Pids \ {q}
    BY <1>f, <1>n, <2>3, Zenon DEF Newborn, ForkOwns
  <2>5. UNCHANGED <<threads, tstate>>
    BY <2>1, Zenon DEF Fork
  <2>6. Unstarted'
    BY <1>p, <1>u, <2>2, <2>3, <2>5, Zenon DEF Unstarted
  <2>7. \A u \in Tids : pc'[u] = "forkthread" => pc[u] = "forkthread" /\ child'[u] = child[u]
    BY <2>2, Zenon
  <2>8. Newborn'
    BY <1>n, <2>3, <2>4, <2>5, <2>7 DEF Newborn
  <2> QED
    BY <1>l, <2>5, <2>6, <2>8, Zenon DEF Births, Listed
<1>2. CASE ForkProcess(t)
  <2> DEFINE q == child[t]
  <2>1. /\ q \in Pids /\ pstate[q] = "Claimed" /\ pstate'[q] = "Active"
        /\ threads'[q] = {Main[q]}
        /\ \A p \in Pids \ {q} : pstate'[p] = pstate[p] /\ threads'[p] = threads[p]
    BY <1>a, <1>f, <1>2, Zenon DEF ForkProcess, ForkOwns, TypeOK
  <2>2. /\ pc[t] = "fork" /\ pc'[t] = "forkthread" /\ UNCHANGED <<tstate, child>>
        /\ \A u \in Tids \ {t} : pc'[u] = pc[u]
    BY <1>a, <1>2, GotoFacts, Zenon DEF ForkProcess
  <2>3. \A u \in Tids : pc[u] = "forkthread" => child[u] \in Pids \ {q}
    BY <1>f, <1>n, <2>1, Zenon DEF Newborn, ForkOwns
  <2>4. \A u \in Tids : ProcOf[u] = q => tstate[u] = "None"
    BY <1>u, <2>1, Zenon DEF Unstarted
  <2>5. Main[q] \in Tids /\ ProcOf[Main[q]] = q
    BY <2>1, ProcLifeAssumption, Zenon
  <2> HIDE DEF q
  <2>6. Unstarted'
    BY <1>p, <1>u, <2>1, <2>2, <2>4, Zenon DEF Unstarted
  <2>7. Newborn'
    <3> SUFFICES ASSUME NEW v \in Tids, pc'[v] = "forkthread"
                 PROVE  /\ pstate'[child[v]] = "Active" /\ Main[child[v]] \in threads'[child[v]]
                        /\ \A u \in Tids : ProcOf[u] = child[v] => tstate[u] = "None"
                        /\ \A u \in Tids : pc'[u] = "forkthread" /\ child[u] = child[v] => u = v
      BY <2>2, Zenon DEF Newborn
    <3>1. CASE v = t
      BY <2>1, <2>2, <2>3, <2>4, <3>1, Zenon DEF q
    <3>2. CASE v # t
      <4>1. pc[v] = "forkthread" /\ child[v] \in Pids \ {q}
        BY <2>2, <2>3, <3>2, Zenon
      <4>2. \A u \in Tids : pc'[u] = "forkthread" /\ child[u] = child[v] => pc[u] = "forkthread"
        BY <2>2, <4>1, Zenon DEF q
      <4>3. /\ pstate[child[v]] = "Active" /\ Main[child[v]] \in threads[child[v]]
            /\ \A u \in Tids : ProcOf[u] = child[v] => tstate[u] = "None"
            /\ \A u \in Tids : pc[u] = "forkthread" /\ child[u] = child[v] => u = v
        BY <1>n, <4>1, Zenon DEF Newborn
      <4>4. pstate'[child[v]] = pstate[child[v]] /\ threads'[child[v]] = threads[child[v]]
        BY <2>1, <4>1, Zenon
      <4> QED
        BY <4>2, <4>3, <4>4, Zenon
    <3> QED
      BY <3>1, <3>2, Zenon
  <2>8. Listed'
    BY <1>l, <2>1, <2>5, Zenon DEF Listed
  <2> QED
    BY <2>6, <2>7, <2>8, Zenon DEF Births
<1>3. CASE ForkThread(t)
  <2> DEFINE m == Main[child[t]]
  <2>0. pc[t] = "forkthread" /\ child[t] \in Pids
    BY <1>f, <1>3, Zenon DEF ForkThread, ForkOwns
  <2>9. m \in Tids /\ ProcOf[m] = child[t]
    BY <2>0, ProcLifeAssumption, Zenon
  <2>1. tstate[m] = "None" /\ m \in threads[ProcOf[m]] /\ pstate[ProcOf[m]] = "Active"
    BY <1>n, <2>0, <2>9, Zenon DEF Newborn
  <2>2. m # t
    BY <1>u, <2>0, <2>1, <2>9, Zenon DEF Unstarted
  <2>3. /\ pc'[t] = "ret" /\ pc'[m] = "user" /\ \A u \in Tids \ {t, m} : pc'[u] = pc[u]
        /\ tstate'[m] = "Running" /\ \A u \in Tids \ {m} : tstate'[u] = tstate[u]
    BY <1>a, <1>3, <2>9, <2>2, Zenon DEF ForkThread, TypeOK
  <2>4. UNCHANGED <<pstate, threads, child>>
    BY <1>3, Zenon DEF ForkThread, procs
  <2> HIDE DEF m
  <2>5. \A u \in Tids : pc'[u] = "forkthread" => pc[u] = "forkthread" /\ u # t
    BY <2>3, Zenon
  <2>6. \A u \in Tids \ {t} : pc[u] = "forkthread" => child[u] # ProcOf[m]
    <3>1. \A u \in Tids : pc[u] = "forkthread" /\ child[u] = child[t] => u = t
      BY <1>n, <2>0, Zenon DEF Newborn
    <3> QED
      BY <2>9, <3>1, Zenon
  <2>7. Unstarted'
    BY <1>u, <2>0, <2>1, <2>9, <2>3, <2>4 DEF Unstarted
  <2>8. Newborn'
    BY <1>n, <2>3, <2>4, <2>5, <2>6 DEF Newborn
  <2> QED
    BY <1>l, <2>4, <2>7, <2>8, Zenon DEF Births, Listed
<1>4. CASE ~ ForkStep(t)
  <2>1. Moves(t) /\ Fades /\ Falls(t) /\ UNCHANGED <<threads, child>>
    BY <1>4, MovesStep, FadesStep, FallsStep, QuietStep, Zenon
  <2>2. \A u \in Tids : pc'[u] = "forkthread" => pc[u] = "forkthread" /\ u # t
    BY <2>1, Zenon DEF Moves
  <2>3. \A u \in Tids : pc[u] = "forkthread" => child[u] # ProcOf[t] \/ pc[t] = "off"
    BY <1>u, <1>n, Zenon DEF Newborn, Unstarted
  <2>4. Unstarted'
    BY <1>p, <1>u, <2>1 DEF Moves, Fades, Falls, Unstarted, InTable
  <2>5. Newborn'
    BY <1>f, <1>n, <2>1, <2>2, <2>3 DEF Newborn, Fades, Falls, ForkOwns
  <2> QED
    BY <1>l, <2>1, <2>4, <2>5, Zenon DEF Births, Listed
<1> QED
    BY <1>1, <1>2, <1>3, <1>4, Zenon DEF ForkStep

\* fork touches a process that is not in the table yet, and the thread of a new one.
LEMMA ForkFacts ==
    ASSUME Orderly, NEW t \in Tids, ForkStep(t)
    PROVE  /\ UNCHANGED <<snap, vm>>
           /\ \A p \in Pids :
                \/ pstate'[p] = pstate[p] /\ threads'[p] = threads[p]
                \/ pstate[p] \in {"Unborn", "Claimed"} /\ pstate'[p] \in {"Claimed", "Active"}
           /\ \A u \in Tids :
                \/ tstate'[u] = tstate[u]
                \/ /\ tstate[u] = "None" /\ tstate'[u] = "Running" /\ pstate[ProcOf[u]] = "Active"
                   /\ \A v \in Tids : ProcOf[v] = ProcOf[u] => tstate[v] = "None"
           /\ \A u \in Tids :
                \/ pc'[u] = pc[u]
                \/ ~ Spent(u) /\ pc'[u] \in {"fork", "forkthread", "ret"}
                \/ tstate[u] = "None" /\ pstate[ProcOf[u]] = "Active" /\ pc'[u] = "user"
<1>a. TypeOK /\ ForkOwns
    BY Zenon DEF Orderly, IInv
<1>n. Newborn
    BY Zenon DEF Orderly, Births
<1>1. CASE \E q \in Pids : Fork(t, q)
  <2>1. PICK q \in Pids : Fork(t, q)
    BY <1>1, Zenon
  <2>2. ~ Spent(t) /\ pc'[t] \in {"fork", "ret"} /\ \A u \in Tids \ {t} : pc'[u] = pc[u]
    BY <1>a, <2>1, GotoFacts, Zenon DEF Fork, Spent, Exiting
  <2>3. /\ pstate[q] = "Unborn" /\ pstate'[q] = "Claimed"
        /\ \A p \in Pids \ {q} : pstate'[p] = pstate[p]
    BY <1>a, <2>1, Zenon DEF Fork, TypeOK
  <2>4. UNCHANGED <<threads, tstate, snap, vm>>
    BY <2>1, Zenon DEF Fork
  <2> QED
    BY <2>2, <2>3, <2>4
<1>2. CASE ForkProcess(t)
  <2>1. child[t] \in Pids /\ pstate[child[t]] = "Claimed" /\ ~ Spent(t)
    BY <1>a, <1>2, Zenon DEF ForkProcess, ForkOwns, Spent, Exiting
  <2>2. /\ pstate'[child[t]] = "Active"
        /\ \A p \in Pids \ {child[t]} : pstate'[p] = pstate[p] /\ threads'[p] = threads[p]
    BY <1>a, <1>2, <2>1, Zenon DEF ForkProcess, TypeOK
  <2>3. pc'[t] = "forkthread" /\ \A u \in Tids \ {t} : pc'[u] = pc[u]
    BY <1>a, <1>2, GotoFacts, Zenon DEF ForkProcess
  <2>4. UNCHANGED <<tstate, snap, vm>>
    BY <1>2, Zenon DEF ForkProcess
  <2> QED
    BY <2>1, <2>2, <2>3, <2>4
<1>3. CASE ForkThread(t)
  <2> DEFINE m == Main[child[t]]
  <2>0. pc[t] = "forkthread" /\ child[t] \in Pids
    BY <1>a, <1>3, Zenon DEF ForkThread, ForkOwns
  <2>1. m \in Tids /\ ProcOf[m] = child[t]
    BY <2>0, ProcLifeAssumption, Zenon
  <2>2. /\ tstate[m] = "None" /\ pstate[ProcOf[m]] = "Active"
        /\ \A v \in Tids : ProcOf[v] = ProcOf[m] => tstate[v] = "None"
    <3>1. pstate[child[t]] = "Active" /\ \A v \in Tids : ProcOf[v] = child[t] => tstate[v] = "None"
      BY <1>n, <2>0, Zenon DEF Newborn
    <3> HIDE DEF m
    <3> QED
      BY <2>1, <3>1, Zenon
  <2>3. m # t /\ ~ Spent(t)
    <3>1. ~ Spent(t)
      BY <2>0, Zenon DEF Spent, Exiting
    <3>2. tstate[t] # "None"
      BY <2>0, Zenon DEF Orderly, Births, Unstarted
    <3> QED
      BY <2>2, <3>1, <3>2, Zenon
  <2>4. /\ pc'[t] = "ret" /\ pc'[m] = "user" /\ \A u \in Tids \ {t, m} : pc'[u] = pc[u]
        /\ tstate'[m] = "Running" /\ \A u \in Tids \ {m} : tstate'[u] = tstate[u]
    BY <1>a, <1>3, <2>1, <2>3, Zenon DEF ForkThread, TypeOK
  <2>5. UNCHANGED <<pstate, threads, snap, vm>>
    BY <1>3, Zenon DEF ForkThread, procs
  <2> HIDE DEF m
  <2> QED
    BY <2>1, <2>2, <2>3, <2>4, <2>5
<1> QED
    BY <1>1, <1>2, <1>3, Zenon DEF ForkStep

\* fork meets no exit: it touches no process that an exit has seen.
LEMMA ForkEnds ==
    ASSUME Orderly, NEW t \in Tids, ForkStep(t)
    PROVE  Ends'
<1>0. DeadSpent /\ ZombieSpent /\ FreedExiting /\ \A u \in Tids : Alleged(u)
    BY Zenon DEF Orderly, Ends
<1>p. \A u \in Tids : ProcOf[u] \in Pids
    BY ProcLifeAssumption, Zenon
<1>1. UNCHANGED <<snap, vm>>
    BY ForkFacts, Zenon
<1>2. \A p \in Pids :
        \/ pstate'[p] = pstate[p] /\ threads'[p] = threads[p]
        \/ pstate[p] \in {"Unborn", "Claimed"} /\ pstate'[p] \in {"Claimed", "Active"}
    BY ForkFacts, Zenon
<1>3. \A u \in Tids :
        \/ tstate'[u] = tstate[u]
        \/ /\ tstate[u] = "None" /\ tstate'[u] = "Running" /\ pstate[ProcOf[u]] = "Active"
           /\ \A v \in Tids : ProcOf[v] = ProcOf[u] => tstate[v] = "None"
    BY ForkFacts, Zenon
<1>4. \A u \in Tids :
        \/ pc'[u] = pc[u]
        \/ ~ Spent(u) /\ pc'[u] \in {"fork", "forkthread", "ret"}
        \/ tstate[u] = "None" /\ pstate[ProcOf[u]] = "Active" /\ pc'[u] = "user"
    BY ForkFacts, Zenon
<1>5. \A u \in Tids : tstate[u] = "None" => pc[u] = "off"
    BY Zenon DEF Orderly, Births, Unstarted
<1>6. \A u \in Tids : pstate[ProcOf[u]] \in {"Unborn", "Claimed"} => pc[u] = "off"
    BY Zenon DEF Orderly, Births, Unstarted
<1>7. ASSUME NEW u \in Tids, tstate[u] # "None" \/ pstate[ProcOf[u]] # "Active"
      PROVE  (Spent(u) => Spent(u)') /\ (Exiting(u) => Exiting(u)')
    BY <1>3, <1>4, <1>7, Zenon DEF Spent, Exiting
<1>8. DeadSpent'
    BY <1>0, <1>3, <1>7, Zenon DEF DeadSpent
<1>9. \A p \in Pids : pstate'[p] \in {"Zombie", "Gone"} => pstate[p] \in {"Zombie", "Gone"}
    BY <1>2, Zenon
<1>10. ZombieSpent'
    BY <1>0, <1>p, <1>7, <1>9, Zenon DEF ZombieSpent
<1>11. FreedExiting'
    BY <1>0, <1>1, <1>2, <1>p, <1>7 DEF FreedExiting
<1>12. ASSUME NEW u \in Tids PROVE Alleged(u)'
  <2> DEFINE p == ProcOf[u]
  <2>1. p \in Pids
    BY <1>p, Zenon
  <2>2. CASE pc'[u] \in {"fork", "forkthread", "ret", "user", "off"}
    BY <2>2, Zenon DEF Alleged, SeenAll, SeenOver, Marked, Removed
  <2>3. CASE pc'[u] \notin {"fork", "forkthread", "ret", "user", "off"}
    <3>0. pc'[u] = pc[u] /\ pc[u] # "off"
      BY <1>4, <2>3, Zenon
    <3>a. tstate[u] # "None" /\ pstate[p] \notin {"Unborn", "Claimed"}
      BY <1>5, <1>6, <3>0, Zenon
    <3>1. pc'[u] = pc[u] /\ tstate[u] # "None" /\ pstate'[p] = pstate[p]
      BY <1>2, <2>1, <3>0, <3>a, Zenon
    <3>2. \A v \in Tids : ProcOf[v] = p => tstate'[v] = tstate[v]
      BY <1>3, <3>1, Zenon
    <3>3. SeenAll(u)'
      BY <1>0, <1>1, <3>1, <3>2, Zenon DEF Alleged, SeenAll, InTable
    <3>4. SeenOver(u)'
      BY <1>0, <1>1, <3>1, <3>2, Zenon DEF Alleged, SeenOver, InTable
    <3>5. Marked(u)'
      BY <1>0, <3>1, Zenon DEF Alleged, Marked
    <3>6. Removed(u)'
      <4>1. TypeOK
        BY Zenon DEF Orderly, IInv
      <4>2. \A v \in snap[u] : ProcOf[v] \in Pids
        BY <1>p, <4>1, Zenon DEF TypeOK
      <4>3. \A r \in Pids : pstate[r] = "Gone" => pstate'[r] = "Gone" /\ threads'[r] = threads[r]
        BY <1>2, Zenon
      <4>4. Removed(u)
        BY <1>0, Zenon DEF Alleged
      <4> QED
        BY <1>1, <3>1, <4>2, <4>3, <4>4, Zenon DEF Removed
    <3> QED
      BY <3>3, <3>4, <3>5, <3>6, Zenon DEF Alleged
  <2> QED
    BY <2>2, <2>3, Zenon
<1> QED
    BY <1>8, <1>10, <1>11, <1>12, Zenon DEF Ends

\* A thread becomes Dead at the end of its own exit or by the exit_group of a sibling,
\* and leaves THREAD_TABLE when Dead or when its process is gone.
LEMMA KillStep ==
    ASSUME Orderly, NEW t \in Tids, Kernel(t) \/ User(t) \/ Reap(t), ~ ForkStep(t),
           NEW u \in Tids, tstate'[u] \in {"Dead", "Gone"}
    PROVE  \/ tstate[u] \in {"Dead", "Gone"}
           \/ u = t /\ pc[t] = "die"
           \/ u # t /\ pc[t] = "mark" /\ ProcOf[u] = ProcOf[t]
           \/ pstate[ProcOf[u]] = "Gone"
<1>0. TypeOK
    BY Zenon DEF Orderly, IInv
<1>1. DeadSpent /\ Alleged(t)
    BY Zenon DEF Orderly, Ends
<1>4. CASE Die(t)
    BY <1>4, Zenon DEF Die
<1>5. CASE GroupMark(t)
    BY <1>5, Zenon DEF GroupMark, ThreadsOf
<1>6. CASE Forget(snap[t]) /\ pc[t] \in {"orphans", "reap", "reaprevert"}
  <2>1. u \in snap[t] => pstate[ProcOf[u]] = "Gone"
    BY <1>1, <1>6, Zenon DEF Alleged, Removed
  <2>2. tstate'[u] = IF u \in snap[t] THEN "Gone" ELSE tstate[u]
    BY <1>6, Zenon DEF Forget
  <2> QED
    BY <2>1, <2>2, Zenon
<1>7. CASE WaitCommit(t)
  <2>1. tstate[t] # "Gone"
    BY <1>1, <1>7, Zenon DEF WaitCommit, DeadSpent, Spent, Exiting
  <2> QED
    BY <1>0, <1>7, <2>1, Zenon DEF WaitCommit, TypeOK
<1>8. CASE WaitResume(t)
    BY <1>0, <1>8, Zenon DEF WaitResume, TypeOK
<1>9. CASE WaitRevert(t)
    BY <1>0, <1>9, Zenon DEF WaitRevert, TypeOK
<1>10. CASE Reap(t)
    BY <1>0, <1>10, Zenon DEF Reap, TypeOK
<1>11. CASE tstate' = tstate
    BY <1>11, Zenon
<1> QED
    BY <1>4, <1>5, <1>6, <1>7, <1>8, <1>9, <1>10, <1>11, Zenon DEF Kernel, User, ForkStep,
       UserReturn, DeadPreempted, ExitCall, ExitTids, ExitAllDead, ExitZombie, FreeMemory,
       Release, GroupCall, GroupZombie, GroupOrphans, WaitCall, WaitPoll, WaitRecheck,
       WaitRetry, Try, WaitGiveUp, WaitReap

\* A thread that a step makes Dead or Gone is on its way out, or in user mode and makes
\* no fork or waitpid.
LEMMA DeathsStep ==
    ASSUME Alone, Orderly, NEW t \in Tids, Kernel(t) \/ User(t) \/ Reap(t), ~ ForkStep(t),
           NEW u \in Tids, tstate'[u] \in {"Dead", "Gone"}
    PROVE  Spent(u) \/ (u # t /\ pc[u] = "user" /\ u \notin Forks \union Waits)
<1>0. CallsAllowed
    BY Zenon DEF Orderly
<1>1. DeadSpent /\ ZombieSpent
    BY Zenon DEF Orderly, Ends
<1>2. CASE tstate[u] \in {"Dead", "Gone"} \/ pstate[ProcOf[u]] = "Gone"
    BY <1>1, <1>2, Zenon DEF DeadSpent, ZombieSpent
<1>3. CASE u = t /\ pc[t] = "die"
    BY <1>3, Zenon DEF Spent, Exiting
<1>4. CASE u # t /\ pc[t] = "mark" /\ ProcOf[u] = ProcOf[t]
  <2>1. t \in GroupExits
    BY <1>0, <1>4, Zenon DEF CallsAllowed, GroupPCs
  <2>2. u \notin Forks \union Waits
    BY <1>4, <2>1, Zenon DEF Alone
  <2>3. pc[u] \notin ForkPCs /\ pc[u] \notin WaitPCs /\ pc[u] # "ret" /\ pc[u] \in PCs
    BY <1>0, <2>2, Zenon DEF CallsAllowed, Orderly, IInv, TypeOK
  <2>4. Exiting(u) \/ pc[u] = "user"
    BY <2>3, Zenon DEF ForkPCs, WaitPCs, PCs, Exiting
  <2> QED
    BY <1>4, <2>2, <2>4, Zenon DEF Spent
<1> QED
    BY <1>2, <1>3, <1>4, KillStep, Zenon

\* From user mode a Dead thread that makes no fork or waitpid goes into an exit or off.
LEMMA OutsStep ==
    ASSUME Orderly, NEW t \in Tids, Kernel(t) \/ User(t) \/ Reap(t), ~ ForkStep(t),
           Spent(t), ~ Exiting(t)
    PROVE  Spent(t)'
<1>0. TypeOK
    BY Zenon DEF Orderly, IInv
<1>1. pc[t] = "user" /\ t \notin Forks \union Waits /\ tstate[t] \in {"Dead", "Gone"}
    BY Zenon DEF Spent
<1>2. DeadPreempted(t) \/ ExitCall(t) \/ GroupCall(t)
    BY <1>1, Zenon DEF Kernel, User, ForkStep, UserReturn, Reap, ForkProcess, ForkThread,
       ExitTids, ExitAllDead, ExitZombie, FreeMemory, Die, GroupMark, GroupZombie, GroupOrphans,
       WaitCall, WaitPoll, WaitRecheck, WaitRetry, WaitCommit, WaitGiveUp, WaitResume, WaitReap,
       WaitRevert
<1>3. CASE DeadPreempted(t) \/ GroupCall(t)
    BY <1>0, <1>3, GotoFacts, Zenon DEF DeadPreempted, GroupCall, Spent, Exiting
<1>4. CASE ExitCall(t)
    BY <1>0, <1>1, <1>4, GotoFacts, Zenon DEF ExitCall, Spent, Exiting
<1> QED
    BY <1>2, <1>3, <1>4, Zenon

\* A thread that is spent stays so.
LEMMA SpentStep ==
    ASSUME Orderly, NEW t \in Tids, Kernel(t) \/ User(t) \/ Reap(t), ~ ForkStep(t)
    PROVE  /\ \A u \in Tids : Spent(u) => Spent(u)'
           /\ \A u \in Tids : Exiting(u) => Exiting(u)'
<1>1. Moves(t) /\ Fades
    BY MovesStep, FadesStep, Zenon
<1>2. \A u \in Tids : Exiting(u) => Exiting(u)'
    BY <1>1, Zenon DEF Moves, Exiting
<1>3. ASSUME NEW u \in Tids, Spent(u), ~ Exiting(u) PROVE Spent(u)'
  <2>1. CASE u = t
    BY <1>3, <2>1, OutsStep, Zenon
  <2>2. CASE u # t
    BY <1>1, <1>3, <2>2, Zenon DEF Moves, Fades, Spent
  <2> QED
    BY <2>1, <2>2, Zenon
<1> QED
    BY <1>2, <1>3, Zenon DEF Spent

\* What another thread has seen stays so.
LEMMA AllegedOther ==
    ASSUME Orderly, NEW t \in Tids, Kernel(t) \/ User(t) \/ Reap(t), ~ ForkStep(t),
           NEW u \in Tids \ {t}
    PROVE  Alleged(u)'
<1>0. Alleged(u) /\ ProcOf[u] \in Pids
    BY ProcLifeAssumption, Zenon DEF Orderly, Ends
<1>1. Moves(t) /\ Fades /\ Falls(t) /\ UNCHANGED threads /\ snap'[u] = snap[u]
    BY MovesStep, FadesStep, FallsStep, QuietStep, Zenon
<1>2. pc'[u] = pc[u]
    BY <1>1, Zenon DEF Moves
<1>3. \A v \in Tids : ProcOf[v] = ProcOf[u] /\ tstate[v] = "None" =>
        tstate'[v] = "None" \/ (tstate'[v] = "Gone" /\ pstate[ProcOf[u]] = "Gone")
  <2>1. \A v \in Tids : tstate[v] = "None" /\ tstate'[v] # "None" =>
          tstate'[v] = "Gone" /\ pstate[ProcOf[v]] = "Gone"
    BY <1>1, Zenon DEF Fades
  <2> QED
    BY <2>1, Zenon
<1>4. \A v \in Tids : tstate[v] \in {"Dead", "Gone"} => tstate'[v] \in {"Dead", "Gone"}
    BY <1>1, Zenon DEF Fades
<1>5. InTable(ProcOf[u])' => InTable(ProcOf[u])
    BY <1>0, <1>1, Zenon DEF Falls, InTable
<1>6. InTable(ProcOf[u]) => pstate[ProcOf[u]] # "Gone"
    BY Zenon DEF InTable
<1>7. SeenAll(u)'
    BY <1>0, <1>1, <1>2, <1>3, <1>5, <1>6, Zenon DEF Alleged, SeenAll
<1>8. SeenOver(u)'
    BY <1>0, <1>2, <1>3, <1>4, <1>5, Zenon DEF Alleged, SeenOver, Over
<1>9. Marked(u)'
    BY <1>0, <1>1, <1>2, Zenon DEF Alleged, Marked, Falls, InTable
<1>10. Removed(u)'
  <2>1. \A v \in snap[u] : ProcOf[v] \in Pids
    BY ProcLifeAssumption, Zenon DEF Orderly, IInv, TypeOK
  <2> QED
    BY <1>0, <1>1, <1>2, <2>1, Zenon DEF Alleged, Removed, Falls, InTable
<1> QED
    BY <1>7, <1>8, <1>9, <1>10, Zenon DEF Alleged

\* Each section of an exit or of waitpid sees what the next one relies on.
LEMMA AllegedSelf ==
    ASSUME Orderly, NEW t \in Tids, Kernel(t) \/ User(t) \/ Reap(t), ~ ForkStep(t)
    PROVE  Alleged(t)'
<1>0. TypeOK
    BY Zenon DEF Orderly, IInv
<1>a. Alleged(t)
    BY Zenon DEF Orderly, Ends
<1>u. Unstarted
    BY Zenon DEF Orderly, Births
<1>l. Listed
    BY Zenon DEF Orderly, Births
<1>p. ProcOf[t] \in Pids
    BY ProcLifeAssumption, Zenon
<1>1. ASSUME NEW l, Goto(t, l),
             l \notin {"alldead", "zombie", "group", "orphans", "free", "reap", "reaprevert"}
      PROVE  Alleged(t)'
  <2>1. pc'[t] = l
    BY <1>0, <1>1, GotoFacts, Zenon
  <2> QED
    BY <1>1, <2>1, Zenon DEF Alleged, SeenAll, SeenOver, Marked, Removed
<1>2. CASE \/ UserReturn(t) \/ DeadPreempted(t) \/ ExitCall(t)
           \/ FreeMemory(t) \/ Die(t) \/ GroupCall(t)
    BY <1>1, <1>2, Zenon DEF UserReturn, DeadPreempted, ExitCall, FreeMemory, Release, Die,
       GroupCall
<1>3. CASE ExitTids(t)
  <2>1. pc'[t] = "alldead" /\ pstate' = pstate /\ tstate' = tstate
    BY <1>0, <1>3, GotoFacts, Zenon DEF ExitTids, procs
  <2>2. InTable(ProcOf[t]) => snap'[t] = threads[ProcOf[t]]
    BY <1>0, <1>3, Zenon DEF ExitTids, TypeOK
  <2>3. SeenAll(t)'
    BY <1>u, <2>1, <2>2, Zenon DEF SeenAll, InTable, Unstarted
  <2> QED
    BY <2>1, <2>3, Zenon DEF Alleged, SeenOver, Marked, Removed
<1>4. CASE ExitAllDead(t)
  <2>1. pstate' = pstate /\ tstate' = tstate /\ pc[t] = "alldead"
    BY <1>4, Zenon DEF ExitAllDead, procs
  <2>2. CASE \A u \in snap[t] \ {t} : tstate[u] \in {"Dead", "Gone"}
    <3>1. pc'[t] = "zombie"
      BY <1>0, <1>4, <2>2, GotoFacts, Zenon DEF ExitAllDead
    <3>2. SeenOver(t)'
      BY <1>a, <2>1, <2>2, <3>1, Zenon DEF Alleged, SeenAll, SeenOver, InTable, Over
    <3> QED
      BY <3>1, <3>2, Zenon DEF Alleged, SeenAll, Marked, Removed
  <2>3. CASE ~ \A u \in snap[t] \ {t} : tstate[u] \in {"Dead", "Gone"}
    <3>1. Goto(t, "die")
      BY <1>4, <2>3, Zenon DEF ExitAllDead
    <3> QED
      BY <1>1, <3>1, Zenon
  <2> QED
    BY <2>2, <2>3, Zenon
<1>5. ASSUME pc[t] # "off" PROVE InTable(ProcOf[t]) \/ pstate[ProcOf[t]] = "Gone"
    BY <1>0, <1>5, <1>p, <1>u, Zenon DEF Unstarted, InTable, TypeOK
<1>6. CASE ExitZombie(t)
  <2>1. pc'[t] = "free" /\ pc[t] = "zombie"
    BY <1>0, <1>6, GotoFacts, Zenon DEF ExitZombie
  <2>2. pstate'[ProcOf[t]] = IF InTable(ProcOf[t]) THEN "Zombie" ELSE pstate[ProcOf[t]]
    BY <1>0, <1>6, <1>p, Zenon DEF ExitZombie, TypeOK
  <2> QED
    BY <1>5, <2>1, <2>2, Zenon DEF Alleged, SeenAll, SeenOver, Marked, Removed
<1>7. CASE GroupMark(t)
  <2>1. pc'[t] = "group"
    BY <1>0, <1>7, GotoFacts, Zenon DEF GroupMark
  <2>2. SeenOver(t)'
    BY <1>0, <1>7, Zenon DEF GroupMark, SeenOver, ThreadsOf, Over
  <2> QED
    BY <2>1, <2>2, Zenon DEF Alleged, SeenAll, Marked, Removed
<1>8. CASE GroupZombie(t)
  <2> DEFINE p == ProcOf[t]
             gone == Orphans(p)
  <2>1. pc'[t] = "orphans" /\ pc[t] = "group" /\ threads' = threads
    BY <1>0, <1>8, GotoFacts, Zenon DEF GroupZombie
  <2>2. \A q \in gone : q \in Pids /\ q # p
    BY Zenon DEF Orphans
  <2>3. /\ \A q \in gone : pstate'[q] = "Gone"
        /\ pstate'[p] = IF InTable(p) THEN "Zombie" ELSE pstate[p]
    BY <1>8, <1>p, <2>2, Zenon DEF GroupZombie
  <2>4. snap'[t] = UNION {threads[q] : q \in gone}
    BY <1>0, <1>8, Zenon DEF GroupZombie, TypeOK
  <2> HIDE DEF gone, p
  <2>5. \A u \in snap'[t] : \E q \in gone : u \in threads[q]
    BY <2>4, Zenon
  <2>6. \A q \in gone : \A u \in threads[q] : ProcOf[u] = q
    BY <1>0, <1>l, <2>2, Zenon DEF Listed, TypeOK
  <2>7. Removed(t)'
    BY <2>1, <2>3, <2>5, <2>6, Zenon DEF Removed
  <2>8. Marked(t)'
    BY <1>5, <2>1, <2>3, Zenon DEF Marked, p
  <2> QED
    BY <2>1, <2>7, <2>8, Zenon DEF Alleged, SeenAll, SeenOver
<1>9. CASE GroupOrphans(t)
  <2>1. pc'[t] = "free" /\ pc[t] = "orphans" /\ pstate' = pstate
    BY <1>0, <1>9, GotoFacts, Zenon DEF GroupOrphans, procs
  <2> QED
    BY <1>a, <2>1, Zenon DEF Alleged, SeenAll, SeenOver, Marked, Removed
<1>10. CASE WaitPoll(t) \/ WaitRecheck(t) \/ WaitRetry(t)
  <2>1. \/ \E l \in {"ret", "commit", "parked"} : Goto(t, l)
        \/ \E l \in {"reap", "reaprevert"}, q \in Pids : Collect(t, q) /\ Goto(t, l)
    BY <1>10, Zenon DEF WaitPoll, WaitRecheck, WaitRetry, Try
  <2>2. ASSUME NEW l \in {"reap", "reaprevert"}, NEW q \in Pids, Collect(t, q), Goto(t, l)
        PROVE  Alleged(t)'
    <3>1. pc'[t] = l
      BY <1>0, <2>2, GotoFacts, Zenon
    <3>2. pstate'[q] = "Gone" /\ threads' = threads /\ snap'[t] = threads[q]
      BY <1>0, <2>2, Zenon DEF Collect, TypeOK
    <3>3. \A u \in threads[q] : ProcOf[u] = q
      BY <1>0, <1>l, Zenon DEF Listed, TypeOK
    <3> QED
      BY <3>1, <3>2, <3>3, Zenon DEF Alleged, SeenAll, SeenOver, Marked, Removed
  <2> QED
    BY <1>1, <2>1, <2>2, Zenon
<1>11. CASE WaitCommit(t) \/ WaitGiveUp(t) \/ WaitResume(t) \/ WaitReap(t) \/ WaitRevert(t)
    BY <1>1, <1>11, Zenon DEF WaitCommit, WaitGiveUp, WaitResume, WaitReap, WaitRevert
<1>12. CASE \E w \in Wants, b \in BOOLEAN : WaitCall(t, w, b)
    BY <1>1, <1>12, Zenon DEF WaitCall
<1>13. CASE Reap(t)
    BY <1>13, Zenon DEF Reap, Alleged, SeenAll, SeenOver, Marked, Removed
<1> QED
    BY <1>2, <1>3, <1>4, <1>6, <1>7, <1>8, <1>9, <1>10, <1>11, <1>12, <1>13, Zenon DEF Kernel,
       User, ForkStep

\* free_process_memory runs past the Zombie mark, when no sibling is in user mode.
LEMMA FreedStep ==
    ASSUME Orderly, NEW t \in Tids, Kernel(t) \/ User(t) \/ Reap(t), ~ ForkStep(t)
    PROVE  FreedExiting'
<1>0. TypeOK
    BY Zenon DEF Orderly, IInv
<1>1. FreedExiting /\ ZombieSpent /\ Alleged(t)
    BY Zenon DEF Orderly, Ends
<1>p. \A u \in Tids : ProcOf[u] \in Pids
    BY ProcLifeAssumption, Zenon
<1>2. Falls(t) /\ \A u \in Tids : Exiting(u) => Exiting(u)'
    BY FallsStep, SpentStep, Zenon
<1>3. \A p \in Pids : pstate[p] \in {"Zombie", "Gone"} => pstate'[p] \in {"Zombie", "Gone"}
    BY <1>2, Zenon DEF Falls
<1>4. CASE vm' = vm
    BY <1>1, <1>2, <1>3, <1>4, <1>p, Zenon DEF FreedExiting
<1>5. CASE FreeMemory(t)
  <2>1. \A p \in Pids : vm'[p] # vm[p] => p = ProcOf[t] /\ InTable(p)
    BY <1>0, <1>5, Zenon DEF FreeMemory, Release, TypeOK
  <2>2. pstate[ProcOf[t]] \in {"Zombie", "Gone"} /\ Exiting(t)
    BY <1>1, <1>5, Zenon DEF FreeMemory, Alleged, Marked, Exiting
  <2>3. \A u \in Tids \ {t} : ProcOf[u] = ProcOf[t] /\ InTable(ProcOf[t]) => pc[u] # "user"
    BY <1>5, Zenon DEF FreeMemory, ThreadsOf
  <2>4. \A u \in Tids : ProcOf[u] = ProcOf[t] /\ InTable(ProcOf[t]) => Exiting(u)
    BY <1>1, <2>2, <2>3, Zenon DEF ZombieSpent, Spent
  <2> QED
    BY <1>1, <1>2, <1>3, <1>p, <2>1, <2>2, <2>4, Zenon DEF FreedExiting
<1> QED
    BY <1>4, <1>5, Zenon DEF Kernel, User, ForkStep, procs, UserReturn, DeadPreempted, Reap,
       ExitCall, ExitTids, ExitAllDead, ExitZombie, Die, GroupCall, GroupMark, GroupZombie,
       GroupOrphans, WaitCall, WaitPoll, WaitRecheck, WaitRetry, Try, Collect, WaitCommit,
       WaitResume, WaitRevert, WaitGiveUp, WaitReap

\* Every step keeps what the exits rely on.
LEMMA EndsStep ==
    ASSUME Alone, Orderly, NEW t \in Tids, Kernel(t) \/ User(t) \/ Reap(t)
    PROVE  Ends'
<1>1. CASE ForkStep(t)
    BY <1>1, ForkEnds, Zenon
<1>2. CASE ~ ForkStep(t)
  <2>1. \A u \in Tids : Spent(u) => Spent(u)'
    BY <1>2, SpentStep, Zenon
  <2>2. Moves(t) /\ Falls(t)
    BY <1>2, MovesStep, FallsStep, Zenon
  <2>3. DeadSpent'
    <3> SUFFICES ASSUME NEW u \in Tids, tstate'[u] \in {"Dead", "Gone"} PROVE Spent(u)'
      BY Zenon DEF DeadSpent
    <3>1. CASE Spent(u)
      BY <2>1, <3>1, Zenon
    <3>2. CASE u # t /\ pc[u] = "user" /\ u \notin Forks \union Waits
      BY <2>2, <3>2, Zenon DEF Moves, Spent
    <3> QED
      BY <1>2, <3>1, <3>2, DeathsStep, Zenon
  <2>4. ZombieSpent'
    <3> SUFFICES ASSUME NEW u \in Tids, pstate'[ProcOf[u]] \in {"Zombie", "Gone"} PROVE Spent(u)'
      BY Zenon DEF ZombieSpent
    <3>1. ZombieSpent /\ DeadSpent /\ SeenOver(t) /\ Unstarted
      BY Zenon DEF Orderly, Ends, Alleged, Births
    <3>2. CASE pstate[ProcOf[u]] \in {"Zombie", "Gone"}
      BY <2>1, <3>1, <3>2, Zenon DEF ZombieSpent
    <3>3. CASE ProcOf[u] = ProcOf[t] /\ InTable(ProcOf[t]) /\ pc[t] \in {"zombie", "group"}
      <4>1. CASE u = t
        BY <2>1, <3>3, <4>1, Zenon DEF Spent, Exiting
      <4>2. CASE u # t
        <5>1. tstate[u] \in {"None", "Dead", "Gone"}
          BY <3>1, <3>3, <4>2, Zenon DEF SeenOver, Over
        <5>2. tstate[u] = "None" => Spent(u)
          BY <3>1, Zenon DEF Unstarted, Spent, Exiting
        <5> QED
          BY <2>1, <3>1, <5>1, <5>2, Zenon DEF DeadSpent
      <4> QED
        BY <4>1, <4>2, Zenon
    <3>4. ProcOf[u] \in Pids
      BY ProcLifeAssumption, Zenon
    <3> QED
      BY <2>2, <3>2, <3>3, <3>4, Zenon DEF Falls
  <2>5. FreedExiting' /\ \A u \in Tids : Alleged(u)'
    BY <1>2, FreedStep, AllegedOther, AllegedSelf, Zenon
  <2> QED
    BY <2>3, <2>4, <2>5, Zenon DEF Ends
<1> QED
    BY <1>1, <1>2, Zenon

\* The initial state satisfies the invariant of orderly exits,
LEMMA InitOrderly == Init => Orderly
<1> SUFFICES ASSUME Init PROVE Orderly
    BY Zenon
<1>p. \A u \in Tids : ProcOf[u] \in Pids
    BY ProcLifeAssumption, Zenon
<1>1. IInv
    BY InitIInv, Zenon
<1>2. \A t \in Tids : pc[t] \in {"user", "off"}
    BY Zenon DEF Init
<1>3. CallsAllowed
    BY <1>2, Zenon DEF CallsAllowed, ForkPCs, WaitPCs, ExitPCs, GroupPCs
<1>4. Unstarted
    BY <1>p, Zenon DEF Init, Unstarted, ThreadsOf
<1>5. Newborn
    BY <1>2, Zenon DEF Newborn
<1>6. Listed
    BY Zenon DEF Init, Listed, ThreadsOf
<1>7. \A t \in Tids : Alleged(t)
    BY <1>2, Zenon DEF Alleged, SeenAll, SeenOver, Marked, Removed
<1>8. DeadSpent
    BY Zenon DEF Init, DeadSpent
<1>9. ZombieSpent
    BY <1>p, Zenon DEF Init, ZombieSpent
<1>10. FreedExiting
    BY <1>p, Zenon DEF Init, FreedExiting
<1> QED
    BY <1>1, <1>3, <1>4, <1>5, <1>6, <1>7, <1>8, <1>9, <1>10, Zenon DEF Orderly, Births, Ends

\* and every step preserves it.
LEMMA NextOrderly ==
    ASSUME Alone, Orderly, [Next]_vars
    PROVE  Orderly'
<1>1. IInv'
    BY NextIInv, Zenon DEF Orderly
<1>2. CASE Next
  <2>1. PICK t \in Tids : Kernel(t) \/ User(t) \/ Reap(t)
    BY <1>2, Zenon DEF Next
  <2>2. CallsAllowed'
    BY <2>1, CallsStep, Zenon
  <2>3. Births'
    BY <2>1, BirthsStep, Zenon
  <2>4. Ends'
    BY <2>1, EndsStep, Zenon
  <2> QED
    BY <1>1, <2>2, <2>3, <2>4, Zenon DEF Orderly
<1>3. CASE UNCHANGED vars
  <2>1. UNCHANGED <<pstate, threads, vm, tstate, pc, snap, child>>
    BY <1>3, Zenon DEF vars, procs
  <2>2. CallsAllowed'
    BY <2>1, Zenon DEF Orderly, CallsAllowed
  <2>3. Births'
    <3>1. Unstarted'
      BY <2>1, Zenon DEF Orderly, Births, Unstarted
    <3>2. Newborn'
      BY <2>1, Zenon DEF Orderly, Births, Newborn
    <3>3. Listed'
      BY <2>1, Zenon DEF Orderly, Births, Listed
    <3> QED
      BY <3>1, <3>2, <3>3, Zenon DEF Births
  <2>4. \A t \in Tids : (Spent(t) => Spent(t)') /\ (Exiting(t) => Exiting(t)')
    BY <2>1, Zenon DEF Spent, Exiting
  <2>5. DeadSpent' /\ ZombieSpent' /\ FreedExiting'
    BY <2>1, <2>4, Zenon DEF Orderly, Ends, DeadSpent, ZombieSpent, FreedExiting
  <2>6. \A t \in Tids : Alleged(t)'
    <3> TAKE t \in Tids
    <3>1. SeenAll(t)' /\ SeenOver(t)'
      BY <2>1, Zenon DEF Orderly, Ends, Alleged, SeenAll, SeenOver, InTable
    <3>2. Marked(t)' /\ Removed(t)'
      BY <2>1, Zenon DEF Orderly, Ends, Alleged, Marked, Removed
    <3> QED
      BY <3>1, <3>2, Zenon DEF Alleged
  <2> QED
    BY <1>1, <2>2, <2>3, <2>5, <2>6, Zenon DEF Orderly, Ends
<1> QED
    BY <1>2, <1>3, Zenon

\* When exit_thread or exit_group_inner has made a process a Zombie, its threads are Dead or
\* inside an exit, if no sibling of an exit_group caller forks or waits: all_dead and the
\* Dead marks are read in one section and acted on in a later one, and still hold there.
THEOREM ZombieThreadsOver ==
    ASSUME Alone PROVE Spec => []ZombieIsDead
<1>1. Orderly => ZombieIsDead
    BY Zenon DEF Orderly, Ends, ZombieSpent, Spent, ZombieIsDead
<1>2. Orderly /\ [Next]_vars => Orderly'
    BY NextOrderly, Zenon
<1> QED
    BY <1>1, <1>2, InitOrderly, PTL DEF Spec

\* Under the same hypothesis no thread runs in user mode on page tables that
\* free_process_memory has freed.
THEOREM NoRunOnFreed ==
    ASSUME Alone PROVE Spec => []FreedNotRun
<1>1. Orderly => FreedNotRun
    BY Zenon DEF Orderly, Ends, FreedExiting, Exiting, FreedNotRun
<1>2. Orderly /\ [Next]_vars => Orderly'
    BY NextOrderly, Zenon
<1> QED
    BY <1>1, <1>2, InitOrderly, PTL DEF Spec

-----------------------------------------------------------------------------
\* Only fork and the adoption of exit_group set the parent of a process.
LEMMA ParentStep ==
    ASSUME NEW t \in Tids, Kernel(t) \/ User(t) \/ Reap(t), ~ ForkProcess(t), ~ GroupZombie(t)
    PROVE  parent' = parent
    BY Zenon DEF Kernel, User, procs, UserReturn, DeadPreempted, Reap, Fork, ForkThread,
       ExitCall, ExitTids, ExitAllDead, ExitZombie, FreeMemory, Release, Die, GroupCall,
       GroupMark, GroupOrphans, WaitCall, WaitPoll, WaitRecheck, WaitRetry, Try, Collect,
       WaitCommit, WaitResume, WaitRevert, WaitGiveUp, WaitReap

\* A thread that forks leaves by its own exit_group only.
LEMMA KeeperStep ==
    ASSUME Adoptive, Orderly, NEW t \in Tids, Kernel(t) \/ User(t) \/ Reap(t), ~ GroupZombie(t),
           NEW p \in Pids, pstate[p] = "Active", Keeper(p)
    PROVE  Keeper(p)'
<1>1. PICK w \in Forks : /\ ProcOf[w] = p /\ tstate[w] \notin Over
                        /\ pc[w] \notin {"orphans", "free", "die", "off"}
    BY Zenon DEF Keeper
<1>2. w \in Tids
    BY ProcLifeAssumption, Zenon
<1>0. TypeOK /\ CallsAllowed
    BY Zenon DEF Orderly, IInv
<1>3. pc[w] \notin {"tids", "alldead", "zombie"}
    BY <1>0, <1>2, Zenon DEF Adoptive, CallsAllowed, ExitPCs
<1>4. CASE ForkStep(t)
  <2>1. \/ tstate'[w] = tstate[w]
        \/ tstate[w] = "None" /\ tstate'[w] = "Running"
    BY <1>2, <1>4, ForkFacts, Zenon
  <2>2. \/ pc'[w] = pc[w]
        \/ pc'[w] \in {"fork", "forkthread", "ret", "user"}
    BY <1>2, <1>4, ForkFacts, Zenon
  <2> QED
    BY <1>1, <2>1, <2>2, Zenon DEF Keeper, Over
<1>5. CASE ~ ForkStep(t)
  <2>1. tstate'[w] \notin Over
    <3>1. tstate'[w] # "None"
      BY <1>1, <1>2, <1>5, FadesStep, Zenon DEF Fades, Over
    <3>2. ASSUME w # t, pc[t] = "mark", ProcOf[w] = ProcOf[t] PROVE FALSE
      BY <1>0, <3>2, Zenon DEF CallsAllowed, GroupPCs, Adoptive, Alone
    <3>3. tstate'[w] \notin {"Dead", "Gone"}
      BY <1>1, <1>2, <1>5, <3>2, KillStep, Zenon DEF Over
    <3> QED
      BY <3>1, <3>3, Zenon DEF Over
  <2>2. pc'[w] \notin {"orphans", "free", "die", "off"}
    <3>1. CASE w # t
      BY <1>1, <1>2, <1>5, <3>1, MovesStep, Zenon DEF Moves
    <3>2. CASE w = t
      <4>1. ASSUME NEW l, Goto(t, l), l \notin {"orphans", "free", "die", "off"}
            PROVE  pc'[w] \notin {"orphans", "free", "die", "off"}
        BY <1>0, <3>2, <4>1, GotoFacts, Zenon
      <4>2. pc[t] \notin {"tids", "alldead", "zombie", "orphans", "free", "die", "off"}
        BY <1>1, <1>3, <3>2, Zenon
      <4>3. tstate[t] \notin {"Dead", "Gone"}
        BY <1>1, <3>2, Zenon DEF Over
      <4>4. CASE Reap(t)
        BY <4>3, <4>4, Zenon DEF Reap
      <4>5. CASE User(t)
        BY <1>5, <4>1, <4>3, <4>5, Zenon DEF User, ForkStep, ExitCall, GroupCall, WaitCall
      <4>6. CASE UserReturn(t) \/ DeadPreempted(t) \/ GroupMark(t)
        BY <4>1, <4>3, <4>6, Zenon DEF UserReturn, DeadPreempted, GroupMark
      <4>7. CASE WaitPoll(t) \/ WaitRecheck(t) \/ WaitRetry(t)
        BY <4>1, <4>7, Zenon DEF WaitPoll, WaitRecheck, WaitRetry, Try
      <4>8. CASE WaitCommit(t) \/ WaitGiveUp(t) \/ WaitResume(t) \/ WaitReap(t) \/ WaitRevert(t)
        BY <4>1, <4>8, Zenon DEF WaitCommit, WaitGiveUp, WaitResume, WaitReap, WaitRevert
      <4> QED
        BY <1>5, <4>2, <4>4, <4>5, <4>6, <4>7, <4>8, Zenon DEF Kernel, ForkStep, ExitTids,
           ExitAllDead, ExitZombie, FreeMemory, Die, GroupOrphans
    <3> QED
      BY <3>1, <3>2, Zenon
  <2> QED
    BY <1>1, <2>1, <2>2, Zenon DEF Keeper
<1> QED
    BY <1>4, <1>5, Zenon

\* exit(2) makes no process with children a Zombie.
LEMMA ParentStays ==
    ASSUME Adoptive, Orderly, NEW t \in Tids, Kernel(t) \/ User(t) \/ Reap(t), ~ GroupZombie(t),
           NEW p \in Pids, pstate[p] = "Active", p = InitPid \/ Keeper(p)
    PROVE  pstate'[p] = "Active"
<1>1. CASE ForkStep(t)
    BY <1>1, ForkFacts, Zenon
<1>2. CASE ~ ForkStep(t)
  <2>1. Falls(t)
    BY <1>2, FallsStep, Zenon
  <2>2. pc[t] # "group"
    BY <1>2, Zenon DEF Kernel, User, Reap, ForkStep, UserReturn, DeadPreempted, ExitCall,
       ExitTids, ExitAllDead, ExitZombie, FreeMemory, Die, GroupCall, GroupMark, GroupOrphans,
       WaitCall, WaitPoll, WaitRecheck, WaitRetry, WaitCommit, WaitGiveUp, WaitResume, WaitReap,
       WaitRevert
  <2>3. ASSUME pc[t] = "zombie", InTable(p), p = ProcOf[t] PROVE FALSE
    <3>1. t \in Exits
      BY <2>3, Zenon DEF Orderly, CallsAllowed, ExitPCs
    <3>2. p # InitPid /\ t \notin Forks
      BY <2>3, <3>1, Zenon DEF Adoptive
    <3>3. PICK w \in Forks : ProcOf[w] = p /\ tstate[w] \notin Over
      BY <3>2, Zenon DEF Keeper
    <3>4. w \in Tids
      BY ProcLifeAssumption, Zenon
    <3>5. SeenOver(t)
      BY Zenon DEF Orderly, Ends, Alleged
    <3> QED
      BY <2>3, <3>2, <3>3, <3>4, <3>5, Zenon DEF SeenOver
  <2> QED
    BY <2>1, <2>2, <2>3, Zenon DEF Falls
<1> QED
    BY <1>1, <1>2, Zenon

\* A process whose parent p is there after a step is Kept.
LEMMA KeptBy ==
    ASSUME NEW q \in Pids, NEW p \in Pids, parent'[q] = p, p # q, pstate'[p] = "Active",
           p # InitPid => Keeper(p)'
    PROVE  Kept(q)'
    BY Zenon DEF Kept, Keeper

\* exit_group: the children of the process are adopted by PID 1, or leave with it.
LEMMA GroupParents ==
    ASSUME Adoptive, Orderly, Parents, NEW t \in Tids, GroupZombie(t)
    PROVE  Parents'
<1> DEFINE p == ProcOf[t]
<1>0. TypeOK /\ CallsAllowed
    BY Zenon DEF Orderly, IInv
<1>1. pc[t] = "group" /\ p # InitPid /\ p \in Pids /\ InitPid \in Pids
    BY <1>0, ProcLifeAssumption, Zenon DEF GroupZombie, CallsAllowed, GroupPCs, Adoptive
<1>2. pstate[InitPid] = "Active"
    BY Zenon DEF Parents
<1>3. \A q \in Pids : q \in Orphans(p) <=> q # p /\ pstate[q] = "Zombie" /\ parent[q] = p
    BY <1>1, <1>2, Zenon DEF Orphans
<1>4. /\ \A q \in Pids : pstate'[q] = IF q \in Orphans(p) THEN "Gone"
                                      ELSE IF q = p /\ InTable(p) THEN "Zombie" ELSE pstate[q]
      /\ \A q \in Pids :
            parent'[q] = IF parent[q] = p /\ pstate[q] = "Active" THEN InitPid ELSE parent[q]
    BY Zenon DEF GroupZombie, Adopt
<1>5. tstate' = tstate /\ \A u \in Tids \ {t} : pc'[u] = pc[u]
    BY <1>0, GotoFacts, Zenon DEF GroupZombie
<1> HIDE DEF p
<1>6. \A q \in Pids : q # p /\ pstate[q] = "Active" => pstate'[q] = "Active"
    BY <1>3, <1>4, Zenon
<1>7. ASSUME NEW q \in Pids, q # p, Keeper(q) PROVE Keeper(q)'
  <2>1. PICK w \in Forks : /\ ProcOf[w] = q /\ tstate[w] \notin Over
                          /\ pc[w] \notin {"orphans", "free", "die", "off"}
    BY <1>7, Zenon DEF Keeper
  <2>2. w \in Tids /\ w # t
    BY <1>7, <2>1, ProcLifeAssumption, Zenon DEF p
  <2> QED
    BY <1>5, <2>1, <2>2, Zenon DEF Keeper
<1>8. ASSUME NEW q \in Pids \ {InitPid}, InTable(q)'
      PROVE  Kept(q)'
  <2>1. InTable(q) /\ q \notin Orphans(p)
    BY <1>4, <1>8, Zenon DEF InTable
  <2>2. PICK r \in Pids : /\ parent[q] = r /\ r # q /\ pstate[r] = "Active"
                          /\ r # InitPid => Keeper(r)
    BY <2>1, Zenon DEF Parents, Kept
  <2>3. CASE parent[q] = p
    <3>1. pstate[q] = "Active"
      BY <1>3, <2>1, <2>2, <2>3, Zenon DEF InTable
    <3>2. parent'[q] = InitPid
      BY <1>4, <2>3, <3>1, Zenon
    <3> QED
      BY <1>1, <1>2, <1>6, <3>2, Zenon DEF Kept
  <2>4. CASE parent[q] # p
    <3>1. parent'[q] = r
      BY <1>4, <2>2, <2>4, Zenon
    <3>2. pstate'[r] = "Active" /\ (r # InitPid => Keeper(r)')
      BY <1>6, <1>7, <2>2, <2>4, Zenon
    <3> QED
      BY <2>2, <3>1, <3>2, KeptBy, Zenon
  <2> QED
    BY <2>3, <2>4, Zenon
<1> QED
    BY <1>1, <1>2, <1>6, <1>8, Zenon DEF Parents

\* fork: the parent of a new process is there and will adopt or collect it.
LEMMA ForkParents ==
    ASSUME Adoptive, Orderly, Parents, NEW t \in Tids, ForkProcess(t)
    PROVE  Parents'
<1> DEFINE c == child[t]
           p == ProcOf[t]
<1>0. TypeOK /\ CallsAllowed /\ ForkOwns
    BY Zenon DEF Orderly, IInv
<1>1. pc[t] = "fork" /\ c \in Pids /\ pstate[c] = "Claimed" /\ p \in Pids
    BY <1>0, ProcLifeAssumption, Zenon DEF ForkProcess, ForkOwns
<1>2. tstate[t] \notin Over /\ ~ Spent(t)
    BY <1>1, Zenon DEF Orderly, Ends, DeadSpent, Spent, Exiting, Births, Unstarted, Over
<1>3. pstate[p] = "Active"
  <2>1. pstate[p] \notin {"Zombie", "Gone"}
    BY <1>2, Zenon DEF Orderly, Ends, ZombieSpent
  <2>2. pstate[p] \notin {"Unborn", "Claimed"}
    BY <1>2, Zenon DEF Orderly, Births, Unstarted, Over
  <2> QED
    BY <1>0, <1>1, <2>1, <2>2, Zenon DEF TypeOK
<1>4. /\ parent'[c] = p /\ pstate'[c] = "Active"
      /\ \A q \in Pids \ {c} : parent'[q] = parent[q] /\ pstate'[q] = pstate[q]
    BY <1>0, <1>1, Zenon DEF ForkProcess, TypeOK
<1>5. Keeper(p)'
  <2>1. t \in Forks
    BY <1>0, <1>1, Zenon DEF CallsAllowed, ForkPCs
  <2>2. pc'[t] = "forkthread" /\ tstate' = tstate
    BY <1>0, GotoFacts, Zenon DEF ForkProcess
  <2> QED
    BY <1>2, <2>1, <2>2, Zenon DEF Keeper
<1>g. ~ GroupZombie(t)
    BY <1>1, Zenon DEF GroupZombie
<1> HIDE DEF c, p
<1>6. \A q \in Pids : pstate[q] = "Active" => q # c /\ pstate'[q] = "Active"
    BY <1>1, <1>4, Zenon
<1>7. ASSUME NEW q \in Pids \ {InitPid}, InTable(q)'
      PROVE  Kept(q)'
  <2>1. CASE q = c
    BY <1>1, <1>3, <1>4, <1>5, <1>6, <2>1, KeptBy, Zenon
  <2>2. CASE q # c
    <3>1. InTable(q) /\ parent'[q] = parent[q]
      BY <1>4, <1>7, <2>2, Zenon DEF InTable
    <3>2. PICK r \in Pids : /\ parent[q] = r /\ r # q /\ pstate[r] = "Active"
                            /\ r # InitPid => Keeper(r)
      BY <3>1, Zenon DEF Parents, Kept
    <3>3. r # InitPid => Keeper(r)'
      BY <1>g, <3>2, KeeperStep, Zenon DEF Kernel
    <3> QED
      BY <1>6, <3>1, <3>2, <3>3, KeptBy, Zenon
  <2> QED
    BY <2>1, <2>2, Zenon
<1>8. pstate'[InitPid] = "Active"
    BY <1>6, ProcLifeAssumption, Zenon DEF Parents
<1> QED
    BY <1>7, <1>8, Zenon DEF Parents

\* Every step leaves each process a parent that is there.
LEMMA ParentsStep ==
    ASSUME Adoptive, Orderly, Parents, NEW t \in Tids, Kernel(t) \/ User(t) \/ Reap(t)
    PROVE  Parents'
<1>1. CASE GroupZombie(t) \/ ForkProcess(t)
    BY <1>1, GroupParents, ForkParents, Zenon
<1>2. CASE ~ GroupZombie(t) /\ ~ ForkProcess(t)
  <2>1. parent' = parent
    BY <1>2, ParentStep, Zenon
  <2>2. pstate'[InitPid] = "Active"
    BY <1>2, ParentStays, ProcLifeAssumption, Zenon DEF Parents
  <2>3. ASSUME NEW q \in Pids, InTable(q)' PROVE InTable(q)
    <3>1. CASE ~ ForkStep(t)
      BY <2>3, <3>1, FallsStep, Zenon DEF Falls, InTable
    <3>2. CASE \E c \in Pids : Fork(t, c)
      <4>1. TypeOK
        BY Zenon DEF Orderly, IInv
      <4> QED
        BY <2>3, <3>2, <4>1, Zenon DEF Fork, InTable, TypeOK
    <3>3. CASE ForkThread(t)
      BY <2>3, <3>3, Zenon DEF ForkThread, procs, InTable
    <3> QED
      BY <1>2, <3>1, <3>2, <3>3, Zenon DEF ForkStep
  <2>4. ASSUME NEW q \in Pids \ {InitPid}, InTable(q)'
        PROVE  Kept(q)'
    <3>1. PICK r \in Pids : /\ parent[q] = r /\ r # q /\ pstate[r] = "Active"
                            /\ r # InitPid => Keeper(r)
      BY <2>3, <2>4, Zenon DEF Parents, Kept
    <3>2. r # InitPid => Keeper(r)'
      BY <1>2, <3>1, KeeperStep, Zenon
    <3>3. pstate'[r] = "Active"
      BY <1>2, <3>1, ParentStays, Zenon
    <3> QED
      BY <2>1, <3>1, <3>2, <3>3, KeptBy, Zenon
  <2> QED
    BY <2>2, <2>4, Zenon DEF Parents
<1> QED
    BY <1>1, <1>2, Zenon

\* PID 1 is the parent of the first processes.
LEMMA InitParents == ASSUME Adoptive, Init PROVE Parents
<1>1. InitPid \in Pids /\ InitPid \in Initial /\ Initial \subseteq Pids
    BY ProcLifeAssumption, Zenon DEF Adoptive
<1>2. \A q \in Pids : InTable(q) => q \in Initial
    BY Zenon DEF Init, InTable
<1>3. \A q \in Initial \ {InitPid} : parent[q] = InitPid
    BY <1>1, Zenon DEF Init, Adoptive
<1>4. pstate[InitPid] = "Active"
    BY <1>1, Zenon DEF Init
<1> QED
    BY <1>1, <1>2, <1>3, <1>4, Zenon DEF Parents, Kept

\* The parents stay through every step and stutter.
LEMMA NextParents ==
    ASSUME Adoptive, Orderly, Parents, [Next]_vars
    PROVE  Parents'
<1>1. CASE Next
    BY <1>1, ParentsStep, Zenon DEF Next
<1>2. CASE UNCHANGED vars
  <2>1. UNCHANGED <<pstate, parent, tstate, pc>>
    BY <1>2, Zenon DEF vars, procs
  <2> QED
    BY <2>1, Zenon DEF Parents, Kept, InTable, Keeper
<1> QED
    BY <1>1, <1>2, Zenon

\* The sweep of exit_group_inner leaves no process without a live parent: adoption, the
\* removal of zombie children and the Zombie mark are one section, and a fork of the same
\* process never comes after it.
THEOREM OrphansAdopted ==
    ASSUME Adoptive PROVE Spec => []Adopted
<1>1. Alone
    BY Zenon DEF Adoptive
<1>2. Init => Orderly /\ Parents
    BY InitOrderly, InitParents, Zenon
<1>3. Orderly /\ Parents /\ [Next]_vars => (Orderly /\ Parents)'
    BY <1>1, NextOrderly, NextParents, Zenon
<1>4. Parents => Adopted
    BY Zenon DEF Parents, Kept, Adopted
<1> QED
    BY <1>2, <1>3, <1>4, PTL DEF Spec

-----------------------------------------------------------------------------
\* A step of t sets what the exit of t knows only, and its first two sections are alone
\* in leading to the Zombie mark of exit_thread.
LEMMA ExitVarsStep ==
    ASSUME Orderly, NEW t \in Tids, Kernel(t) \/ User(t) \/ Reap(t)
    PROVE  /\ \A u \in Tids \ {t} : ppid'[u] = ppid[u] /\ last'[u] = last[u]
           /\ ExitTids(t) \/ ExitAllDead(t) \/ GroupZombie(t) \/ UNCHANGED <<ppid, last>>
           /\ \A u \in Tids : pc'[u] \in {"alldead", "zombie"} =>
                \/ u # t /\ pc'[u] = pc[u]
                \/ u = t /\ (ExitTids(t) \/ ExitAllDead(t))
<1>0. TypeOK /\ Unstarted
    BY Zenon DEF Orderly, IInv, Births
<1>1. ExitTids(t) \/ ExitAllDead(t) \/ GroupZombie(t) \/ UNCHANGED <<ppid, last>>
    BY Zenon DEF Kernel, User, exitvars, UserReturn, DeadPreempted, Reap, Fork, ForkProcess,
       ForkThread, ExitCall, ExitTids, ExitAllDead, ExitZombie, FreeMemory, Release, Die,
       GroupCall, GroupMark, GroupZombie, GroupOrphans, WaitCall, WaitPoll, WaitRecheck,
       WaitRetry, Try, Collect, WaitCommit, WaitResume, WaitRevert, WaitGiveUp, WaitReap
<1>2. \A u \in Tids \ {t} : ppid'[u] = ppid[u] /\ last'[u] = last[u]
    BY <1>0, <1>1, Zenon DEF ExitTids, ExitAllDead, GroupZombie, TypeOK
<1>3. ASSUME NEW u \in Tids, pc'[u] \in {"alldead", "zombie"}
      PROVE  \/ u # t /\ pc'[u] = pc[u]
             \/ u = t /\ (ExitTids(t) \/ ExitAllDead(t))
  <2>1. CASE ForkStep(t)
    <3>1. pc'[u] = pc[u]
      BY <1>3, <2>1, ForkFacts, Zenon
    <3>2. u # t
      BY <1>3, <2>1, <3>1, Zenon DEF ForkStep, Fork, ForkProcess, ForkThread
    <3> QED
      BY <3>1, <3>2, Zenon
  <2>2. CASE ~ ForkStep(t) /\ u # t
    BY <2>2, MovesStep, Zenon DEF Moves
  <2>3. CASE ~ ForkStep(t) /\ u = t
    <3>1. ASSUME NEW l, Goto(t, l), l \notin {"alldead", "zombie"} PROVE FALSE
      BY <1>0, <1>3, <2>3, <3>1, GotoFacts, Zenon
    <3>2. ~ (UserReturn(t) \/ DeadPreempted(t) \/ ExitZombie(t) \/ FreeMemory(t) \/ Die(t))
      BY <3>1, Zenon DEF UserReturn, DeadPreempted, ExitZombie, FreeMemory, Release, Die
    <3>3. ~ (ExitCall(t) \/ GroupCall(t) \/ GroupMark(t) \/ GroupZombie(t) \/ GroupOrphans(t))
      BY <3>1, Zenon DEF ExitCall, GroupCall, GroupMark, GroupZombie, GroupOrphans
    <3>4. ~ (\/ WaitPoll(t) \/ WaitRecheck(t) \/ WaitRetry(t)
             \/ \E w \in Wants, b \in BOOLEAN : WaitCall(t, w, b))
      BY <3>1, Zenon DEF WaitPoll, WaitRecheck, WaitRetry, Try, WaitCall
    <3>5. ~ (WaitCommit(t) \/ WaitGiveUp(t) \/ WaitResume(t) \/ WaitReap(t) \/ WaitRevert(t))
      BY <3>1, Zenon DEF WaitCommit, WaitGiveUp, WaitResume, WaitReap, WaitRevert
    <3>6. ~ Reap(t)
      BY <1>3, <2>3, Zenon DEF Reap
    <3> QED
      BY <2>3, <3>2, <3>3, <3>4, <3>5, <3>6, Zenon DEF Kernel, User, ForkStep
  <2> QED
    BY <2>1, <2>2, <2>3, Zenon
<1> QED
    BY <1>1, <1>2, <1>3, Zenon

\* The parent_pid that exit_thread reads in its first section is right at its Zombie mark:
\* the parent of a first process is PID 1 for good.
LEMMA ParentedStep ==
    ASSUME Ordered, Orderly, Parents, Parented, NEW t \in Tids, Kernel(t) \/ User(t) \/ Reap(t)
    PROVE  Parented'
<1>0. TypeOK /\ CallsAllowed /\ ForkOwns
    BY Zenon DEF Orderly, IInv
<1>1. \A p \in Initial \ {InitPid} :
        p \in Pids /\ parent[p] = InitPid /\ pstate[p] \notin {"Unborn", "Claimed"}
    BY ProcLifeAssumption, Zenon DEF Parented
<1>2. ASSUME NEW p \in Initial \ {InitPid}
      PROVE  parent'[p] = InitPid /\ pstate'[p] \notin {"Unborn", "Claimed"}
  <2>1. pstate'[p] \notin {"Unborn", "Claimed"}
    <3>1. CASE ForkStep(t)
      BY <1>1, <1>2, <3>1, ForkFacts, Zenon
    <3>2. CASE ~ ForkStep(t)
      BY <1>1, <1>2, <3>2, FallsStep, Zenon DEF Falls
    <3> QED
      BY <3>1, <3>2, Zenon
  <2>2. CASE ForkProcess(t)
    <3>1. p # child[t]
      BY <1>0, <1>1, <2>2, Zenon DEF ForkProcess, ForkOwns
    <3> QED
      BY <1>0, <1>1, <2>1, <2>2, <3>1, Zenon DEF ForkProcess, TypeOK
  <2>3. CASE GroupZombie(t)
    BY <1>1, <2>1, <2>3, Zenon DEF GroupZombie, Adopt
  <2>4. CASE ~ ForkProcess(t) /\ ~ GroupZombie(t)
    BY <1>1, <2>1, <2>4, ParentStep, Zenon
  <2> QED
    BY <2>2, <2>3, <2>4, Zenon
<1>3. ASSUME NEW u \in Tids
      PROVE  /\ pc'[u] \in {"alldead", "zombie"} /\ InTable(ProcOf[u])' =>
                  ppid'[u] = parent'[ProcOf[u]]
             /\ pc'[u] = "zombie" => last'[u]
  <2>1. CASE u # t /\ pc'[u] = pc[u] /\ pc[u] \in {"alldead", "zombie"}
    <3>1. ProcOf[u] \in Initial \ {InitPid}
      BY <1>0, <2>1, Zenon DEF CallsAllowed, ExitPCs, Ordered, Adoptive
    <3>2. parent'[ProcOf[u]] = parent[ProcOf[u]]
      BY <1>1, <1>2, <3>1, Zenon
    <3>3. InTable(ProcOf[u])' => InTable(ProcOf[u])
      <4>1. CASE ForkStep(t)
        BY <1>1, <3>1, <4>1, ForkFacts, Zenon DEF InTable
      <4>2. CASE ~ ForkStep(t)
        BY <1>1, <3>1, <4>2, FallsStep, Zenon DEF Falls, InTable
      <4> QED
        BY <4>1, <4>2, Zenon
    <3>4. ppid'[u] = ppid[u] /\ last'[u] = last[u]
      BY <2>1, ExitVarsStep, Zenon
    <3> QED
      BY <2>1, <3>2, <3>3, <3>4, Zenon DEF Parented
  <2>2. CASE u = t /\ ExitTids(t)
    <3>1. pc'[t] = "alldead" /\ UNCHANGED <<pstate, parent>>
      BY <1>0, <2>2, GotoFacts, Zenon DEF ExitTids, procs
    <3>2. InTable(ProcOf[t]) => ppid'[t] = parent[ProcOf[t]]
      BY <1>0, <2>2, Zenon DEF ExitTids, TypeOK
    <3> QED
      BY <2>2, <3>1, <3>2, Zenon DEF InTable
  <2>3. CASE u = t /\ ExitAllDead(t)
    <3>1. pc[t] = "alldead" /\ UNCHANGED <<pstate, parent, ppid>>
      BY <2>3, Zenon DEF ExitAllDead, procs
    <3>2. pc'[t] = "zombie" => last'[t]
      BY <1>0, <2>3, GotoFacts, Zenon DEF ExitAllDead, TypeOK
    <3> QED
      BY <2>3, <3>1, <3>2, Zenon DEF Parented, InTable
  <2> QED
    BY <2>1, <2>2, <2>3, ExitVarsStep, Zenon
<1> QED
    BY <1>2, <1>3, Zenon DEF Parented

\* A thread found parked and Blocked was so before, or has just looked.
LEMMA ParkStep ==
    ASSUME Orderly, NEW t \in Tids, Kernel(t) \/ User(t) \/ Reap(t),
           NEW x \in Tids, pc'[x] = "parked", tstate'[x] = "Blocked"
    PROVE  \/ x = t /\ WaitRecheck(t)
           \/ pc[x] = "parked" /\ tstate[x] = "Blocked" /\ want'[x] = want[x]
<1>0. TypeOK
    BY Zenon DEF Orderly, IInv
<1>1. CASE ForkStep(t)
  <2>1. pc'[x] = pc[x] /\ tstate'[x] = tstate[x]
    BY <1>1, ForkFacts, Zenon
  <2>2. want' = want
    BY <1>1, Zenon DEF ForkStep, Fork, ForkProcess, ForkThread, waitvars
  <2> QED
    BY <2>1, <2>2, Zenon
<1>2. CASE ~ ForkStep(t) /\ x # t
  <2>1. pc'[x] = pc[x]
    BY <1>2, MovesStep, Zenon DEF Moves
  <2>2. want'[x] = want[x]
    <3>1. want' = want \/ \E w : want' = [want EXCEPT ![t] = w]
      BY <1>2, Zenon DEF Kernel, User, ForkStep, waitvars, UserReturn, DeadPreempted, Reap,
         Fork, ForkProcess, ForkThread, ExitCall, ExitTids, ExitAllDead, ExitZombie, FreeMemory,
         Release, Die, GroupCall, GroupMark, GroupZombie, GroupOrphans, WaitCall, WaitPoll,
         WaitRecheck, WaitRetry, Try, Collect, WaitCommit, WaitResume, WaitRevert, WaitGiveUp,
         WaitReap
    <3> QED
      BY <1>0, <1>2, <3>1, Zenon DEF TypeOK
  <2>3. tstate[x] = "Blocked"
    <3>1. CASE Die(t)
      BY <1>2, <3>1, Zenon DEF Die
    <3>2. CASE GroupMark(t)
      BY <1>2, <3>2, Zenon DEF GroupMark
    <3>3. CASE \E S : Forget(S)
      BY <3>3, Zenon DEF Forget
    <3>4. CASE \E v : tstate' = [tstate EXCEPT ![t] = v]
      BY <1>0, <1>2, <3>4, Zenon DEF TypeOK
    <3>5. CASE tstate' = tstate
      BY <3>5, Zenon
    <3> QED
      BY <1>2, <3>1, <3>2, <3>3, <3>4, <3>5, Zenon DEF Kernel, User, ForkStep, UserReturn,
         DeadPreempted, Reap, ExitCall, ExitTids, ExitAllDead, ExitZombie, FreeMemory, Release,
         GroupCall, GroupZombie, GroupOrphans, WaitCall, WaitPoll, WaitRecheck, WaitRetry, Try,
         WaitCommit, WaitResume, WaitRevert, WaitGiveUp, WaitReap
  <2> QED
    BY <2>1, <2>2, <2>3, Zenon
<1>3. CASE ~ ForkStep(t) /\ x = t
  <2>1. ASSUME NEW l, Goto(t, l), l # "parked" PROVE FALSE
    BY <1>0, <1>3, <2>1, GotoFacts, Zenon
  <2>2. ~ (\/ UserReturn(t) \/ DeadPreempted(t) \/ ExitTids(t) \/ ExitAllDead(t)
           \/ ExitZombie(t) \/ FreeMemory(t) \/ Die(t))
    BY <2>1, Zenon DEF UserReturn, DeadPreempted, ExitZombie, FreeMemory, Release, Die,
       ExitTids, ExitAllDead
  <2>3. ~ (ExitCall(t) \/ GroupCall(t) \/ GroupMark(t) \/ GroupZombie(t) \/ GroupOrphans(t))
    BY <2>1, Zenon DEF ExitCall, GroupCall, GroupMark, GroupZombie, GroupOrphans
  <2>4. ~ (WaitPoll(t) \/ WaitRetry(t) \/ \E w \in Wants, b \in BOOLEAN : WaitCall(t, w, b))
    BY <2>1, Zenon DEF WaitPoll, WaitRetry, Try, WaitCall
  <2>5. ~ (WaitCommit(t) \/ WaitGiveUp(t) \/ WaitResume(t) \/ WaitReap(t) \/ WaitRevert(t))
    BY <2>1, Zenon DEF WaitCommit, WaitGiveUp, WaitResume, WaitReap, WaitRevert
  <2>6. ~ Reap(t)
    BY <1>0, <1>3, Zenon DEF Reap, TypeOK
  <2> QED
    BY <1>3, <2>2, <2>3, <2>4, <2>5, <2>6, Zenon DEF Kernel, User, ForkStep
<1> QED
    BY <1>1, <1>2, <1>3, Zenon

\* A wake-up to come stays so until the last section of the exit.
LEMMA WakeStep ==
    ASSUME Orderly, NEW t \in Tids, Kernel(t) \/ User(t) \/ Reap(t),
           NEW u \in Tids, NEW p \in Pids, WillWake(u, p)
    PROVE  WillWake(u, p)' \/ (u = t /\ Die(t))
<1>0. TypeOK
    BY Zenon DEF Orderly, IInv
<1>1. pc[u] \in {"orphans", "free", "die"} /\ last[u] /\ ppid[u] = p
    BY Zenon DEF WillWake
<1>2. CASE u # t
  <2>1. ppid'[u] = ppid[u] /\ last'[u] = last[u]
    BY <1>2, ExitVarsStep, Zenon
  <2>2. pc'[u] = pc[u]
    <3>1. CASE ForkStep(t)
      <4>1. Spent(u) /\ tstate[u] # "None"
        BY <1>1, Zenon DEF Spent, Exiting, Orderly, Births, Unstarted
      <4> QED
        BY <3>1, <4>1, ForkFacts, Zenon
    <3>2. CASE ~ ForkStep(t)
      BY <1>2, <3>2, MovesStep, Zenon DEF Moves
    <3> QED
      BY <3>1, <3>2, Zenon
  <2> QED
    BY <1>1, <2>1, <2>2, Zenon DEF WillWake
<1>3. CASE u = t
  <2>1. GroupOrphans(t) \/ FreeMemory(t) \/ Die(t)
    BY <1>1, <1>3, Zenon DEF Kernel, User, UserReturn, DeadPreempted, Reap, Fork, ForkProcess,
       ForkThread, ExitCall, ExitTids, ExitAllDead, ExitZombie, GroupCall, GroupMark,
       GroupZombie, WaitCall, WaitPoll, WaitRecheck, WaitRetry, WaitCommit, WaitResume,
       WaitRevert, WaitGiveUp, WaitReap
  <2>2. CASE GroupOrphans(t) \/ FreeMemory(t)
    <3>1. pc'[t] \in {"free", "die"} /\ UNCHANGED <<ppid, last>>
      BY <1>0, <2>2, GotoFacts, Zenon DEF GroupOrphans, FreeMemory, Release, exitvars
    <3> QED
      BY <1>1, <1>3, <3>1, Zenon DEF WillWake
  <2> QED
    BY <1>3, <2>1, <2>2, Zenon
<1> QED
    BY <1>2, <1>3, Zenon

\* The two Zombie marks leave the wake-up of the parent to come.
LEMMA MarkWakes ==
    ASSUME Orderly, Parents, Parented, NEW t \in Tids, ExitZombie(t) \/ GroupZombie(t),
           InTable(ProcOf[t]), ProcOf[t] # InitPid
    PROVE  WillWake(t, parent[ProcOf[t]])' /\ parent'[ProcOf[t]] = parent[ProcOf[t]]
<1>0. TypeOK /\ ProcOf[t] \in Pids
    BY ProcLifeAssumption, Zenon DEF Orderly, IInv
<1>1. parent[ProcOf[t]] # ProcOf[t]
    BY <1>0, Zenon DEF Parents, Kept
<1>2. CASE ExitZombie(t)
  <2>1. pc[t] = "zombie" /\ pc'[t] = "free" /\ UNCHANGED <<ppid, last, parent>>
    BY <1>0, <1>2, GotoFacts, Zenon DEF ExitZombie, exitvars
  <2>2. last[t] /\ ppid[t] = parent[ProcOf[t]]
    BY <2>1, Zenon DEF Parented
  <2> QED
    BY <2>1, <2>2, Zenon DEF WillWake
<1>3. CASE GroupZombie(t)
  <2>1. pc'[t] = "orphans" /\ last'[t] = TRUE /\ ppid'[t] = parent[ProcOf[t]]
    BY <1>0, <1>3, GotoFacts, Zenon DEF GroupZombie, TypeOK
  <2>2. parent'[ProcOf[t]] = parent[ProcOf[t]]
    BY <1>0, <1>1, <1>3, Zenon DEF GroupZombie, Adopt
  <2> QED
    BY <2>1, <2>2, Zenon DEF WillWake
<1> QED
    BY <1>2, <1>3, Zenon

\* A waitpid that parks has just seen no Zombie, and a Zombie mark after that has its
\* wake-up still to come.
LEMMA NoLostStep ==
    ASSUME Ordered, Orderly, Parents, Parented, NoLostChild,
           NEW t \in Tids, Kernel(t) \/ User(t) \/ Reap(t)
    PROVE  NoLostChild'
<1>0. TypeOK /\ ForkOwns /\ CallsAllowed
    BY Zenon DEF Orderly, IInv
<1> SUFFICES ASSUME NEW x \in Tids, pc'[x] = "parked", tstate'[x] = "Blocked",
                    NEW q \in Pids, Collectable(x, q)'
             PROVE  \E u \in ThreadsOf(q) : WillWake(u, ProcOf[x])'
    BY Zenon DEF NoLostChild, ThreadsOf
<1>1. pstate'[q] = "Zombie" /\ parent'[q] = ProcOf[x] /\ want'[x] \in {Any, q} /\ ProcOf[x] \in Pids
    BY ProcLifeAssumption, Zenon DEF Collectable
<1>2. CASE x = t /\ WaitRecheck(t)
  <2>1. ASSUME Goto(t, "reaprevert") PROVE FALSE
    <3>1. pc'[t] = "reaprevert"
      BY <1>0, <2>1, GotoFacts, Zenon
    <3> QED
      BY <1>2, <3>1, Zenon
  <2>2. UNCHANGED <<pstate, parent, want>> /\ ~ Collectable(t, q)
    BY <1>2, <2>1, Zenon DEF WaitRecheck, Try, procs, waitvars
  <2> QED
    BY <1>1, <1>2, <2>2, Zenon DEF Collectable
<1>3. CASE pc[x] = "parked" /\ tstate[x] = "Blocked" /\ want'[x] = want[x]
  <2>1. CASE pstate[q] = "Zombie"
    <3>1. parent'[q] = parent[q]
      <4>1. CASE ForkProcess(t)
        <5>1. child[t] # q
          BY <1>0, <2>1, <4>1, Zenon DEF ForkProcess, ForkOwns
        <5> QED
          BY <1>0, <4>1, <5>1, Zenon DEF ForkProcess, TypeOK
      <4>2. CASE GroupZombie(t)
        BY <2>1, <4>2, Zenon DEF GroupZombie, Adopt
      <4> QED
        BY <4>1, <4>2, ParentStep, Zenon
    <3>2. PICK u \in ThreadsOf(q) : WillWake(u, ProcOf[x])
      BY <1>1, <1>3, <2>1, <3>1, Zenon DEF NoLostChild, Collectable
    <3>3. ~ (u = t /\ Die(t))
      BY <1>3, <3>2, Zenon DEF Die, WillWake
    <3> QED
      BY <1>1, <3>2, <3>3, WakeStep, Zenon DEF ThreadsOf
  <2>2. CASE pstate[q] # "Zombie"
    <3>1. ~ ForkStep(t)
      BY <1>1, <2>2, ForkFacts, Zenon
    <3>2. q = ProcOf[t] /\ InTable(q) /\ pc[t] \in {"zombie", "group"}
      BY <1>1, <2>2, <3>1, FallsStep, Zenon DEF Falls
    <3>3. ExitZombie(t) \/ GroupZombie(t)
      BY <3>2, Zenon DEF Kernel, User, UserReturn, DeadPreempted, Reap, Fork, ForkProcess,
         ForkThread, ExitCall, ExitTids, ExitAllDead, FreeMemory, Die, GroupCall, GroupMark,
         GroupOrphans, WaitCall, WaitPoll, WaitRecheck, WaitRetry, WaitCommit, WaitResume,
         WaitRevert, WaitGiveUp, WaitReap
    <3>4. q # InitPid
      BY <1>0, <3>2, Zenon DEF CallsAllowed, ExitPCs, GroupPCs, Ordered, Adoptive
    <3>5. WillWake(t, parent[q])' /\ parent'[q] = parent[q]
      BY <3>2, <3>3, <3>4, MarkWakes, Zenon
    <3> QED
      BY <1>1, <3>2, <3>5, Zenon DEF ThreadsOf, WillWake
  <2> QED
    BY <2>1, <2>2, Zenon
<1> QED
    BY <1>2, <1>3, ParkStep, Zenon

\* At the start no thread exits or waits.
LEMMA InitFamily == ASSUME Ordered, Init PROVE Parented /\ NoLostChild
<1>1. \A t \in Tids : pc[t] \in {"user", "off"}
    BY Zenon DEF Init
<1>2. \A p \in Initial \ {InitPid} : parent[p] = InitPid /\ pstate[p] \notin {"Unborn", "Claimed"}
    BY ProcLifeAssumption, Zenon DEF Init, Ordered, Adoptive
<1>3. Parented
    BY <1>1, <1>2, Zenon DEF Parented
<1>4. NoLostChild
    BY <1>1, Zenon DEF NoLostChild
<1> QED
    BY <1>3, <1>4, Zenon

\* Both facts stay through every step and stutter.
LEMMA NextFamily ==
    ASSUME Ordered, Orderly, Parents, Parented, NoLostChild, [Next]_vars
    PROVE  Parented' /\ NoLostChild'
<1>1. CASE Next
    BY <1>1, ParentedStep, NoLostStep, Zenon DEF Next
<1>2. CASE UNCHANGED vars
  <2>1. UNCHANGED <<pstate, parent, tstate, pc, ppid, last, want>>
    BY <1>2, Zenon DEF vars, procs, exitvars, waitvars
  <2>2. Parented'
    BY <2>1, Zenon DEF Parented, InTable
  <2>3. NoLostChild'
    BY <2>1 DEF NoLostChild, Collectable, WillWake
  <2> QED
    BY <2>2, <2>3, Zenon
<1> QED
    BY <1>1, <1>2, Zenon

\* The park-then-recheck of sys_waitpid loses no child: a parked thread with a Zombie to
\* collect has the wake-up of that child's exit still to come.
THEOREM NoChildLost ==
    ASSUME Ordered PROVE Spec => []NoLostChild
<1> DEFINE Family == Orderly /\ Parents /\ Parented /\ NoLostChild
<1>1. Alone /\ Adoptive
    BY Zenon DEF Ordered, Adoptive
<1>2. Init => Family
    BY <1>1, InitOrderly, InitParents, InitFamily, Zenon
<1>3. Family /\ [Next]_vars => Family'
  <2> SUFFICES ASSUME Family, [Next]_vars PROVE Family'
    BY Zenon
  <2>1. Orderly'
    BY <1>1, NextOrderly, Zenon
  <2>2. Parents'
    BY <1>1, NextParents, Zenon
  <2>3. Parented' /\ NoLostChild'
    BY NextFamily, Zenon
  <2> QED
    BY <2>1, <2>2, <2>3, Zenon
<1>4. Family => NoLostChild
    BY Zenon
<1> HIDE DEF Family
<1> QED
    BY <1>2, <1>3, <1>4, PTL DEF Spec
=============================================================================
