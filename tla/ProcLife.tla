------------------------------ MODULE ProcLife ------------------------------
(***************************************************************************)
(* The life of processes and threads: fork, exit(2) (exit_thread), the      *)
(* exit_group(2) teardown (exit_group_inner), wait4(2) (sys_waitpid over    *)
(* proc::waitpid) and the reaper of kernel/src/sched/mod.rs.                *)
(*                                                                         *)
(* A step is one critical section of PROCESS_TABLE or of THREAD_TABLE; the  *)
(* code never holds both, so every handler is a chain of steps and threads  *)
(* on other CPUs run in between.  Pids and TIDs are never reused (NEXT_PID, *)
(* NEXT_TID).  What an exit does to pipes and futexes is in Pipe and Futex; *)
(* the signals it raises, vfork and thread creation are left out.           *)
(***************************************************************************)
EXTENDS Naturals, FiniteSets

CONSTANTS Pids,         \* processes
          Tids,         \* threads
          ProcOf,       \* ProcOf[t]: the process of thread t
          Main,         \* Main[p]: the thread that fork creates with p
          InitPid,      \* PID 1, the adopter of orphans
          Initial,      \* the processes there are at the start
          ParentOf,     \* their parents; None for PID 1
          Forks,        \* threads that may fork
          Exits,        \* threads that may call exit(2)
          GroupExits,   \* threads that may call exit_group(2)
          Waits,        \* threads that may call wait4(2)
          Wants,        \* what they wait for: a pid, or Any
          Any,          \* wait_pid = -1
          MaxAttempts,  \* max_attempts of sys_waitpid (200)
          None

ASSUME ProcLifeAssumption ==
    /\ ProcOf \in [Tids -> Pids] /\ Main \in [Pids -> Tids]
    /\ \A p \in Pids : ProcOf[Main[p]] = p
    /\ InitPid \in Pids /\ None \notin Pids /\ Any \notin Pids
    /\ Initial \subseteq Pids /\ ParentOf \in [Initial -> Initial \union {None}]
    /\ Forks \subseteq Tids /\ Exits \subseteq Tids
    /\ GroupExits \subseteq Tids /\ Waits \subseteq Tids
    /\ Wants \subseteq Pids \union {Any}
    /\ MaxAttempts \in Nat \ {0}

VARIABLES
    pstate,    \* Unborn, Claimed (pid allocated), Active, Zombie; Gone from PROCESS_TABLE
    parent,    \* Process::parent_pid
    threads,   \* Process::threads
    vm,        \* Process::vm_space: held, or freed by free_process_memory
    claims,    \* history: how often a process was removed from PROCESS_TABLE
    tstate,    \* ThreadState, None before creation, Gone from THREAD_TABLE
    pc,        \* where each thread is
    ppid,      \* exit: the parent_pid read
    snap,      \* the TIDs read from PROCESS_TABLE, for use under THREAD_TABLE
    last,      \* exit: the process becomes a Zombie (all_dead of exit_thread)
    want,      \* waitpid: the argument
    nohang,    \* waitpid: WNOHANG
    tries,     \* waitpid: attempts made
    child      \* fork: the new pid

procs == <<pstate, parent, threads, vm, claims>>
exitvars == <<ppid, last>>
waitvars == <<want, nohang, tries>>
vars == <<procs, tstate, pc, snap, exitvars, waitvars, child>>

ThreadsOf(p) == {t \in Tids : ProcOf[t] = p}
InTable(p) == pstate[p] \in {"Active", "Zombie"}

PCs == {"user", "ret", "off", "fork", "forkthread",
        "tids", "alldead", "zombie", "free", "die", "mark", "group", "orphans",
        "poll", "commit", "recheck", "parked", "retry", "reap", "reaprevert", "revert"}

Init ==
    /\ pstate = [p \in Pids |-> IF p \in Initial THEN "Active" ELSE "Unborn"]
    /\ parent = [p \in Pids |-> IF p \in Initial THEN ParentOf[p] ELSE None]
    /\ threads = [p \in Pids |-> IF p \in Initial THEN ThreadsOf(p) ELSE {}]
    /\ vm = [p \in Pids |-> "held"]
    /\ claims = [p \in Pids |-> 0]
    /\ tstate = [t \in Tids |-> IF ProcOf[t] \in Initial THEN "Running" ELSE "None"]
    /\ pc = [t \in Tids |-> IF ProcOf[t] \in Initial THEN "user" ELSE "off"]
    /\ ppid = [t \in Tids |-> None]
    /\ snap = [t \in Tids |-> {}]
    /\ last = [t \in Tids |-> FALSE]
    /\ want = [t \in Tids |-> Any] /\ nohang = [t \in Tids |-> FALSE]
    /\ tries = [t \in Tids |-> 0]
    /\ child = [t \in Tids |-> None]

Goto(t, l) == pc' = [pc EXCEPT ![t] = l]

-----------------------------------------------------------------------------
(* User mode and the scheduler.                                            *)

\* A system call returns; a thread found Dead goes into exit_thread instead.
UserReturn(t) ==
    /\ pc[t] = "ret"
    /\ Goto(t, IF tstate[t] = "Dead" THEN "tids" ELSE "user")
    /\ UNCHANGED <<procs, tstate, snap, exitvars, waitvars, child>>

\* A tick in user mode: a thread that is Dead, or has no record, is not picked again.
DeadPreempted(t) ==
    /\ pc[t] = "user" /\ tstate[t] \in {"Dead", "Gone"}
    /\ Goto(t, "off")
    /\ UNCHANGED <<procs, tstate, snap, exitvars, waitvars, child>>

\* reap_dead_threads_sched: a Dead thread on no CPU leaves THREAD_TABLE.
Reap(t) ==
    /\ tstate[t] = "Dead" /\ pc[t] \in {"off", "parked"}
    /\ tstate' = [tstate EXCEPT ![t] = "Gone"]
    /\ UNCHANGED <<procs, pc, snap, exitvars, waitvars, child>>

-----------------------------------------------------------------------------
(* fork_process.                                                           *)

\* A pid is allocated and the parent's record is read; without one fork fails.
Fork(t, q) ==
    /\ pc[t] = "user" /\ t \in Forks /\ pstate[q] = "Unborn"
    /\ pstate' = [pstate EXCEPT ![q] = "Claimed"]
    /\ child' = [child EXCEPT ![t] = q]
    /\ Goto(t, IF InTable(ProcOf[t]) THEN "fork" ELSE "ret")
    /\ UNCHANGED <<parent, threads, vm, claims, tstate, snap, exitvars, waitvars>>

\* The child enters PROCESS_TABLE,
ForkProcess(t) ==
    /\ pc[t] = "fork"
    /\ LET q == child[t] IN
       /\ pstate' = [pstate EXCEPT ![q] = "Active"]
       /\ parent' = [parent EXCEPT ![q] = ProcOf[t]]
       /\ threads' = [threads EXCEPT ![q] = {Main[q]}]
    /\ Goto(t, "forkthread")
    /\ UNCHANGED <<vm, claims, tstate, snap, exitvars, waitvars, child>>

\* and then its thread THREAD_TABLE.
ForkThread(t) ==
    /\ pc[t] = "forkthread"
    /\ tstate' = [tstate EXCEPT ![Main[child[t]]] = "Running"]
    /\ pc' = [pc EXCEPT ![t] = "ret", ![Main[child[t]]] = "user"]
    /\ UNCHANGED <<procs, snap, exitvars, waitvars, child>>

-----------------------------------------------------------------------------
(* exit_thread.                                                            *)

\* exit(2); a thread whose record is gone is not stopped.
ExitCall(t) ==
    /\ pc[t] = "user" /\ t \in Exits
    /\ Goto(t, IF tstate[t] = "Gone" THEN "user" ELSE "tids")
    /\ UNCHANGED <<procs, tstate, snap, exitvars, waitvars, child>>

\* Step 1, PROCESS_TABLE: the thread list and the parent.
ExitTids(t) ==
    /\ pc[t] = "tids"
    /\ LET p == ProcOf[t] IN
       /\ snap' = [snap EXCEPT ![t] = IF InTable(p) THEN threads[p] ELSE {}]
       /\ ppid' = [ppid EXCEPT ![t] = IF InTable(p) THEN parent[p] ELSE None]
    /\ Goto(t, "alldead")
    /\ UNCHANGED <<procs, tstate, last, waitvars, child>>

\* Step 2, THREAD_TABLE: are all the other threads Dead, or gone?
ExitAllDead(t) ==
    /\ pc[t] = "alldead"
    /\ LET dead == \A u \in snap[t] \ {t} : tstate[u] \in {"Dead", "Gone"} IN
       /\ last' = [last EXCEPT ![t] = dead]
       /\ Goto(t, IF dead THEN "zombie" ELSE "die")
    /\ snap' = [snap EXCEPT ![t] = {}]
    /\ UNCHANGED <<procs, tstate, ppid, waitvars, child>>

\* Step 3, PROCESS_TABLE: the last thread makes the process a Zombie.
ExitZombie(t) ==
    /\ pc[t] = "zombie"
    /\ pstate' = [pstate EXCEPT ![ProcOf[t]] = IF InTable(ProcOf[t]) THEN "Zombie" ELSE @]
    /\ Goto(t, "free")
    /\ UNCHANGED <<parent, threads, vm, claims, tstate, snap, exitvars, waitvars, child>>

Release(t) ==
    /\ vm' = [vm EXCEPT ![ProcOf[t]] = IF InTable(ProcOf[t]) THEN "freed" ELSE @]
    /\ Goto(t, "die")
    /\ UNCHANGED <<pstate, parent, threads, claims, tstate, snap, exitvars, waitvars, child>>

\* Mutant: the page tables are freed without waiting for the other CPUs.
FreeMemoryNow(t) == pc[t] = "free" /\ Release(t)

\* free_process_memory: wait until no other CPU has the address space loaded, then free
\* it.  A thread in user mode drops it at its next tick, well within the bound of the
\* wait; for a thread in the kernel the wait may give up.  Without a record: no-op.
FreeMemory(t) ==
    /\ pc[t] = "free"
    /\ InTable(ProcOf[t]) => \A u \in ThreadsOf(ProcOf[t]) \ {t} : pc[u] # "user"
    /\ Release(t)

\* Mutant: the parent is not woken.
DieSilent(t) ==
    /\ pc[t] = "die"
    /\ tstate' = [tstate EXCEPT ![t] = IF @ = "Gone" THEN "Gone" ELSE "Dead"]
    /\ Goto(t, "off")
    /\ UNCHANGED <<procs, snap, exitvars, waitvars, child>>

\* The end of both exits, one THREAD_TABLE section: threads of the parent Blocked in
\* waitpid become Ready, and the caller becomes Dead.
Die(t) ==
    /\ pc[t] = "die"
    /\ tstate' = [u \in Tids |->
            IF u = t THEN IF tstate[t] = "Gone" THEN "Gone" ELSE "Dead"
            ELSE IF ProcOf[u] = ppid[t] /\ tstate[u] = "Blocked" THEN "Ready" ELSE tstate[u]]
    /\ Goto(t, "off")
    /\ UNCHANGED <<procs, snap, exitvars, waitvars, child>>

-----------------------------------------------------------------------------
(* exit_group_inner.                                                       *)

\* exit_group(2); a thread whose record is gone just yields for good.
GroupCall(t) ==
    /\ pc[t] = "user" /\ t \in GroupExits
    /\ Goto(t, IF tstate[t] = "Gone" THEN "off" ELSE "mark")
    /\ UNCHANGED <<procs, tstate, snap, exitvars, waitvars, child>>

\* Mutant: the siblings are not marked.
GroupMarkNone(t) ==
    /\ pc[t] = "mark"
    /\ Goto(t, "group")
    /\ UNCHANGED <<procs, tstate, snap, exitvars, waitvars, child>>

\* THREAD_TABLE: every other thread of the process becomes Dead.
GroupMark(t) ==
    /\ pc[t] = "mark"
    /\ tstate' = [u \in Tids |->
            IF u \in ThreadsOf(ProcOf[t]) \ {t} /\ tstate[u] \notin {"None", "Gone"}
            THEN "Dead" ELSE tstate[u]]
    /\ Goto(t, "group")
    /\ UNCHANGED <<procs, snap, exitvars, waitvars, child>>

\* The zombies that leave with p: its own children, and those of PID 1 when PID 1
\* cannot collect them.
Orphans(p) ==
    LET initLives == p # InitPid /\ pstate[InitPid] = "Active" IN
    {q \in Pids \ {p} : /\ pstate[q] = "Zombie"
                        /\ parent[q] = p \/ (~ initLives /\ parent[q] = InitPid)}

\* Mutant: the live children keep their parent.
AdoptNone(p) == parent

\* The live children of p are adopted by PID 1.
Adopt(p) == [q \in Pids |-> IF parent[q] = p /\ pstate[q] = "Active" THEN InitPid ELSE parent[q]]

\* PROCESS_TABLE: the process becomes a Zombie, its live children are adopted and its
\* zombie children are removed, in one section.
GroupZombie(t) ==
    /\ pc[t] = "group"
    /\ LET p == ProcOf[t]
           gone == Orphans(p)
       IN  /\ ppid' = [ppid EXCEPT ![t] = IF InTable(p) THEN parent[p] ELSE None]
           /\ pstate' = [q \in Pids |-> IF q \in gone THEN "Gone"
                                        ELSE IF q = p /\ InTable(p) THEN "Zombie" ELSE pstate[q]]
           /\ parent' = Adopt(p)
           /\ claims' = [q \in Pids |-> IF q \in gone THEN claims[q] + 1 ELSE claims[q]]
           /\ snap' = [snap EXCEPT ![t] = UNION {threads[q] : q \in gone}]
    /\ last' = [last EXCEPT ![t] = TRUE]
    /\ Goto(t, "orphans")
    /\ UNCHANGED <<threads, vm, tstate, waitvars, child>>

\* The threads of S leave THREAD_TABLE, whether or not a CPU still runs them.
Forget(S) == tstate' = [u \in Tids |-> IF u \in S THEN "Gone" ELSE tstate[u]]

\* THREAD_TABLE: the threads of the removed zombies go.
GroupOrphans(t) ==
    /\ pc[t] = "orphans"
    /\ Forget(snap[t])
    /\ snap' = [snap EXCEPT ![t] = {}]
    /\ Goto(t, "free")
    /\ UNCHANGED <<procs, exitvars, waitvars, child>>

-----------------------------------------------------------------------------
(* sys_waitpid.                                                            *)

WaitCall(t, w, b) ==
    /\ pc[t] = "user" /\ t \in Waits
    /\ want' = [want EXCEPT ![t] = w] /\ nohang' = [nohang EXCEPT ![t] = b]
    /\ tries' = [tries EXCEPT ![t] = 0]
    /\ Goto(t, "poll")
    /\ UNCHANGED <<procs, tstate, snap, exitvars, child>>

\* q is a child that this waitpid may collect.
Collectable(t, q) ==
    /\ pstate[q] = "Zombie" /\ parent[q] = ProcOf[t]
    /\ want[t] \in {Any, q}

\* Mutant: the zombie stays in PROCESS_TABLE.
CollectKeep(t, q) ==
    /\ claims' = [claims EXCEPT ![q] = @ + 1]
    /\ snap' = [snap EXCEPT ![t] = threads[q]]
    /\ UNCHANGED <<pstate, parent, threads, vm>>

\* proc::waitpid, first section: a zombie child leaves PROCESS_TABLE.
Collect(t, q) ==
    /\ pstate' = [pstate EXCEPT ![q] = "Gone"]
    /\ claims' = [claims EXCEPT ![q] = @ + 1]
    /\ snap' = [snap EXCEPT ![t] = threads[q]]
    /\ UNCHANGED <<parent, threads, vm>>

\* One call of proc::waitpid: go to hit with a child collected, or to miss.
Try(t, hit, miss) ==
    /\ \/ \E q \in Pids : Collectable(t, q) /\ Collect(t, q) /\ Goto(t, hit)
       \/ /\ \A q \in Pids : ~ Collectable(t, q)
          /\ Goto(t, miss)
          /\ UNCHANGED <<procs, snap>>
    /\ UNCHANGED <<tstate, exitvars, waitvars, child>>

\* The immediate poll; WNOHANG ends here.
WaitPoll(t) == pc[t] = "poll" /\ Try(t, "reap", IF nohang[t] THEN "ret" ELSE "commit")

\* Mutant: the attempts are not counted.
WaitCommitAlways(t) ==
    /\ pc[t] = "commit"
    /\ tries' = [tries EXCEPT ![t] = @ + 1]
    /\ tstate' = [tstate EXCEPT ![t] = IF @ = "Gone" THEN "Gone" ELSE "Blocked"]
    /\ Goto(t, "recheck")
    /\ UNCHANGED <<procs, snap, exitvars, want, nohang, child>>

\* THREAD_TABLE: commit Blocked, whatever the state was, if attempts are left.
WaitCommit(t) ==
    /\ pc[t] = "commit" /\ tries[t] < MaxAttempts
    /\ tries' = [tries EXCEPT ![t] = @ + 1]
    /\ tstate' = [tstate EXCEPT ![t] = IF @ = "Gone" THEN "Gone" ELSE "Blocked"]
    /\ Goto(t, "recheck")
    /\ UNCHANGED <<procs, snap, exitvars, want, nohang, child>>

\* No attempt is left: ECHILD.
WaitGiveUp(t) ==
    /\ pc[t] = "commit" /\ tries[t] = MaxAttempts
    /\ Goto(t, "ret")
    /\ UNCHANGED <<procs, tstate, snap, exitvars, waitvars, child>>

\* Mutant: park without a second look.
WaitRecheckNone(t) ==
    /\ pc[t] = "recheck"
    /\ Goto(t, "parked")
    /\ UNCHANGED <<procs, tstate, snap, exitvars, waitvars, child>>

\* The second look, after the commit.
WaitRecheck(t) == pc[t] = "recheck" /\ Try(t, "reaprevert", "parked")

\* schedule() returns in a thread that was made Ready.
WaitResume(t) ==
    /\ pc[t] = "parked" /\ tstate[t] = "Ready"
    /\ tstate' = [tstate EXCEPT ![t] = "Running"]
    /\ Goto(t, "retry")
    /\ UNCHANGED <<procs, snap, exitvars, waitvars, child>>

WaitRetry(t) == pc[t] = "retry" /\ Try(t, "reap", "commit")

\* proc::waitpid, second section: the threads of the child leave THREAD_TABLE.
WaitReap(t) ==
    /\ pc[t] \in {"reap", "reaprevert"}
    /\ Forget(snap[t])
    /\ snap' = [snap EXCEPT ![t] = {}]
    /\ Goto(t, IF pc[t] = "reap" THEN "ret" ELSE "revert")
    /\ UNCHANGED <<procs, exitvars, waitvars, child>>

\* A child was found by the second look: undo the commit.
WaitRevert(t) ==
    /\ pc[t] = "revert"
    /\ tstate' = [tstate EXCEPT ![t] = IF @ = "Blocked" THEN "Ready" ELSE @]
    /\ Goto(t, "ret")
    /\ UNCHANGED <<procs, snap, exitvars, waitvars, child>>

-----------------------------------------------------------------------------
Kernel(t) ==
    \/ UserReturn(t) \/ DeadPreempted(t)
    \/ ForkProcess(t) \/ ForkThread(t)
    \/ ExitTids(t) \/ ExitAllDead(t) \/ ExitZombie(t) \/ FreeMemory(t) \/ Die(t)
    \/ GroupMark(t) \/ GroupZombie(t) \/ GroupOrphans(t)
    \/ WaitPoll(t) \/ WaitCommit(t) \/ WaitGiveUp(t) \/ WaitRecheck(t)
    \/ WaitResume(t) \/ WaitRetry(t) \/ WaitReap(t) \/ WaitRevert(t)

User(t) ==
    \/ \E q \in Pids : Fork(t, q)
    \/ ExitCall(t) \/ GroupCall(t)
    \/ \E w \in Wants, b \in BOOLEAN : WaitCall(t, w, b)

Next == \E t \in Tids : Kernel(t) \/ User(t) \/ Reap(t)

Spec == Init /\ [][Next]_vars

\* Kernel code runs to its end, ticks come, and schedule() picks every Ready thread.
FairSpec == Spec /\ \A t \in Tids : WF_vars(Kernel(t))

-----------------------------------------------------------------------------
(* Properties.                                                             *)

\* Every variable has its type.
TypeOK ==
    /\ pstate \in [Pids -> {"Unborn", "Claimed", "Active", "Zombie", "Gone"}]
    /\ parent \in [Pids -> Pids \union {None}]
    /\ threads \in [Pids -> SUBSET Tids]
    /\ vm \in [Pids -> {"held", "freed"}]
    /\ claims \in [Pids -> Nat]
    /\ tstate \in [Tids -> {"None", "Running", "Ready", "Blocked", "Dead", "Gone"}]
    /\ pc \in [Tids -> PCs]
    /\ ppid \in [Tids -> Pids \union {None}]
    /\ snap \in [Tids -> SUBSET Tids]
    /\ last \in [Tids -> BOOLEAN]
    /\ want \in [Tids -> Pids \union {Any}] /\ nohang \in [Tids -> BOOLEAN]
    /\ tries \in [Tids -> 0 .. MaxAttempts]
    /\ child \in [Tids -> Pids \union {None}]

\* u is past the Zombie mark of its process and will wake the waiters of p.
WillWake(u, p) == pc[u] \in {"orphans", "free", "die"} /\ last[u] /\ ppid[u] = p

\* The park-then-recheck of sys_waitpid loses no wake-up: while a thread is parked in
\* waitpid and a child it waits for is a Zombie, an exiting thread of that child has
\* its wake-up still to come.
NoLostChild ==
    \A t \in Tids : pc[t] = "parked" /\ tstate[t] = "Blocked" =>
        \A q \in Pids : Collectable(t, q) =>
            \E u \in ThreadsOf(q) : WillWake(u, ProcOf[t])

\* Every process in PROCESS_TABLE but PID 1 has a live parent that can collect it:
\* adoption and the removal of zombies leave no un-reapable process behind.
Adopted ==
    \A q \in Pids \ {InitPid} : InTable(q) => pstate[parent[q]] = "Active"

\* A process leaves PROCESS_TABLE once: waitpids of several threads of the parent and
\* the orphan sweep of its exit never both collect a child.
CollectedOnce == \A q \in Pids : claims[q] <= 1

Exiting(t) == pc[t] \in {"tids", "alldead", "zombie", "mark", "group", "orphans", "free", "die", "off"}

\* The threads of a Zombie are Dead, but for those on their way through an exit.
ZombieIsDead ==
    \A t \in Tids : pstate[ProcOf[t]] = "Zombie" =>
        tstate[t] \in {"None", "Dead", "Gone"} \/ Exiting(t)

\* No thread runs in user mode on freed page tables.
FreedNotRun == \A t \in Tids : vm[ProcOf[t]] = "freed" => pc[t] # "user"

\* free_process_memory runs "before removing the process from PROCESS_TABLE": the memory
\* of a process that is gone from the table has been freed.
MemoryReclaimed == \A p \in Pids : pstate[p] = "Gone" => vm[p] = "freed"

\* A process whose threads have all gone through their exit is a Zombie, so that its
\* parent does not wait forever.
LastThreadZombie ==
    \A p \in Pids :
        InTable(p) /\ (\A t \in threads[p] : pc[t] = "off" /\ tstate[t] \in {"Dead", "Gone"})
            => pstate[p] = "Zombie"

\* waitpid returns: a parked thread with a Zombie child to collect leaves the park.
WaitReturns ==
    \A t \in Waits :
        (pc[t] = "parked" /\ \E q \in Pids : Collectable(t, q)) ~> pc[t] # "parked"

\* An exit ends: the teardown never waits forever for a sibling to leave the CPU.
ExitCompletes == \A t \in GroupExits : (pc[t] = "mark") ~> (pc[t] = "off")

-----------------------------------------------------------------------------
(* Hypotheses on the constants, for the theorems of ProcLifeProofs.         *)

\* A thread that calls exit_group(2) is the only one of its process that forks or waits.
Alone == \A t \in GroupExits, u \in Forks \union Waits : ProcOf[t] = ProcOf[u] => t = u

\* PID 1 does not exit and is the parent of the first processes, and a thread that forks
\* does not leave by exit(2).
Adoptive ==
    /\ Alone
    /\ InitPid \in Initial /\ \A p \in Initial \ {InitPid} : ParentOf[p] = InitPid
    /\ \A t \in Exits \union GroupExits : ProcOf[t] # InitPid
    /\ \A t \in Exits : t \notin Forks

\* And exit(2) is called in the first processes only, which have no parent but PID 1.
Ordered == Adoptive /\ \A t \in Exits : ProcOf[t] \in Initial
=============================================================================
