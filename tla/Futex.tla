------------------------------- MODULE Futex --------------------------------
(***************************************************************************)
(* futex(2): sys_futex_linux of kernel/src/subsys/linux/syscall.rs and the  *)
(* wait queues of kernel/src/syscall/mod.rs, with the thread and process    *)
(* exits of kernel/src/proc/mod.rs that clear futex words, wake waiters and *)
(* empty queues.  A step is one critical section: FUTEX_WAITERS (with       *)
(* THREAD_TABLE or FUTEX_REQUEUE_DEST nested in it), THREAD_TABLE alone, or *)
(* one access to a futex word.  Threads on different CPUs interleave        *)
(* between steps; the timer never preempts kernel code.  FUTEX_WAITERS is a *)
(* variable because FUTEX_WAKE_OP reads and writes user memory under it.    *)
(*                                                                         *)
(* User code follows the protocol futexes are for: it stores a new value    *)
(* and then wakes the word, by FUTEX_WAKE, FUTEX_(CMP_)REQUEUE or           *)
(* FUTEX_WAKE_OP.                                                           *)
(***************************************************************************)
EXTENDS Naturals, Sequences, FiniteSets

CONSTANTS Threads,      \* threads that use futexes
          Procs,        \* processes
          ProcOf,       \* ProcOf[t]: the process of thread t
          Words,        \* futex words
          Shared,       \* the words in MAP_SHARED mappings; every process maps them
          WaitWords,    \* WaitWords[t]: the words thread t may wait on
          StoreWords,   \* StoreWords[t]: the words thread t may change and wake
          Resident,     \* <<p, w>>: p has the page of the shared word w faulted in at the start
          ClearTid,     \* ClearTid[t]: t's clear_child_tid word, or None
          Timeouts,     \* whether a wait has a timeout: a subset of BOOLEAN
          WakeCounts,   \* val of FUTEX_WAKE and FUTEX_WAKE_OP
          Requeues,     \* <<val, val2, uaddr2>> of FUTEX_(CMP_)REQUEUE
          WakeOps,      \* uaddr2 of FUTEX_WAKE_OP
          Exits,        \* threads that may call exit(2)
          GroupExits,   \* threads that may call exit_group(2)
          SharedNS,     \* FUTEX_SHARED_NS, the pid of the shared keys
          None

\* A futex word is 0 or 1 here: what a waiter expects, or something else.
Values == {0, 1}

\* FutexKey: (pid, uaddr) for a private word, (FUTEX_SHARED_NS, phys) for a shared one.
Keys == (Procs \union {SharedNS}) \X Words

ASSUME FutexAssumption ==
    /\ ProcOf \in [Threads -> Procs] /\ IsFiniteSet(Threads)
    /\ Shared \subseteq Words
    /\ WaitWords \in [Threads -> SUBSET Words]
    /\ StoreWords \in [Threads -> SUBSET Words]
    /\ Resident \subseteq Procs \X Shared
    /\ ClearTid \in [Threads -> (Words \ Shared) \union {None}]
    /\ Timeouts \subseteq BOOLEAN
    /\ WakeCounts \subseteq Nat
    /\ Requeues \subseteq Nat \X Nat \X Words
    /\ WakeOps \subseteq Words
    /\ Exits \subseteq Threads /\ GroupExits \subseteq Threads
    /\ SharedNS \notin Procs
    /\ None \notin Words \union Keys \union Threads \union Values

\* The arguments of the futex call in progress and what it has read: the word, its
\* key, the second word, its key, the value expected (by CMP_REQUEUE, None without
\* CMP) or read (by WAKE_OP), whether there is a timeout, val and val2.
Call(w, k, w2, k2, e, b, m, m2) ==
    [uaddr |-> w, key |-> k, uaddr2 |-> w2, key2 |-> k2,
     exp |-> e, timed |-> b, val |-> m, val2 |-> m2]
NoCall == Call(None, None, None, None, None, FALSE, 0, 0)

VARIABLES
    word,      \* the value of each futex word
    present,   \* <<p, w>>: the page of the shared word w is in p's page tables
    queue,     \* FUTEX_WAITERS: the TIDs waiting under each key, oldest first
    dest,      \* FUTEX_REQUEUE_DEST: dest[p, t] is the key recorded for (p, t), or None
    lock,      \* the FUTEX_WAKE_OP holding FUTEX_WAITERS between two steps, or None
    tstate,    \* ThreadState of each thread
    reaped,    \* threads removed from THREAD_TABLE
    cleartid,  \* Thread::clear_child_tid, or None
    pc,        \* where each thread is
    call,      \* the futex call each thread is in
    todo,      \* TIDs a thread has taken off a queue and not yet flipped to Ready
    clears,    \* exit_group: the clear_child_tid words still to be cleared
    group,     \* the exit in progress is an exit_group
    drained,   \* history: processes whose futex_drain_pid has run
    res,       \* the result of the last WAIT
    taken      \* history: threads a wake took off their queue in their last WAIT

memory == <<word, present>>
queues == <<queue, dest, lock>>
table == <<tstate, reaped, cleartid>>
exiting == <<clears, group, drained>>
results == <<res, taken>>
vars == <<memory, queues, table, pc, call, todo, exiting, results>>

PCs == {"user", "stored", "wait", "parked", "cleanup", "wake", "move", "flip", "wakeop", "write",
        "ret", "exit", "exitwake", "exitflip", "gclear", "gmark", "gdrain", "exitdead", "dead"}

Init ==
    /\ word = [w \in Words |-> 1]
    /\ present = Resident
    /\ queue = [k \in Keys |-> <<>>]
    /\ dest = [x \in Procs \X Threads |-> None]
    /\ lock = None
    /\ tstate = [t \in Threads |-> "Running"]
    /\ reaped = {}
    /\ cleartid = ClearTid
    /\ pc = [t \in Threads |-> "user"]
    /\ call = [t \in Threads |-> NoCall]
    /\ todo = [t \in Threads |-> {}]
    /\ clears = [t \in Threads |-> {}] /\ group = [t \in Threads |-> FALSE]
    /\ drained = {}
    /\ res = [t \in Threads |-> "none"]
    /\ taken = {}

-----------------------------------------------------------------------------
(* Helpers.                                                                *)

Goto(t, l) == pc' = [pc EXCEPT ![t] = l]

In(t, s) == \E i \in 1 .. Len(s) : s[i] = t

\* futex_key: the physical identity of a shared word whose page is present in the
\* caller's page tables, (pid, uaddr) in every other case.
FutexKey(p, w) ==
    IF w \in Shared /\ <<p, w>> \in present THEN <<SharedNS, w>> ELSE <<p, w>>

\* An access of process p to word w faults its page in.
Touch(p, w) == present' = present \union (IF w \in Shared THEN {<<p, w>>} ELSE {})

Live(i, s) == tstate[s[i]] = "Blocked"

LiveUpTo(c, s) == Cardinality({i \in 1 .. c : Live(i, s)})

\* Mutant: entries that are not Blocked spend a wake slot.
ScannedAny(s, c, n) == c = IF n < Len(s) THEN n ELSE Len(s)

\* A scan of s for n live waiters stops after its first c entries: at the n-th live
\* one, or at the end of s.
Scanned(s, c, n) ==
    /\ c \in 0 .. Len(s)
    /\ LiveUpTo(c, s) <= n
    /\ c < Len(s) => LiveUpTo(c, s) = n /\ (c > 0 => Live(c, s))

\* The live waiters among the first c entries of s.
LiveIn(s, c) == {s[i] : i \in {j \in 1 .. c : Live(j, s)}}

From(s, c) == SubSeq(s, c + 1, Len(s))

\* val = 0 means "all" to FUTEX_WAKE and FUTEX_WAKE_OP.
Budget(n) == IF n = 0 THEN Cardinality(Threads) ELSE n

\* The Blocked threads of S become Ready.
Flip(S) == tstate' = [t \in Threads |->
    IF t \in S /\ tstate[t] = "Blocked" THEN "Ready" ELSE tstate[t]]

-----------------------------------------------------------------------------
(* User mode.                                                              *)

\* A thread changes a word it synchronises on; it will wake the word next.
Store(t, w) ==
    /\ pc[t] = "user" /\ w \in StoreWords[t]
    /\ word' = [word EXCEPT ![w] = 1 - @]
    /\ Touch(ProcOf[t], w)
    /\ call' = [call EXCEPT ![t] = Call(w, None, None, None, None, FALSE, 0, 0)]
    /\ Goto(t, "stored")
    /\ UNCHANGED <<queues, table, todo, exiting, results>>

\* A futex call returns; a thread that was marked Dead meanwhile exits instead.
UserReturn(t) ==
    /\ pc[t] = "ret"
    /\ Goto(t, IF tstate[t] = "Dead" THEN "exit" ELSE "user")
    /\ call' = [call EXCEPT ![t] = NoCall]
    /\ res' = [res EXCEPT ![t] = "none"]
    /\ UNCHANGED <<memory, queues, table, todo, exiting, taken>>

\* The timer interrupts a Dead thread in user mode; it is not picked again.
DeadPreempted(t) ==
    /\ pc[t] \in {"user", "stored"} /\ tstate[t] = "Dead"
    /\ Goto(t, "dead")
    /\ UNCHANGED <<memory, queues, table, call, todo, exiting, results>>

\* reap_dead_threads_sched: a Dead thread that is on no CPU leaves THREAD_TABLE.
Reap(t) ==
    /\ tstate[t] = "Dead" /\ t \notin reaped /\ pc[t] \in {"parked", "dead"}
    /\ reaped' = reaped \union {t}
    /\ UNCHANGED <<memory, queues, tstate, cleartid, pc, call, todo, exiting, results>>

-----------------------------------------------------------------------------
(* FUTEX_WAIT.                                                             *)

\* WAIT is entered: the key is computed before FUTEX_WAITERS is taken.
WaitCall(t, w, e, b) ==
    /\ pc[t] = "user" /\ w \in WaitWords[t]
    /\ call' = [call EXCEPT ![t] = Call(w, FutexKey(ProcOf[t], w), None, None, e, b, 0, 0)]
    /\ taken' = taken \ {t}
    /\ Goto(t, "wait")
    /\ UNCHANGED <<memory, queues, table, todo, exiting, res>>

\* WAIT refuses an absolute deadline that has passed, and a bad address.
WaitRefuse(t, r) ==
    /\ pc[t] = "user" /\ WaitWords[t] # {}
    /\ r = "ETIMEDOUT" => TRUE \in Timeouts
    /\ call' = [call EXCEPT ![t] = Call(None, None, None, None, None, r = "ETIMEDOUT", 0, 0)]
    /\ res' = [res EXCEPT ![t] = r]
    /\ taken' = taken \ {t}
    /\ Goto(t, "ret")
    /\ UNCHANGED <<memory, queues, table, todo, exiting>>

\* The comparison fails: EAGAIN.
WaitMismatch(t) ==
    /\ pc[t] = "wait" /\ lock = None
    /\ word[call[t].uaddr] # call[t].exp
    /\ Touch(ProcOf[t], call[t].uaddr)
    /\ res' = [res EXCEPT ![t] = "EAGAIN"]
    /\ Goto(t, "ret")
    /\ UNCHANGED <<word, queues, table, call, todo, exiting, taken>>

\* t joins its queue and becomes Blocked.
Enqueue(t) ==
    /\ queue' = [queue EXCEPT ![call[t].key] = Append(@, t)]
    /\ tstate' = [tstate EXCEPT ![t] = "Blocked"]
    /\ Goto(t, "parked")
    /\ Touch(ProcOf[t], call[t].uaddr)
    /\ UNCHANGED <<word, dest, lock, reaped, cleartid, call, todo, exiting, results>>

\* Mutant: the word was compared before FUTEX_WAITERS was taken.
WaitEnqueueBlind(t) ==
    /\ pc[t] = "wait" /\ lock = None /\ tstate[t] # "Dead"
    /\ Enqueue(t)

\* Mutant: a thread that was marked Dead is not noticed.
WaitEnqueueUnguarded(t) ==
    /\ pc[t] = "wait" /\ lock = None
    /\ word[call[t].uaddr] = call[t].exp
    /\ Enqueue(t)

\* futex_wait_check_and_enqueue: compare, enqueue and block in one critical section.
WaitEnqueue(t) ==
    /\ pc[t] = "wait" /\ lock = None
    /\ word[call[t].uaddr] = call[t].exp
    /\ tstate[t] # "Dead"
    /\ Enqueue(t)

\* A thread that was marked Dead undoes the enqueue; schedule() never returns to it.
WaitDead(t) ==
    /\ pc[t] = "wait" /\ lock = None
    /\ word[call[t].uaddr] = call[t].exp
    /\ tstate[t] = "Dead"
    /\ Touch(ProcOf[t], call[t].uaddr)
    /\ Goto(t, "dead")
    /\ UNCHANGED <<word, queues, table, call, todo, exiting, results>>

\* Mutant: the timer wakes Sleeping threads only.
TimeoutSleeping(t) ==
    /\ pc[t] = "parked" /\ tstate[t] = "Sleeping" /\ call[t].timed
    /\ tstate' = [tstate EXCEPT ![t] = "Ready"]
    /\ UNCHANGED <<memory, queues, reaped, cleartid, pc, call, todo, exiting, results>>

\* due_wake_scan: the timer makes a Blocked thread whose wake_tick has come Ready.
Timeout(t) ==
    /\ pc[t] = "parked" /\ tstate[t] = "Blocked" /\ call[t].timed
    /\ tstate' = [tstate EXCEPT ![t] = "Ready"]
    /\ UNCHANGED <<memory, queues, reaped, cleartid, pc, call, todo, exiting, results>>

\* schedule() returns in a waiter that was made Ready.
Resume(t) ==
    /\ pc[t] = "parked" /\ tstate[t] = "Ready"
    /\ tstate' = [tstate EXCEPT ![t] = "Running"]
    /\ Goto(t, "cleanup")
    /\ UNCHANGED <<memory, queues, reaped, cleartid, call, todo, exiting, results>>

\* The key a waiter's cleanup looks under: the recorded destination of a requeue, else
\* the key it enqueued under.
CleanupKey(t) ==
    LET d == dest[ProcOf[t], t] IN IF d # None THEN d ELSE call[t].key

\* The waiter leaves its queue: still there, it timed out; gone, it was woken.
Cleanup(t) ==
    /\ pc[t] = "cleanup" /\ lock = None
    /\ LET k == CleanupKey(t) IN
       /\ queue' = [queue EXCEPT ![k] = SelectSeq(@, LAMBDA u : u # t)]
       /\ res' = [res EXCEPT ![t] = IF In(t, queue[k]) THEN "ETIMEDOUT" ELSE "woken"]
    /\ dest' = [dest EXCEPT ![ProcOf[t], t] = None]
    /\ Goto(t, "ret")
    /\ UNCHANGED <<memory, lock, table, call, todo, exiting, taken>>

-----------------------------------------------------------------------------
(* FUTEX_WAKE.                                                             *)

WakeCall(t, n) ==
    /\ pc[t] = "stored"
    /\ LET w == call[t].uaddr IN
       call' = [call EXCEPT ![t] =
                    Call(w, FutexKey(ProcOf[t], w), None, None, None, FALSE, n, 0)]
    /\ Goto(t, "wake")
    /\ UNCHANGED <<memory, queues, table, todo, exiting, results>>

\* Mutant: the woken waiters stay on the queue.
WakeScanKeep(t) ==
    /\ pc[t] = "wake" /\ lock = None
    /\ LET s == queue[call[t].key] IN
       \E c \in 0 .. Len(s) :
           /\ Scanned(s, c, Budget(call[t].val))
           /\ Flip(LiveIn(s, c))
           /\ taken' = taken \union LiveIn(s, c)
    /\ Goto(t, "ret")
    /\ UNCHANGED <<memory, queues, reaped, cleartid, call, todo, exiting, res>>

\* futex_wake_bucket_live: take the scanned entries off the queue and flip the live
\* ones, under FUTEX_WAITERS and THREAD_TABLE together.
WakeScan(t) ==
    /\ pc[t] = "wake" /\ lock = None
    /\ LET s == queue[call[t].key] IN
       \E c \in 0 .. Len(s) :
           /\ Scanned(s, c, Budget(call[t].val))
           /\ queue' = [queue EXCEPT ![call[t].key] = From(s, c)]
           /\ Flip(LiveIn(s, c))
           /\ taken' = taken \union LiveIn(s, c)
    /\ Goto(t, "ret")
    /\ UNCHANGED <<memory, dest, lock, reaped, cleartid, call, todo, exiting, res>>

-----------------------------------------------------------------------------
(* FUTEX_REQUEUE and FUTEX_CMP_REQUEUE.                                    *)

\* CMP_REQUEUE (e is a value) compares the word, holding no lock; both operations then
\* compute the two keys.  EAGAIN sends the caller back to retry.
RequeueCall(t, r, e) ==
    /\ pc[t] = "stored" /\ r[3] # call[t].uaddr
    /\ LET w == call[t].uaddr
           p == ProcOf[t]
       IN  \/ /\ e # None /\ word[w] # e
              /\ UNCHANGED <<call, pc>>
           \/ /\ e = None \/ word[w] = e
              /\ call' = [call EXCEPT ![t] =
                    Call(w, FutexKey(p, w), r[3], FutexKey(p, r[3]), e, FALSE, r[1], r[2])]
              /\ Goto(t, "move")
    /\ UNCHANGED <<memory, queues, table, todo, exiting, results>>

\* Mutant: the destination is not recorded.
RecordNone(p, S, k) == dest

\* FUTEX_REQUEUE_DEST with k recorded for the threads of S, under the requeuer's pid p.
Record(p, S, k) ==
    [x \in Procs \X Threads |-> IF x[1] = p /\ x[2] \in S THEN k ELSE dest[x]]

\* The source queue is emptied: the first val live waiters are to be woken, the next
\* val2 entries move to the destination, and the rest are not put back.
RequeueMove(t) ==
    /\ pc[t] = "move" /\ lock = None
    /\ LET a == call[t]
           s == queue[a.key]
       IN  \E c \in 0 .. Len(s) :
           /\ Scanned(s, c, a.val)
           /\ LET m == SubSeq(s, c + 1, IF c + a.val2 < Len(s) THEN c + a.val2 ELSE Len(s)) IN
              /\ queue' = [queue EXCEPT ![a.key] = <<>>, ![a.key2] = @ \o m]
              /\ dest' = Record(ProcOf[t], {m[i] : i \in 1 .. Len(m)}, a.key2)
           /\ todo' = [todo EXCEPT ![t] = LiveIn(s, c)]
           /\ taken' = taken \union LiveIn(s, c)
    /\ Goto(t, "flip")
    /\ UNCHANGED <<memory, lock, table, call, exiting, res>>

\* A second critical section, of THREAD_TABLE alone, flips the waiters to be woken.
FlipTodo(t) ==
    /\ pc[t] = "flip"
    /\ Flip(todo[t])
    /\ todo' = [todo EXCEPT ![t] = {}]
    /\ Goto(t, "ret")
    /\ UNCHANGED <<memory, queues, reaped, cleartid, call, exiting, results>>

-----------------------------------------------------------------------------
(* FUTEX_WAKE_OP.                                                          *)

WakeOpCall(t, w2, n) ==
    /\ pc[t] = "stored" /\ w2 # call[t].uaddr
    /\ LET w == call[t].uaddr
           p == ProcOf[t]
       IN  call' = [call EXCEPT ![t] =
                    Call(w, FutexKey(p, w), w2, FutexKey(p, w2), None, FALSE, n, n)]
    /\ Goto(t, "wakeop")
    /\ UNCHANGED <<memory, queues, table, todo, exiting, results>>

\* FUTEX_WAITERS is taken and *uaddr2 is read.
WakeOpRead(t) ==
    /\ pc[t] = "wakeop" /\ lock = None
    /\ lock' = t
    /\ LET a == call[t] IN
       /\ Touch(ProcOf[t], a.uaddr2)
       /\ call' = [call EXCEPT ![t] = Call(a.uaddr, a.key, a.uaddr2, a.key2, word[a.uaddr2],
                                           FALSE, a.val, a.val2)]
    /\ Goto(t, "write")
    /\ UNCHANGED <<word, queue, dest, table, todo, exiting, results>>

\* The new value is written to *uaddr2, waiters on uaddr are woken and, if the comparison
\* with the value read holds, waiters on uaddr2 too.  The caller encodes the comparison
\* so that it holds when the operation changes the value.
WakeOpWrite(t, v) ==
    /\ pc[t] = "write"
    /\ LET a == call[t]
           s == queue[a.key]
           s2 == queue[a.key2]
       IN  \E c \in 0 .. Len(s), c2 \in 0 .. Len(s2) :
           /\ Scanned(s, c, Budget(a.val))
           /\ \/ Scanned(s2, c2, Budget(a.val2))
              \/ v = a.exp /\ c2 = 0
           /\ word' = [word EXCEPT ![a.uaddr2] = v]
           /\ queue' = [queue EXCEPT ![a.key] = From(s, c), ![a.key2] = From(s2, c2)]
           /\ Flip(LiveIn(s, c) \union LiveIn(s2, c2))
           /\ taken' = taken \union LiveIn(s, c) \union LiveIn(s2, c2)
    /\ lock' = None
    /\ Goto(t, "ret")
    /\ UNCHANGED <<present, dest, reaped, cleartid, call, todo, exiting, res>>

\* An unknown operation: EINVAL, with nothing written; the caller wakes some other way.
WakeOpInvalid(t) ==
    /\ pc[t] = "write"
    /\ lock' = None
    /\ call' = [call EXCEPT ![t] = Call(@.uaddr, None, None, None, None, FALSE, 0, 0)]
    /\ Goto(t, "stored")
    /\ UNCHANGED <<memory, queue, dest, table, todo, exiting, results>>

-----------------------------------------------------------------------------
(* exit(2) and exit_group(2).                                              *)

\* exit_thread starts: by exit(2), or in UserReturn for a thread marked Dead.
ExitCall(t) ==
    /\ pc[t] = "user" /\ t \in Exits
    /\ Goto(t, "exit")
    /\ UNCHANGED <<memory, queues, table, call, todo, exiting, results>>

\* A word is cleared before the waiter on it is woken.
Clear(t, w) ==
    /\ word' = [word EXCEPT ![w] = 0]
    /\ call' = [call EXCEPT ![t] = Call(w, <<ProcOf[t], w>>, None, None, None, FALSE, 1, 0)]
    /\ Goto(t, "exitwake")

\* exit_thread clears the word of clear_child_tid.
ExitClear(t) ==
    /\ pc[t] = "exit" /\ cleartid[t] # None
    /\ Clear(t, cleartid[t])
    /\ UNCHANGED <<present, queues, table, todo, exiting, results>>

ExitNoClear(t) ==
    /\ pc[t] = "exit" /\ cleartid[t] = None
    /\ Goto(t, "exitdead")
    /\ UNCHANGED <<memory, queues, table, call, todo, exiting, results>>

\* futex_wake_for_exit, first part: the oldest entry is taken, live or not.
ExitWake(t) ==
    /\ pc[t] = "exitwake" /\ lock = None
    /\ LET s == queue[call[t].key]
           c == IF Len(s) = 0 THEN 0 ELSE 1
           S == {s[i] : i \in 1 .. c}
       IN  /\ queue' = [queue EXCEPT ![call[t].key] = From(s, c)]
           /\ todo' = [todo EXCEPT ![t] = S]
           /\ taken' = taken \union S
    /\ Goto(t, "exitflip")
    /\ UNCHANGED <<memory, dest, lock, table, call, exiting, res>>

\* futex_wake_for_exit, second part: it becomes Ready if it is Blocked.
ExitFlip(t) ==
    /\ pc[t] = "exitflip"
    /\ Flip(todo[t])
    /\ todo' = [todo EXCEPT ![t] = {}]
    /\ call' = [call EXCEPT ![t] = NoCall]
    /\ Goto(t, IF group[t] THEN "gclear" ELSE "exitdead")
    /\ UNCHANGED <<memory, queues, reaped, cleartid, exiting, results>>

\* exit_thread and exit_group end: the caller becomes Dead.
ExitDead(t) ==
    /\ pc[t] = "exitdead"
    /\ tstate' = [tstate EXCEPT ![t] = "Dead"]
    /\ Goto(t, "dead")
    /\ UNCHANGED <<memory, queues, reaped, cleartid, call, todo, exiting, results>>

Siblings(t) == {u \in Threads : ProcOf[u] = ProcOf[t]}

\* exit_group starts: fire_cleartid_for_group collects the words of all live threads.
GroupCall(t) ==
    /\ pc[t] = "user" /\ t \in GroupExits /\ tstate[t] # "Dead"
    /\ LET W == {cleartid[u] : u \in {x \in Siblings(t) : tstate[x] # "Dead"}} \ {None} IN
       /\ clears' = [clears EXCEPT ![t] = W]
       /\ Goto(t, IF W = {} THEN "gmark" ELSE "gclear")
    /\ group' = [group EXCEPT ![t] = TRUE]
    /\ UNCHANGED <<memory, queues, table, call, todo, drained, results>>

\* fire_cleartid_for_group clears and wakes one word after the other.
GroupClear(t, w) ==
    /\ pc[t] = "gclear" /\ w \in clears[t]
    /\ clears' = [clears EXCEPT ![t] = @ \ {w}]
    /\ Clear(t, w)
    /\ UNCHANGED <<present, queues, table, todo, group, drained, results>>

\* fire_cleartid_for_group ends by resetting clear_child_tid.
GroupCleared(t) ==
    /\ pc[t] = "gclear" /\ clears[t] = {}
    /\ cleartid' = [u \in Threads |-> IF u \in Siblings(t) THEN None ELSE cleartid[u]]
    /\ Goto(t, "gmark")
    /\ UNCHANGED <<memory, queues, tstate, reaped, call, todo, exiting, results>>

\* Every other thread of the process becomes Dead.
GroupMark(t) ==
    /\ pc[t] = "gmark"
    /\ tstate' = [u \in Threads |-> IF u \in Siblings(t) \ {t} THEN "Dead" ELSE tstate[u]]
    /\ Goto(t, "gdrain")
    /\ UNCHANGED <<memory, queues, reaped, cleartid, call, todo, exiting, results>>

\* futex_drain_pid: the private queues of the process go; the threads of it that are in
\* THREAD_TABLE leave the shared queues; its requeue records go.
GroupDrain(t) ==
    /\ pc[t] = "gdrain" /\ lock = None
    /\ LET p == ProcOf[t] IN
       /\ queue' = [k \in Keys |->
              IF k[1] = p THEN <<>>
              ELSE IF k[1] = SharedNS
                   THEN SelectSeq(queue[k], LAMBDA u : u \notin Siblings(t) \ reaped)
                   ELSE queue[k]]
       /\ dest' = [x \in Procs \X Threads |-> IF x[1] = p THEN None ELSE dest[x]]
       /\ drained' = drained \union {p}
    /\ Goto(t, "exitdead")
    /\ UNCHANGED <<memory, lock, table, call, todo, clears, group, results>>

-----------------------------------------------------------------------------
Kernel(t) ==
    \/ UserReturn(t) \/ DeadPreempted(t)
    \/ WaitMismatch(t) \/ WaitEnqueue(t) \/ WaitDead(t) \/ Resume(t) \/ Cleanup(t)
    \/ WakeScan(t) \/ RequeueMove(t) \/ FlipTodo(t)
    \/ WakeOpRead(t) \/ (\E v \in Values : WakeOpWrite(t, v))
    \/ ExitClear(t) \/ ExitNoClear(t) \/ ExitWake(t) \/ ExitFlip(t) \/ ExitDead(t)
    \/ (\E w \in Words : GroupClear(t, w)) \/ GroupCleared(t) \/ GroupMark(t) \/ GroupDrain(t)

\* The thread that changed a word wakes it.
Wake(t) ==
    \/ \E n \in WakeCounts : WakeCall(t, n)
    \/ \E r \in Requeues, e \in Values \union {None} : RequeueCall(t, r, e)
    \/ \E w2 \in WakeOps, n \in WakeCounts : WakeOpCall(t, w2, n)

User(t) ==
    \/ \E w \in Words : Store(t, w)
    \/ \E w \in Words, e \in Values, b \in Timeouts : WaitCall(t, w, e, b)
    \/ \E r \in {"ETIMEDOUT", "EFAULT"} : WaitRefuse(t, r)
    \/ Wake(t)
    \/ WakeOpInvalid(t)
    \/ ExitCall(t) \/ GroupCall(t)

Next == \E t \in Threads : Kernel(t) \/ User(t) \/ Timeout(t) \/ Reap(t)

Spec == Init /\ [][Next]_vars

\* Kernel code runs to its end, schedule() picks every Ready thread in the end, the
\* timer fires, and a thread that has changed a word does wake it.
Fairness ==
    \A t \in Threads :
        /\ WF_vars(Kernel(t)) /\ WF_vars(Timeout(t))
        /\ WF_vars(\E n \in WakeCounts : WakeCall(t, n))

FairSpec == Spec /\ Fairness

-----------------------------------------------------------------------------
(* Properties.                                                             *)

CallType ==
    [uaddr : Words \union {None}, key : Keys \union {None},
     uaddr2 : Words \union {None}, key2 : Keys \union {None},
     exp : Values \union {None}, timed : BOOLEAN, val : Nat, val2 : Nat]

\* Every variable has its type; a thread is on a queue at most once.
TypeOK ==
    /\ word \in [Words -> Values] /\ present \subseteq Procs \X Shared
    /\ \A k \in Keys : /\ queue[k] \in Seq(Threads)
                       /\ \A i, j \in 1 .. Len(queue[k]) : i # j => queue[k][i] # queue[k][j]
    /\ dest \in [Procs \X Threads -> Keys \union {None}]
    /\ lock \in Threads \union {None}
    /\ tstate \in [Threads -> {"Running", "Ready", "Blocked", "Dead"}]
    /\ reaped \subseteq Threads
    /\ cleartid \in [Threads -> Words \union {None}]
    /\ pc \in [Threads -> PCs]
    /\ call \in [Threads -> CallType]
    /\ todo \in [Threads -> SUBSET Threads]
    /\ clears \in [Threads -> SUBSET Words] /\ group \in [Threads -> BOOLEAN]
    /\ drained \subseteq Procs
    /\ res \in [Threads -> {"none", "woken", "EAGAIN", "ETIMEDOUT", "EFAULT"}]
    /\ taken \subseteq Threads

\* A Blocked waiter can be reached: it is on the queue its own cleanup looks at, or a
\* waker that took it off will flip it.  (syscall/mod.rs calls the contrary a "Blocked
\* but not in any wait queue" thread, which no wake reaches.)
NoOrphan ==
    \A t \in Threads : tstate[t] = "Blocked" =>
        \/ In(t, queue[CleanupKey(t)])
        \/ \E u \in Threads : t \in todo[u]

Waiting(t) == tstate[t] = "Blocked" /\ In(t, queue[call[t].key])

\* u will wake every waiter of word w that is on the queue k.
WillWake(u, w, k) ==
    \/ pc[u] = "stored" /\ call[u].uaddr = w
    \/ pc[u] \in {"wake", "move", "wakeop", "write", "exitwake"} /\ call[u].key = k

\* When every wake is a broadcast, a waiter whose word no longer has the value it waits
\* for is about to be woken: the check-then-enqueue of futex_wait_check_and_enqueue
\* leaves no window in which a store and its wake both pass a waiter by.
NoLostWake ==
    \A t \in Threads :
        Waiting(t) /\ word[call[t].uaddr] # call[t].exp =>
            \E u \in Threads : tstate[u] # "Dead" /\ WillWake(u, call[t].uaddr, call[t].key)

\* A thread that is not in a WAIT is on no queue: its cleanup removed it from wherever
\* requeues had moved it.
NoStaleWaiter ==
    \A t \in Threads : pc[t] \notin {"parked", "cleanup", "dead"} =>
        \A k \in Keys : ~ In(t, queue[k])

\* Once futex_drain_pid has run for an exiting process, none of its threads is, or will
\* again be, on a queue.
DrainedClean ==
    \A t \in Threads : ProcOf[t] \in drained => \A k \in Keys : ~ In(t, queue[k])

\* FUTEX_WAKE wakes as many live waiters as it may, the oldest first, whatever stale
\* entries of timed-out or Dead threads are on the queue.
WakesLive ==
    \A t \in Threads : pc[t] = "wake" /\ pc'[t] = "ret" =>
        LET s == queue[call[t].key]
            live == {i \in 1 .. Len(s) : tstate[s[i]] = "Blocked"}
            woken == {i \in live : tstate'[s[i]] = "Ready"}
            n == Budget(call[t].val)
        IN  /\ Cardinality(woken) = IF Cardinality(live) < n THEN Cardinality(live) ELSE n
            /\ \A i \in woken, j \in live \ woken : i < j

\* A wake is never swallowed: a waiter that a wake took off its queue does not report
\* ETIMEDOUT, even when its timeout raced with the wake.
NoWakeSwallowed == \A t \in Threads : res[t] = "ETIMEDOUT" => t \notin taken

\* A WAIT without a timeout does not report ETIMEDOUT.
NoSpuriousTimeout == \A t \in Threads : res[t] = "ETIMEDOUT" => call[t].timed

\* The threads that wait at all.
Waiters == {t \in Threads : WaitWords[t] # {}}

\* When every wake is a broadcast, a waiter whose word has changed leaves its queue; in
\* particular a thread that joins another returns once that one has exited.
Awakened ==
    \A t \in Waiters :
        (Waiting(t) /\ word[call[t].uaddr] # call[t].exp) ~> ~ Waiting(t)

\* A WAIT with a timeout ends, whatever wakes, requeues and exits race with it.
TimedWaitReturns ==
    \A t \in Waiters : (pc[t] = "parked" /\ call[t].timed) ~> (pc[t] # "parked" \/ tstate[t] = "Dead")
=============================================================================
