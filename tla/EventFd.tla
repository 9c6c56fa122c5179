------------------------------ MODULE EventFd ------------------------------
(***************************************************************************)
(* eventfds and the readiness calls that watch them: the counter table     *)
(* (ipc/eventfd.rs), its reader wait list, the global poll bell            *)
(* (ipc/waitlist.rs), the interest list of one epoll instance              *)
(* (ipc/epoll.rs), and read, write, close, eventfd2, dup2, execve, kill,   *)
(* epoll_ctl, epoll_wait, poll and select on such descriptors.             *)
(*                                                                         *)
(* TABLE, EVENTFD_READ_WAITERS and THREAD_TABLE are leaf locks: one step   *)
(* is one critical section.  PROCESS_TABLE and POLL_BELL are held across   *)
(* other sections, so they are the variable evLock; a section of            *)
(* PROCESS_TABLE alone is a step that needs the lock to be free.           *)
(* Descriptors are numbered across processes; EvFdsOf gives each thread    *)
(* the table it sees.                                                      *)
(***************************************************************************)
EXTENDS Integers, Sequences, FiniteSets, FiniteSetsExt, Functions

CONSTANTS
    EvThreads,  \* thread ids
    EvFds,      \* descriptor numbers, a set of naturals >= 1
    EvSlots,    \* indices of TABLE (64 in the code), a set of naturals
    EvFdsOf,    \* [EvThreads -> SUBSET EvFds]: the thread's descriptor table
    EvInitFd,   \* [EvFds -> EvSlots \cup {NoSlot}]: descriptors open at the start
    EvCloExec,  \* descriptors marked close-on-exec, which dup2 and eventfd2 do not reach
    EvCalls,    \* [EvThreads -> SUBSET STRING]: the system calls a thread makes
    EvBudgets,  \* set of [EvThreads -> Nat]: how many calls each thread makes
    EvMax,      \* u64::MAX - 1, the largest counter
    EvPosts,    \* values written
    EvInits,    \* initial values of a new eventfd
    EvModes,    \* values of EFD_SEMAPHORE at creation
    EvNonblock, \* values of O_NONBLOCK of a reader's descriptor
    EvTimeouts, \* the time-outs given to "epoll", "poll" and "select": "zero", "finite", "never"
    EvEdge,     \* values of EPOLLET in epoll_ctl
    EvMaxEvents \* maxevents of epoll_wait

NoSlot == -1

NoThread == -1

ASSUME EventFdAssumption ==
    /\ EvSlots \subseteq Nat
    /\ EvFds \subseteq Nat \ {0} /\ IsFiniteSet(EvFds)
    /\ EvFdsOf \in [EvThreads -> SUBSET EvFds]
    /\ EvInitFd \in [EvFds -> EvSlots \cup {NoSlot}]
    /\ EvBudgets \subseteq [EvThreads -> Nat]
    /\ EvMax \in Nat /\ EvPosts \subseteq Nat /\ EvInits \subseteq 0 .. EvMax
    /\ EvModes \subseteq BOOLEAN

\* A free entry of TABLE (EventFdEntry::empty).
EmptySlot == [in_use |-> FALSE, counter |-> 0, sem |-> FALSE, refs |-> 0, rise_seq |-> 0]

VARIABLES
    evTable,   \* TABLE
    evWaiters, \* EVENTFD_READ_WAITERS: the threads parked on each slot
    evBell,    \* POLL_BELL: the threads parked in wait_poll_event
    evFd,      \* file_descriptors: the slot each descriptor names
    evWatches, \* the watches of the epoll instance, in order of registration
    evSig,     \* has_pending() of the process
    evLock,    \* owners of PROCESS_TABLE and POLL_BELL
    evRun,     \* state of each thread: "ready" or "blocked"
    evPc,      \* where a thread is in its call
    evReg,     \* its local variables
    evLeft,    \* calls it still makes
    evTold     \* history: the rise each descriptor had when it was last reported

evVars == <<evTable, evWaiters, evBell, evFd, evWatches, evSig, evLock, evRun,
            evPc, evReg, evLeft, evTold>>

\* The local variables of a thread that is in no call.
NoReg == [call |-> "none", fd |-> 0, id |-> NoSlot, val |-> 0, nb |-> FALSE,
          drained |-> {}, cont |-> "idle", todo |-> {}, tmo |-> "zero",
          snap |-> <<>>, i |-> 0, phase |-> "none", fired |-> {},
          slot |-> NoSlot, lev |-> {}, edges |-> <<>>]

EvInit ==
    /\ evTable = [s \in EvSlots |->
         LET n == Cardinality({f \in EvFds : EvInitFd[f] = s}) IN
         IF n = 0 THEN EmptySlot ELSE [EmptySlot EXCEPT !.in_use = TRUE, !.refs = n]]
    /\ evWaiters = [s \in EvSlots |-> {}]
    /\ evBell = {}
    /\ evFd = EvInitFd
    /\ evWatches = <<>>
    /\ evSig = FALSE
    /\ evLock = [proc |-> NoThread, bell |-> NoThread]
    /\ evRun = [t \in EvThreads |-> "ready"]
    /\ evPc = [t \in EvThreads |-> "idle"]
    /\ evReg = [t \in EvThreads |-> NoReg]
    /\ evLeft \in EvBudgets
    /\ evTold = [f \in EvFds |-> 0]

----------------------------------------------------------------------------
(* Locks and control. *)

ProcFree == evLock.proc = NoThread
BellFree == evLock.bell = NoThread

At(t, pc) == evPc[t] = pc /\ evRun[t] = "ready"

EvGo(t, pc, reg) ==
    /\ evPc' = [evPc EXCEPT ![t] = pc]
    /\ evReg' = [evReg EXCEPT ![t] = reg]

EvReturn(t) == EvGo(t, "idle", NoReg)

\* Continue where a drop, or the wake that follows it, was called from.
EvResume(t) == IF evReg[t].cont = "idle" THEN EvReturn(t) ELSE EvGo(t, evReg[t].cont, evReg[t])

EvBegin(t, call) ==
    /\ At(t, "idle")
    /\ call \in EvCalls[t]
    /\ evLeft[t] > 0
    /\ evLeft' = [evLeft EXCEPT ![t] = @ - 1]

----------------------------------------------------------------------------
(* read(2) and write(2). *)

\* sys_read: resolve the descriptor to a slot id and its O_NONBLOCK flag.
EvRead(t) ==
    /\ EvBegin(t, "read")
    /\ ProcFree
    /\ \E f \in EvFdsOf[t], nb \in EvNonblock :
         /\ evFd[f] # NoSlot
         /\ EvGo(t, "try", [NoReg EXCEPT !.id = evFd[f], !.nb = nb])
    /\ UNCHANGED <<evTable, evWaiters, evBell, evFd, evWatches, evSig, evLock, evRun, evTold>>

\* try_read.
EvTryRead(t) ==
    LET s == evReg[t].id IN
    /\ At(t, "try")
    /\ IF ~evTable[s].in_use                              \* EBADF
         THEN EvReturn(t) /\ UNCHANGED evTable
         ELSE IF evTable[s].counter = 0
           THEN /\ IF evReg[t].nb THEN EvReturn(t) ELSE EvGo(t, "sig", evReg[t])
                /\ UNCHANGED evTable
           ELSE /\ evTable' = [evTable EXCEPT ![s].counter = IF evTable[s].sem THEN @ - 1 ELSE 0]
                /\ EvReturn(t)
    /\ UNCHANGED <<evWaiters, evBell, evFd, evWatches, evSig, evLock, evRun, evLeft, evTold>>

\* signal_pending before parking: EINTR.
EvReadSig(t) ==
    /\ At(t, "sig")
    /\ ProcFree
    /\ IF evSig THEN EvReturn(t) ELSE EvGo(t, "park", evReg[t])
    /\ UNCHANGED <<evTable, evWaiters, evBell, evFd, evWatches, evSig, evLock, evRun, evLeft, evTold>>

\* Mutant: enqueue without re-checking the counter.
EvParkBlind(t) ==
    /\ At(t, "park")
    /\ evWaiters' = [evWaiters EXCEPT ![evReg[t].id] = @ \cup {t}]
    /\ evRun' = [evRun EXCEPT ![t] = "blocked"]
    /\ EvGo(t, "parked", evReg[t])
    /\ UNCHANGED <<evTable, evBell, evFd, evWatches, evSig, evLock, evLeft, evTold>>

\* wait_readable: re-check the counter and enqueue under EVENTFD_READ_WAITERS.
EvPark(t) ==
    LET s == evReg[t].id IN
    /\ At(t, "park")
    /\ IF ~evTable[s].in_use
         THEN EvReturn(t) /\ UNCHANGED <<evWaiters, evRun>>
         ELSE IF evTable[s].counter > 0
           THEN EvGo(t, "try", evReg[t]) /\ UNCHANGED <<evWaiters, evRun>>
           ELSE /\ evWaiters' = [evWaiters EXCEPT ![s] = @ \cup {t}]
                /\ evRun' = [evRun EXCEPT ![t] = "blocked"]
                /\ EvGo(t, "parked", evReg[t])
    /\ UNCHANGED <<evTable, evBell, evFd, evWatches, evSig, evLock, evLeft, evTold>>

\* schedule() returned: waiter_cleanup and retry.
EvUnpark(t) ==
    /\ At(t, "parked")
    /\ evWaiters' = [evWaiters EXCEPT ![evReg[t].id] = @ \ {t}]
    /\ EvGo(t, "try", evReg[t])
    /\ UNCHANGED <<evTable, evBell, evFd, evWatches, evSig, evLock, evRun, evLeft, evTold>>

EvWrite(t) ==
    /\ EvBegin(t, "write")
    /\ ProcFree
    /\ \E f \in EvFdsOf[t], v \in EvPosts :
         /\ evFd[f] # NoSlot
         /\ EvGo(t, "add", [NoReg EXCEPT !.id = evFd[f], !.val = v])
    /\ UNCHANGED <<evTable, evWaiters, evBell, evFd, evWatches, evSig, evLock, evRun, evTold>>

\* Mutant: no EFBIG.
EvAddUnbounded(t) ==
    LET s == evReg[t].id
        v == evReg[t].val
        old == evTable[s].counter IN
    /\ At(t, "add")
    /\ IF ~evTable[s].in_use
         THEN EvReturn(t) /\ UNCHANGED evTable
         ELSE /\ evTable' = [evTable EXCEPT ![s].counter = @ + v,
                                            ![s].rise_seq = IF old = 0 /\ v > 0 THEN @ + 1 ELSE @]
              /\ EvGo(t, "drain", evReg[t])
    /\ UNCHANGED <<evWaiters, evBell, evFd, evWatches, evSig, evLock, evRun, evLeft, evTold>>

\* eventfd::write: EBADF, EFBIG, or add and count a rise from zero.
EvAdd(t) ==
    LET s == evReg[t].id
        v == evReg[t].val
        old == evTable[s].counter IN
    /\ At(t, "add")
    /\ IF ~evTable[s].in_use \/ v > EvMax - old
         THEN EvReturn(t) /\ UNCHANGED evTable
         ELSE /\ evTable' = [evTable EXCEPT ![s].counter = @ + v,
                                            ![s].rise_seq = IF old = 0 /\ v > 0 THEN @ + 1 ELSE @]
              /\ EvGo(t, "drain", evReg[t])
    /\ UNCHANGED <<evWaiters, evBell, evFd, evWatches, evSig, evLock, evRun, evLeft, evTold>>

----------------------------------------------------------------------------
(* wake_readers_all: drain the slot's list, wake it, ring the poll bell. *)

EvDrain(t) ==
    LET s == evReg[t].id IN
    /\ At(t, "drain")
    /\ evWaiters' = [evWaiters EXCEPT ![s] = {}]
    /\ EvGo(t, "wake", [evReg[t] EXCEPT !.drained = evWaiters[s]])
    /\ UNCHANGED <<evTable, evBell, evFd, evWatches, evSig, evLock, evRun, evLeft, evTold>>

\* wake_tids.
Awake(T) == evRun' = [u \in EvThreads |-> IF u \in T THEN "ready" ELSE evRun[u]]

EvWake(t) ==
    /\ At(t, "wake")
    /\ Awake(evReg[t].drained)
    /\ EvGo(t, "ring", [evReg[t] EXCEPT !.drained = {}])
    /\ UNCHANGED <<evTable, evWaiters, evBell, evFd, evWatches, evSig, evLock, evLeft, evTold>>

\* ring_poll_bell_for: drain_all under POLL_BELL.
EvRing(t) ==
    /\ At(t, "ring")
    /\ BellFree
    /\ evBell' = {}
    /\ EvGo(t, "ringwake", [evReg[t] EXCEPT !.drained = evBell])
    /\ UNCHANGED <<evTable, evWaiters, evFd, evWatches, evSig, evLock, evRun, evLeft, evTold>>

EvRingWake(t) ==
    /\ At(t, "ringwake")
    /\ Awake(evReg[t].drained)
    /\ EvResume(t)
    /\ UNCHANGED <<evTable, evWaiters, evBell, evFd, evWatches, evSig, evLock, evLeft, evTold>>

----------------------------------------------------------------------------
(* Descriptors: close(2), eventfd2(2), dup2(2), execve(2). *)

\* eventfd::close: drop one reference; the last one frees the slot and wakes its readers.
EvDrop(t) ==
    LET s == evReg[t].id IN
    /\ At(t, "drop")
    /\ CASE ~evTable[s].in_use -> EvResume(t) /\ UNCHANGED evTable
         [] evTable[s].in_use /\ evTable[s].refs > 1 ->
              /\ evTable' = [evTable EXCEPT ![s].refs = @ - 1]
              /\ EvResume(t)
         [] OTHER ->
              /\ evTable' = [evTable EXCEPT ![s] = EmptySlot]
              /\ EvGo(t, "drain", evReg[t])
    /\ UNCHANGED <<evWaiters, evBell, evFd, evWatches, evSig, evLock, evRun, evLeft, evTold>>

\* close(2) resolves the slot, drops its reference, and only then clears the descriptor.
EvClose(t) ==
    /\ EvBegin(t, "close")
    /\ ProcFree
    /\ \E f \in EvFdsOf[t] :
         /\ evFd[f] # NoSlot
         /\ EvGo(t, "drop", [NoReg EXCEPT !.fd = f, !.id = evFd[f], !.cont = "clear"])
    /\ UNCHANGED <<evTable, evWaiters, evBell, evFd, evWatches, evSig, evLock, evRun, evTold>>

\* vfs::close takes the descriptor out of the table.
EvClear(t) ==
    /\ At(t, "clear")
    /\ ProcFree
    /\ evFd' = [evFd EXCEPT ![evReg[t].fd] = NoSlot]
    /\ EvReturn(t)
    /\ UNCHANGED <<evTable, evWaiters, evBell, evWatches, evSig, evLock, evRun, evLeft, evTold>>

\* create: the lowest free slot, with one reference; rise_seq is the one close left.
EvCreate(t) ==
    LET free == {s \in EvSlots : ~evTable[s].in_use} IN
    /\ EvBegin(t, "eventfd")
    /\ free # {}
    /\ \E m \in EvModes, v \in EvInits :
         LET s == Min(free) IN
         /\ evTable' = [evTable EXCEPT ![s].in_use = TRUE, ![s].counter = v,
                                       ![s].sem = m, ![s].refs = 1]
         /\ EvGo(t, "install", [NoReg EXCEPT !.id = s])
    /\ UNCHANGED <<evWaiters, evBell, evFd, evWatches, evSig, evLock, evRun, evTold>>

\* The lowest free descriptor, or EMFILE: the slot is closed with PROCESS_TABLE still held.
EvInstall(t) ==
    LET free == {f \in EvFdsOf[t] : evFd[f] = NoSlot} IN
    /\ At(t, "install")
    /\ ProcFree
    /\ IF free = {}
         THEN /\ evLock' = [evLock EXCEPT !.proc = t]
              /\ EvGo(t, "drop", [evReg[t] EXCEPT !.cont = "unlock"])
              /\ UNCHANGED evFd
         ELSE /\ evFd' = [evFd EXCEPT ![Min(free)] = evReg[t].id]
              /\ EvReturn(t)
              /\ UNCHANGED evLock
    /\ UNCHANGED <<evTable, evWaiters, evBell, evWatches, evSig, evRun, evLeft, evTold>>

EvUnlock(t) ==
    /\ At(t, "unlock")
    /\ evLock' = [evLock EXCEPT !.proc = NoThread]
    /\ EvReturn(t)
    /\ UNCHANGED <<evTable, evWaiters, evBell, evFd, evWatches, evSig, evRun, evLeft, evTold>>

\* Mutant: dup2 adds no reference.
EvDup2NoRef(t) ==
    /\ EvBegin(t, "dup2")
    /\ ProcFree
    /\ \E f, g \in EvFdsOf[t] :
         /\ f # g
         /\ evFd[f] # NoSlot
         /\ evFd[g] = NoSlot
         /\ evFd' = [evFd EXCEPT ![g] = evFd[f]]
    /\ EvReturn(t)
    /\ UNCHANGED <<evTable, evWaiters, evBell, evWatches, evSig, evLock, evRun, evTold>>

\* sys_dup2: add a reference, then close the displaced descriptor with PROCESS_TABLE held.
EvDup2(t) ==
    /\ EvBegin(t, "dup2")
    /\ ProcFree
    /\ \E f, g \in EvFdsOf[t] :
         LET s == evFd[f] IN
         /\ f # g
         /\ s # NoSlot
         /\ evTable' = [evTable EXCEPT ![s].refs = IF evTable[s].in_use THEN @ + 1 ELSE @]
         /\ IF evFd[g] = NoSlot
              THEN /\ evFd' = [evFd EXCEPT ![g] = s]
                   /\ EvReturn(t)
                   /\ UNCHANGED evLock
              ELSE /\ evLock' = [evLock EXCEPT !.proc = t]
                   /\ evFd' = [evFd EXCEPT ![g] = NoSlot]
                   /\ EvGo(t, "drop", [NoReg EXCEPT !.fd = g, !.slot = s, !.id = evFd[g],
                                                    !.cont = "put"])
    /\ UNCHANGED <<evWaiters, evBell, evWatches, evSig, evRun, evTold>>

EvPut(t) ==
    /\ At(t, "put")
    /\ evFd' = [evFd EXCEPT ![evReg[t].fd] = evReg[t].slot]
    /\ evLock' = [evLock EXCEPT !.proc = NoThread]
    /\ EvReturn(t)
    /\ UNCHANGED <<evTable, evWaiters, evBell, evWatches, evSig, evRun, evLeft, evTold>>

\* sys_exec: purge the close-on-exec descriptors with PROCESS_TABLE held.
EvExec(t) ==
    /\ EvBegin(t, "exec")
    /\ ProcFree
    /\ evLock' = [evLock EXCEPT !.proc = t]
    /\ EvGo(t, "purge", [NoReg EXCEPT !.todo = {f \in EvFdsOf[t] \cap EvCloExec : evFd[f] # NoSlot}])
    /\ UNCHANGED <<evTable, evWaiters, evBell, evFd, evWatches, evSig, evRun, evTold>>

EvPurge(t) ==
    LET todo == evReg[t].todo
        f == Min(todo) IN
    /\ At(t, "purge")
    /\ IF todo = {} THEN EvGo(t, "unlock", NoReg)
       ELSE EvGo(t, "drop", [evReg[t] EXCEPT !.fd = f, !.id = evFd[f], !.todo = @ \ {f},
                                             !.cont = "purged"])
    /\ UNCHANGED <<evTable, evWaiters, evBell, evFd, evWatches, evSig, evLock, evRun, evLeft, evTold>>

EvPurged(t) ==
    /\ At(t, "purged")
    /\ evFd' = [evFd EXCEPT ![evReg[t].fd] = NoSlot]
    /\ EvGo(t, "purge", [evReg[t] EXCEPT !.cont = "idle"])
    /\ UNCHANGED <<evTable, evWaiters, evBell, evWatches, evSig, evLock, evRun, evLeft, evTold>>

----------------------------------------------------------------------------
(* Signals. *)

\* signal::kill: set the pending bit, release PROCESS_TABLE, ring the bell.
EvKill(t) ==
    /\ EvBegin(t, "kill")
    /\ ProcFree
    /\ evSig' = TRUE
    /\ EvGo(t, "ring", NoReg)
    /\ UNCHANGED <<evTable, evWaiters, evBell, evFd, evWatches, evLock, evRun, evTold>>

\* check_signals on some thread's way back to user mode takes the signal.
EvDeliver(t) ==
    /\ At(t, "idle")
    /\ ProcFree
    /\ evSig
    /\ evSig' = FALSE
    /\ UNCHANGED <<evTable, evWaiters, evBell, evFd, evWatches, evLock, evRun, evPc, evReg, evLeft, evTold>>

----------------------------------------------------------------------------
(* epoll_ctl(2). *)

Watched(f) == \E i \in DOMAIN evWatches : evWatches[i].fd = f

\* EpollInstance::add, modify, del.  ADD and MOD arm a fresh edge.
EvCtl(t) ==
    /\ EvBegin(t, "ctl")
    /\ ProcFree
    /\ \E f \in EvFdsOf[t], et \in EvEdge :
         LET armed == [fd |-> f, et |-> et, last |-> {}, rise |-> 0] IN
         evWatches' \in
           IF Watched(f)
           THEN {[i \in DOMAIN evWatches |-> IF evWatches[i].fd = f THEN armed ELSE evWatches[i]],
                 SelectSeq(evWatches, LAMBDA w : w.fd # f)}
           ELSE {Append(evWatches, armed)}
    /\ UNCHANGED <<evTable, evWaiters, evBell, evFd, evSig, evLock, evRun, evPc, evReg, evTold>>

----------------------------------------------------------------------------
(* epoll_wait(2), poll(2), select(2).  A call scans its watches in phases: *)
(*   first   before blocking;                                              *)
(*   pumped  again after net::poll (not in select);                        *)
(*   probe   under POLL_BELL, inside wait_poll_event;                      *)
(*   window  after a probe that found readiness (epoll_wait only);         *)
(*   woken   after each return of wait_poll_event;                         *)
(*   commit  the edge-triggered watches, before epoll_wait returns.        *)

Rise(s) == IF s # NoSlot /\ evTable[s].in_use THEN evTable[s].rise_seq ELSE 0

Readable(s) == s # NoSlot /\ evTable[s].in_use /\ evTable[s].counter > 0

\* Mutant: only a change of level is an edge.
DeliveredByLevel(w, lev, rise) == IF ~w.et THEN lev ELSE lev \ w.last

\* What watch_events reports of a watch w whose asserted level is lev.
Delivered(w, lev, rise) ==
    IF ~w.et THEN lev
    ELSE (lev \ w.last) \cup
         (IF w.slot # NoSlot /\ rise # w.rise THEN lev \cap {"IN"} ELSE {})

\* The position after i of the next watch the phase looks at, or 0.
NextWatch(snap, phase, i) ==
    LET P == {j \in DOMAIN snap : j > i /\ (phase = "commit" => snap[j].et)} IN
    IF P = {} THEN 0 ELSE Min(P)

\* Start a scan: do_poll clears fired, commit keeps what is to be returned.
ScanReg(reg, phase) ==
    [reg EXCEPT !.phase = phase, !.i = NextWatch(reg.snap, phase, 0), !.edges = <<>>,
                !.fired = IF phase = "commit" THEN @ ELSE {}]

EvScanFrom(t, reg, phase) ==
    LET r == ScanReg(reg, phase) IN EvGo(t, IF r.i = 0 THEN "scanned" ELSE "scan", r)

\* epoll_wait: snapshot the watches and the eventfd slot behind each.
EvEpollWait(t) ==
    /\ EvBegin(t, "epoll")
    /\ ProcFree
    /\ \E tmo \in EvTimeouts["epoll"] :
         EvScanFrom(t, [NoReg EXCEPT !.call = "epoll", !.tmo = tmo,
            !.snap = [i \in DOMAIN evWatches |->
                        [fd |-> evWatches[i].fd, et |-> evWatches[i].et, last |-> evWatches[i].last,
                         rise |-> evWatches[i].rise, slot |-> evFd[evWatches[i].fd]]]], "first")
    /\ UNCHANGED <<evTable, evWaiters, evBell, evFd, evWatches, evSig, evLock, evRun, evTold>>

\* poll and select name one descriptor and have no edges.
EvPoll(t) ==
    /\ \E call \in {"poll", "select"} : \E f \in EvFdsOf[t], tmo \in EvTimeouts[call] :
         /\ EvBegin(t, call)
         /\ EvScanFrom(t, [NoReg EXCEPT !.call = call, !.tmo = tmo,
              !.snap = <<[fd |-> f, et |-> FALSE, last |-> {}, rise |-> 0, slot |-> NoSlot]>>], "first")
    /\ UNCHANGED <<evTable, evWaiters, evBell, evFd, evWatches, evSig, evLock, evRun, evTold>>

\* epoll_poll_events, first half: what the descriptor is, under PROCESS_TABLE.
EvScanFd(t) ==
    /\ At(t, "scan")
    /\ ProcFree
    /\ LET s == evFd[evReg[t].snap[evReg[t].i].fd] IN
       IF s = NoSlot THEN EvGo(t, "scanrise", [evReg[t] EXCEPT !.lev = {"ERR"}])
       ELSE EvGo(t, "scanlevel", [evReg[t] EXCEPT !.slot = s])
    /\ UNCHANGED <<evTable, evWaiters, evBell, evFd, evWatches, evSig, evLock, evRun, evLeft, evTold>>

\* Second half: is_readable, under TABLE.
EvScanLevel(t) ==
    /\ At(t, "scanlevel")
    /\ EvGo(t, "scanrise", [evReg[t] EXCEPT !.slot = NoSlot,
                              !.lev = IF Readable(evReg[t].slot) THEN {"IN"} ELSE {}])
    /\ UNCHANGED <<evTable, evWaiters, evBell, evFd, evWatches, evSig, evLock, evRun, evLeft, evTold>>

\* rise_seq, under TABLE again; then the next watch.  A probe stops at the first
\* ready watch, epoll_wait at maxevents.
EvScanRise(t) ==
    LET reg == evReg[t]
        w == reg.snap[reg.i]
        rise == Rise(w.slot)
        hit == Delivered(w, reg.lev, rise) # {}
        fired == IF hit /\ reg.phase # "commit" THEN reg.fired \cup {w.fd} ELSE reg.fired
        stop == \/ reg.phase = "probe" /\ hit
                \/ reg.phase # "commit" /\ reg.call = "epoll" /\ Cardinality(fired) >= EvMaxEvents
        next == IF stop THEN 0 ELSE NextWatch(reg.snap, reg.phase, reg.i)
        edges == IF reg.phase = "commit"
                 THEN Append(reg.edges, [fd |-> w.fd, last |-> reg.lev, rise |-> rise])
                 ELSE <<>> IN
    /\ At(t, "scanrise")
    /\ EvGo(t, IF next = 0 THEN "scanned" ELSE "scan",
              [reg EXCEPT !.i = next, !.lev = {}, !.fired = fired, !.edges = edges])
    /\ UNCHANGED <<evTable, evWaiters, evBell, evFd, evWatches, evSig, evLock, evRun, evLeft, evTold>>

\* Return to the caller with the descriptors in fired.
EvReport(t, fired) ==
    /\ evTold' = [f \in EvFds |-> IF f \in fired THEN Rise(evFd[f]) ELSE evTold[f]]
    /\ EvReturn(t)

\* The scan is over and the call is: commit the edges, or just return.
EvFinish(t) ==
    IF evReg[t].call = "epoll" THEN EvScanFrom(t, evReg[t], "commit") /\ UNCHANGED evTold
    ELSE EvReport(t, evReg[t].fired)

\* What follows a scan outside wait_poll_event.  The first scan of select clears
\* the bits of what is not ready, and the later ones look at the bits left.
EvScanned(t) ==
    LET reg == evReg[t] IN
    /\ At(t, "scanned")
    /\ \/ /\ reg.phase \in {"first", "pumped", "window", "woken"}
          /\ reg.fired # {}
          /\ EvFinish(t)
       \/ /\ reg.phase = "first" /\ reg.fired = {}
          /\ IF reg.tmo = "zero" THEN EvFinish(t)
             ELSE /\ IF reg.call = "select" THEN EvGo(t, "bell", [reg EXCEPT !.snap = <<>>])
                     ELSE EvScanFrom(t, reg, "pumped")
                  /\ UNCHANGED evTold
       \/ /\ reg.phase = "pumped" /\ reg.fired = {}
          /\ EvGo(t, "bell", reg) /\ UNCHANGED evTold
       \/ /\ reg.phase = "window" /\ reg.fired = {}
          /\ EvScanFrom(t, reg, "woken") /\ UNCHANGED evTold
       \/ /\ reg.phase = "woken" /\ reg.fired = {}
          /\ ProcFree
          /\ IF evSig THEN EvReturn(t) /\ UNCHANGED evTold        \* EINTR
             ELSE \/ reg.tmo = "finite" /\ EvFinish(t)            \* deadline
                  \/ EvGo(t, "bell", reg) /\ UNCHANGED evTold
       \/ /\ reg.phase = "commit"
          /\ IF reg.edges = <<>> THEN EvReport(t, reg.fired)
             ELSE EvGo(t, "store", reg) /\ UNCHANGED evTold
    /\ UNCHANGED <<evTable, evWaiters, evBell, evFd, evWatches, evSig, evLock, evRun, evLeft>>

\* Mutant: park on the bell without the probe.
EvBellLockBlind(t) ==
    /\ At(t, "bell")
    /\ BellFree
    /\ evLock' = [evLock EXCEPT !.bell = t]
    /\ EvGo(t, "scanned", [evReg[t] EXCEPT !.phase = "probe"])
    /\ UNCHANGED <<evTable, evWaiters, evBell, evFd, evWatches, evSig, evRun, evLeft, evTold>>

\* wait_poll_event: take POLL_BELL and run the probe.
EvBellLock(t) ==
    /\ At(t, "bell")
    /\ BellFree
    /\ evLock' = [evLock EXCEPT !.bell = t]
    /\ EvScanFrom(t, evReg[t], "probe")
    /\ UNCHANGED <<evTable, evWaiters, evBell, evFd, evWatches, evSig, evRun, evLeft, evTold>>

\* Ready: release the bell without parking.  Not ready: enqueue, then release.
EvBellPark(t) ==
    LET reg == evReg[t] IN
    /\ At(t, "scanned") /\ reg.phase = "probe"
    /\ evLock' = [evLock EXCEPT !.bell = NoThread]
    /\ IF reg.fired # {}
         THEN /\ EvScanFrom(t, reg, IF reg.call = "epoll" THEN "window" ELSE "woken")
              /\ UNCHANGED <<evBell, evRun>>
         ELSE /\ evBell' = evBell \cup {t}
              /\ evRun' = [evRun EXCEPT ![t] = "blocked"]
              /\ EvGo(t, "belled", reg)
    /\ UNCHANGED <<evTable, evWaiters, evFd, evWatches, evSig, evLeft, evTold>>

\* The scheduler tick wakes a parked poller at its deadline or the resync tick.
EvTick(t) ==
    /\ evPc[t] = "belled"
    /\ evRun[t] = "blocked"
    /\ evRun' = [evRun EXCEPT ![t] = "ready"]
    /\ UNCHANGED <<evTable, evWaiters, evBell, evFd, evWatches, evSig, evLock, evPc, evReg, evLeft, evTold>>

\* schedule() returned: remove_tid, then rescan.
EvBellWoken(t) ==
    /\ At(t, "belled")
    /\ BellFree
    /\ evBell' = evBell \ {t}
    /\ EvScanFrom(t, evReg[t], "woken")
    /\ UNCHANGED <<evTable, evWaiters, evFd, evWatches, evSig, evLock, evRun, evLeft, evTold>>

\* commit_edges, under PROCESS_TABLE, and return.
EvStore(t) ==
    LET E == evReg[t].edges
        Edge(f) == {e \in Range(E) : e.fd = f} IN
    /\ At(t, "store")
    /\ ProcFree
    /\ evWatches' = [i \in DOMAIN evWatches |->
         LET w == evWatches[i] IN
         IF w.et /\ Edge(w.fd) # {}
         THEN LET e == CHOOSE x \in Edge(w.fd) : TRUE IN [w EXCEPT !.last = e.last, !.rise = e.rise]
         ELSE w]
    /\ EvReport(t, evReg[t].fired)
    /\ UNCHANGED <<evTable, evWaiters, evBell, evFd, evSig, evLock, evRun, evLeft>>

----------------------------------------------------------------------------
\* The steps a thread owes once it is in a call.
EvStep(t) ==
    \/ EvTryRead(t) \/ EvReadSig(t) \/ EvPark(t) \/ EvUnpark(t) \/ EvAdd(t)
    \/ EvDrain(t) \/ EvWake(t) \/ EvRing(t) \/ EvRingWake(t)
    \/ EvDrop(t) \/ EvClear(t) \/ EvInstall(t) \/ EvUnlock(t) \/ EvPut(t)
    \/ EvPurge(t) \/ EvPurged(t)
    \/ EvScanFd(t) \/ EvScanLevel(t) \/ EvScanRise(t) \/ EvScanned(t)
    \/ EvBellLock(t) \/ EvBellPark(t) \/ EvBellWoken(t) \/ EvStore(t)

EvNext == \E t \in EvThreads :
    \/ EvRead(t) \/ EvWrite(t) \/ EvClose(t) \/ EvCreate(t) \/ EvDup2(t) \/ EvExec(t)
    \/ EvKill(t) \/ EvDeliver(t) \/ EvCtl(t) \/ EvEpollWait(t) \/ EvPoll(t) \/ EvTick(t)
    \/ EvStep(t)

EvSpec == EvInit /\ [][EvNext]_evVars

----------------------------------------------------------------------------
(* Properties. *)

\* The counter never exceeds u64::MAX - 1 and a free slot is empty (EventFdEntry,
\* ipc/eventfd.rs).
EvTypeOK ==
    /\ \A s \in EvSlots :
         /\ evTable[s].in_use \in BOOLEAN /\ evTable[s].sem \in BOOLEAN
         /\ evTable[s].counter \in 0 .. EvMax
         /\ evTable[s].refs \in Nat /\ evTable[s].rise_seq \in Nat
         /\ ~evTable[s].in_use => evTable[s] = EmptySlot
    /\ evWaiters \in [EvSlots -> SUBSET EvThreads]
    /\ evBell \subseteq EvThreads
    /\ evFd \in [EvFds -> EvSlots \cup {NoSlot}]
    /\ evRun \in [EvThreads -> {"ready", "blocked"}]

\* A reader blocked on a slot that is readable or freed is about to be woken: the
\* writer or closer that changed the slot still has its list to drain, or has the
\* reader among the threads it drained (ipc/eventfd.rs, wait_readable).
EvNoLostWake ==
    \A t \in EvThreads :
      LET s == evReg[t].id IN
      evPc[t] = "parked" /\ evRun[t] = "blocked" /\ (Readable(s) \/ ~evTable[s].in_use) =>
        \E u \in EvThreads :
          \/ evPc[u] = "drain" /\ evReg[u].id = s
          \/ evPc[u] = "wake" /\ t \in evReg[u].drained

\* The watch w would be reported as readable now.
Reportable(w) ==
    evFd[w.fd] # NoSlot /\ Readable(evFd[w.fd]) /\ Delivered(w, {"IN"}, Rise(w.slot)) # {}

\* A thread blocked on the poll bell has nothing to report, or a thread that made
\* a watched eventfd readable has yet to ring the bell or to wake those it drained
\* (ipc/waitlist.rs: "no edge can be lost").
BellNoLostWake ==
    \A t \in EvThreads :
      /\ evPc[t] = "belled" /\ evRun[t] = "blocked"
      /\ \E i \in DOMAIN evReg[t].snap : Reportable(evReg[t].snap[i])
      => \E u \in EvThreads :
          \/ evPc[u] \in {"drain", "wake", "ring"}
          \/ evPc[u] = "ringwake" /\ t \in evReg[u].drained

\* Threads that hold a reference to slot s no descriptor shows yet, or any more.
Holding(s) == {t \in EvThreads :
    \/ evPc[t] = "install" /\ evReg[t].id = s
    \/ evPc[t] = "drop" /\ evReg[t].cont \in {"unlock", "put"} /\ evReg[t].id = s}
Placing(s) == {t \in EvThreads : evReg[t].cont = "put" /\ evReg[t].slot = s}

\* Threads that dropped the reference of a descriptor still in its table.
Leaving(s) == {t \in EvThreads :
    evReg[t].cont \in {"clear", "purged"} /\ evPc[t] # "drop" /\ evReg[t].id = s}

\* Each slot in use has one reference per descriptor that names it, and a free slot
\* is named by no descriptor, up to the calls in progress (refs in ipc/eventfd.rs).
EvRefsExact ==
    \A s \in EvSlots :
      LET named == Cardinality({f \in EvFds : evFd[f] = s}) IN
      evTable[s].refs = named + Cardinality(Holding(s)) + Cardinality(Placing(s))
                          - Cardinality(Leaving(s))

InEpollWait == \E t \in EvThreads : evReg[t].call = "epoll"

\* Between two epoll_wait calls an edge-triggered watch on a readable eventfd has
\* been reported since the counter last rose from zero, or is still armed to report
\* it ("each not-ready->ready transition is a fresh edge that must be reported",
\* ipc/epoll.rs).
NoLostEdge ==
    ~InEpollWait =>
      \A i \in DOMAIN evWatches :
        LET w == evWatches[i]
            s == evFd[w.fd] IN
        w.et /\ s # NoSlot /\ Readable(s) /\ evTold[w.fd] # Rise(s) =>
          Delivered([et |-> TRUE, last |-> w.last, rise |-> w.rise, slot |-> s], {"IN"}, Rise(s)) # {}

\* No thread that holds PROCESS_TABLE waits for POLL_BELL while the holder of
\* POLL_BELL waits for PROCESS_TABLE ("the reverse edge PROCESS_TABLE -> POLL_BELL
\* does not exist", ipc/waitlist.rs).
BellDeadlockFree ==
    ~ \E t, u \in EvThreads :
        /\ evLock.proc = t /\ evPc[t] = "ring"
        /\ evLock.bell = u /\ evPc[u] = "scan"

=============================================================================
