-------------------------------- MODULE Pipe --------------------------------
(***************************************************************************)
(* One anonymous pipe of kernel/src/ipc/pipe.rs together with the blocking *)
(* read(2) and write(2) paths of kernel/src/subsys/linux/syscall.rs that   *)
(* use it.  A step is one critical section (PIPE_TABLE, PIPE_READ_WAITERS, *)
(* PIPE_WRITE_WAITERS or THREAD_TABLE held and released); threads on        *)
(* different CPUs interleave between steps.  The two wait-list locks are    *)
(* explicit, because wait_readable and wait_writable hold one of them over  *)
(* two critical sections: the re-check and the enqueue.                     *)
(*                                                                         *)
(* A byte is abstracted to the number of the write(2) call it came from.    *)
(***************************************************************************)
EXTENDS Naturals, Sequences, FiniteSets

CONSTANTS Threads,     \* kernel threads that call into the pipe
          Procs,       \* processes; fds belong to processes
          ProcOf,      \* ProcOf[t]: the process thread t runs in
          Creator,     \* the process that called pipe(2)
          None,        \* "no thread holds the lock"
          PipeBuf,     \* PIPE_BUF, the atomic-write threshold
          Caps,        \* capacities set_capacity can round a request to
          InitCap,     \* PIPE_DEFAULT_CAPACITY
          WriteSizes,  \* byte counts passed to write(2)
          ReadSizes,   \* byte counts passed to read(2)
          NbFlags,     \* values of O_NONBLOCK: BOOLEAN, or {FALSE} for blocking only
          Killable,    \* processes that may be sent a signal
          MaxWrites,   \* bound: number of write(2) calls in a behaviour
          Console      \* the values of console: {FALSE} for an ordinary pipe

\* The two wait lists: PIPE_READ_WAITERS and PIPE_WRITE_WAITERS.
Queues == {"R", "W"}

ASSUME PipeAssumption ==
    /\ None \notin Threads \union Queues
    /\ ProcOf \in [Threads -> Procs] /\ IsFiniteSet(Procs)
    /\ Creator \in Procs
    /\ PipeBuf \in Nat \ {0}
    /\ Caps \subseteq Nat /\ InitCap \in Caps
    /\ \A c \in Caps : c >= PipeBuf
    /\ WriteSizes \subseteq Nat \ {0}
    /\ ReadSizes \subseteq Nat \ {0}
    /\ NbFlags \subseteq BOOLEAN /\ Killable \subseteq Procs
    /\ MaxWrites \in Nat
    /\ Console \subseteq BOOLEAN

VARIABLES
    exists,   \* the Pipe is in PIPE_TABLE
    buf,      \* the count unread bytes, oldest first
    cap,      \* buffer.len(), the ring capacity
    readers,  \* Pipe::readers
    writers,  \* Pipe::writers
    born,     \* processes that have been created
    rend,     \* processes with an open read end
    wend,     \* processes with an open write end
    waitq,    \* waitq["R"] = PIPE_READ_WAITERS, waitq["W"] = PIPE_WRITE_WAITERS
    lock,     \* holder of each wait-list lock across two steps, or None
    tstate,   \* ThreadState of each thread
    sig,      \* processes with a pending signal
    console,  \* it is the console's pipe, and no drain thread owns it
    pc,       \* where each thread is in its system call
    side,     \* the call in progress: "R" for read(2), "W" for write(2)
    len,      \*   its count argument
    nb,       \*   O_NONBLOCK on its fd
    id,       \*   which write(2) of the behaviour it is, 0 for a read
    total,    \*   bytes deposited so far
    room,     \*   what the space probe saw (or, draining, bytes discarded)
    then,     \*   where it goes on after waking a list
    out,      \*   its result
    wake1,    \* the wait list the thread has to wake now, or None
    wake2,    \* the one it has to wake after that, or None
    drained,  \* TIDs drained from a list and not yet flipped to Ready
    sizes,    \* history: sizes[i] is the count argument of write call i
    stream    \* history: every byte deposited, in order

pipe == <<exists, buf, cap, readers, writers>>
ends == <<born, rend, wend>>
parking == <<waitq, lock, tstate>>
hist == <<sizes, stream>>
args == <<side, len, nb, id>>
call == <<args, total, room, then, out>>
wakes == <<wake1, wake2>>
vars == <<pipe, ends, parking, sig, console, pc, call, wakes, drained, hist>>

PCs == {"idle", "read", "empty", "write", "deposit", "probe", "put", "full",
        "drain", "park", "enqueue", "parked", "cleanup", "wake", "flip", "ret"}
Results == {"none", "ok", "short", "eof", "EBADF", "EPIPE", "EAGAIN", "EINTR"}

Min2(a, b) == IF a < b THEN a ELSE b
Space == cap - Len(buf)
AtomicOffByOne(t) == len[t] < PipeBuf
Atomic(t) == len[t] <= PipeBuf

Init ==
    /\ exists = TRUE /\ buf = <<>> /\ cap = InitCap
    /\ readers = 1 /\ writers = 1
    /\ born = {Creator} /\ rend = {Creator} /\ wend = {Creator}
    /\ waitq = [q \in Queues |-> {}]
    /\ lock = [q \in Queues |-> None]
    /\ tstate = [t \in Threads |-> "Running"]
    /\ sig = {} /\ console \in Console
    /\ pc = [t \in Threads |-> "idle"]
    /\ side = [t \in Threads |-> "R"] /\ len = [t \in Threads |-> 0]
    /\ nb = [t \in Threads |-> FALSE] /\ id = [t \in Threads |-> 0]
    /\ total = [t \in Threads |-> 0] /\ room = [t \in Threads |-> 0]
    /\ then = [t \in Threads |-> "ret"] /\ out = [t \in Threads |-> "none"]
    /\ wake1 = [t \in Threads |-> None] /\ wake2 = [t \in Threads |-> None]
    /\ drained = [t \in Threads |-> {}]
    /\ sizes = <<>> /\ stream = <<>>

-----------------------------------------------------------------------------
(* Control helpers.                                                        *)

Goto(t, l) == pc' = [pc EXCEPT ![t] = l]

\* The system call is done and its result is r.
Return(t, r) ==
    /\ Goto(t, "ret")
    /\ out' = [out EXCEPT ![t] = r]
    /\ UNCHANGED <<args, total, room, then>>

\* Mutant: the error wins over the partial count.
ReturnErrAlways(t, e) == Return(t, e)

\* A write that made partial progress reports it instead of the error.
ReturnErr(t, e) == Return(t, IF total[t] > 0 THEN "short" ELSE e)

\* A call with side q, count n, O_NONBLOCK flag b and write number i starts.
Enter(t, q, n, b, i) ==
    /\ side' = [side EXCEPT ![t] = q]
    /\ len' = [len EXCEPT ![t] = n]
    /\ nb' = [nb EXCEPT ![t] = b]
    /\ id' = [id EXCEPT ![t] = i]
    /\ UNCHANGED <<total, room, then, out>>

\* wake_readers_all / wake_writers_all on list q1 and then on q2, then go on
\* at l (l = "ret": return r).
WakeThen(t, q1, q2, l, r) ==
    /\ Goto(t, "wake")
    /\ wake1' = [wake1 EXCEPT ![t] = q1]
    /\ wake2' = [wake2 EXCEPT ![t] = q2]
    /\ then' = [then EXCEPT ![t] = l]
    /\ out' = [out EXCEPT ![t] = r]
    /\ UNCHANGED <<args, total, room>>

-----------------------------------------------------------------------------
(* read(2): the pipe branch of sys_read_linux.                              *)

StartRead(t) ==
    /\ pc[t] = "idle" /\ ProcOf[t] \in rend
    /\ \E n \in ReadSizes, b \in NbFlags : Enter(t, "R", n, b, 0)
    /\ Goto(t, "read")
    /\ UNCHANGED <<pipe, ends, parking, sig, console, wakes, drained, hist>>

\* Mutant: pipe_read instead of pipe_read_and_wake (parked writers are not woken).
PipeReadNoWake(t) ==
    /\ pc[t] = "read"
    /\ LET n == Min2(len[t], Len(buf))
       IN  /\ buf' = SubSeq(buf, n + 1, Len(buf))
           /\ \/ exists /\ n = 0 /\ Goto(t, "empty") /\ UNCHANGED call
              \/ ~exists /\ Return(t, "EBADF")
              \/ exists /\ n > 0 /\ Return(t, "ok")
    /\ UNCHANGED <<exists, cap, readers, writers, ends, parking, sig, console, wakes, drained, hist>>

\* pipe_read_and_wake: Pipe::read under PIPE_TABLE, then wake the writers.
PipeRead(t) ==
    /\ pc[t] = "read"
    /\ LET n == Min2(len[t], Len(buf))
       IN  \/ /\ ~exists
              /\ Return(t, "EBADF")
              /\ UNCHANGED <<buf, wakes>>
           \/ /\ exists /\ n > 0
              /\ buf' = SubSeq(buf, n + 1, Len(buf))
              /\ WakeThen(t, "W", None, "ret", "ok")
           \/ /\ exists /\ n = 0
              /\ Goto(t, "empty")
              /\ UNCHANGED <<buf, call, wakes>>
    /\ UNCHANGED <<exists, cap, readers, writers, ends, parking, sig, console, drained, hist>>

\* Nothing was read: end of file, O_NONBLOCK, a pending signal, or park.
ReadEmpty(t) ==
    /\ pc[t] = "empty"
    /\ \/ /\ ~exists \/ (writers = 0 /\ Len(buf) = 0)
          /\ Return(t, "eof")
       \/ /\ exists /\ (writers > 0 \/ Len(buf) > 0)
          /\ \/ nb[t] /\ Return(t, "EAGAIN")
             \/ ~nb[t] /\ ProcOf[t] \in sig /\ Return(t, "EINTR")
             \/ /\ ~nb[t] /\ ProcOf[t] \notin sig
                /\ Goto(t, "park")
                /\ UNCHANGED call
    /\ UNCHANGED <<pipe, ends, parking, sig, console, wakes, drained, hist>>

-----------------------------------------------------------------------------
(* write(2): pipe_write_blocking.                                           *)

StartWrite(t) ==
    /\ pc[t] = "idle" /\ ProcOf[t] \in wend /\ Len(sizes) < MaxWrites
    /\ \E n \in WriteSizes, b \in NbFlags :
          /\ sizes' = Append(sizes, n)
          /\ Enter(t, "W", n, b, Len(sizes) + 1)
    /\ Goto(t, "write")
    /\ UNCHANGED <<pipe, ends, parking, sig, console, wakes, drained, stream>>

\* Top of the loop: EPIPE (or the partial count) once every reader is gone.
WriteCheckReader(t) ==
    /\ pc[t] = "write"
    /\ \/ /\ ~exists \/ readers = 0
          /\ ReturnErr(t, "EPIPE")
       \/ /\ exists /\ readers > 0
          /\ Goto(t, IF Atomic(t) THEN "deposit" ELSE "probe")
          /\ UNCHANGED call
    /\ UNCHANGED <<pipe, ends, parking, sig, console, wakes, drained, hist>>

\* Append n bytes of t's record to the ring and to the stream history.
Put(t, n) ==
    /\ buf' = buf \o [i \in 1..n |-> id[t]]
    /\ stream' = stream \o [i \in 1..n |-> id[t]]

\* pipe_write_atomic: space check and deposit under one PIPE_TABLE section.
WriteAtomic(t) ==
    /\ pc[t] = "deposit"
    /\ \/ /\ ~exists
          /\ Return(t, "EBADF")
          /\ UNCHANGED <<buf, stream, wakes>>
       \/ /\ exists /\ Space >= len[t]
          /\ Put(t, len[t])
          /\ WakeThen(t, "R", None, "ret", "ok")
       \/ /\ exists /\ Space < len[t]
          /\ Goto(t, "full")
          /\ UNCHANGED <<buf, stream, call, wakes>>
    /\ UNCHANGED <<exists, cap, readers, writers, ends, parking, sig, console, drained, sizes>>

\* Large arm, first critical section: the pipe_space probe.
WriteProbe(t) ==
    /\ pc[t] = "probe"
    /\ LET n == IF exists THEN Min2(Space, len[t] - total[t]) ELSE 0
       IN  /\ room' = [room EXCEPT ![t] = n]
           /\ Goto(t, IF n > 0 THEN "put" ELSE "full")
    /\ UNCHANGED <<pipe, ends, parking, sig, console, args, total, then, out, wakes, drained, hist>>

\* n more bytes were deposited: wake the readers, then return or go round again.
Deposited(t, n) ==
    /\ total' = [total EXCEPT ![t] = @ + n]
    /\ room' = [room EXCEPT ![t] = 0]
    /\ wake1' = [wake1 EXCEPT ![t] = "R"] /\ wake2' = [wake2 EXCEPT ![t] = None]
    /\ then' = [then EXCEPT ![t] = IF total[t] + n >= len[t] THEN "ret" ELSE "write"]
    /\ out' = [out EXCEPT ![t] = "ok"]
    /\ Goto(t, "wake")
    /\ UNCHANGED args

\* Mutant: deposit what the probe saw without capping it by the space left.
WritePutUncapped(t) ==
    /\ pc[t] = "put" /\ exists
    /\ Put(t, room[t])
    /\ Deposited(t, room[t])
    /\ UNCHANGED <<exists, cap, readers, writers, ends, parking, sig, console, drained, sizes>>

\* Large arm, second critical section: pipe_write of what the probe saw,
\* capped by the space there is now.
WritePut(t) ==
    /\ pc[t] = "put"
    /\ LET n == Min2(room[t], Space)
       IN  \/ /\ ~exists
              /\ ReturnErr(t, "EBADF")
              /\ UNCHANGED <<buf, stream, wakes>>
           \/ /\ exists /\ n > 0
              /\ Put(t, n)
              /\ Deposited(t, n)
           \/ /\ exists /\ n = 0
              /\ Goto(t, "write")
              /\ UNCHANGED <<buf, stream, wakes, call>>
    /\ UNCHANGED <<exists, cap, readers, writers, ends, parking, sig, console, drained, sizes>>

\* Mutant: no console backstop.
WriteFullNoBackstop(t) ==
    /\ pc[t] = "full"
    /\ \/ nb[t] /\ ReturnErr(t, "EAGAIN")
       \/ ~nb[t] /\ Goto(t, "park") /\ UNCHANGED call
    /\ UNCHANGED <<pipe, ends, parking, sig, console, wakes, drained, hist>>

\* No room: O_NONBLOCK, a pending signal, the console backstop, or park.
WriteFull(t) ==
    /\ pc[t] = "full"
    /\ \/ nb[t] /\ ReturnErr(t, "EAGAIN")
       \/ ~nb[t] /\ ProcOf[t] \in sig /\ ReturnErr(t, "EINTR")
       \/ /\ ~nb[t] /\ ProcOf[t] \notin sig
          /\ Goto(t, IF console THEN "drain" ELSE "park")
          /\ UNCHANGED call
    /\ UNCHANGED <<pipe, ends, parking, sig, console, wakes, drained, hist>>

\* pipe_drain_console: the writer discards what is buffered, PipeBuf bytes per
\* critical section, until a short read; it wakes nobody.  room counts the
\* bytes drained so far: some, and the write is retried; none, and it parks.
WriteDrainConsole(t) ==
    /\ pc[t] = "drain"
    /\ LET n == IF exists THEN Min2(PipeBuf, Len(buf)) ELSE 0
           got == room[t] + n
       IN  /\ buf' = SubSeq(buf, n + 1, Len(buf))
           /\ room' = [room EXCEPT ![t] = IF n = PipeBuf THEN got ELSE 0]
           /\ Goto(t, IF n = PipeBuf THEN "drain" ELSE IF got > 0 THEN "write" ELSE "park")
    /\ UNCHANGED <<exists, cap, readers, writers, ends, parking, sig, console, args, total,
                   then, out, wakes, drained, hist>>

-----------------------------------------------------------------------------
(* wait_readable / wait_writable and their clean-up.                        *)

Need(t) == IF Atomic(t) THEN len[t] ELSE 1

\* The predicate re-checked under the wait-list lock.
CanProceed(t) ==
    IF side[t] = "R" THEN Len(buf) > 0 \/ writers = 0
                       ELSE Space >= Need(t) \/ readers = 0

\* Mutant: enqueue without the re-check under the wait-list lock.
ParkCheckBlind(t) ==
    /\ pc[t] = "park" /\ lock[side[t]] = None
    /\ lock' = [lock EXCEPT ![side[t]] = t]
    /\ Goto(t, "enqueue")
    /\ UNCHANGED <<pipe, ends, waitq, tstate, sig, console, call, wakes, drained, hist>>

\* Take the wait-list lock, re-check under PIPE_TABLE, and keep the lock
\* only when the caller is going to park.
ParkCheck(t) ==
    /\ pc[t] = "park" /\ lock[side[t]] = None
    /\ \/ /\ ~exists
          /\ ReturnErr(t, "EBADF")
          /\ UNCHANGED lock
       \/ /\ exists /\ CanProceed(t)
          /\ Goto(t, IF side[t] = "R" THEN "read" ELSE "write")
          /\ UNCHANGED <<lock, call>>
       \/ /\ exists /\ ~CanProceed(t)
          /\ lock' = [lock EXCEPT ![side[t]] = t]
          /\ Goto(t, "enqueue")
          /\ UNCHANGED call
    /\ UNCHANGED <<pipe, ends, waitq, tstate, sig, console, wakes, drained, hist>>

\* WaitList::enqueue_self_blocked, then the lock is dropped.
ParkEnqueue(t) ==
    /\ pc[t] = "enqueue"
    /\ waitq' = [waitq EXCEPT ![side[t]] = @ \union {t}]
    /\ tstate' = [tstate EXCEPT ![t] = "Blocked"]
    /\ lock' = [lock EXCEPT ![side[t]] = None]
    /\ Goto(t, "parked")
    /\ UNCHANGED <<pipe, ends, sig, console, call, wakes, drained, hist>>

\* schedule() returns once a waker made the thread Ready and it was picked.
Resume(t) ==
    /\ pc[t] = "parked" /\ tstate[t] = "Ready"
    /\ tstate' = [tstate EXCEPT ![t] = "Running"]
    /\ Goto(t, "cleanup")
    /\ UNCHANGED <<pipe, ends, waitq, lock, sig, console, call, wakes, drained, hist>>

\* waiter_cleanup_reader / waiter_cleanup_writer, then back to the loop top.
Cleanup(t) ==
    /\ pc[t] = "cleanup" /\ lock[side[t]] = None
    /\ waitq' = [waitq EXCEPT ![side[t]] = @ \ {t}]
    /\ Goto(t, IF side[t] = "R" THEN "read" ELSE "write")
    /\ UNCHANGED <<pipe, ends, lock, tstate, sig, console, call, wakes, drained, hist>>

-----------------------------------------------------------------------------
(* wake_readers_all / wake_writers_all: drain the list, then flip.          *)

WakeDrain(t) ==
    /\ pc[t] = "wake"
    /\ lock[wake1[t]] = None
    /\ drained' = [drained EXCEPT ![t] = waitq[wake1[t]]]
    /\ waitq' = [waitq EXCEPT ![wake1[t]] = {}]
    /\ wake1' = [wake1 EXCEPT ![t] = wake2[t]]
    /\ wake2' = [wake2 EXCEPT ![t] = None]
    /\ Goto(t, "flip")
    /\ UNCHANGED <<pipe, ends, lock, tstate, sig, console, call, hist>>

\* Mutant: the whole list was drained but only one thread is made Ready.
WakeFlipOne(t) ==
    /\ pc[t] = "flip"
    /\ \/ drained[t] = {} /\ UNCHANGED tstate
       \/ \E u \in drained[t] : tstate' = [tstate EXCEPT ![u] = "Ready"]
    /\ drained' = [drained EXCEPT ![t] = {}]
    /\ Goto(t, IF wake1[t] # None THEN "wake" ELSE then[t])
    /\ UNCHANGED <<pipe, ends, waitq, lock, sig, console, call, wakes, hist>>

\* wake_tids: only a thread that is still Blocked becomes Ready.
WakeFlip(t) ==
    /\ pc[t] = "flip"
    /\ tstate' = [u \in Threads |->
                    IF u \in drained[t] /\ tstate[u] = "Blocked" THEN "Ready" ELSE tstate[u]]
    /\ drained' = [drained EXCEPT ![t] = {}]
    /\ \/ wake1[t] # None /\ Goto(t, "wake")
       \/ wake1[t] = None /\ Goto(t, then[t])
    /\ UNCHANGED <<pipe, ends, waitq, lock, sig, console, call, wakes, hist>>

-----------------------------------------------------------------------------
(* The ends: fork/dup, close, F_SETPIPE_SZ; and signals.                    *)

\* Mutant: the child's fd table is cloned without inc_pipe_refs_for_fork.
ForkNoRefs(t, p) ==
    /\ pc[t] = "idle" /\ ProcOf[t] \in born /\ p \notin born
    /\ born' = born \union {p}
    /\ rend' = IF ProcOf[t] \in rend THEN rend \union {p} ELSE rend
    /\ wend' = IF ProcOf[t] \in wend THEN wend \union {p} ELSE wend
    /\ UNCHANGED <<pipe, parking, sig, console, pc, call, wakes, drained, hist>>

\* fork(2): the child inherits the parent's ends (inc_pipe_refs_for_fork).
Fork(t, p) ==
    /\ pc[t] = "idle" /\ ProcOf[t] \in born /\ p \notin born
    /\ born' = born \union {p}
    /\ rend' = IF ProcOf[t] \in rend THEN rend \union {p} ELSE rend
    /\ wend' = IF ProcOf[t] \in wend THEN wend \union {p} ELSE wend
    /\ readers' = IF exists /\ ProcOf[t] \in rend THEN readers + 1 ELSE readers
    /\ writers' = IF exists /\ ProcOf[t] \in wend THEN writers + 1 ELSE writers
    /\ UNCHANGED <<exists, buf, cap, parking, sig, console, pc, call, wakes, drained, hist>>

\* pipe_close_writer.  The pipe is not removed here, even with no end left.
CloseWriter(t) ==
    /\ pc[t] = "idle" /\ ProcOf[t] \in wend
    /\ wend' = wend \ {ProcOf[t]}
    /\ writers' = IF exists /\ writers > 0 THEN writers - 1 ELSE writers
    /\ \/ /\ exists /\ writers' = 0
          /\ WakeThen(t, "R", "W", "ret", "ok")
       \/ /\ ~(exists /\ writers' = 0)
          /\ UNCHANGED <<pc, wakes, call>>
    /\ UNCHANGED <<exists, buf, cap, readers, born, rend, parking, sig, console, drained, hist>>

\* Mutant: the reader count is decremented twice for one close.
CloseReaderTwice(t) ==
    /\ pc[t] = "idle" /\ ProcOf[t] \in rend
    /\ rend' = rend \ {ProcOf[t]}
    /\ readers' = readers - 2
    /\ WakeThen(t, "W", "R", "ret", "ok")
    /\ UNCHANGED <<exists, buf, cap, writers, born, wend, parking, sig, console, drained, hist>>

\* pipe_close_reader, with the retain() that drops an endless pipe.
CloseReader(t) ==
    /\ pc[t] = "idle" /\ ProcOf[t] \in rend
    /\ rend' = rend \ {ProcOf[t]}
    /\ readers' = IF exists /\ readers > 0 THEN readers - 1 ELSE readers
    /\ exists' = (exists /\ (readers' > 0 \/ writers > 0))
    /\ \/ /\ exists /\ readers' = 0
          /\ WakeThen(t, "W", "R", "ret", "ok")
       \/ /\ ~(exists /\ readers' = 0)
          /\ UNCHANGED <<pc, wakes, call>>
    /\ UNCHANGED <<buf, cap, writers, born, wend, parking, sig, console, drained, hist>>

\* pipe_set_capacity: refuse to drop unread data (EBUSY), wake writers on a grow.
SetCapacity(t) ==
    /\ pc[t] = "idle" /\ ProcOf[t] \in rend \union wend /\ exists
    /\ \E c \in Caps \ {cap} :
          /\ Len(buf) <= c
          /\ cap' = c
          /\ \/ c > cap /\ WakeThen(t, "W", None, "ret", "ok")
             \/ c < cap /\ UNCHANGED <<pc, wakes, call>>
    /\ UNCHANGED <<exists, buf, readers, writers, ends, parking, sig, console, drained, hist>>

\* signal::kill: the signal becomes pending; only the poll bell is rung, so a
\* thread parked on the pipe stays Blocked.
Kill(p) ==
    /\ p \notin sig
    /\ sig' = sig \union {p}
    /\ UNCHANGED <<pipe, ends, parking, console, pc, call, wakes, drained, hist>>

\* The return to user mode, where a pending signal is delivered.
UserReturn(t) ==
    /\ pc[t] = "ret"
    /\ Goto(t, "idle")
    /\ side' = [side EXCEPT ![t] = "R"] /\ len' = [len EXCEPT ![t] = 0]
    /\ nb' = [nb EXCEPT ![t] = FALSE] /\ id' = [id EXCEPT ![t] = 0]
    /\ total' = [total EXCEPT ![t] = 0] /\ room' = [room EXCEPT ![t] = 0]
    /\ then' = [then EXCEPT ![t] = "ret"] /\ out' = [out EXCEPT ![t] = "none"]
    /\ sig' = sig \ {ProcOf[t]}
    /\ UNCHANGED <<pipe, ends, parking, console, wakes, drained, hist>>

-----------------------------------------------------------------------------
\* The steps of a call in progress: what the scheduler must keep running.
Advance(t) ==
    \/ PipeRead(t) \/ ReadEmpty(t)
    \/ WriteCheckReader(t) \/ WriteAtomic(t) \/ WriteProbe(t) \/ WritePut(t)
    \/ WriteFull(t) \/ WriteDrainConsole(t)
    \/ ParkCheck(t) \/ ParkEnqueue(t) \/ Resume(t) \/ Cleanup(t)
    \/ WakeDrain(t) \/ WakeFlip(t) \/ UserReturn(t)

Begin(t) ==
    \/ StartRead(t) \/ StartWrite(t) \/ CloseWriter(t) \/ CloseReader(t)
    \/ SetCapacity(t)
    \/ \E p \in Procs : Fork(t, p)

Next == (\E t \in Threads : Advance(t) \/ Begin(t)) \/ (\E p \in Killable : Kill(p))

Spec == Init /\ [][Next]_vars

\* schedule() picks every Ready thread within a bounded wait (the anti-
\* starvation backstop), and spin locks are held over a bounded section.
Fairness == \A t \in Threads : WF_vars(Advance(t))
FairSpec == Spec /\ Fairness

-----------------------------------------------------------------------------
(* Properties.                                                              *)

DataType ==
    /\ exists \in BOOLEAN
    /\ buf \in Seq(Nat) /\ cap \in Caps
    /\ readers \in Nat /\ writers \in Nat
    /\ born \subseteq Procs /\ rend \subseteq Procs /\ wend \subseteq Procs
    /\ sig \subseteq Procs /\ console \in Console
    /\ sizes \in Seq(Nat) /\ stream \in Seq(Nat)

CallType ==
    /\ side \in [Threads -> Queues] /\ len \in [Threads -> Nat]
    /\ nb \in [Threads -> BOOLEAN] /\ id \in [Threads -> Nat]
    /\ total \in [Threads -> Nat] /\ room \in [Threads -> Nat]
    /\ then \in [Threads -> {"ret", "write"}] /\ out \in [Threads -> Results]

WaitType ==
    /\ pc \in [Threads -> PCs]
    /\ waitq \in [Queues -> SUBSET Threads]
    /\ lock \in [Queues -> Threads \union {None}]
    /\ tstate \in [Threads -> {"Running", "Ready", "Blocked"}]
    /\ wake1 \in [Threads -> Queues \union {None}]
    /\ wake2 \in [Threads -> Queues \union {None}]
    /\ drained \in [Threads -> SUBSET Threads]

TypeOK == DataType /\ CallType /\ WaitType

\* Thread s still has list q to wake.
WillWake(s, q) == wake1[s] = q \/ wake2[s] = q

\* What t waits for is there, or the pipe is gone.
Satisfied(t) == ~exists \/ CanProceed(t)

\* A parked thread is never forgotten: while it is Blocked it is on its wait
\* list, or some waker has drained it and is about to flip it (wake_tids).
NoOrphan ==
    \A t \in Threads : tstate[t] = "Blocked" =>
        \/ t \in waitq[side[t]]
        \/ \E s \in Threads : pc[s] = "flip" /\ t \in drained[s]

\* No lost wakeup: when the condition a queued (or just queueing) thread waits
\* for holds, some thread is on its way to wake that list.  This is what the
\* check-then-park discipline of wait_readable / wait_writable is for.
NoLostWake ==
    \A t \in Threads :
        /\ pc[t] = "enqueue" \/ (t \in waitq[side[t]] /\ tstate[t] = "Blocked")
        /\ Satisfied(t)
        => \E s \in Threads : WillWake(s, side[t])

\* The ring never holds more than its capacity, although a large write probes
\* the space and deposits in two critical sections and F_SETPIPE_SZ may shrink
\* the ring in between.
WithinCapacity == Len(buf) <= cap

\* The end counts are the number of open ends, and the pipe is only dropped
\* from PIPE_TABLE when no end is open.
RefsExact ==
    IF exists THEN readers = Cardinality(rend) /\ writers = Cardinality(wend)
              ELSE rend = {} /\ wend = {}

Positions(w) == {i \in 1..Len(stream) : stream[i] = w}

\* What write(2) reports is what it deposited: "ok" means every byte, an error
\* means none, and a short count only happens above PIPE_BUF.
WriteReports ==
    \A t \in Threads : (id[t] # 0 /\ pc[t] = "ret") =>
        LET n == Cardinality(Positions(id[t]))
        IN  CASE out[t] = "ok" -> n = len[t]
              [] out[t] = "short" -> 0 < n /\ n < len[t] /\ ~Atomic(t)
              [] OTHER -> n = 0

\* read(2) reports end of file only when no process holds a write end any more
\* (pipe_is_eof tests a count that fork and close keep).
EofIsFinal ==
    \A t \in Threads : (pc[t] = "ret" /\ out[t] = "eof") => wend = {}

\* A parked thread whose condition holds leaves the wait (it may find the
\* condition gone again and park anew, but it is woken).
WokenWhenReady ==
    \A t \in Threads :
        (pc[t] = "parked" /\ Satisfied(t)) ~> pc[t] # "parked"

\* With the console backstop every write(2) returns although nobody reads, unless
\* F_SETPIPE_SZ changes the ring between probe and deposit for ever: "a blocking
\* `writev(fd=2)` is never wedged for want of a timely drain" (pipe_drain_console).
ConsoleWriteReturns ==
    <>[][FALSE]_cap =>
      \A t \in Threads :
        (console /\ pc[t] # "idle" /\ side[t] = "W") ~> pc[t] = "idle"

\* "a read on an empty pipe with the write end still open blocks until data
\* arrives (or a signal fires)": a parked thread with a pending signal leaves
\* the wait.
SignalInterrupts ==
    \A t \in Threads :
        (pc[t] = "parked" /\ ProcOf[t] \in sig) ~> pc[t] # "parked"
=============================================================================
