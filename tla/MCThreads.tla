----------------------------- MODULE MCThreads -----------------------------
(***************************************************************************)
(* The safety instances of ProcLife and Futex in one run.  part names the  *)
(* instance that moves:                                                    *)
(*   proc   processes forking, exiting and waiting (MCProcLife);           *)
(*   words  fa and fb wait on x1, fc changes x1 and wakes, requeues to y1  *)
(*          or WAKE_OPs on y1;                                             *)
(*   dead   fa and fc, of two processes, wait on the shared word x1, fd    *)
(*          changes and wakes it, fb ends its process with exit_group.     *)
(* The variables of ProcLife rest in one state while a Futex instance      *)
(* moves, those of Futex in the initial state of words while proc moves.   *)
(***************************************************************************)
EXTENDS MCProcLife

CONSTANTS fa, fb, fc, fd, p1, p2, x1, y1, SharedNS

\* The proc instance is one that the theorems of ProcLifeProofs speak of.
ASSUME ProcInstanceOrdered == Ordered

VARIABLES part, fword, fpresent, fqueue, fdest, flock, ftstate, freaped, fcleartid,
          fpc, fcall, ftodo, fclears, fgroup, fdrained, fres, ftaken

fvars == <<fword, fpresent, fqueue, fdest, flock, ftstate, freaped, fcleartid,
           fpc, fcall, ftodo, fclears, fgroup, fdrained, fres, ftaken>>

FProcs == {p1, p2}
WordsThreads == {fa, fb, fc}
WordsProcOf == [t \in WordsThreads |-> p1]
WordsWait == [t \in WordsThreads |-> IF t = fc THEN {} ELSE {x1}]
WordsStore == [t \in WordsThreads |-> IF t = fc THEN {x1, y1} ELSE {}]
WordsClear == [t \in WordsThreads |-> None]

DeadThreads == {fa, fb, fc, fd}
DeadProcOf == [t \in DeadThreads |-> IF t \in {fb, fc} THEN p2 ELSE p1]
DeadWait == [t \in DeadThreads |-> IF t \in {fa, fc} THEN {x1} ELSE {}]
DeadStore == [t \in DeadThreads |-> IF t = fd THEN {x1} ELSE {}]
DeadClear == [t \in DeadThreads |-> None]

FWords == INSTANCE Futex WITH
    Threads <- WordsThreads, Procs <- FProcs, ProcOf <- WordsProcOf, Words <- {x1, y1},
    Shared <- {}, WaitWords <- WordsWait, StoreWords <- WordsStore, Resident <- {},
    ClearTid <- WordsClear, Timeouts <- BOOLEAN, WakeCounts <- {0},
    Requeues <- {<<1, 3, y1>>}, WakeOps <- {y1}, Exits <- {}, GroupExits <- {},
    word <- fword, present <- fpresent, queue <- fqueue, dest <- fdest, lock <- flock,
    tstate <- ftstate, reaped <- freaped, cleartid <- fcleartid, pc <- fpc, call <- fcall,
    todo <- ftodo, clears <- fclears, group <- fgroup, drained <- fdrained, res <- fres,
    taken <- ftaken

FDead == INSTANCE Futex WITH
    Threads <- DeadThreads, Procs <- FProcs, ProcOf <- DeadProcOf, Words <- {x1},
    Shared <- {x1}, WaitWords <- DeadWait, StoreWords <- DeadStore,
    Resident <- FProcs \X {x1}, ClearTid <- DeadClear, Timeouts <- BOOLEAN,
    WakeCounts <- {1}, Requeues <- {}, WakeOps <- {}, Exits <- {}, GroupExits <- {fb},
    word <- fword, present <- fpresent, queue <- fqueue, dest <- fdest, lock <- flock,
    tstate <- ftstate, reaped <- freaped, cleartid <- fcleartid, pc <- fpc, call <- fcall,
    todo <- ftodo, clears <- fclears, group <- fgroup, drained <- fdrained, res <- fres,
    taken <- ftaken

MCInit ==
    /\ part \in {"proc", "words", "dead"}
    /\ Init
    /\ IF part = "dead" THEN FDead!Init ELSE FWords!Init

\* Only the words instance never stops: it is the one checked for deadlock.
MCNext ==
    \/ part = "proc" /\ Next /\ UNCHANGED <<part, fvars>>
    \/ part = "words" /\ FWords!Next /\ UNCHANGED <<part, vars>>
    \/ part = "dead" /\ FDead!Next /\ UNCHANGED <<part, vars>>
    \/ part # "words" /\ UNCHANGED <<part, vars, fvars>>

MCSpec == MCInit /\ [][MCNext]_<<part, vars, fvars>>

\* The type invariants of ProcLife (PROCESS_TABLE, THREAD_TABLE) and Futex
\* (FUTEX_WAITERS, FUTEX_REQUEUE_DEST).
ThreadsTypeOK == TypeOK /\ (part = "words" => FWords!TypeOK)

\* NoOrphan and NoStaleWaiter of Futex: a Blocked waiter is on a queue, and a thread
\* on a queue waits there (futex_requeue, futex_waiter_cleanup, futex_drain_pid).
FutexOnOneQueue ==
    IF part = "dead" THEN FDead!NoOrphan ELSE FWords!NoOrphan /\ FWords!NoStaleWaiter

\* NoLostWake of Futex (futex_wait_check_and_enqueue).
FutexNoLostWake == part = "words" => FWords!NoLostWake

\* NoWakeSwallowed and NoSpuriousTimeout of Futex: a WAIT that reports a time-out
\* has not used up a wake, and had a deadline (futex_wait against the deadline scan).
FutexReportsRight ==
    /\ part = "words" => FWords!NoWakeSwallowed
    /\ part = "dead" => FDead!NoSpuriousTimeout

\* WakesLive of Futex, of every step (futex_wake skips stale entries).
FutexWakesLive == [][part = "dead" => FDead!WakesLive]_<<part, vars, fvars>>
=============================================================================
