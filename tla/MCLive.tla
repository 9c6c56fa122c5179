------------------------------ MODULE MCLive ------------------------------
(***************************************************************************)
(* The fair instances of Futex, ProcLife, Tlb, Cow and KeWait in one run.  *)
(* part names the one that runs; the others rest in one initial state:     *)
(*   futex  ta joins tb, which waits on a word shared with another process *)
(*          and may exit (MCFutex);                                        *)
(*   proc   PID 1 waits in two threads for process 2, which tm ends;       *)
(*   tlb    shootdowns that wait for each other (MCTlbLive);               *)
(*   cow    faults, forks and unmapping (MCCowLive);                       *)
(*   ke     waits with a deadline on dispatcher objects (MCKeLive).        *)
(***************************************************************************)
EXTENDS MCFutex, MCTlb, MCCow, MCKeWait

CONSTANTS ti, tj, tm, tn, AnyChild

VARIABLES part, zpstate, zparent, zthreads, zvm, zclaims, ztstate, zpc, zppid, zsnap,
          zlast, zwant, znohang, ztries, zchild

zvars == <<zpstate, zparent, zthreads, zvm, zclaims, ztstate, zpc, zppid, zsnap,
           zlast, zwant, znohang, ztries, zchild>>

ZTids == {ti, tj, tm, tn}
ZProcOf == [t \in ZTids |-> IF t \in {ti, tj} THEN 1 ELSE 2]
ZMain == <<ti, tm>>
ZParentOf == <<None, 1>>

Life == INSTANCE ProcLife WITH
    Pids <- {1, 2}, Tids <- ZTids, ProcOf <- ZProcOf, Main <- ZMain, InitPid <- 1,
    Initial <- {1, 2}, ParentOf <- ZParentOf, Forks <- {}, Exits <- {},
    GroupExits <- {tm}, Waits <- {ti, tj}, Wants <- {AnyChild}, Any <- AnyChild, MaxAttempts <- 2,
    pstate <- zpstate, parent <- zparent, threads <- zthreads, vm <- zvm,
    claims <- zclaims, tstate <- ztstate, pc <- zpc, ppid <- zppid, snap <- zsnap,
    last <- zlast, want <- zwant, nohang <- znohang, tries <- ztries, child <- zchild

liveVars == <<part, vars, zvars, tlbVars, cowVars, keVars>>

LiveInit ==
    /\ part \in {"futex", "proc", "tlb", "cow", "ke"}
    /\ Init /\ Life!Init /\ TlbInit /\ CowInit /\ KeInit
    /\ part # "tlb" => tlbLeft = CHOOSE b \in TlbBudgets : TRUE
    /\ part # "cow" => cowLeft = CHOOSE b \in CowBudgets : TRUE
    /\ part # "ke" => keLeft = CHOOSE b \in KeBudgets : TRUE

LiveNext ==
    \/ part = "futex" /\ Next /\ UNCHANGED <<part, zvars, tlbVars, cowVars, keVars>>
    \/ part = "proc" /\ Life!Next /\ UNCHANGED <<part, vars, tlbVars, cowVars, keVars>>
    \/ part = "tlb" /\ TlbNext /\ UNCHANGED <<part, vars, zvars, cowVars, keVars>>
    \/ part = "cow" /\ CowNext /\ UNCHANGED <<part, vars, zvars, tlbVars, keVars>>
    \/ part = "ke" /\ KeNext /\ UNCHANGED <<part, vars, zvars, tlbVars, cowVars>>

\* The fairness each module states, for the part that runs: kernel code that is
\* due goes on, the timer fires, and a thread that has changed a word wakes it.
LiveFairness ==
    /\ \A t \in Threads :
         /\ WF_vars(part = "futex" /\ Kernel(t))
         /\ WF_vars(part = "futex" /\ Timeout(t))
         /\ WF_vars(part = "futex" /\ \E n \in WakeCounts : WakeCall(t, n))
    /\ \A t \in ZTids : WF_zvars(part = "proc" /\ Life!Kernel(t))
    /\ \A c \in TlbCpus : WF_tlbVars(part = "tlb" /\ TlbStep(c))
    /\ \A t \in CowThreads : WF_cowVars(part = "cow" /\ CowStep(t))
    /\ \A t \in KeThreads : WF_keVars(part = "ke" /\ KeStep(t))
                            /\ WF_keVars(part = "ke" /\ KeTimeout(t))

LiveSpec == LiveInit /\ [][LiveNext]_liveVars /\ LiveFairness

\* WaitReturns and ExitCompletes of ProcLife: a parked wait4(2) with a child to
\* collect is woken, and the teardown of exit_group ends.
LifeGoesOn == Life!WaitReturns /\ Life!ExitCompletes
=============================================================================
