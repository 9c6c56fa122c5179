----------------------------- MODULE MCMachine -----------------------------
(***************************************************************************)
(* The safety instances of EventFd, Tlb, Cow and KeWait in one run.  part  *)
(* names the model that moves; the others stay in one initial state.       *)
(***************************************************************************)
EXTENDS MCEventFd, MCTlb, MCCow, MCKeWait

VARIABLE part

vars == <<part, evVars, tlbVars, cowVars, keVars>>

Init ==
    /\ part \in {"eventfd", "tlb", "cow", "ke"}
    /\ EvInit /\ TlbInit /\ CowInit /\ KeInit
    /\ part # "eventfd" => evLeft = CHOOSE b \in EvBudgets : TRUE
    /\ part # "tlb" => tlbLeft = CHOOSE b \in TlbBudgets : TRUE
    /\ part # "cow" => cowLeft = CHOOSE b \in CowBudgets : TRUE
    /\ part # "ke" => keLeft = CHOOSE b \in KeBudgets : TRUE

Next ==
    \/ part = "eventfd" /\ EvNext /\ UNCHANGED <<part, tlbVars, cowVars, keVars>>
    \/ part = "tlb" /\ TlbNext /\ UNCHANGED <<part, evVars, cowVars, keVars>>
    \/ part = "cow" /\ CowNext /\ UNCHANGED <<part, evVars, tlbVars, keVars>>
    \/ part = "ke" /\ KeNext /\ UNCHANGED <<part, evVars, tlbVars, cowVars>>

Spec == Init /\ [][Next]_vars

\* The type invariants of EventFd (TABLE, POLL_BELL), Tlb (SHOOTDOWN_SLOTS, the
\* quarantine ring), Cow (page tables, reference counts, mm_sem) and KeWait
\* (DISPATCHER_REGISTRY and its wait lists).
MachineTypeOK == EvTypeOK /\ TlbTypeOK /\ CowTypeOK /\ KeTypeOK
=============================================================================
