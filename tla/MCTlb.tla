------------------------------- MODULE MCTlb -------------------------------
(***************************************************************************)
(* Instances of Tlb: three CPUs, one address space with one page, and the  *)
(* calls each CPU makes in each scenario.                                  *)
(***************************************************************************)
EXTENDS Tlb, TLC

CONSTANTS c1, c2, c3

TlbNone == [x \in TlbCalls |-> 0]

\* The calls of c1, c2 and c3.
TlbDo(u1, u2, u3) ==
    [c \in TlbCpus |-> (CASE c = c1 -> u1 [] c = c2 -> u2 [] OTHER -> u3) @@ TlbNone]

MCTlbMap == ("s1" :> (1 :> 1))

MCTlbStart == [c \in TlbCpus |-> "s1"]

\* Quarantine against ticks; an unmap against CR3 switches; fork against write
\* faults and an unmap; an unmap against demand faults; the teardown of the
\* address space while its threads leave it.
MCTlbBudgets == {
    TlbDo("unmap" :> 1 @@ "tick" :> 1, "tick" :> 1, "tick" :> 1),
    TlbDo("unmap" :> 1, "switch" :> 1 @@ "idle" :> 1, "switch" :> 1),
    TlbDo("fork" :> 1 @@ "write" :> 1, "write" :> 1, TlbNone),
    TlbDo("fork" :> 1, "write" :> 1, "unmap" :> 1),
    TlbDo("unmap" :> 1, "read" :> 1, "read" :> 1),
    TlbDo("exit" :> 1, "unmap" :> 1 @@ "idle" :> 1, "idle" :> 1 @@ "tick" :> 1)}

\* Shootdowns that wait for each other, holding locks and with IF=0.
MCTlbLive == {
    TlbDo("fork" :> 1, "write" :> 1, "unmap" :> 1),
    TlbDo("fork" :> 1 @@ "write" :> 1, "unmap" :> 1, TlbNone)}

\* c1 exits while c2, on the kernel CR3, switches to a thread of the process.
MCTlbExit == {TlbDo("exit" :> 1, "switch" :> 1, TlbNone)}

MCTlbElsewhere == [c \in TlbCpus |-> IF c = c2 THEN KernelCr3 ELSE "s1"]
=============================================================================
