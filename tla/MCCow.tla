------------------------------- MODULE MCCow -------------------------------
(***************************************************************************)
(* Instances of Cow: threads t1 and t2 of one process, t3 the thread of    *)
(* the child it forks; one private page with a frame, one MAP_SHARED page  *)
(* of the page cache and one private page not touched yet.                 *)
(***************************************************************************)
EXTENDS Cow, TLC

CONSTANTS t1, t2, t3

CowNone == [x \in CowCalls |-> 0]

\* The calls of t1, t2 and t3.
CowDo(u1, u2, u3) ==
    (t1 :> (u1 @@ CowNone)) @@ (t2 :> (u2 @@ CowNone)) @@ (t3 :> (u3 @@ CowNone))

MCCowHome == [t \in CowThreads |-> IF t = t3 THEN "b" ELSE "a"]

MCCowVmas == (1 :> "private" @@ 2 :> "shared" @@ 3 :> "private")

MCCowMap == ("a" :> (1 :> 1 @@ 2 :> 2 @@ 3 :> 0))

\* Two threads of one process that fault on the same pages; the kernel's store
\* on behalf of two threads; mprotect before a store.
CowOneProcess == {
    CowDo("store" :> 1, "store" :> 2, CowNone),
    CowDo("fork" :> 1 @@ "kstore" :> 1, "kstore" :> 2, CowNone),
    CowDo("protect" :> 1 @@ "store" :> 1, CowNone, CowNone)}

\* Parent and child: stores by the kernel against the other's unmapping; a
\* second fork, and the end of the child.
CowTwoProcesses == {
    CowDo("fork" :> 1 @@ "kstore" :> 1 @@ "munmap" :> 1, CowNone,
          "kstore" :> 1 @@ "madvise" :> 1 @@ "protect" :> 1),
    CowDo("fork" :> 2 @@ "store" :> 1, CowNone, "store" :> 1 @@ "exit" :> 1)}

\* Longer sequences of parent and child.
CowLong == {
    CowDo("fork" :> 1 @@ "store" :> 1 @@ "madvise" :> 1, CowNone,
          "store" :> 1 @@ "exit" :> 1),
    CowDo("fork" :> 1 @@ "store" :> 2, CowNone, "store" :> 2)}

MCCowBudgets == CowOneProcess \cup CowTwoProcesses \cup CowLong

MCCowLive == CowOneProcess \cup {
    CowDo("fork" :> 1 @@ "kstore" :> 1 @@ "munmap" :> 1, CowNone,
          "kstore" :> 1 @@ "madvise" :> 1),
    CowDo("fork" :> 2 @@ "store" :> 1, CowNone, "store" :> 1 @@ "exit" :> 1)}

\* Two threads of one process store to the same page after a fork.
MCCowHole == {CowDo("fork" :> 1 @@ "store" :> 1, "store" :> 1, CowNone)}
=============================================================================
