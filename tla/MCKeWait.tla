------------------------------ MODULE MCKeWait ------------------------------
(***************************************************************************)
(* Instances of KeWait: a mutant, a semaphore, a synchronization and a     *)
(* notification event and a timer, and three threads.  Each scenario says  *)
(* which calls a thread makes.                                             *)
(***************************************************************************)
EXTENDS KeWait, TLC

CONSTANTS k1, k2, k3

KeNone == [c \in KeCallNames |-> 0]

\* The calls of k1, k2 and k3.
KeDo(u1, u2, u3) ==
    (k1 :> (u1 @@ KeNone)) @@ (k2 :> (u2 @@ KeNone)) @@ (k3 :> (u3 @@ KeNone))

MCKeKind == [o \in KeObjs |-> CASE o = 1 -> "mutant" [] o = 2 -> "semaphore"
    [] o = 3 -> "synchronization" [] o = 4 -> "notification" [] OTHER -> "timer"]

MCKeLists == {<<1, 2>>, <<3, 1>>}

MCKeBudgets == {
    KeDo("single" :> 1 @@ "release" :> 1, "single" :> 1 @@ "release" :> 1, "set" :> 1 @@ "post" :> 1),
    KeDo("any" :> 1 @@ "release" :> 1, "all" :> 1, "set" :> 1 @@ "post" :> 1),
    KeDo("arm" :> 1 @@ "single" :> 1, "check" :> 1 @@ "cancel" :> 1, "destroy" :> 1),
    KeDo("single" :> 1, "single" :> 1, "pulse" :> 1 @@ "reset" :> 1),
    KeDo("acquire" :> 2 @@ "release" :> 2, "single" :> 1 @@ "release" :> 1,
         "single" :> 1)}

\* Fewer calls, all with a deadline or without end, for the temporal property.
MCKeLive == {
    KeDo("single" :> 1 @@ "release" :> 1, "single" :> 1, "post" :> 1),
    KeDo("any" :> 1, "all" :> 1, "set" :> 1)}
=============================================================================
