------------------------------ MODULE MCFutex -------------------------------
(* Small instances of Futex: threads ta .. td, processes p1 and p2, words x and y. *)
EXTENDS Futex

CONSTANTS ta, tb, tc, td, p1, p2, x1, y1

\* All threads in p1; tc alone in p2.
OneProc == [t \in Threads |-> p1]
TwoProcs == [t \in Threads |-> IF t = tc THEN p2 ELSE p1]

\* The function of threads that is S on T and empty elsewhere.
On(T, S) == [t \in Threads |-> IF t \in T THEN S ELSE {}]

\* Two waiters on x1; tc changes it.
WaitX == On({ta, tb}, {x1})
StoreX == On({tc}, {x1})

\* ta joins tb: it waits on y1, the clear_child_tid word of tb, which waits on x1.
WaitJoin == [t \in Threads |-> IF t = ta THEN {y1} ELSE IF t = tb THEN {x1} ELSE {}]
ClearY == [t \in Threads |-> IF t = tb THEN y1 ELSE None]

NoClear == [t \in Threads |-> None]
NoPages == {}
BothResident == {p1, p2} \X {x1}

\* Wake none and move one.
WakeNoneMoveOne == {<<0, 1, y1>>}
NoRequeue == {}
=============================================================================
