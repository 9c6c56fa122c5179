----------------------------- MODULE MCEventFd -----------------------------
(***************************************************************************)
(* Instances of EventFd.  Threads te, tw, tr and tc share one process, with *)
(* descriptors 1 and 2; tx is another process that inherited the eventfd   *)
(* behind descriptor 1 as its descriptor 3.                                *)
(***************************************************************************)
EXTENDS EventFd

CONSTANTS te, tw, tr, tc, tx

MCFdsOf == [t \in EvThreads |->
    CASE t = tx -> {3} [] t \in {te, tw} -> {1} [] OTHER -> {1, 2}]

MCInitFd == [f \in EvFds |-> IF f = 2 THEN NoSlot ELSE 0]

MCCalls == [t \in EvThreads |->
    CASE t = te -> {"ctl", "epoll", "poll", "select"}
      [] t = tw -> {"write", "kill"}
      [] t = tr -> {"read"}
      [] t = tc -> {"close", "eventfd", "dup2"}
      [] OTHER -> {"exec"}]

\* Calls made by te, tw, tr, tc and tx.
MCBudget(e, w, r, c, x) == [t \in EvThreads |->
    CASE t = te -> e [] t = tw -> w [] t = tr -> r [] t = tc -> c [] OTHER -> x]

\* Waiting against writing and signals; reading against the descriptor calls.
MCBudgets ==
    {MCBudget(3, 2, 0, 0, 0), MCBudget(2, 2, 1, 0, 0), MCBudget(0, 1, 1, 2, 1)}

\* epoll_wait blocks for ever; poll and select give a time-out, which may not expire.
MCTimeouts == [c \in {"epoll", "poll", "select"} |->
    IF c = "epoll" THEN {"never"} ELSE {"zero", "finite"}]

\* One waiter against two descriptor calls.
MCBellBudgets == {MCBudget(1, 0, 0, 2, 0)}
=============================================================================
