------------------------------- MODULE KeWait -------------------------------
(***************************************************************************)
(* Dispatcher objects and the waits on them: events, mutants, semaphores   *)
(* and timers (kernel/src/ke/).  Every operation on an object is one       *)
(* section under DISPATCHER_REGISTRY, in which the threads it releases are *)
(* made Ready under THREAD_TABLE.  A wait is three of them: it tries the   *)
(* objects, enters their wait lists and, after it has marked itself        *)
(* Blocked and has been resumed, looks which of its blocks were satisfied. *)
(***************************************************************************)
EXTENDS Integers, FiniteSets, Sequences

CONSTANTS KeThreads,
          KeObjs,     \* dispatcher objects; an id is never used again
          KeKind,     \* KeKind[o]: one of KeKindNames
          KeLimit,    \* the limit of every semaphore
          KeLists,    \* the object lists given to a wait for multiple objects
          KeTimes,    \* time-outs of waits: "zero", "finite", "never"
          KeRounds,   \* bound: short sleeps of WaitAll before a deadline has passed
          KeNoOne,    \* no thread
          KeBudgets   \* how often each thread makes each call, in each scenario

VARIABLES keLive,   \* the objects in DISPATCHER_REGISTRY
          keState,  \* signal_state
          keList,   \* the threads with a WaitBlock on the object, oldest first
          keSat,    \* those of them whose block is satisfied
          keOwner,  \* owner_thread of a mutant
          keCount,  \* recursion_count of a mutant
          keArm,    \* timer_id of a timer: its last arming
          keSerial, \* NEXT_TIMER_ID
          keTimers, \* the active entries of TIMER_REGISTRY
          keRun,    \* ThreadState: "ready" or "blocked"
          kePc,     \* where each thread is
          keReg,    \* the arguments and locals of its call
          keLeft,   \* the calls it may still make
          keHeld,   \* history: acquisitions of a mutant reported to a thread
          keGrant,  \* history: waits satisfied by the object and reported
          kePosts   \* history: signals given to the object

keLists == <<keList, keSat>>
keMutant == <<keOwner, keCount>>
keTimer == <<keArm, keSerial, keTimers>>
keHist == <<keHeld, keGrant, kePosts>>
keVars == <<keLive, keState, keLists, keMutant, keTimer, keRun, kePc, keReg, keLeft, keHist>>

KeKindNames == {"notification", "synchronization", "mutant", "semaphore", "timer"}
KeCallNames == {"single", "any", "all", "set", "reset", "pulse", "acquire", "release",
                "post", "arm", "cancel", "check", "destroy"}

ASSUME KeAssumption ==
    /\ IsFiniteSet(KeThreads) /\ KeNoOne \notin KeThreads
    /\ KeKind \in [KeObjs -> KeKindNames]
    /\ KeLimit \in Nat \ {0}
    /\ KeLists \subseteq Seq(KeObjs)
    /\ \A s \in KeLists : \A i, j \in 1 .. Len(s) : s[i] = s[j] => i = j

KeIdle == [op |-> "none", ids |-> <<>>, time |-> "never", round |-> 0, fire |-> {}]

KeInit ==
    /\ keLive = KeObjs
    /\ keState = [o \in KeObjs |-> IF KeKind[o] = "mutant" THEN 1 ELSE 0]
    /\ keList = [o \in KeObjs |-> <<>>]
    /\ keSat = [o \in KeObjs |-> {}]
    /\ keOwner = [o \in KeObjs |-> KeNoOne]
    /\ keCount = [o \in KeObjs |-> 0]
    /\ keArm = [o \in KeObjs |-> 0]
    /\ keSerial = 0
    /\ keTimers = {}
    /\ keRun = [t \in KeThreads |-> "ready"]
    /\ kePc = [t \in KeThreads |-> "user"]
    /\ keReg = [t \in KeThreads |-> KeIdle]
    /\ keLeft \in KeBudgets
    /\ keHeld = [t \in KeThreads |-> [o \in KeObjs |-> 0]]
    /\ keGrant = [o \in KeObjs |-> 0]
    /\ kePosts = [o \in KeObjs |-> 0]

----------------------------------------------------------------------------
(* Steps shared by the calls.                                              *)

\* Thread t makes call c, and goes on at pc with the registers r.
KeCall(t, c, pc, r) ==
    /\ kePc[t] = "user" /\ keLeft[t][c] > 0
    /\ keLeft' = [keLeft EXCEPT ![t][c] = @ - 1]
    /\ kePc' = [kePc EXCEPT ![t] = pc]
    /\ keReg' = [keReg EXCEPT ![t] = r]

\* A call that is one section under DISPATCHER_REGISTRY, on a live object.
KeSection(t, c, o) == o \in keLive /\ KeCall(t, c, "user", KeIdle)

KeGo(t, pc) == kePc' = [kePc EXCEPT ![t] = pc] /\ UNCHANGED keReg

KeReturn(t) ==
    /\ kePc' = [kePc EXCEPT ![t] = "user"]
    /\ keReg' = [keReg EXCEPT ![t] = KeIdle]

\* The threads with a block on o; the n of them that wait longest and are not
\* satisfied.
KeWaiters(o) == {keList[o][i] : i \in 1 .. Len(keList[o])}
KePending(o) == {i \in 1 .. Len(keList[o]) : keList[o][i] \notin keSat[o]}
KeOldest(o, n) ==
    {keList[o][i] : i \in {i \in KePending(o) :
                             Cardinality({j \in KePending(o) : j < i}) < n}}

\* A wait list without the block of t: position() and remove().
KeRemove(s, t) ==
    LET at == CHOOSE i \in 1 .. Len(s) : s[i] = t IN
    IF \E i \in 1 .. Len(s) : s[i] = t
    THEN [i \in 1 .. Len(s) - 1 |-> IF i < at THEN s[i] ELSE s[i + 1]]
    ELSE s

\* wake_blocked_waiters: the threads of the satisfied blocks that are Blocked.
KeWake(sat) == keRun' = [t \in KeThreads |-> IF t \in sat THEN "ready" ELSE keRun[t]]

\* The blocks of the threads in ws are satisfied, and their threads are woken.
KeSatisfy(o, ws) ==
    /\ keSat' = [keSat EXCEPT ![o] = @ \cup ws]
    /\ KeWake(keSat[o] \cup ws)

Signaled(o) == keState[o] > 0

\* consume_signal for every object in os: an auto-reset event is reset, a semaphore
\* gives up one count, a free mutant gets t as its owner.
KeConsume(t, os) ==
    /\ keState' = [o \in KeObjs |->
         CASE o \in os /\ KeKind[o] \in {"synchronization", "mutant"} -> 0
           [] o \in os /\ KeKind[o] = "semaphore" -> keState[o] - 1
           [] OTHER -> keState[o]]
    /\ keOwner' = [o \in KeObjs |-> IF o \in os /\ KeKind[o] = "mutant" THEN t ELSE keOwner[o]]
    /\ keCount' = [o \in KeObjs |-> IF o \in os /\ KeKind[o] = "mutant" THEN 1 ELSE keCount[o]]

\* The caller learns that the objects in os have satisfied its wait.
KeReport(t, os) ==
    /\ keHeld' = [keHeld EXCEPT ![t] = [o \in KeObjs |->
                    IF o \in os /\ KeKind[o] = "mutant" THEN @[o] + 1 ELSE @[o]]]
    /\ keGrant' = [o \in KeObjs |-> IF o \in os THEN keGrant[o] + 1 ELSE keGrant[o]]
    /\ UNCHANGED kePosts

----------------------------------------------------------------------------
(* Waiting.                                                                *)

\* wait_for_single_object, or wait_for_multiple_objects with WaitAny or WaitAll.
KeWait(t, op, ids) ==
    /\ \E time \in KeTimes :
         KeCall(t, op, "try", [KeIdle EXCEPT !.op = op, !.ids = ids, !.time = time])
    /\ UNCHANGED <<keLive, keState, keLists, keMutant, keTimer, keRun, keHist>>

\* The wait is satisfied by the objects in os, whose signal it consumes.
KeTake(t, os) ==
    /\ KeConsume(t, os) /\ KeReport(t, os) /\ KeReturn(t)
    /\ UNCHANGED <<keLive, keLists, keTimer, keRun, keLeft>>

\* The wait ends with Failed or Timeout.
KeFail(t) ==
    /\ KeReturn(t)
    /\ UNCHANGED <<keLive, keState, keLists, keMutant, keTimer, keRun, keLeft, keHist>>

\* try_satisfy_single for a mutant that the caller owns.
KeRecurse(t, o) ==
    /\ keCount' = [keCount EXCEPT ![o] = @ + 1]
    /\ KeReport(t, {o}) /\ KeReturn(t)
    /\ UNCHANGED <<keLive, keState, keLists, keOwner, keTimer, keRun, keLeft>>

\* Nothing to take: a poll ends, WaitAll tries again and sleeps until the tick, the
\* other waits enter the wait lists.
KeNotYet(t) ==
    LET r == keReg[t] IN
    \/ /\ <<kePc[t], r.time>> \in {<<"try", "zero">>, <<"again", "finite">>}
       /\ KeFail(t)
    \/ /\ kePc[t] = "try" /\ r.time # "zero"
       /\ KeGo(t, IF r.op = "all" THEN "again" ELSE "enqueue")
       /\ UNCHANGED <<keLive, keState, keLists, keMutant, keTimer, keRun, keLeft, keHist>>
    \/ /\ kePc[t] = "again" /\ r.round < KeRounds
       /\ KeGo(t, "block")
       /\ UNCHANGED <<keLive, keState, keLists, keMutant, keTimer, keRun, keLeft, keHist>>

\* try_satisfy_single and try_satisfy_multiple: the first object in the order of the
\* list that decides.
KeTry(t) ==
    /\ kePc[t] \in {"try", "again"}
    /\ LET ids == keReg[t].ids
           op == keReg[t].op
           decides(o) == o \notin keLive \/ (Signaled(o) <=> op # "all")
           hits == {i \in 1 .. Len(ids) : decides(ids[i])}
           o == ids[CHOOSE i \in hits : \A j \in hits : i <= j]
       IN  IF hits = {}
           THEN IF op = "all" THEN KeTake(t, {ids[i] : i \in 1 .. Len(ids)})
                ELSE IF op = "single" /\ KeKind[ids[1]] = "mutant" /\ keOwner[ids[1]] = t
                THEN KeRecurse(t, ids[1])
                ELSE KeNotYet(t)
           ELSE IF o \notin keLive THEN KeFail(t)
           ELSE IF op = "all" THEN KeNotYet(t)
           ELSE KeTake(t, {o})

\* Phase 2: a block on every object, or Failed when one of them is gone.
KeEnqueue(t) ==
    LET os == {keReg[t].ids[i] : i \in 1 .. Len(keReg[t].ids)} IN
    /\ kePc[t] = "enqueue" /\ keReg[t].op # "all"
    /\ IF os \subseteq keLive
       THEN /\ keList' = [o \in KeObjs |-> IF o \in os THEN Append(keList[o], t) ELSE keList[o]]
            /\ KeGo(t, "block")
            /\ UNCHANGED <<keLive, keState, keSat, keMutant, keTimer, keRun, keLeft, keHist>>
       ELSE KeFail(t)

\* The thread marks itself Blocked and calls schedule().
KeBlock(t) ==
    /\ kePc[t] = "block"
    /\ keRun' = [keRun EXCEPT ![t] = "blocked"]
    /\ kePc' = [kePc EXCEPT ![t] = "asleep"]
    /\ keReg' = [keReg EXCEPT ![t].round = IF keReg[t].op = "all" /\ keReg[t].time = "finite"
                                           THEN @ + 1 ELSE @]
    /\ UNCHANGED <<keLive, keState, keLists, keMutant, keTimer, keLeft, keHist>>

\* Mutant: the scan only minds waits without a deadline.
KeTimeoutNever(t) ==
    /\ keRun[t] = "blocked" /\ keReg[t].op = "all"
    /\ keRun' = [keRun EXCEPT ![t] = "ready"]
    /\ UNCHANGED <<keLive, keState, keLists, keMutant, keTimer, kePc, keReg, keLeft, keHist>>

\* The tick finds that wake_tick has passed: the deadline, or 10 ticks in WaitAll.
KeTimeout(t) ==
    /\ keRun[t] = "blocked" /\ (keReg[t].time = "finite" \/ keReg[t].op = "all")
    /\ keRun' = [keRun EXCEPT ![t] = "ready"]
    /\ UNCHANGED <<keLive, keState, keLists, keMutant, keTimer, kePc, keReg, keLeft, keHist>>

\* Phase 3: the blocks are removed; the first satisfied one, in the order of the
\* list, is the result.  WaitAll has no blocks and tries again.
KeResume(t) ==
    LET ids == keReg[t].ids
        os == {ids[i] : i \in 1 .. Len(ids)}
        hits == {i \in 1 .. Len(ids) : t \in keSat[ids[i]]}
    IN
    /\ kePc[t] = "asleep" /\ keRun[t] = "ready"
    /\ IF keReg[t].op = "all"
       THEN /\ KeGo(t, "again")
            /\ UNCHANGED <<keLists, keHist>>
       ELSE /\ keList' = [o \in KeObjs |->
                 IF o \in os THEN KeRemove(keList[o], t) ELSE keList[o]]
            /\ keSat' = [o \in KeObjs |-> IF o \in os THEN keSat[o] \ {t} ELSE keSat[o]]
            /\ IF hits = {} THEN UNCHANGED keHist
               ELSE KeReport(t, {ids[CHOOSE i \in hits : \A j \in hits : i <= j]})
            /\ KeReturn(t)
    /\ UNCHANGED <<keLive, keState, keMutant, keTimer, keRun, keLeft>>

----------------------------------------------------------------------------
(* Signalling.                                                             *)

KePosted(o, n) == kePosts' = [kePosts EXCEPT ![o] = @ + n] /\ UNCHANGED <<keHeld, keGrant>>

KeSetState(o, n) == keState' = [keState EXCEPT ![o] = n]

\* set_event: every waiter of a notification event, the oldest one of a
\* synchronization event, which is then reset.
KeSetEvent(t, o) ==
    LET woken == IF KeKind[o] = "notification" THEN KeWaiters(o) ELSE KeOldest(o, 1) IN
    /\ KeSection(t, "set", o)
    /\ KeSetState(o, IF KeKind[o] = "notification" \/ woken = {} THEN 1 ELSE 0)
    /\ KeSatisfy(o, woken)
    /\ KePosted(o, 1)
    /\ UNCHANGED <<keLive, keList, keMutant, keTimer>>

KeResetEvent(t, o) ==
    /\ KeSection(t, "reset", o)
    /\ KeSetState(o, 0)
    /\ UNCHANGED <<keLive, keLists, keMutant, keTimer, keRun, keHist>>

\* pulse_event: every waiter, whatever the type of the event.
KePulseEvent(t, o) ==
    /\ KeSection(t, "pulse", o)
    /\ KePosted(o, Cardinality(KeWaiters(o) \ keSat[o]))
    /\ KeSetState(o, 0) /\ KeSatisfy(o, KeWaiters(o))
    /\ UNCHANGED <<keLive, keList, keMutant, keTimer>>

\* acquire_mutant, which goes by the owner and not by the signal state.
KeAcquireMutant(t, o) ==
    /\ KeSection(t, "acquire", o)
    /\ keOwner[o] \in {KeNoOne, t}
    /\ keOwner' = [keOwner EXCEPT ![o] = t]
    /\ keCount' = [keCount EXCEPT ![o] = IF keOwner[o] = t THEN @ + 1 ELSE 1]
    /\ KeSetState(o, IF keOwner[o] = t THEN keState[o] ELSE 0)
    /\ KeReport(t, {o})
    /\ UNCHANGED <<keLive, keLists, keTimer, keRun>>

\* Mutant: a mutant handed to a waiter stays signaled.
KeHandOverSignaled(o, w) ==
    /\ keOwner' = [keOwner EXCEPT ![o] = w]
    /\ keCount' = [keCount EXCEPT ![o] = 1]
    /\ KeSetState(o, 1)
    /\ KeSatisfy(o, {w})

\* The first waiter becomes the owner.
KeHandOver(o, w) ==
    /\ keOwner' = [keOwner EXCEPT ![o] = w]
    /\ keCount' = [keCount EXCEPT ![o] = 1]
    /\ KeSetState(o, 0)
    /\ KeSatisfy(o, {w})

\* release_mutant by its owner; by another thread it reports false.
KeReleaseMutant(t, o) ==
    /\ KeSection(t, "release", o)
    /\ keOwner[o] = t
    /\ \/ /\ keCount[o] > 1
          /\ keCount' = [keCount EXCEPT ![o] = @ - 1]
          /\ UNCHANGED <<keState, keOwner, keSat, keRun>>
       \/ /\ keCount[o] = 1
          /\ \E w \in KeOldest(o, 1) : KeHandOver(o, w)
       \/ /\ keCount[o] = 1 /\ KeOldest(o, 1) = {}
          /\ keOwner' = [keOwner EXCEPT ![o] = KeNoOne]
          /\ keCount' = [keCount EXCEPT ![o] = 0]
          /\ KeSetState(o, 1)
          /\ KeSatisfy(o, {})
    /\ keHeld' = [keHeld EXCEPT ![t][o] = IF keHeld[t][o] > 0 THEN keHeld[t][o] - 1 ELSE 0]
    /\ UNCHANGED <<keLive, keList, keTimer, keGrant, kePosts>>

\* Mutant: the count keeps what the woken waiters take.
KeLeaveCount(n, woken) == n

\* Each woken waiter takes one count.
KeLeave(n, woken) == n - Cardinality(woken)

\* release_semaphore by n, within the limit; beyond it, it reports -1.
KeReleaseSemaphore(t, o, n) ==
    LET woken == KeOldest(o, keState[o] + n) IN
    /\ KeSection(t, "post", o)
    /\ keState[o] + n <= KeLimit
    /\ KeSetState(o, KeLeave(keState[o] + n, woken))
    /\ KeSatisfy(o, woken)
    /\ KePosted(o, n)
    /\ UNCHANGED <<keLive, keList, keMutant, keTimer>>

\* set_timer: a new arming; the entry of an earlier one stays in TIMER_REGISTRY.
KeSetTimer(t, o, periodic) ==
    /\ KeSection(t, "arm", o)
    /\ keSerial' = keSerial + 1
    /\ keArm' = [keArm EXCEPT ![o] = keSerial + 1]
    /\ KeSetState(o, 0)
    /\ keTimers' = keTimers \cup {[id |-> keSerial + 1, periodic |-> periodic]}
    /\ UNCHANGED <<keLive, keLists, keMutant, keRun, keHist>>

KeCancelTimer(t, o) ==
    /\ KeSection(t, "cancel", o)
    /\ keTimers' = {e \in keTimers : e.id # keArm[o]}
    /\ UNCHANGED <<keLive, keState, keLists, keMutant, keArm, keSerial, keRun, keHist>>

\* check_timers: the entries that are due, under TIMER_REGISTRY; a one-shot timer is
\* deactivated.
KeCheckTimers(t) ==
    \E due \in (SUBSET keTimers) \ {{}} :
      /\ KeCall(t, "check", "fire", [KeIdle EXCEPT !.fire = {e.id : e \in due}])
      /\ keTimers' = {e \in keTimers : e \notin due \/ e.periodic}
      /\ UNCHANGED <<keLive, keState, keLists, keMutant, keArm, keSerial, keRun, keHist>>

\* signal_timer_in_registry for the next of them, if a timer still has that id.
KeFire(t) ==
    LET id == CHOOSE i \in keReg[t].fire : \A j \in keReg[t].fire : i <= j
        os == {o \in keLive : KeKind[o] = "timer" /\ keArm[o] = id}
    IN
    /\ kePc[t] = "fire"
    /\ IF keReg[t].fire = {} THEN KeFail(t)
       ELSE /\ keReg' = [keReg EXCEPT ![t].fire = @ \ {id}]
            /\ IF os = {} THEN UNCHANGED <<keState, keSat, keRun, keHist>>
               ELSE \E o \in os : /\ KeSetState(o, 1)
                                  /\ KeSatisfy(o, KeWaiters(o))
                                  /\ KePosted(o, 1)
            /\ UNCHANGED <<keLive, keList, keMutant, keTimer, kePc, keLeft>>

\* destroy_object: the entry goes, its blocks with it; nobody is woken.
KeDestroy(t, o) ==
    /\ KeSection(t, "destroy", o)
    /\ keLive' = keLive \ {o}
    /\ keList' = [keList EXCEPT ![o] = <<>>]
    /\ keSat' = [keSat EXCEPT ![o] = {}]
    /\ UNCHANGED <<keState, keMutant, keTimer, keRun, keHist>>

----------------------------------------------------------------------------

KeOf(kinds) == {o \in KeObjs : KeKind[o] \in kinds}

KeStep(t) == KeTry(t) \/ KeEnqueue(t) \/ KeBlock(t) \/ KeResume(t) \/ KeFire(t)

KeBegin(t) ==
    \/ \E o \in KeObjs : KeWait(t, "single", <<o>>) \/ KeDestroy(t, o)
    \/ \E op \in {"any", "all"}, ids \in KeLists : KeWait(t, op, ids)
    \/ \E o \in KeOf({"notification", "synchronization"}) :
         KeSetEvent(t, o) \/ KeResetEvent(t, o) \/ KePulseEvent(t, o)
    \/ \E o \in KeOf({"mutant"}) : KeAcquireMutant(t, o) \/ KeReleaseMutant(t, o)
    \/ \E o \in KeOf({"semaphore"}), n \in 1 .. KeLimit : KeReleaseSemaphore(t, o, n)
    \/ \E o \in KeOf({"timer"}) :
         KeCancelTimer(t, o) \/ \E periodic \in BOOLEAN : KeSetTimer(t, o, periodic)
    \/ KeCheckTimers(t)

KeNext == \E t \in KeThreads : KeBegin(t) \/ KeStep(t) \/ KeTimeout(t)

KeSpec == KeInit /\ [][KeNext]_keVars

\* A thread that is Ready runs, and the tick looks at every deadline.
KeFairSpec == KeSpec /\ \A t \in KeThreads : WF_keVars(KeStep(t)) /\ WF_keVars(KeTimeout(t))

----------------------------------------------------------------------------
(* Properties.                                                             *)

\* The registers of a thread that has or may have a block on o.
KeWaitsOn(t, o) ==
    /\ kePc[t] \in {"block", "asleep"} /\ keReg[t].op # "all"
    /\ \E i \in 1 .. Len(keReg[t].ids) : keReg[t].ids[i] = o

\* The types of the registry; a wait block belongs to a thread that is in a wait on
\* the object, once, and has not left it (DispatcherHeader::wait_list).
KeTypeOK ==
    /\ keLive \subseteq KeObjs
    /\ keState \in [KeObjs -> 0 .. KeLimit]
    /\ \A o \in KeObjs :
         /\ keSat[o] \subseteq KeWaiters(o)
         /\ Cardinality(KeWaiters(o)) = Len(keList[o])
         /\ \A t \in KeWaiters(o) : KeWaitsOn(t, o)
    /\ keRun \in [KeThreads -> {"ready", "blocked"}]
    /\ \A t \in KeThreads : keRun[t] = "blocked" => kePc[t] = "asleep"

\* A thread that was told it has the mutant owns it, as often as it was told so and
\* has not released it, until it releases it: two threads never hold it at once
\* (release_mutant hands it to a waiter, whose deadline may have passed).
KeMutantExclusive ==
    \A o \in KeOf({"mutant"}) \cap keLive, t \in KeThreads :
      keHeld[t][o] > 0 => keOwner[o] = t /\ keHeld[t][o] <= keCount[o]

\* A synchronization event or a semaphore never satisfies more waits than it was
\* given signals, those still pending and those granted but not yet reported
\* included (set_event, release_semaphore, consume_signal).
KeNoOverGrant ==
    \A o \in KeOf({"synchronization", "semaphore"}) \cap keLive :
      keState[o] + Cardinality(keSat[o]) + keGrant[o] <= kePosts[o]

\* Every wait with a deadline returns (the deadline scan, WaitAll's short sleeps).
KeTimedWaitReturns ==
    \A t \in KeThreads : (kePc[t] = "try" /\ keReg[t].time = "finite") ~> kePc[t] = "user"
=============================================================================
