------------------------------ MODULE KeProofs ------------------------------
(***************************************************************************)
(* A mutant is held by one thread at a time, and an event or a semaphore   *)
(* satisfies no more waits than it was given signals, for any threads and  *)
(* objects.                                                                *)
(***************************************************************************)
EXTENDS KeSignalProofs

-----------------------------------------------------------------------------
(* Waiting.                                                                *)

\* The objects of a wait.
LEMMA IdsAreObjects ==
  ASSUME NEW t \in KeThreads, KeShape
  PROVE  /\ keReg[t].ids \in Seq(KeObjs) /\ Len(keReg[t].ids) \in Nat
         /\ \A i \in 1 .. Len(keReg[t].ids) : keReg[t].ids[i] \in KeObjs
  <1>1. keReg[t].ids \in Seq(KeObjs)
    BY Zenon DEF KeShape, KeRegs
  <1> QED BY <1>1

LEMMA WaitStep ==
  ASSUME KeIInv, NEW t \in KeThreads, NEW op \in {"single", "any", "all"},
         NEW ids \in Seq(KeObjs), op = "single" => Len(ids) = 1, KeWait(t, op, ids)
  PROVE  KeIInv'
  <1>0. KeShape
    BY Zenon DEF KeIInv
  <1>1. PICK time \in KeTimes :
          KeCall(t, op, "try", [KeIdle EXCEPT !.op = op, !.ids = ids, !.time = time])
    BY Zenon DEF KeWait
  <1> DEFINE r == [KeIdle EXCEPT !.op = op, !.ids = ids, !.time = time]
  <1>2. r \in KeRegs
    BY Zenon DEF KeIdle, KeRegs
  <1>3. KeCall(t, op, "try", r) /\ "try" \in KePcs
    BY <1>1, Zenon DEF KePcs
  <1> HIDE DEF r
  <1>4. /\ kePc' \in [KeThreads -> KePcs] /\ keReg' \in [KeThreads -> KeRegs]
        /\ \A u \in KeThreads, q \in KeObjs : KeWaitsOn(u, q) => KeWaitsOn(u, q)'
    BY <1>0, <1>2, <1>3, CallFrame, Zenon
  <1>5. UNCHANGED <<keState, keLists, keMutant, keHist>> /\ UNCHANGED <<keLive, keSerial, keTimers>>
    BY Zenon DEF KeWait, keTimer
  <1> QED BY <1>0, <1>4, <1>5, QuietStep, Zenon DEF KeShape

LEMMA FailStep ==
  ASSUME KeIInv, NEW t \in KeThreads, kePc[t] \notin {"block", "asleep"}, KeFail(t)
  PROVE  KeIInv'
  <1>0. KeShape
    BY Zenon DEF KeIInv
  <1>1. /\ KeReturn(t) /\ UNCHANGED <<keState, keLists, keMutant, keHist>>
        /\ UNCHANGED <<keLive, keSerial, keTimers>>
    BY Zenon DEF KeFail, keTimer
  <1> QED BY <1>0, <1>1, ReturnFrame, QuietStep, Zenon DEF KeShape

\* The wait takes the signals of os, all of which are signaled.
LEMMA TakeStep ==
  ASSUME KeIInv, NEW t \in KeThreads, kePc[t] \notin {"block", "asleep"},
         NEW os \in SUBSET KeObjs, \A o \in os : keState[o] > 0, KeTake(t, os)
  PROVE  KeIInv'
  <1>0. KeShape /\ KeBlocks /\ KeOwned /\ KeBounded
    BY Zenon DEF KeIInv
  <1>1. KeReturn(t) /\ UNCHANGED <<keLive, keList, keSat, keSerial, keTimers, kePosts>>
    BY Zenon DEF KeTake, KeReport, keLists, keTimer
  <1>2. /\ kePc' \in [KeThreads -> KePcs] /\ keReg' \in [KeThreads -> KeRegs]
        /\ \A u \in KeThreads, q \in KeObjs : KeWaitsOn(u, q) => KeWaitsOn(u, q)'
    BY <1>0, <1>1, ReturnFrame, Zenon
  <1>3. \A o \in KeObjs :
          keState'[o] = CASE o \in os /\ KeKind[o] \in {"synchronization", "mutant"} -> 0
                          [] o \in os /\ KeKind[o] = "semaphore" -> keState[o] - 1
                          [] OTHER -> keState[o]
    BY Zenon DEF KeTake, KeConsume
  <1>4. keState' \in [KeObjs -> Int]
    <2>1. keState' = [o \in KeObjs |->
            CASE o \in os /\ KeKind[o] \in {"synchronization", "mutant"} -> 0
              [] o \in os /\ KeKind[o] = "semaphore" -> keState[o] - 1
              [] OTHER -> keState[o]]
      BY Zenon DEF KeTake, KeConsume
    <2>2. \A o \in KeObjs : keState'[o] \in Int
      BY <1>0, <1>3 DEF KeShape
    <2> QED BY <2>1, <2>2, Zenon
  <1>5. /\ keOwner' = [o \in KeObjs |-> IF o \in os /\ KeKind[o] = "mutant" THEN t ELSE keOwner[o]]
        /\ keCount' = [o \in KeObjs |-> IF o \in os /\ KeKind[o] = "mutant" THEN 1 ELSE keCount[o]]
    BY Zenon DEF KeTake, KeConsume
  <1>6. /\ keHeld' = [keHeld EXCEPT ![t] = [o \in KeObjs |->
                        IF o \in os /\ KeKind[o] = "mutant" THEN @[o] + 1 ELSE @[o]]]
        /\ keGrant' = [o \in KeObjs |-> IF o \in os THEN keGrant[o] + 1 ELSE keGrant[o]]
    BY Zenon DEF KeTake, KeReport
  <1>7. KeShape'
    <2>1. keHeld' \in [KeThreads -> [KeObjs -> Nat]]
      BY <1>0, <1>6 DEF KeShape
    <2>2. keOwner' \in [KeObjs -> KeThreads \cup {KeNoOne}] /\ keCount' \in [KeObjs -> Nat]
      BY <1>0, <1>5, Zenon DEF KeShape
    <2>3. keGrant' \in [KeObjs -> Nat]
      BY <1>0, <1>6 DEF KeShape
    <2> QED BY <1>0, <1>1, <1>2, <1>4, <2>1, <2>2, <2>3, Zenon DEF KeShape
  <1>8. KeBlocks'
    BY <1>0, <1>1, <1>2, BlocksKept, Zenon DEF KeBlocks
  <1>9. KeOwned'
    <2> SUFFICES ASSUME NEW q \in KeOf({"mutant"}), NEW u \in KeThreads
        PROVE  /\ keState'[q] > 0 => keOwner'[q] = KeNoOne
               /\ keHeld'[u][q] > 0 => keOwner'[q] = u /\ keHeld'[u][q] <= keCount'[q]
               /\ u \in keSat'[q] => keOwner'[q] = u /\ keHeld'[u][q] < keCount'[q]
      BY Zenon DEF KeOwned, KeOf
    <2>0. q \in KeObjs /\ KeKind[q] = "mutant" /\ keHeld[u][q] \in Nat /\ keHeld[t][q] \in Nat
      BY <1>0, Zenon DEF KeOf, KeShape
    <2>1. /\ keState[q] > 0 => keOwner[q] = KeNoOne
          /\ keHeld[u][q] > 0 => keOwner[q] = u /\ keHeld[u][q] <= keCount[q]
          /\ keHeld[t][q] > 0 => keOwner[q] = t
          /\ u \in keSat[q] => keOwner[q] = u /\ keHeld[u][q] < keCount[q]
      BY <1>0, Zenon DEF KeOwned
    <2>2. keHeld'[u][q] = IF u = t /\ q \in os THEN keHeld[u][q] + 1 ELSE keHeld[u][q]
      BY <1>0, <1>6, <2>0, Zenon DEF KeShape
    <2>3. CASE q \in os
      <3>1. keState'[q] = 0 /\ keOwner'[q] = t /\ keCount'[q] = 1 /\ keSat'[q] = keSat[q]
        BY <1>1, <1>3, <1>5, <2>0, <2>3, Zenon
      <3>2. keOwner[q] = KeNoOne /\ KeNoOne # u /\ KeNoOne # t
        BY <2>1, <2>3, KeAssumption, Zenon
      <3>3. keHeld[u][q] = 0 /\ u \notin keSat[q]
        BY <2>0, <2>1, <3>2
      <3> QED BY <2>2, <3>1, <3>3
    <2>4. CASE q \notin os
      BY <1>1, <1>3, <1>5, <2>0, <2>1, <2>2, <2>4, Zenon
    <2> QED BY <2>3, <2>4, Zenon
  <1>10. KeBounded'
    <2>0. \A q \in KeObjs : keState[q] \in Int /\ keGrant[q] \in Nat /\ kePosts[q] \in Nat
                            /\ Cardinality(keSat[q]) \in Nat
      BY <1>0, ThreadsFinite, Zenon DEF KeShape
    <2>1. \A q \in KeObjs : keGrant'[q] = IF q \in os THEN keGrant[q] + 1 ELSE keGrant[q]
      BY <1>6, Zenon
    <2>2. ASSUME NEW q \in KeOf({"synchronization"}) PROVE keState'[q] >= 0
      BY <1>0, <1>3 DEF KeBounded, KeOf
    <2>3. ASSUME NEW q \in KeOf({"synchronization", "semaphore"})
          PROVE  keState'[q] + Cardinality(keSat[q]) + keGrant'[q] <= kePosts[q]
      <3>1. q \in KeObjs /\ keState[q] + Cardinality(keSat[q]) + keGrant[q] <= kePosts[q]
        BY <1>0, <2>3, Zenon DEF KeBounded, KeOf
      <3>2. q \in os => keState'[q] <= keState[q] - 1 /\ keState'[q] \in Int
        BY <1>3, <2>0, <2>3, <3>1 DEF KeOf
      <3>3. q \notin os => keState'[q] = keState[q]
        BY <1>3, <3>1, Zenon
      <3> QED BY <2>0, <2>1, <3>1, <3>2, <3>3
    <2> QED BY <1>1, <2>2, <2>3, Zenon DEF KeBounded
  <1> QED BY <1>7, <1>8, <1>9, <1>10, Zenon DEF KeIInv

LEMMA RecurseStep ==
  ASSUME KeIInv, NEW t \in KeThreads, kePc[t] \notin {"block", "asleep"},
         NEW o \in KeOf({"mutant"}), keOwner[o] = t, KeRecurse(t, o)
  PROVE  KeIInv'
  <1> DEFINE k == keCount[o] + 1
             h == keHeld[t][o] + 1
             m == keState[o]
             ws == {}
  <1>0. KeShape /\ KeBlocks /\ KeOwned /\ o \in KeObjs /\ KeKind[o] = "mutant"
    BY Zenon DEF KeIInv, KeOf
  <1>1. /\ KeReturn(t) /\ keCount' = [keCount EXCEPT ![o] = k]
        /\ UNCHANGED <<keLive, keState, keOwner, keList, keSat, keSerial, keTimers, kePosts>>
    BY Zenon DEF KeRecurse, KeReport, keLists, keTimer
  <1>2. /\ kePc' \in [KeThreads -> KePcs] /\ keReg' \in [KeThreads -> KeRegs]
        /\ \A u \in KeThreads, q \in KeObjs : KeWaitsOn(u, q) => KeWaitsOn(u, q)'
        /\ t \notin keSat[o]
    BY <1>0, <1>1, ReturnFrame, NotThere, Zenon DEF KeWaitsOn
  <1>3. /\ keState' = [keState EXCEPT ![o] = m] /\ keOwner' = [keOwner EXCEPT ![o] = t]
        /\ keSat' = [keSat EXCEPT ![o] = @ \cup ws]
    BY <1>0, <1>1, Zenon DEF KeShape
  <1>4. keHeld' = [keHeld EXCEPT ![t][o] = h]
    BY <1>0 DEF KeRecurse, KeReport, KeShape
  <1>5. keGrant' \in [KeObjs -> Nat] /\ \A q \in KeObjs \ {o} : keGrant'[q] = keGrant[q]
    BY <1>0 DEF KeRecurse, KeReport, KeShape
  <1>6. /\ keCount[o] \in Nat /\ keHeld[t][o] \in Nat /\ KeNoOne \notin KeThreads
        /\ keState[o] \in Int /\ ~(keState[o] > 0)
    BY <1>0, KeAssumption DEF KeShape, KeOwned
  <1>7. /\ k \in Nat /\ h \in Nat /\ m \in Int /\ ~(m > 0)
        /\ ws \in SUBSET KeThreads /\ ws \subseteq KeWaiters(o) /\ t \notin keSat[o] \cup ws
    BY <1>2, <1>6
  <1>8. h <= k
    BY <1>0, <1>6 DEF KeOwned
  <1>9. \A u \in KeThreads \ {t} : ~(keHeld[u][o] > 0) /\ u \notin keSat[o]
    BY <1>0, Zenon DEF KeOwned
  <1>10. keSat[o] \cup ws = {}
    BY <1>0, <1>2, <1>9, Zenon DEF KeShape
  <1>11. /\ keCount' = [keCount EXCEPT ![o] = k]
         /\ UNCHANGED <<keLive, keList, keSerial, keTimers, kePosts>>
    BY <1>1, Zenon
  <1> HIDE DEF k, h, m, ws
  <1> QED BY <1>2, <1>3, <1>4, <1>5, <1>7, <1>8, <1>9, <1>10, <1>11, MutantStep, Zenon

LEMMA NotYetStep ==
  ASSUME KeIInv, NEW t \in KeThreads, kePc[t] \in {"try", "again"}, KeNotYet(t)
  PROVE  KeIInv'
  <1>0. KeShape /\ \A o \in KeObjs : ~KeWaitsOn(t, o)
    BY Zenon DEF KeIInv, KeWaitsOn
  <1>1. CASE KeFail(t)
    BY <1>1, FailStep, Zenon
  <1>2. ASSUME NEW pc \in KePcs, KeGo(t, pc),
               UNCHANGED <<keLive, keState, keLists, keMutant, keTimer, keRun, keLeft, keHist>>
        PROVE  KeIInv'
    <2>1. UNCHANGED <<keState, keLists, keMutant, keHist>> /\ UNCHANGED <<keLive, keSerial, keTimers>>
      BY <1>2, Zenon DEF keTimer
    <2> QED BY <1>0, <1>2, <2>1, GoFrame, QuietStep, Zenon DEF KeShape
  <1>3. (IF keReg[t].op = "all" THEN "again" ELSE "enqueue") \in KePcs /\ "block" \in KePcs
    BY Zenon DEF KePcs
  <1> QED BY <1>1, <1>2, <1>3, Zenon DEF KeNotYet

LEMMA TryStep ==
  ASSUME KeIInv, NEW t \in KeThreads, KeTry(t)
  PROVE  KeIInv'
  <1> DEFINE ids == keReg[t].ids
             op == keReg[t].op
             hits == {i \in 1 .. Len(ids) : ids[i] \notin keLive \/ (Signaled(ids[i]) <=> op # "all")}
             at == CHOOSE i \in hits : \A j \in hits : i <= j
             os == {ids[i] : i \in 1 .. Len(ids)}
  <1>0. KeShape /\ kePc[t] \in {"try", "again"} /\ kePc[t] \notin {"block", "asleep"}
    BY Zenon DEF KeIInv, KeTry
  <1>1. Len(ids) \in Nat /\ \A i \in 1 .. Len(ids) : ids[i] \in KeObjs
    BY <1>0, IdsAreObjects, Zenon
  <1>2. CASE hits = {}
    <2>1. IF op = "all" THEN KeTake(t, os)
          ELSE IF op = "single" /\ KeKind[ids[1]] = "mutant" /\ keOwner[ids[1]] = t
          THEN KeRecurse(t, ids[1])
          ELSE KeNotYet(t)
      BY <1>2, Zenon DEF KeTry
    <2>2. CASE op = "all"
      <3>1. os \in SUBSET KeObjs /\ \A o \in os : keState[o] > 0
        BY <1>1, <1>2, <2>2, Zenon DEF Signaled
      <3>2. KeTake(t, os)
        BY <2>1, <2>2, Zenon
      <3> HIDE DEF os
      <3> QED BY <1>0, <3>1, <3>2, TakeStep, Zenon
    <2>3. CASE op # "all" /\ op = "single" /\ KeKind[ids[1]] = "mutant" /\ keOwner[ids[1]] = t
      <3>1. KeRecurse(t, ids[1])
        BY <2>1, <2>3, Zenon
      <3>2. Len(ids) = 1
        BY <1>0, <2>3, Zenon DEF KeShape, KeRegs
      <3>3. ids[1] \in KeObjs
        BY <1>1, <3>2
      <3>4. ids[1] \in KeOf({"mutant"})
        BY <2>3, <3>3, Zenon DEF KeOf
      <3> QED BY <1>0, <2>3, <3>1, <3>4, RecurseStep, Zenon
    <2>4. CASE KeNotYet(t)
      BY <1>0, <2>4, NotYetStep, Zenon
    <2> QED BY <2>1, <2>2, <2>3, <2>4, Zenon
  <1>3. CASE hits # {}
    <2>1. IF ids[at] \notin keLive THEN KeFail(t)
          ELSE IF op = "all" THEN KeNotYet(t)
          ELSE KeTake(t, {ids[at]})
      BY <1>3, Zenon DEF KeTry
    <2>2. CASE KeFail(t)
      BY <1>0, <2>2, FailStep, Zenon
    <2>3. CASE KeNotYet(t)
      BY <1>0, <2>3, NotYetStep, Zenon
    <2>4. CASE ids[at] \in keLive /\ op # "all" /\ KeTake(t, {ids[at]})
      <3>1. PICK o \in KeObjs : o = ids[at]
        BY <1>0, <2>4, Zenon DEF KeShape
      <3>2. at \in hits
        <4>1. \E i \in hits : \A j \in hits : i <= j
          <5>1. hits \in SUBSET Nat /\ hits # {}
            BY <1>1, <1>3
          <5> HIDE DEF hits
          <5> QED BY <5>1, SmallestNat, Zenon
        <4> QED BY <4>1, Zenon
      <3>3. Signaled(o)
        BY <2>4, <3>1, <3>2, Zenon
      <3> DEFINE one == {o}
      <3>4. one \in SUBSET KeObjs /\ (\A q \in one : keState[q] > 0) /\ KeTake(t, one)
        BY <2>4, <3>1, <3>3, Zenon DEF Signaled
      <3> HIDE DEF one
      <3> QED BY <1>0, <3>4, TakeStep, Zenon
    <2> QED BY <2>1, <2>2, <2>3, <2>4, Zenon
  <1> QED BY <1>2, <1>3, Zenon

LEMMA EnqueueStep ==
  ASSUME KeIInv, NEW t \in KeThreads, KeEnqueue(t)
  PROVE  KeIInv'
  <1> DEFINE os == {keReg[t].ids[i] : i \in 1 .. Len(keReg[t].ids)}
  <1>0. KeShape /\ KeBlocks /\ KeOwned /\ KeBounded /\ kePc[t] = "enqueue" /\ keReg[t].op # "all"
    BY Zenon DEF KeIInv, KeEnqueue
  <1>1. CASE KeFail(t)
    BY <1>0, <1>1, FailStep, Zenon
  <1>2. ASSUME keList' = [o \in KeObjs |-> IF o \in os THEN Append(keList[o], t) ELSE keList[o]],
               KeGo(t, "block"), keReg[t].op # "all",
               UNCHANGED <<keLive, keState, keSat, keMutant, keTimer, keRun, keLeft, keHist>>
        PROVE  KeIInv'
    <2>1. UNCHANGED <<keLive, keState, keSat, keOwner, keCount, keSerial, keTimers, keHeld, keGrant, kePosts>>
      BY <1>2, Zenon DEF keMutant, keTimer, keHist
    <2>2. \A o \in KeObjs : ~KeWaitsOn(t, o)
      BY <1>0, Zenon DEF KeWaitsOn
    <2>3. /\ kePc' \in [KeThreads -> KePcs] /\ keReg' \in [KeThreads -> KeRegs]
          /\ \A u \in KeThreads, q \in KeObjs : KeWaitsOn(u, q) => KeWaitsOn(u, q)'
      BY <1>0, <1>2, <2>2, GoFrame, Zenon DEF KePcs
    <2>4. \A o \in os : KeWaitsOn(t, o)'
      BY <1>0, <1>2, Zenon DEF KeGo, KeWaitsOn, KeShape
    <2> HIDE DEF os
    <2>5. \A o \in KeObjs : keList[o] \in Seq(KeThreads)
      BY <1>0, Zenon DEF KeShape
    <2>6. \A o \in KeObjs : keList'[o] = IF o \in os THEN Append(keList[o], t) ELSE keList[o]
      BY <1>2, Zenon
    <2>a. \A o \in KeObjs : /\ \A i \in 1 .. Len(keList[o]) : keList[o][i] # t
                            /\ \A i, j \in 1 .. Len(keList[o]) : keList[o][i] = keList[o][j] => i = j
      BY <1>0, <2>2 DEF KeBlocks
    <2>b. ASSUME NEW o \in os, o \in KeObjs
          PROVE  /\ keList'[o] \in Seq(KeThreads)
                 /\ Len(keList'[o]) = Len(keList[o]) + 1 /\ keList'[o][Len(keList[o]) + 1] = t
                 /\ \A i \in 1 .. Len(keList[o]) : keList'[o][i] = keList[o][i]
                 /\ \A i, j \in 1 .. Len(keList'[o]) : keList'[o][i] = keList'[o][j] => i = j
      <3>1. PICK s \in Seq(KeThreads) : s = keList[o]
        BY <2>5, <2>b, Zenon
      <3>2. /\ \A i \in 1 .. Len(s) : s[i] # t
            /\ \A i, j \in 1 .. Len(s) : s[i] = s[j] => i = j
        BY <2>a, <2>b, <3>1, Zenon
      <3>3. keList'[o] = Append(s, t)
        BY <2>6, <2>b, <3>1, Zenon
      <3>4. /\ Append(s, t) \in Seq(KeThreads) /\ Len(Append(s, t)) = Len(s) + 1
            /\ Append(s, t)[Len(s) + 1] = t
            /\ \A i \in 1 .. Len(s) : Append(s, t)[i] = s[i]
            /\ \A i, j \in 1 .. Len(Append(s, t)) : Append(s, t)[i] = Append(s, t)[j] => i = j
        BY <3>2, AppendOne, Zenon
      <3>5. PICK r : r = Append(s, t)
        BY Zenon
      <3>6. /\ r \in Seq(KeThreads) /\ Len(r) = Len(s) + 1 /\ r[Len(s) + 1] = t
            /\ \A i \in 1 .. Len(s) : r[i] = s[i]
            /\ \A i, j \in 1 .. Len(r) : r[i] = r[j] => i = j
        BY <3>4, <3>5, Zenon
      <3>7. keList'[o] = r
        BY <3>3, <3>5, Zenon
      <3> QED BY <3>1, <3>6, <3>7, Zenon
    <2>7. \A o \in KeObjs : keList'[o] \in Seq(KeThreads)
      BY <2>5, <2>6, <2>b, Zenon
    <2>8. KeShape'
      BY <1>0, <1>2, <2>1, <2>3, <2>7, Zenon DEF KeShape
    <2>9. ASSUME NEW o \in KeObjs
          PROVE  /\ \A i \in 1 .. Len(keList'[o]) : KeWaitsOn(keList[o][i], o)'
                 /\ \A i, j \in 1 .. Len(keList'[o]) : keList'[o][i] = keList'[o][j] => i = j
                 /\ keSat'[o] \subseteq KeWaiters(o)'
      <3>0. /\ keList[o] \in Seq(KeThreads) /\ Len(keList[o]) \in Nat
            /\ \A i \in 1 .. Len(keList[o]) : keList[o][i] \in KeThreads
        <4>1. keList[o] \in Seq(KeThreads)
          BY <2>5, Zenon
        <4> QED BY <4>1
      <3>1. /\ \A i \in 1 .. Len(keList[o]) : KeWaitsOn(keList[o][i], o) /\ keList[o][i] # t
            /\ \A i, j \in 1 .. Len(keList[o]) : keList[o][i] = keList[o][j] => i = j
            /\ keSat[o] \subseteq KeWaiters(o)
        BY <1>0, <2>2 DEF KeBlocks
      <3>2. CASE o \in os
        <4>1. /\ Len(keList'[o]) = Len(keList[o]) + 1 /\ keList'[o][Len(keList[o]) + 1] = t
              /\ \A i \in 1 .. Len(keList[o]) : keList'[o][i] = keList[o][i]
              /\ \A i, j \in 1 .. Len(keList'[o]) : keList'[o][i] = keList'[o][j] => i = j
          BY <2>b, <3>2, Zenon
        <4>2. ASSUME NEW i \in 1 .. Len(keList'[o]) PROVE KeWaitsOn(keList[o][i], o)'
          <5>1. CASE i = Len(keList[o]) + 1
            BY <2>4, <3>2, <4>1, <5>1, Zenon DEF KeWaitsOn
          <5>2. CASE i # Len(keList[o]) + 1
            <6>1. i \in 1 .. Len(keList[o])
              BY <3>0, <4>1, <5>2
            <6>2. PICK u \in KeThreads : u = keList[o][i]
              BY <3>0, <6>1, Zenon
            <6>3. KeWaitsOn(u, o)' /\ keList'[o][i] = u
              BY <2>3, <3>1, <4>1, <6>1, <6>2, Zenon
            <6> QED BY <6>3, Zenon DEF KeWaitsOn
          <5> QED BY <5>1, <5>2, Zenon
        <4>4. KeWaiters(o) \subseteq KeWaiters(o)'
          BY <3>0, <4>1 DEF KeWaiters
        <4> QED BY <2>1, <3>1, <4>1, <4>2, <4>4, Zenon
      <3>3. CASE o \notin os
        <4>1. keList'[o] = keList[o] /\ KeWaiters(o)' = KeWaiters(o)
          BY <2>6, <3>3, Zenon DEF KeWaiters
        <4>2. ASSUME NEW i \in 1 .. Len(keList'[o]) PROVE KeWaitsOn(keList[o][i], o)'
          <5>1. PICK u \in KeThreads : u = keList[o][i]
            BY <3>0, <4>1, Zenon
          <5>2. KeWaitsOn(u, o)' /\ keList'[o][i] = u
            BY <2>3, <3>1, <4>1, <5>1, Zenon
          <5> QED BY <5>2, Zenon DEF KeWaitsOn
        <4> QED BY <2>1, <3>1, <4>1, <4>2, Zenon
      <3> QED BY <3>2, <3>3, Zenon
    <2>10. KeBlocks'
      BY <2>9, Zenon DEF KeBlocks
    <2>11. KeOwned' /\ KeBounded'
      BY <1>0, <2>1, Zenon DEF KeOwned, KeBounded
    <2> QED BY <2>8, <2>10, <2>11, Zenon DEF KeIInv
  <1> QED BY <1>0, <1>1, <1>2, Zenon DEF KeEnqueue

LEMMA BlockStep ==
  ASSUME KeIInv, NEW t \in KeThreads, KeBlock(t)
  PROVE  KeIInv'
  <1> DEFINE n == IF keReg[t].op = "all" /\ keReg[t].time = "finite"
                  THEN keReg[t].round + 1 ELSE keReg[t].round
             r == [keReg[t] EXCEPT !.round = n]
  <1>0. KeShape /\ kePc[t] = "block" /\ keReg[t] \in KeRegs
    BY Zenon DEF KeIInv, KeBlock, KeShape
  <1>1. kePc' = [kePc EXCEPT ![t] = "asleep"] /\ keReg' = [keReg EXCEPT ![t] = r]
    BY Zenon DEF KeBlock
  <1>2. UNCHANGED <<keState, keLists, keMutant, keHist>> /\ UNCHANGED <<keLive, keSerial, keTimers>>
    BY Zenon DEF KeBlock, keTimer
  <1>3. n \in Nat
    BY <1>0 DEF KeRegs
  <1> HIDE DEF n
  <1>4. r \in KeRegs /\ r.op = keReg[t].op /\ r.ids = keReg[t].ids
    BY <1>0, <1>3, Zenon DEF KeRegs
  <1> HIDE DEF r
  <1>5. kePc' \in [KeThreads -> KePcs] /\ keReg' \in [KeThreads -> KeRegs]
    BY <1>0, <1>1, <1>4, Zenon DEF KeShape, KePcs
  <1>6. \A u \in KeThreads, q \in KeObjs : KeWaitsOn(u, q) => KeWaitsOn(u, q)'
    <2>1. \A u \in KeThreads \ {t} : kePc'[u] = kePc[u] /\ keReg'[u] = keReg[u]
      BY <1>0, <1>1, Zenon DEF KeShape
    <2>2. kePc'[t] = "asleep" /\ keReg'[t] = r
      BY <1>0, <1>1, Zenon DEF KeShape
    <2> QED BY <1>4, <2>1, <2>2, Zenon DEF KeWaitsOn
  <1> QED BY <1>0, <1>2, <1>5, <1>6, QuietStep, Zenon DEF KeShape

LEMMA TimeoutStep ==
  ASSUME KeIInv, NEW t \in KeThreads, KeTimeout(t)
  PROVE  KeIInv'
  <1>1. /\ UNCHANGED <<keState, keLists, keMutant, keHist>>
        /\ UNCHANGED <<keLive, keSerial, keTimers, kePc, keReg>>
    BY Zenon DEF KeTimeout, keTimer
  <1>2. \A u \in KeThreads, q \in KeObjs : KeWaitsOn(u, q) => KeWaitsOn(u, q)'
    BY <1>1, Zenon DEF KeWaitsOn
  <1> QED BY <1>1, <1>2, QuietStep, Zenon DEF KeIInv, KeShape

\* Phase 3 of a wait that has blocks: they go, and at most one of them is reported.
KeLeaves(t, os) ==
    /\ \A q \in KeObjs : KeWaitsOn(t, q) => q \in os
    /\ keList' = [o \in KeObjs |-> IF o \in os THEN KeRemove(keList[o], t) ELSE keList[o]]
    /\ keSat' = [o \in KeObjs |-> IF o \in os THEN keSat[o] \ {t} ELSE keSat[o]]
    /\ KeReturn(t)
    /\ UNCHANGED <<keLive, keState, keMutant, keTimer, keRun, keLeft>>

LEMMA LeaveStep ==
  ASSUME KeIInv, NEW t \in KeThreads, NEW os \in SUBSET KeObjs, KeLeaves(t, os),
         UNCHANGED keHist \/ \E o \in os : t \in keSat[o] /\ KeReport(t, {o})
  PROVE  KeIInv'
  <1>0. KeShape /\ KeBlocks /\ KeOwned /\ KeBounded
    BY Zenon DEF KeIInv
  <1>1. /\ kePc' = [kePc EXCEPT ![t] = "user"] /\ keReg' = [keReg EXCEPT ![t] = KeIdle]
        /\ UNCHANGED <<keLive, keState, keOwner, keCount, keSerial, keTimers, kePosts>>
    BY Zenon DEF KeLeaves, KeReturn, keMutant, keTimer, keHist, KeReport
  <1>2. kePc' \in [KeThreads -> KePcs] /\ keReg' \in [KeThreads -> KeRegs]
    BY <1>0, <1>1, PcReg, IdleReg, Zenon DEF KePcs
  <1>3. \A u \in KeThreads \ {t}, q \in KeObjs : KeWaitsOn(u, q) => KeWaitsOn(u, q)'
    <2>1. \A u \in KeThreads \ {t} : kePc'[u] = kePc[u] /\ keReg'[u] = keReg[u]
      BY <1>0, <1>1, Zenon DEF KeShape
    <2> QED BY <2>1, Zenon DEF KeWaitsOn
  <1>4. ASSUME NEW o \in KeObjs
        PROVE  /\ keList'[o] \in Seq(KeThreads)
               /\ \A i \in 1 .. Len(keList'[o]) :
                    /\ keList'[o][i] # t
                    /\ \E j \in 1 .. Len(keList[o]) : keList'[o][i] = keList[o][j]
               /\ \A j \in 1 .. Len(keList[o]) :
                    keList[o][j] # t => \E i \in 1 .. Len(keList'[o]) : keList'[o][i] = keList[o][j]
               /\ \A i, j \in 1 .. Len(keList'[o]) : keList'[o][i] = keList'[o][j] => i = j
    <2>1. /\ keList[o] \in Seq(KeThreads)
          /\ \A i, j \in 1 .. Len(keList[o]) : keList[o][i] = keList[o][j] => i = j
          /\ \A i \in 1 .. Len(keList[o]) : KeWaitsOn(keList[o][i], o)
      BY <1>0, Zenon DEF KeShape, KeBlocks
    <2>2. PICK s \in Seq(KeThreads) : s = keList[o]
      BY <2>1, Zenon
    <2>3. CASE o \in os
      <3>1. PICK r : r = KeRemove(s, t)
        BY Zenon
      <3>2. /\ r \in Seq(KeThreads)
            /\ \A i \in 1 .. Len(r) : r[i] # t /\ \E j \in 1 .. Len(s) : r[i] = s[j]
            /\ \A j \in 1 .. Len(s) : s[j] # t => \E i \in 1 .. Len(r) : r[i] = s[j]
            /\ \A i, j \in 1 .. Len(r) : r[i] = r[j] => i = j
        <4>1. \A i, j \in 1 .. Len(s) : s[i] = s[j] => i = j
          BY <2>1, <2>2, Zenon
        <4>2. /\ KeRemove(s, t) \in Seq(KeThreads)
              /\ \A i \in 1 .. Len(KeRemove(s, t)) :
                   /\ KeRemove(s, t)[i] # t
                   /\ \E j \in 1 .. Len(s) : KeRemove(s, t)[i] = s[j]
              /\ \A j \in 1 .. Len(s) :
                   s[j] # t => \E i \in 1 .. Len(KeRemove(s, t)) : KeRemove(s, t)[i] = s[j]
              /\ \A i, j \in 1 .. Len(KeRemove(s, t)) :
                   KeRemove(s, t)[i] = KeRemove(s, t)[j] => i = j
          BY <4>1, RemoveOne, Zenon
        <4> QED BY <3>1, <4>2, Zenon
      <3>3. keList'[o] = r
        BY <2>2, <2>3, <3>1, Zenon DEF KeLeaves
      <3>4. \A i \in 1 .. Len(keList'[o]) :
              /\ keList'[o][i] # t
              /\ \E j \in 1 .. Len(keList[o]) : keList'[o][i] = keList[o][j]
        <4> SUFFICES ASSUME NEW i \in 1 .. Len(r)
            PROVE  r[i] # t /\ \E j \in 1 .. Len(s) : r[i] = s[j]
          BY <2>2, <3>3, Zenon
        <4> QED BY <3>2, Zenon
      <3>5. \A j \in 1 .. Len(keList[o]) :
              keList[o][j] # t => \E i \in 1 .. Len(keList'[o]) : keList'[o][i] = keList[o][j]
        BY <2>2, <3>2, <3>3, Zenon
      <3>6. \A i, j \in 1 .. Len(keList'[o]) : keList'[o][i] = keList'[o][j] => i = j
        BY <3>2, <3>3, Zenon
      <3>7. keList'[o] \in Seq(KeThreads)
        BY <3>2, <3>3, Zenon
      <3> QED BY <3>4, <3>5, <3>6, <3>7, Zenon
    <2>4. CASE o \notin os
      <3>1. keList'[o] = s
        BY <2>2, <2>4, Zenon DEF KeLeaves
      <3>2. ~KeWaitsOn(t, o)
        BY <2>4, Zenon DEF KeLeaves
      <3>3. \A i \in 1 .. Len(s) : s[i] # t
        BY <2>1, <2>2, <3>2, Zenon
      <3> QED BY <2>1, <2>2, <3>1, <3>3, Zenon
    <2> QED BY <2>3, <2>4, Zenon
  <1>5. \A o \in KeObjs : keSat'[o] = keSat[o] \ {t}
    <2>1. \A o \in KeObjs \ os : t \notin keSat[o]
      BY <1>0, NotThere, Zenon DEF KeLeaves
    <2> QED BY <2>1, Zenon DEF KeLeaves
  <1>9. keList' \in [KeObjs -> Seq(KeThreads)] /\ keSat' \in [KeObjs -> SUBSET KeThreads]
    <2>1. keSat \in [KeObjs -> SUBSET KeThreads]
      BY <1>0, Zenon DEF KeShape
    <2>2. \A o \in KeObjs : keList'[o] \in Seq(KeThreads)
      BY <1>4, Zenon
    <2>3. keList' = [o \in KeObjs |-> keList'[o]]
      BY Zenon DEF KeLeaves
    <2>4. keSat' \in [KeObjs -> SUBSET KeThreads]
      BY <2>1, Zenon DEF KeLeaves
    <2> QED BY <2>2, <2>3, <2>4, Zenon
  <1>6. KeBlocks'
    <2>1. ASSUME NEW o \in KeObjs
          PROVE  \A i \in 1 .. Len(keList'[o]) : KeWaitsOn(keList[o][i], o)'
      <3> SUFFICES ASSUME NEW i \in 1 .. Len(keList'[o]) PROVE KeWaitsOn(keList[o][i], o)'
        BY Zenon
      <3>1. PICK j \in 1 .. Len(keList[o]) : keList'[o][i] = keList[o][j] /\ keList'[o][i] # t
        BY <1>4, Zenon
      <3>2. keList[o] \in Seq(KeThreads)
        BY <1>0, Zenon DEF KeShape
      <3>3. PICK u \in KeThreads : u = keList[o][j]
        BY <3>2
      <3>4. KeWaitsOn(u, o) /\ u # t
        BY <1>0, <3>1, <3>3, Zenon DEF KeBlocks
      <3>5. KeWaitsOn(u, o)' /\ keList'[o][i] = u
        BY <1>3, <3>1, <3>3, <3>4, Zenon
      <3> QED BY <3>5, Zenon DEF KeWaitsOn
    <2>2. ASSUME NEW o \in KeObjs PROVE keSat'[o] \subseteq KeWaiters(o)'
      <3> SUFFICES ASSUME NEW u \in keSat'[o] PROVE u \in KeWaiters(o)'
        BY Zenon
      <3>1. u \in keSat[o] /\ u # t
        BY <1>5, Zenon
      <3>2. PICK j \in 1 .. Len(keList[o]) : u = keList[o][j]
        BY <1>0, <3>1 DEF KeBlocks, KeWaiters
      <3>3. \E i \in 1 .. Len(keList'[o]) : keList'[o][i] = u
        BY <1>4, <3>1, <3>2
      <3> QED BY <3>3, Zenon DEF KeWaiters
    <2> QED BY <1>4, <2>1, <2>2, Zenon DEF KeBlocks
  <1>7. CASE UNCHANGED keHist
    <2>1. UNCHANGED <<keHeld, keGrant>>
      BY <1>7, Zenon DEF keHist
    <2>2. KeShape'
      BY <1>0, <1>1, <1>2, <1>9, <2>1, Zenon DEF KeShape
    <2>3. KeOwned'
      BY <1>0, <1>1, <1>5, <2>1 DEF KeOwned, KeOf
    <2>4. KeBounded'
      <3>1. \A o \in KeObjs : /\ Cardinality(keSat'[o]) <= Cardinality(keSat[o])
                              /\ Cardinality(keSat'[o]) \in Nat /\ Cardinality(keSat[o]) \in Nat
        BY <1>0, <1>5, SatShrinks, Zenon DEF KeShape
      <3>2. \A o \in KeObjs : keState[o] \in Int /\ keGrant[o] \in Nat /\ kePosts[o] \in Nat
        BY <1>0, Zenon DEF KeShape
      <3>3. ASSUME NEW q \in KeOf({"synchronization", "semaphore"})
            PROVE  keState'[q] + Cardinality(keSat'[q]) + keGrant'[q] <= kePosts'[q]
        <4>1. q \in KeObjs
          BY Zenon DEF KeOf
        <4>2. keState[q] + Cardinality(keSat[q]) + keGrant[q] <= kePosts[q]
          BY <1>0, Zenon DEF KeBounded
        <4>3. keState'[q] = keState[q] /\ kePosts'[q] = kePosts[q] /\ keGrant'[q] = keGrant[q]
          BY <1>1, <2>1, Zenon
        <4>4. /\ keState[q] \in Int /\ keGrant[q] \in Nat /\ kePosts[q] \in Nat
              /\ Cardinality(keSat[q]) \in Nat /\ Cardinality(keSat'[q]) \in Nat
              /\ Cardinality(keSat'[q]) <= Cardinality(keSat[q])
          BY <3>1, <3>2, <4>1, Zenon
        <4> QED BY <4>2, <4>3, <4>4
      <3>4. \A q \in KeOf({"synchronization"}) : keState'[q] >= 0
        BY <1>0, <1>1, Zenon DEF KeBounded
      <3> QED BY <3>3, <3>4, Zenon DEF KeBounded, KeOf
    <2> QED BY <1>6, <2>2, <2>3, <2>4, Zenon DEF KeIInv
  <1>8. ASSUME NEW o \in os, t \in keSat[o], KeReport(t, {o}) PROVE KeIInv'
    <2>1. /\ keHeld' = [keHeld EXCEPT ![t] = [q \in KeObjs |->
                          IF q \in {o} /\ KeKind[q] = "mutant" THEN @[q] + 1 ELSE @[q]]]
          /\ keGrant' = [q \in KeObjs |-> IF q \in {o} THEN keGrant[q] + 1 ELSE keGrant[q]]
      BY <1>8, Zenon DEF KeReport
    <2>2. keHeld' \in [KeThreads -> [KeObjs -> Nat]] /\ keGrant' \in [KeObjs -> Nat]
      <3> DEFINE told == [q \in KeObjs |->
                   IF q \in {o} /\ KeKind[q] = "mutant" THEN keHeld[t][q] + 1 ELSE keHeld[t][q]]
      <3>1. keHeld \in [KeThreads -> [KeObjs -> Nat]] /\ keGrant \in [KeObjs -> Nat]
        BY <1>0, Zenon DEF KeShape
      <3>2. told \in [KeObjs -> Nat]
        BY <3>1
      <3>3. keHeld' = [keHeld EXCEPT ![t] = told]
        BY <2>1, <3>1, Zenon
      <3>4. keHeld' \in [KeThreads -> [KeObjs -> Nat]]
        BY <3>1, <3>2, <3>3, Zenon
      <3>5. keGrant' \in [KeObjs -> Nat]
        BY <2>1, <3>1
      <3> QED BY <3>4, <3>5, Zenon
    <2>3. KeShape'
      BY <1>0, <1>1, <1>2, <1>9, <2>2, Zenon DEF KeShape
    <2>4. \A u \in KeThreads, q \in KeObjs :
            keHeld'[u][q] = IF u = t /\ q = o /\ KeKind[q] = "mutant" THEN keHeld[u][q] + 1 ELSE keHeld[u][q]
      BY <1>0, <2>1, Zenon DEF KeShape
    <2>5. KeOwned'
      <3> SUFFICES ASSUME NEW q \in KeOf({"mutant"}), NEW u \in KeThreads
          PROVE  /\ keState'[q] > 0 => keOwner'[q] = KeNoOne
                 /\ keHeld'[u][q] > 0 => keOwner'[q] = u /\ keHeld'[u][q] <= keCount'[q]
                 /\ u \in keSat'[q] => keOwner'[q] = u /\ keHeld'[u][q] < keCount'[q]
        BY Zenon DEF KeOwned, KeOf
      <3>1. q \in KeObjs /\ keHeld[u][q] \in Nat /\ keCount[q] \in Nat
        BY <1>0, Zenon DEF KeOf, KeShape
      <3>2. /\ keState[q] > 0 => keOwner[q] = KeNoOne
            /\ keHeld[u][q] > 0 => keOwner[q] = u /\ keHeld[u][q] <= keCount[q]
            /\ u \in keSat[q] => keOwner[q] = u /\ keHeld[u][q] < keCount[q]
        BY <1>0, Zenon DEF KeOwned
      <3>3. keState'[q] = keState[q] /\ keOwner'[q] = keOwner[q] /\ keCount'[q] = keCount[q]
        BY <1>1, Zenon
      <3>4. keSat'[q] = keSat[q] \ {t} /\ KeKind[q] = "mutant"
        BY <1>5, <3>1, Zenon DEF KeOf
      <3>5. CASE u = t /\ q = o
        <4>1. keHeld'[u][q] = keHeld[u][q] + 1
          BY <2>4, <3>1, <3>4, <3>5, Zenon
        <4>2. keOwner[q] = u /\ keHeld[u][q] < keCount[q]
          BY <1>8, <3>2, <3>5, Zenon
        <4>3. u \notin keSat'[q]
          BY <3>4, <3>5, Zenon
        <4> QED BY <3>1, <3>2, <3>3, <4>1, <4>2, <4>3
      <3>6. CASE ~(u = t /\ q = o)
        <4>1. keHeld'[u][q] = keHeld[u][q]
          BY <2>4, <3>1, <3>6, Zenon
        <4>2. u \in keSat'[q] => u \in keSat[q]
          BY <3>4, Zenon
        <4> QED BY <3>2, <3>3, <4>1, <4>2, Zenon
      <3> QED BY <3>5, <3>6, Zenon
    <2>6. KeBounded'
      <3>1. \A q \in KeObjs : /\ Cardinality(keSat'[q]) <= Cardinality(keSat[q])
                              /\ t \in keSat[q] => Cardinality(keSat'[q]) = Cardinality(keSat[q]) - 1
                              /\ Cardinality(keSat'[q]) \in Nat /\ Cardinality(keSat[q]) \in Nat
        BY <1>0, <1>5, SatShrinks, Zenon DEF KeShape
      <3>2. \A q \in KeObjs : keState[q] \in Int /\ keGrant[q] \in Nat /\ kePosts[q] \in Nat
        BY <1>0, Zenon DEF KeShape
      <3>3. \A q \in KeObjs : keGrant'[q] = IF q = o THEN keGrant[q] + 1 ELSE keGrant[q]
        BY <2>1, Zenon
      <3>4. ASSUME NEW q \in KeOf({"synchronization", "semaphore"})
            PROVE  keState'[q] + Cardinality(keSat'[q]) + keGrant'[q] <= kePosts'[q]
        <4>1. q \in KeObjs
          BY Zenon DEF KeOf
        <4>2. keState[q] + Cardinality(keSat[q]) + keGrant[q] <= kePosts[q]
          BY <1>0, Zenon DEF KeBounded
        <4>3. keState'[q] = keState[q] /\ kePosts'[q] = kePosts[q]
          BY <1>1, Zenon
        <4>6. /\ keState[q] \in Int /\ keGrant[q] \in Nat /\ kePosts[q] \in Nat
              /\ Cardinality(keSat[q]) \in Nat /\ Cardinality(keSat'[q]) \in Nat
              /\ Cardinality(keSat'[q]) <= Cardinality(keSat[q])
          BY <3>1, <3>2, <4>1, Zenon
        <4>4. CASE q = o
          <5>1. keGrant'[q] = keGrant[q] + 1 /\ Cardinality(keSat'[q]) = Cardinality(keSat[q]) - 1
            BY <1>8, <3>1, <3>3, <4>1, <4>4, Zenon
          <5> QED BY SMTT(30), <4>2, <4>3, <4>6, <5>1
        <4>5. CASE q # o
          <5>1. keGrant'[q] = keGrant[q]
            BY <3>3, <4>1, <4>5, Zenon
          <5> QED BY <4>2, <4>3, <4>6, <5>1
        <4> QED BY <4>4, <4>5, Zenon
      <3>5. \A q \in KeOf({"synchronization"}) : keState'[q] >= 0
        BY <1>0, <1>1, Zenon DEF KeBounded
      <3> QED BY <3>4, <3>5, Zenon DEF KeBounded, KeOf
    <2> QED BY <1>6, <2>3, <2>5, <2>6, Zenon DEF KeIInv
  <1> QED BY <1>7, <1>8, Zenon

LEMMA ResumeStep ==
  ASSUME KeIInv, NEW t \in KeThreads, KeResume(t)
  PROVE  KeIInv'
  <1> DEFINE ids == keReg[t].ids
             os == {ids[i] : i \in 1 .. Len(ids)}
             hits == {i \in 1 .. Len(ids) : t \in keSat[ids[i]]}
  <1>0. KeShape /\ kePc[t] = "asleep" /\ keReg[t] \in KeRegs
    BY Zenon DEF KeIInv, KeResume, KeShape
  <1>1. ids \in Seq(KeObjs) /\ os \subseteq KeObjs
    BY SMTT(30), <1>0 DEF KeRegs
  <1>2. CASE keReg[t].op = "all"
    <2>1. /\ KeGo(t, "again") /\ UNCHANGED <<keState, keLists, keMutant, keHist>>
          /\ UNCHANGED <<keLive, keSerial, keTimers>>
      BY <1>2, Zenon DEF KeResume, keTimer
    <2>2. \A q \in KeObjs : ~KeWaitsOn(t, q)
      BY <1>2, Zenon DEF KeWaitsOn
    <2>3. /\ kePc' \in [KeThreads -> KePcs] /\ keReg' \in [KeThreads -> KeRegs]
          /\ \A u \in KeThreads, q \in KeObjs : KeWaitsOn(u, q) => KeWaitsOn(u, q)'
      BY <1>0, <2>1, <2>2, GoFrame, Zenon DEF KePcs
    <2> QED BY <1>0, <2>1, <2>3, QuietStep, Zenon DEF KeShape
  <1>3. CASE keReg[t].op # "all"
    <2>1. /\ keList' = [o \in KeObjs |->
                IF o \in os THEN KeRemove(keList[o], t) ELSE keList[o]]
          /\ keSat' = [o \in KeObjs |-> IF o \in os THEN keSat[o] \ {t} ELSE keSat[o]]
          /\ IF hits = {} THEN UNCHANGED keHist
             ELSE KeReport(t, {ids[CHOOSE i \in hits : \A j \in hits : i <= j]})
          /\ KeReturn(t)
          /\ UNCHANGED <<keLive, keState, keMutant, keTimer, keRun, keLeft>>
      BY <1>3, Zenon DEF KeResume
    <2>2. \A q \in KeObjs : KeWaitsOn(t, q) => q \in os
      BY Zenon DEF KeWaitsOn
    <2>3. \/ UNCHANGED keHist
          \/ \E o \in os : t \in keSat[o] /\ KeReport(t, {o})
      <3>1. CASE hits = {}
        BY <2>1, <3>1, Zenon
      <3>2. CASE hits # {}
        <4>1. PICK k : k = CHOOSE i \in hits : \A j \in hits : i <= j
          BY Zenon
        <4>2. hits \subseteq Nat
          BY <1>1
        <4>3. k \in hits
          <5> HIDE DEF hits
          <5> QED BY <3>2, <4>1, <4>2, SmallestNat, Zenon
        <4>4. ids[k] \in os /\ t \in keSat[ids[k]]
          BY <4>3, Zenon
        <4>5. KeReport(t, {ids[k]})
          BY <2>1, <3>2, <4>1, Zenon
        <4> QED BY <4>4, <4>5, Zenon
      <3> QED BY <3>1, <3>2, Zenon
    <2>4. PICK S \in SUBSET KeObjs : S = os
      BY <1>1, Zenon
    <2> HIDE DEF os, hits, ids
    <2>5. KeLeaves(t, S)
      BY <2>1, <2>2, <2>4, Zenon DEF KeLeaves
    <2>6. UNCHANGED keHist \/ \E o \in S : t \in keSat[o] /\ KeReport(t, {o})
      BY <2>3, <2>4, Zenon
    <2> QED BY <2>5, <2>6, LeaveStep, Zenon
  <1> QED BY <1>2, <1>3, Zenon

----------------------------------------------------------------------------
(* The theorems.                                                           *)

LEMMA InitIInv ==
  ASSUME KeInit
  PROVE  KeIInv
  <1>1. KeShape
    BY IdleReg DEF KeInit, KeShape, KePcs
  <1>2. KeBlocks
    BY DEF KeInit, KeBlocks, KeWaiters
  <1>3. KeOwned
    BY DEF KeInit, KeOwned, KeOf
  <1>4. KeBounded
    <2>1. \A o \in KeObjs : keSat[o] = {} /\ keGrant[o] = 0 /\ kePosts[o] = 0
      BY Zenon DEF KeInit
    <2>2. \A o \in KeObjs : KeKind[o] # "mutant" => keState[o] = 0
      BY Zenon DEF KeInit
    <2> QED BY <2>1, <2>2, FS_EmptySet DEF KeBounded, KeOf
  <1> QED BY <1>1, <1>2, <1>3, <1>4, Zenon DEF KeIInv

LEMMA BeginStep ==
  ASSUME KeIInv, NEW t \in KeThreads, KeBegin(t)
  PROVE  KeIInv'
  <1>1. CASE \E o \in KeObjs : KeWait(t, "single", <<o>>) \/ KeDestroy(t, o)
    <2>1. PICK o \in KeObjs : KeWait(t, "single", <<o>>) \/ KeDestroy(t, o)
      BY <1>1, Zenon
    <2>2. CASE KeWait(t, "single", <<o>>)
      <3>1. <<o>> \in Seq(KeObjs) /\ Len(<<o>>) = 1
        OBVIOUS
      <3>2. PICK ids : ids = <<o>>
        BY Zenon
      <3>3. ids \in Seq(KeObjs) /\ Len(ids) = 1 /\ KeWait(t, "single", ids)
        BY <2>2, <3>1, <3>2, Zenon
      <3> QED BY <3>3, WaitStep, Zenon
    <2> QED BY <2>1, <2>2, DestroyStep, Zenon
  <1>2. CASE \E op \in {"any", "all"}, ids \in KeLists : KeWait(t, op, ids)
    <2>1. PICK op \in {"any", "all"}, ids \in KeLists : KeWait(t, op, ids)
      BY <1>2, Zenon
    <2> QED BY <2>1, WaitStep, KeAssumption
  <1>3. CASE \E o \in KeOf({"notification", "synchronization"}) :
               KeSetEvent(t, o) \/ KeResetEvent(t, o) \/ KePulseEvent(t, o)
    BY <1>3, SetEventStep, ResetEventStep, PulseEventStep, Zenon
  <1>4. CASE \E o \in KeOf({"mutant"}) : KeAcquireMutant(t, o) \/ KeReleaseMutant(t, o)
    BY <1>4, AcquireMutantStep, ReleaseMutantStep, Zenon
  <1>5. CASE \E o \in KeOf({"semaphore"}), n \in 1 .. KeLimit : KeReleaseSemaphore(t, o, n)
    BY <1>5, ReleaseSemaphoreStep, Zenon
  <1>6. CASE \E o \in KeOf({"timer"}) :
               KeCancelTimer(t, o) \/ \E periodic \in BOOLEAN : KeSetTimer(t, o, periodic)
    BY <1>6, TimerSteps, Zenon
  <1>7. CASE KeCheckTimers(t)
    BY <1>7, TimerSteps, Zenon
  <1> QED BY <1>1, <1>2, <1>3, <1>4, <1>5, <1>6, <1>7, Zenon DEF KeBegin

LEMMA NextIInv ==
  ASSUME KeIInv, [KeNext]_keVars
  PROVE  KeIInv'
  <1>1. CASE KeNext
    <2>1. PICK t \in KeThreads : KeBegin(t) \/ KeStep(t) \/ KeTimeout(t)
      BY <1>1, Zenon DEF KeNext
    <2>2. CASE KeStep(t)
      BY <2>2, TryStep, EnqueueStep, BlockStep, ResumeStep, FireStep, Zenon DEF KeStep
    <2> QED BY <2>1, <2>2, BeginStep, TimeoutStep, Zenon
  <1>2. CASE UNCHANGED keVars
    <2>1. /\ UNCHANGED <<keState, keLists, keMutant, keHist>>
          /\ UNCHANGED <<keLive, keSerial, keTimers, kePc, keReg>>
      BY <1>2, Zenon DEF keVars, keTimer
    <2>2. \A u \in KeThreads, q \in KeObjs : KeWaitsOn(u, q) => KeWaitsOn(u, q)'
      BY <2>1, Zenon DEF KeWaitsOn
    <2> QED BY <2>1, <2>2, QuietStep, Zenon DEF KeIInv, KeShape
  <1> QED BY <1>1, <1>2, Zenon

\* KeIInv holds in every reachable state, for any set of threads and objects and any
\* calls they make (ke/wait.rs and the objects' own files).
THEOREM KeInvariant == KeSpec => []KeIInv
  <1>1. KeInit => KeIInv
    BY InitIInv, Zenon
  <1>2. KeIInv /\ [KeNext]_keVars => KeIInv'
    BY NextIInv, Zenon
  <1> QED BY <1>1, <1>2, PTL DEF KeSpec

\* At most one thread holds a mutant, and no more often than the mutant counts, for
\* any number of threads and mutants, through hand-overs by release_mutant to waiters
\* that may be timing out, recursive acquisition and WaitAny / WaitAll.
THEOREM MutantsExclusive == KeSpec => []KeMutantExclusive
  <1>1. KeIInv => KeMutantExclusive
    BY Zenon DEF KeIInv, KeOwned, KeMutantExclusive
  <1> QED BY <1>1, KeInvariant, PTL

\* Synchronization events and semaphores satisfy at most one wait per signal, for any
\* number of threads and objects: set_event and release_semaphore never grant the
\* signal that consume_signal takes.
THEOREM NoSignalTwice == KeSpec => []KeNoOverGrant
  <1>1. KeIInv => KeNoOverGrant
    BY Zenon DEF KeIInv, KeBounded, KeNoOverGrant
  <1> QED BY <1>1, KeInvariant, PTL
=============================================================================
