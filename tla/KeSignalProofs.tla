----------------------------- MODULE KeSignalProofs -----------------------------
(***************************************************************************)
(* The inductive invariant of KeWait and why the operations on objects     *)
(* (events, semaphores, timers, mutants) keep it.  KeProofs adds the waits *)
(* and draws the theorems.  All rests on KeBlocks: a wait block belongs to *)
(* a thread that is still in the wait, so a grant made to it is seen by    *)
(* phase 3.                                                                *)
(***************************************************************************)
EXTENDS KeWait, FiniteSetTheorems, WellFoundedInduction, TLAPS

KePcs == {"user", "try", "again", "enqueue", "block", "asleep", "fire"}
KeRegs == {r \in [op : {"none", "single", "any", "all"}, ids : Seq(KeObjs),
                  time : KeTimes \cup {"never"}, round : Nat, fire : SUBSET Nat] :
             r.op = "single" => Len(r.ids) = 1}

KeShape ==
    /\ keLive \subseteq KeObjs
    /\ keState \in [KeObjs -> Int]
    /\ keList \in [KeObjs -> Seq(KeThreads)]
    /\ keSat \in [KeObjs -> SUBSET KeThreads]
    /\ keOwner \in [KeObjs -> KeThreads \cup {KeNoOne}]
    /\ keCount \in [KeObjs -> Nat]
    /\ keSerial \in Nat
    /\ keTimers \subseteq [id : Nat, periodic : BOOLEAN]
    /\ kePc \in [KeThreads -> KePcs]
    /\ keReg \in [KeThreads -> KeRegs]
    /\ keHeld \in [KeThreads -> [KeObjs -> Nat]]
    /\ keGrant \in [KeObjs -> Nat]
    /\ kePosts \in [KeObjs -> Nat]

\* Every block is of a thread that is in a wait on the object, and its only one.
KeBlocks ==
    \A o \in KeObjs :
      /\ keSat[o] \subseteq KeWaiters(o)
      /\ \A i \in 1 .. Len(keList[o]) : KeWaitsOn(keList[o][i], o)
      /\ \A i, j \in 1 .. Len(keList[o]) : keList[o][i] = keList[o][j] => i = j

\* A signaled mutant has no owner, and the owner has at least the acquisitions it
\* was told of and the one it is about to be told of.
KeOwned ==
    \A o \in KeOf({"mutant"}) :
      /\ keState[o] > 0 => keOwner[o] = KeNoOne
      /\ \A t \in KeThreads :
           /\ keHeld[t][o] > 0 => keOwner[o] = t /\ keHeld[t][o] <= keCount[o]
           /\ t \in keSat[o] => keOwner[o] = t /\ keHeld[t][o] < keCount[o]

\* KeNoOverGrant of destroyed objects too; an event is never below zero.
KeBounded ==
    /\ \A o \in KeOf({"synchronization"}) : keState[o] >= 0
    /\ \A o \in KeOf({"synchronization", "semaphore"}) :
         keState[o] + Cardinality(keSat[o]) + keGrant[o] <= kePosts[o]

KeIInv == KeShape /\ KeBlocks /\ KeOwned /\ KeBounded

-----------------------------------------------------------------------------
(* Facts about the helpers.                                                *)

\* The threads KeOldest returns have a block that is not satisfied.
LEMMA OldestWait ==
  ASSUME NEW o \in KeObjs, NEW n \in Int, KeShape
  PROVE  /\ KeOldest(o, n) \subseteq KeWaiters(o) \ keSat[o]
         /\ KeWaiters(o) \subseteq KeThreads
  <1>1. keList[o] \in Seq(KeThreads)
    BY Zenon DEF KeShape
  <1>2. \A i \in 1 .. Len(keList[o]) : keList[o][i] \in KeThreads
    BY <1>1
  <1> QED BY <1>2, Zenon DEF KeOldest, KePending, KeWaiters

\* At most one thread has waited longest.
LEMMA OldestOne ==
  ASSUME NEW o \in KeObjs, KeShape
  PROVE  \A u, v \in KeOldest(o, 1) : u = v
  <1> DEFINE P == KePending(o)
             B(i) == {j \in P : j < i}
  <1>1. P \subseteq 1 .. Len(keList[o]) /\ Len(keList[o]) \in Nat
    BY DEF KePending, KeShape
  <1>2. IsFiniteSet(P)
    <2>1. IsFiniteSet(1 .. Len(keList[o]))
      BY <1>1, FS_Interval
    <2> QED BY <1>1, <2>1, FS_Subset, Zenon
  <1>3. ASSUME NEW i \in P, Cardinality(B(i)) < 1 PROVE B(i) = {}
    <2>1. IsFiniteSet(B(i))
      BY <1>2, FS_Subset, Zenon
    <2>2. Cardinality(B(i)) \in Nat
      BY <2>1, FS_CardinalityType, Zenon
    <2>3. Cardinality(B(i)) = 0
      BY <2>2, <1>3
    <2> QED BY <2>1, <2>3, FS_EmptySet, Zenon
  <1>4. ASSUME NEW i \in P, NEW k \in P, B(i) = {}, B(k) = {} PROVE i = k
    BY <1>1, <1>4
  <1> SUFFICES ASSUME NEW u \in KeOldest(o, 1), NEW v \in KeOldest(o, 1) PROVE u = v
    BY Zenon
  <1>5. PICK i \in P : Cardinality(B(i)) < 1 /\ u = keList[o][i]
    BY Zenon DEF KeOldest
  <1>6. PICK k \in P : Cardinality(B(k)) < 1 /\ v = keList[o][k]
    BY Zenon DEF KeOldest
  <1>7. i = k
    BY <1>3, <1>4, <1>5, <1>6, Zenon
  <1> QED BY <1>5, <1>6, <1>7, Zenon

\* Every set of threads is finite.
LEMMA ThreadsFinite ==
  ASSUME NEW S, S \subseteq KeThreads
  PROVE  IsFiniteSet(S) /\ Cardinality(S) \in Nat
  BY KeAssumption, FS_Subset, FS_CardinalityType, Zenon

\* KeRemove keeps the other blocks and drops the one of t.
LEMMA RemoveOne ==
  ASSUME NEW s \in Seq(KeThreads), NEW t \in KeThreads,
         \A i, j \in 1 .. Len(s) : s[i] = s[j] => i = j
  PROVE  /\ KeRemove(s, t) \in Seq(KeThreads)
         /\ \A i \in 1 .. Len(KeRemove(s, t)) :
              /\ KeRemove(s, t)[i] # t
              /\ \E j \in 1 .. Len(s) : KeRemove(s, t)[i] = s[j]
         /\ \A j \in 1 .. Len(s) :
              s[j] # t => \E i \in 1 .. Len(KeRemove(s, t)) : KeRemove(s, t)[i] = s[j]
         /\ \A i, j \in 1 .. Len(KeRemove(s, t)) :
              KeRemove(s, t)[i] = KeRemove(s, t)[j] => i = j
  <1>1. CASE ~ \E i \in 1 .. Len(s) : s[i] = t
    <2>1. KeRemove(s, t) = s
      BY <1>1, Zenon DEF KeRemove
    <2> QED BY <1>1, <2>1, Zenon
  <1>2. CASE \E i \in 1 .. Len(s) : s[i] = t
    <2> DEFINE at == CHOOSE i \in 1 .. Len(s) : s[i] = t
               r == [i \in 1 .. Len(s) - 1 |-> IF i < at THEN s[i] ELSE s[i + 1]]
    <2>1. KeRemove(s, t) = r
      BY <1>2, Zenon DEF KeRemove
    <2>2. at \in 1 .. Len(s) /\ s[at] = t
      BY <1>2, Zenon
    <2>3. Len(s) \in Nat /\ Len(s) - 1 \in Nat
      BY <2>2
    <2> HIDE DEF at
    <2>4. \A i \in 1 .. Len(s) - 1 : r[i] = IF i < at THEN s[i] ELSE s[i + 1]
      BY Zenon
    <2>5. r \in Seq(KeThreads) /\ Len(r) = Len(s) - 1
      BY <2>2, <2>3
    <2> HIDE DEF r
    <2>6. \A i \in 1 .. Len(r) : r[i] # t /\ \E j \in 1 .. Len(s) : r[i] = s[j]
      BY <2>2, <2>3, <2>4, <2>5
    <2>7. ASSUME NEW j \in 1 .. Len(s), s[j] # t PROVE \E i \in 1 .. Len(r) : r[i] = s[j]
      <3>1. CASE j < at
        BY <3>1, <2>2, <2>3, <2>4, <2>5
      <3>2. CASE j > at
        <4>1. j - 1 \in 1 .. Len(r) /\ r[j - 1] = s[j]
          BY <3>2, <2>2, <2>3, <2>4, <2>5
        <4> QED BY <4>1, Zenon
      <3> QED BY <3>1, <3>2, <2>2, <2>7
    <2>8. \A i, j \in 1 .. Len(r) : r[i] = r[j] => i = j
      BY <2>2, <2>3, <2>4, <2>5
    <2> QED BY <2>1, <2>5, <2>6, <2>7, <2>8, Zenon
  <1> QED BY <1>1, <1>2, Zenon

\* Append keeps the blocks and adds one of t at the end.
LEMMA AppendOne ==
  ASSUME NEW s \in Seq(KeThreads), NEW t \in KeThreads,
         \A i \in 1 .. Len(s) : s[i] # t,
         \A i, j \in 1 .. Len(s) : s[i] = s[j] => i = j
  PROVE  /\ Append(s, t) \in Seq(KeThreads) /\ Len(Append(s, t)) = Len(s) + 1
         /\ Append(s, t)[Len(s) + 1] = t
         /\ \A i \in 1 .. Len(s) : Append(s, t)[i] = s[i]
         /\ \A i, j \in 1 .. Len(Append(s, t)) : Append(s, t)[i] = Append(s, t)[j] => i = j
  <1> DEFINE r == Append(s, t)
  <1>1. /\ r \in Seq(KeThreads) /\ Len(r) = Len(s) + 1 /\ r[Len(s) + 1] = t
        /\ \A i \in 1 .. Len(s) : r[i] = s[i]
    OBVIOUS
  <1>2. Len(s) \in Nat
    OBVIOUS
  <1> HIDE DEF r
  <1>3. \A i \in 1 .. Len(r) : i \in 1 .. Len(s) \/ i = Len(s) + 1
    BY <1>1, <1>2
  <1>4. \A i, j \in 1 .. Len(r) : r[i] = r[j] => i = j
    BY <1>1, <1>3, Zenon
  <1> QED BY <1>1, <1>4, Zenon DEF r

\* A non-empty set of natural numbers has a least element.
LEMMA SmallestNat ==
  ASSUME NEW S \in SUBSET Nat, S # {}
  PROVE  \E i \in S : \A j \in S : i <= j
  <1>1. PICK i \in S : \A j \in S : ~(<<j, i>> \in OpToRel(<, Nat))
    BY NatLessThanWellFounded, WFMin, Zenon
  <1>2. ASSUME NEW j \in S PROVE i <= j
    <2>1. i \in Nat /\ j \in Nat
      BY Zenon
    <2>2. ~(j < i)
      BY <1>1, <2>1, Zenon DEF OpToRel
    <2> QED BY <2>1, <2>2
  <1> QED BY <1>2, Zenon

-----------------------------------------------------------------------------
(* Frames: what most steps leave alone.                                    *)

LEMMA IdleReg == KeIdle \in KeRegs
  BY DEF KeIdle, KeRegs

\* A step of t that goes on at pc with the registers r keeps their types.
LEMMA PcReg ==
  ASSUME NEW t \in KeThreads, NEW pc \in KePcs, NEW r \in KeRegs, KeShape,
         kePc' = [kePc EXCEPT ![t] = pc], keReg' = [keReg EXCEPT ![t] = r]
  PROVE  kePc' \in [KeThreads -> KePcs] /\ keReg' \in [KeThreads -> KeRegs]
  BY Zenon DEF KeShape

\* A call and a return: types, and t was in no wait.
LEMMA CallFrame ==
  ASSUME NEW t \in KeThreads, NEW c, NEW pc \in KePcs, NEW r \in KeRegs, KeShape,
         KeCall(t, c, pc, r)
  PROVE  /\ kePc' \in [KeThreads -> KePcs] /\ keReg' \in [KeThreads -> KeRegs]
         /\ \A o \in KeObjs : ~KeWaitsOn(t, o)
         /\ \A u \in KeThreads, o \in KeObjs : KeWaitsOn(u, o) => KeWaitsOn(u, o)'
  <1>1. kePc[t] = "user" /\ kePc' = [kePc EXCEPT ![t] = pc] /\ keReg' = [keReg EXCEPT ![t] = r]
    BY Zenon DEF KeCall
  <1>2. \A o \in KeObjs : ~KeWaitsOn(t, o)
    BY <1>1, Zenon DEF KeWaitsOn
  <1>3. \A u \in KeThreads \ {t} : kePc'[u] = kePc[u] /\ keReg'[u] = keReg[u]
    BY <1>1, Zenon DEF KeShape
  <1>4. \A u \in KeThreads, o \in KeObjs : KeWaitsOn(u, o) => KeWaitsOn(u, o)'
    BY <1>2, <1>3, Zenon DEF KeWaitsOn
  <1> QED BY <1>1, <1>2, <1>4, PcReg, Zenon

LEMMA SectionFrame ==
  ASSUME NEW t \in KeThreads, NEW c, NEW o \in KeObjs, KeShape, KeSection(t, c, o)
  PROVE  /\ kePc' \in [KeThreads -> KePcs] /\ keReg' \in [KeThreads -> KeRegs]
         /\ \A q \in KeObjs : ~KeWaitsOn(t, q)
         /\ \A u \in KeThreads, q \in KeObjs : KeWaitsOn(u, q) => KeWaitsOn(u, q)'
  BY CallFrame, IdleReg, Zenon DEF KeSection, KePcs

\* A step that is no call, of a thread in no wait: try, enqueue, fire.
LEMMA ReturnFrame ==
  ASSUME NEW t \in KeThreads, KeShape, kePc[t] \notin {"block", "asleep"}, KeReturn(t)
  PROVE  /\ kePc' \in [KeThreads -> KePcs] /\ keReg' \in [KeThreads -> KeRegs]
         /\ \A u \in KeThreads, q \in KeObjs : KeWaitsOn(u, q) => KeWaitsOn(u, q)'
  <1>1. kePc' = [kePc EXCEPT ![t] = "user"] /\ keReg' = [keReg EXCEPT ![t] = KeIdle]
    BY Zenon DEF KeReturn
  <1>2. \A u \in KeThreads \ {t} : kePc'[u] = kePc[u] /\ keReg'[u] = keReg[u]
    BY <1>1, Zenon DEF KeShape
  <1>3. \A u \in KeThreads, q \in KeObjs : KeWaitsOn(u, q) => KeWaitsOn(u, q)'
    BY <1>2, Zenon DEF KeWaitsOn
  <1> QED BY <1>1, <1>3, PcReg, IdleReg, Zenon DEF KePcs

LEMMA GoFrame ==
  ASSUME NEW t \in KeThreads, NEW pc \in KePcs, KeShape,
         \A o \in KeObjs : ~KeWaitsOn(t, o), KeGo(t, pc)
  PROVE  /\ kePc' \in [KeThreads -> KePcs] /\ keReg' \in [KeThreads -> KeRegs]
         /\ \A u \in KeThreads, q \in KeObjs : KeWaitsOn(u, q) => KeWaitsOn(u, q)'
  <1>1. kePc' = [kePc EXCEPT ![t] = pc] /\ keReg' = keReg
    BY Zenon DEF KeGo
  <1>2. kePc' \in [KeThreads -> KePcs] /\ keReg' \in [KeThreads -> KeRegs]
    BY <1>1, Zenon DEF KeShape
  <1>3. \A u \in KeThreads \ {t} : kePc'[u] = kePc[u]
    BY <1>1, Zenon DEF KeShape
  <1> QED BY <1>1, <1>2, <1>3, Zenon DEF KeWaitsOn

\* The blocks stay and satisfied ones are only added.
LEMMA BlocksKept ==
  ASSUME KeShape, KeBlocks, keList' = keList,
         \A o \in KeObjs : keSat'[o] \subseteq KeWaiters(o),
         \A u \in KeThreads, o \in KeObjs : KeWaitsOn(u, o) => KeWaitsOn(u, o)'
  PROVE  KeBlocks'
  <1>1. \A o \in KeObjs : KeWaiters(o)' = KeWaiters(o)
    BY Zenon DEF KeWaiters
  <1>2. \A o \in KeObjs : \A i \in 1 .. Len(keList[o]) : keList[o][i] \in KeThreads
    <2>1. \A o \in KeObjs : keList[o] \in Seq(KeThreads)
      BY Zenon DEF KeShape
    <2> QED BY <2>1
  <1>3. ASSUME NEW o \in KeObjs, NEW i \in 1 .. Len(keList[o])
        PROVE  KeWaitsOn(keList[o][i], o)'
    <2>1. PICK u \in KeThreads : u = keList[o][i]
      BY <1>2, Zenon
    <2>2. KeWaitsOn(u, o)
      BY <2>1, Zenon DEF KeBlocks
    <2>3. KeWaitsOn(u, o)' /\ keList'[o][i] = u
      BY <2>1, <2>2, Zenon
    <2> QED BY <2>3, Zenon DEF KeWaitsOn
  <1>4. \A o \in KeObjs : \A i \in 1 .. Len(keList'[o]) : KeWaitsOn(keList[o][i], o)'
    BY <1>3, Zenon
  <1>5. \A o \in KeObjs : keSat'[o] \subseteq KeWaiters(o)'
    BY <1>1, Zenon
  <1>6. \A o \in KeObjs : \A i, k \in 1 .. Len(keList'[o]) : keList'[o][i] = keList'[o][k] => i = k
    BY Zenon DEF KeBlocks
  <1> QED BY <1>4, <1>5, <1>6, Zenon DEF KeBlocks

\* A thread in no wait on o has no block there, and is not satisfied.
LEMMA NotThere ==
  ASSUME NEW t \in KeThreads, NEW o \in KeObjs, KeBlocks, ~KeWaitsOn(t, o)
  PROVE  t \notin KeWaiters(o) /\ t \notin keSat[o]
  BY DEF KeBlocks, KeWaiters

\* Steps that touch neither objects nor histories.
LEMMA QuietStep ==
  ASSUME KeIInv, UNCHANGED <<keState, keLists, keMutant, keHist>>,
         keLive' \subseteq KeObjs, keSerial' \in Nat,
         keTimers' \subseteq [id : Nat, periodic : BOOLEAN],
         kePc' \in [KeThreads -> KePcs], keReg' \in [KeThreads -> KeRegs],
         \A u \in KeThreads, o \in KeObjs : KeWaitsOn(u, o) => KeWaitsOn(u, o)'
  PROVE  KeIInv'
  <1>1. UNCHANGED <<keState, keList, keSat, keOwner, keCount, keHeld, keGrant, kePosts>>
    BY Zenon DEF keLists, keMutant, keHist
  <1>2. KeShape'
    BY <1>1, Zenon DEF KeIInv, KeShape
  <1>3. KeBlocks'
    <2>1. KeShape /\ KeBlocks /\ \A o \in KeObjs : keSat'[o] \subseteq KeWaiters(o)
      BY <1>1, Zenon DEF KeIInv, KeBlocks
    <2> QED BY <1>1, <2>1, BlocksKept, Zenon
  <1>4. KeOwned' /\ KeBounded'
    BY <1>1, Zenon DEF KeIInv, KeOwned, KeBounded
  <1> QED BY <1>2, <1>3, <1>4, Zenon DEF KeIInv

-----------------------------------------------------------------------------
(* Signalling.                                                             *)

\* Satisfying more blocks adds that many threads.
LEMMA SatGrows ==
  ASSUME NEW S \in SUBSET KeThreads, NEW W \in SUBSET KeThreads
  PROVE  /\ Cardinality(S \cup W) = Cardinality(S) + Cardinality(W \ S)
         /\ Cardinality(S) \in Nat /\ Cardinality(W \ S) \in Nat
  <1>1. IsFiniteSet(S) /\ IsFiniteSet(W \ S) /\ Cardinality(S) \in Nat /\ Cardinality(W \ S) \in Nat
    BY ThreadsFinite, Zenon
  <1>2. S \cup W = S \cup (W \ S) /\ S \cap (W \ S) = {}
    BY Zenon
  <1>3. Cardinality(S \cup (W \ S)) = Cardinality(S) + Cardinality(W \ S) - Cardinality(S \cap (W \ S))
    BY <1>1, FS_Union, Zenon
  <1>4. Cardinality(S \cap (W \ S)) = 0
    BY <1>2, FS_EmptySet, Zenon
  <1>5. Cardinality(S \cup W) = Cardinality(S \cup (W \ S))
    BY <1>2, Zenon
  <1> QED BY <1>1, <1>3, <1>4, <1>5

\* One thread less.
LEMMA SatShrinks ==
  ASSUME NEW S \in SUBSET KeThreads, NEW t \in KeThreads
  PROVE  /\ Cardinality(S \ {t}) <= Cardinality(S)
         /\ t \in S => Cardinality(S \ {t}) = Cardinality(S) - 1
         /\ Cardinality(S \ {t}) \in Nat /\ Cardinality(S) \in Nat
  <1>1. IsFiniteSet(S) /\ Cardinality(S) \in Nat /\ Cardinality(S \ {t}) \in Nat
    BY ThreadsFinite, Zenon
  <1>2. Cardinality(S \ {t}) = IF t \in S THEN Cardinality(S) - 1 ELSE Cardinality(S)
    BY <1>1, FS_RemoveElement, Zenon
  <1> QED BY <1>1, <1>2

\* The object gets the state m and n signals, and the blocks of ws are satisfied.
LEMMA SignalStep ==
  ASSUME KeIInv, NEW o \in KeObjs, KeKind[o] # "mutant", NEW n \in Nat, NEW m \in Int,
         NEW ws, ws \subseteq KeWaiters(o),
         keState' = [keState EXCEPT ![o] = m], keSat' = [keSat EXCEPT ![o] = @ \cup ws],
         KePosted(o, n), UNCHANGED <<keLive, keList, keOwner, keCount, keSerial, keTimers>>,
         kePc' \in [KeThreads -> KePcs], keReg' \in [KeThreads -> KeRegs],
         \A u \in KeThreads, q \in KeObjs : KeWaitsOn(u, q) => KeWaitsOn(u, q)',
         KeKind[o] = "synchronization" => m >= 0,
         KeKind[o] \in {"synchronization", "semaphore"} =>
           m + Cardinality(ws \ keSat[o]) <= keState[o] + n
  PROVE  KeIInv'
  <1>0. KeShape /\ KeBlocks /\ KeOwned /\ KeBounded
    BY Zenon DEF KeIInv
  <1>1. KeWaiters(o) \subseteq KeThreads
    BY <1>0, OldestWait, Zenon
  <1>2. kePosts' = [kePosts EXCEPT ![o] = @ + n] /\ UNCHANGED <<keHeld, keGrant>>
    BY Zenon DEF KePosted
  <1>3. KeShape'
    BY <1>0, <1>1, <1>2 DEF KeShape
  <1>4. \A q \in KeObjs : keSat'[q] \subseteq KeWaiters(q)
    BY <1>0, Zenon DEF KeShape, KeBlocks
  <1>5. KeBlocks'
    BY <1>0, <1>4, BlocksKept, Zenon
  <1>6. KeOwned'
    <2>1. \A q \in KeOf({"mutant"}) : q \in KeObjs /\ q # o
      BY Zenon DEF KeOf
    <2>2. \A q \in KeOf({"mutant"}) : keState'[q] = keState[q] /\ keSat'[q] = keSat[q]
      BY <1>0, <2>1, Zenon DEF KeShape
    <2> QED BY <1>0, <1>2, <2>2, Zenon DEF KeOwned
  <1>7. KeBounded'
    <2>1. \A q \in KeObjs \ {o} : keState'[q] = keState[q] /\ keSat'[q] = keSat[q] /\ kePosts'[q] = kePosts[q]
      BY <1>0, <1>2, Zenon DEF KeShape
    <2>2. keState'[o] = m /\ keSat'[o] = keSat[o] \cup ws /\ kePosts'[o] = kePosts[o] + n
      BY <1>0, <1>2, Zenon DEF KeShape
    <2>3. /\ Cardinality(keSat[o] \cup ws) = Cardinality(keSat[o]) + Cardinality(ws \ keSat[o])
          /\ Cardinality(keSat[o]) \in Nat /\ Cardinality(ws \ keSat[o]) \in Nat
      BY <1>0, <1>1, SatGrows, Zenon DEF KeShape
    <2>4. keState[o] \in Int /\ keGrant[o] \in Nat /\ kePosts[o] \in Nat
      BY <1>0, Zenon DEF KeShape
    <2>5. ASSUME NEW q \in KeOf({"synchronization"}) PROVE keState'[q] >= 0
      BY <1>0, <2>1, <2>2, Zenon DEF KeBounded, KeOf
    <2>6. ASSUME NEW q \in KeOf({"synchronization", "semaphore"})
          PROVE  keState'[q] + Cardinality(keSat'[q]) + keGrant'[q] <= kePosts'[q]
      <3>1. CASE q = o
        <4>1. keState[o] + Cardinality(keSat[o]) + keGrant[o] <= kePosts[o]
          BY <1>0, <2>6, <3>1, Zenon DEF KeBounded
        <4>2. m + Cardinality(ws \ keSat[o]) <= keState[o] + n
          BY <2>6, <3>1, Zenon DEF KeOf
        <4>3. Cardinality(keSat'[o]) = Cardinality(keSat[o]) + Cardinality(ws \ keSat[o])
          BY <2>2, <2>3, Zenon
        <4>4. keState'[o] = m /\ keGrant'[o] = keGrant[o] /\ kePosts'[o] = kePosts[o] + n
          BY <1>2, <2>2, Zenon
        <4>5. ASSUME NEW x \in Nat, NEW y \in Nat, x = Cardinality(keSat[o]), y = Cardinality(ws \ keSat[o])
              PROVE  m + (x + y) + keGrant[o] <= kePosts[o] + n
          BY SMTT(30), <2>4, <4>1, <4>2, <4>5
        <4> QED BY <3>1, <2>3, <4>3, <4>4, <4>5, Zenon
      <3>2. CASE q # o
        BY <1>0, <1>2, <2>1, <2>6, <3>2, Zenon DEF KeBounded, KeOf
      <3> QED BY <3>1, <3>2, Zenon
    <2> QED BY <2>5, <2>6, Zenon DEF KeBounded
  <1> QED BY <1>3, <1>5, <1>6, <1>7, Zenon DEF KeIInv

LEMMA SetEventStep ==
  ASSUME KeIInv, NEW t \in KeThreads, NEW o \in KeOf({"notification", "synchronization"}),
         KeSetEvent(t, o)
  PROVE  KeIInv'
  <1> DEFINE ws == IF KeKind[o] = "notification" THEN KeWaiters(o) ELSE KeOldest(o, 1)
             m == IF KeKind[o] = "notification" \/ ws = {} THEN 1 ELSE 0
  <1>0. KeShape /\ KeBounded /\ o \in KeObjs /\ KeKind[o] \in {"notification", "synchronization"}
    BY Zenon DEF KeIInv, KeOf
  <1>1. /\ KeSection(t, "set", o) /\ KePosted(o, 1)
        /\ keState' = [keState EXCEPT ![o] = m] /\ keSat' = [keSat EXCEPT ![o] = @ \cup ws]
        /\ UNCHANGED <<keLive, keList, keOwner, keCount, keSerial, keTimers>>
    BY Zenon DEF KeSetEvent, KeSetState, KeSatisfy, keMutant, keTimer
  <1>2. ws \subseteq KeWaiters(o) /\ KeWaiters(o) \subseteq KeThreads
    BY <1>0, OldestWait
  <1>3. m \in {0, 1}
    BY Zenon
  <1>4. ASSUME KeKind[o] = "synchronization"
        PROVE  m + Cardinality(ws \ keSat[o]) <= keState[o] + 1
    <2>1. keState[o] >= 0 /\ keState[o] \in Int
      BY <1>0, <1>4, Zenon DEF KeBounded, KeOf, KeShape
    <2>2. ws = KeOldest(o, 1) /\ ws \cap keSat[o] = {}
      BY <1>0, <1>4, OldestWait
    <2>3. CASE ws = {}
      <3>1. ws \ keSat[o] = {} /\ Cardinality({}) = 0
        BY <2>3, FS_EmptySet, Zenon
      <3> QED BY <2>1, <2>3, <3>1, <1>3
    <2>4. CASE ws # {}
      <3>1. PICK u : u \in ws
        BY <2>4, Zenon
      <3>2. ws \ keSat[o] = {u}
        BY <1>0, <2>2, <3>1, OldestOne
      <3>3. Cardinality({u}) = 1
        BY FS_Singleton, Zenon
      <3>4. m = 0
        BY <2>4, <1>4, Zenon
      <3>5. Cardinality(ws \ keSat[o]) = 1
        BY <3>2, <3>3, Zenon
      <3> HIDE DEF ws, m
      <3> QED BY <2>1, <3>4, <3>5
    <2> QED BY <2>3, <2>4, Zenon
  <1> HIDE DEF ws, m
  <1>5. KeKind[o] # "mutant" /\ KeKind[o] # "semaphore"
    BY <1>0, Zenon
  <1>6. m \in Int /\ m >= 0
    BY <1>3
  <1> QED BY <1>0, <1>1, <1>2, <1>4, <1>5, <1>6, SectionFrame, SignalStep, Zenon

LEMMA ResetEventStep ==
  ASSUME KeIInv, NEW t \in KeThreads, NEW o \in KeOf({"notification", "synchronization"}),
         KeResetEvent(t, o)
  PROVE  KeIInv'
  <1>0. KeShape /\ KeBounded /\ o \in KeObjs /\ KeKind[o] \in {"notification", "synchronization"}
    BY Zenon DEF KeIInv, KeOf
  <1>1. /\ KeSection(t, "reset", o) /\ UNCHANGED <<keSat, keHeld, keGrant, kePosts>>
        /\ keState' = [keState EXCEPT ![o] = 0]
        /\ UNCHANGED <<keLive, keList, keOwner, keCount, keSerial, keTimers>>
    BY Zenon DEF KeResetEvent, KeSetState, keLists, keHist, keMutant, keTimer
  <1> DEFINE zero == 0
             ws == {}
  <1>2. keSat' = [keSat EXCEPT ![o] = @ \cup ws] /\ KePosted(o, zero)
    BY <1>0, <1>1 DEF KePosted, KeShape
  <1>3. KeKind[o] = "synchronization" => keState[o] \in Int /\ keState[o] >= 0
    BY <1>0, Zenon DEF KeShape, KeBounded, KeOf
  <1>4. {} \ keSat[o] = {} /\ Cardinality({}) = 0
    BY FS_EmptySet, Zenon
  <1>5. KeKind[o] \in {"synchronization", "semaphore"} =>
          zero + Cardinality(ws \ keSat[o]) <= keState[o] + zero
    BY <1>0, <1>3, <1>4
  <1>6. zero \in Int /\ zero \in Nat /\ zero >= 0 /\ ws \subseteq KeWaiters(o)
    OBVIOUS
  <1>7. keState' = [keState EXCEPT ![o] = zero]
    BY <1>1, Zenon
  <1> HIDE DEF zero, ws
  <1> QED BY <1>0, <1>1, <1>2, <1>5, <1>6, <1>7, SectionFrame, SignalStep, Zenon

LEMMA PulseEventStep ==
  ASSUME KeIInv, NEW t \in KeThreads, NEW o \in KeOf({"notification", "synchronization"}),
         KePulseEvent(t, o)
  PROVE  KeIInv'
  <1> DEFINE n == Cardinality(KeWaiters(o) \ keSat[o])
             zero == 0
  <1>0. KeShape /\ KeBounded /\ o \in KeObjs /\ KeKind[o] \in {"notification", "synchronization"}
    BY Zenon DEF KeIInv, KeOf
  <1>1. /\ KeSection(t, "pulse", o) /\ KePosted(o, n)
        /\ keState' = [keState EXCEPT ![o] = 0]
        /\ keSat' = [keSat EXCEPT ![o] = @ \cup KeWaiters(o)]
        /\ UNCHANGED <<keLive, keList, keOwner, keCount, keSerial, keTimers>>
    BY Zenon DEF KePulseEvent, KeSetState, KeSatisfy, keMutant, keTimer
  <1>2. KeWaiters(o) \subseteq KeThreads
    BY <1>0, OldestWait
  <1>3. n \in Nat
    BY <1>2, ThreadsFinite, Zenon
  <1> HIDE DEF n
  <1>4. KeKind[o] = "synchronization" => keState[o] \in Int /\ keState[o] >= 0
    BY <1>0, Zenon DEF KeShape, KeBounded, KeOf
  <1>5. KeKind[o] \in {"synchronization", "semaphore"} =>
          zero + Cardinality(KeWaiters(o) \ keSat[o]) <= keState[o] + n
    BY SMTT(30), <1>0, <1>3, <1>4 DEF n
  <1>6. zero \in Int /\ zero >= 0 /\ keState' = [keState EXCEPT ![o] = zero]
    BY <1>1
  <1> HIDE DEF zero
  <1> QED BY <1>0, <1>1, <1>3, <1>5, <1>6, SectionFrame, SignalStep, Zenon

LEMMA ReleaseSemaphoreStep ==
  ASSUME KeIInv, NEW t \in KeThreads, NEW o \in KeOf({"semaphore"}), NEW n \in 1 .. KeLimit,
         KeReleaseSemaphore(t, o, n)
  PROVE  KeIInv'
  <1> DEFINE ws == KeOldest(o, keState[o] + n)
             m == KeLeave(keState[o] + n, ws)
  <1>0. KeShape /\ o \in KeObjs /\ KeKind[o] = "semaphore" /\ n \in Nat
    BY KeAssumption DEF KeIInv, KeOf
  <1>1. /\ KeSection(t, "post", o) /\ KePosted(o, n)
        /\ keState' = [keState EXCEPT ![o] = m] /\ keSat' = [keSat EXCEPT ![o] = @ \cup ws]
        /\ UNCHANGED <<keLive, keList, keOwner, keCount, keSerial, keTimers>>
    <2>1. /\ KeSection(t, "post", o) /\ KePosted(o, n)
          /\ KeSetState(o, KeLeave(keState[o] + n, ws)) /\ KeSatisfy(o, ws)
          /\ UNCHANGED <<keLive, keList, keMutant, keTimer>>
      BY Zenon DEF KeReleaseSemaphore
    <2> HIDE DEF ws
    <2> QED BY <2>1, Zenon DEF KeSetState, KeSatisfy, keMutant, keTimer
  <1>2. keState[o] \in Int /\ keState[o] + n \in Int
    BY <1>0 DEF KeShape
  <1>3. ws \subseteq KeWaiters(o) \ keSat[o] /\ KeWaiters(o) \subseteq KeThreads
    BY <1>0, <1>2, OldestWait, Zenon
  <1>4. Cardinality(ws) \in Nat /\ ws \ keSat[o] = ws
    BY <1>3, ThreadsFinite, Zenon
  <1>5. m \in Int /\ m + Cardinality(ws \ keSat[o]) <= keState[o] + n
    <2>1. PICK w \in Nat : w = Cardinality(ws)
      BY <1>4, Zenon
    <2> HIDE DEF ws
    <2>2. m = (keState[o] + n) - w /\ Cardinality(ws \ keSat[o]) = w
      <3>1. m = (keState[o] + n) - Cardinality(ws)
        BY <1>0, <1>2, Zenon DEF KeLeave
      <3> HIDE DEF m
      <3> QED BY <1>4, <2>1, <3>1, Zenon
    <2> HIDE DEF m
    <2> QED BY <1>0, <1>2, <2>1, <2>2
  <1> HIDE DEF ws, m
  <1> QED BY <1>0, <1>1, <1>3, <1>5, SectionFrame, SignalStep, Zenon

LEMMA FireStep ==
  ASSUME KeIInv, NEW t \in KeThreads, KeFire(t)
  PROVE  KeIInv'
  <1> DEFINE id == CHOOSE i \in keReg[t].fire : \A j \in keReg[t].fire : i <= j
             os == {o \in keLive : KeKind[o] = "timer" /\ keArm[o] = id}
  <1>0. KeShape /\ kePc[t] = "fire"
    BY Zenon DEF KeIInv, KeFire
  <1>1. CASE keReg[t].fire = {}
    <2>1. KeFail(t)
      BY <1>1, Zenon DEF KeFire
    <2>2. /\ KeReturn(t) /\ UNCHANGED <<keState, keLists, keMutant, keHist>>
          /\ UNCHANGED <<keLive, keSerial, keTimers>>
      BY <2>1, Zenon DEF KeFail, keTimer
    <2>3. /\ kePc' \in [KeThreads -> KePcs] /\ keReg' \in [KeThreads -> KeRegs]
          /\ \A u \in KeThreads, q \in KeObjs : KeWaitsOn(u, q) => KeWaitsOn(u, q)'
      BY <1>0, <2>2, ReturnFrame, Zenon
    <2> QED BY <1>0, <2>2, <2>3, QuietStep, Zenon DEF KeShape
  <1>2. CASE keReg[t].fire # {}
    <2>1. /\ keReg' = [keReg EXCEPT ![t].fire = @ \ {id}]
          /\ UNCHANGED <<keLive, keList, keMutant, keTimer, kePc, keLeft>>
          /\ IF os = {} THEN UNCHANGED <<keState, keSat, keRun, keHist>>
             ELSE \E o \in os : /\ KeSetState(o, 1)
                                /\ KeSatisfy(o, KeWaiters(o))
                                /\ KePosted(o, 1)
      BY <1>2, Zenon DEF KeFire
    <2> HIDE DEF id
    <2>2. keReg' \in [KeThreads -> KeRegs]
      <3> DEFINE r == [keReg[t] EXCEPT !.fire = @ \ {id}]
      <3>1. keReg[t] \in KeRegs
        BY <1>0, Zenon DEF KeShape
      <3>2. r \in KeRegs
        BY <3>1, Zenon DEF KeRegs
      <3>3. keReg' = [keReg EXCEPT ![t] = r]
        BY <2>1, Zenon
      <3> HIDE DEF r
      <3> QED BY <1>0, <3>2, <3>3, Zenon DEF KeShape
    <2>3. \A u \in KeThreads, q \in KeObjs : KeWaitsOn(u, q) => KeWaitsOn(u, q)'
      <3>1. \A u \in KeThreads \ {t} : keReg'[u] = keReg[u]
        BY <1>0, <2>1, Zenon DEF KeShape
      <3> QED BY <1>0, <2>1, <3>1, Zenon DEF KeWaitsOn
    <2>4. kePc' \in [KeThreads -> KePcs] /\ UNCHANGED <<keLive, keList, keOwner, keCount, keSerial, keTimers>>
      BY <1>0, <2>1, Zenon DEF KeShape, keMutant, keTimer
    <2>5. CASE os = {}
      <3>1. UNCHANGED <<keState, keLists, keMutant, keHist>>
        BY <2>1, <2>5, Zenon DEF keLists
      <3> QED BY <1>0, <2>2, <2>3, <2>4, <3>1, QuietStep, Zenon DEF KeShape
    <2>6. CASE os # {}
      <3>1. PICK o \in os : KeSetState(o, 1) /\ KeSatisfy(o, KeWaiters(o)) /\ KePosted(o, 1)
        BY <2>1, <2>6, Zenon
      <3>2. o \in KeObjs /\ KeKind[o] = "timer"
        BY <1>0, Zenon DEF KeShape
      <3> HIDE DEF os
      <3> DEFINE one == 1
                 ws == KeWaiters(o)
      <3>3. keState' = [keState EXCEPT ![o] = one] /\ keSat' = [keSat EXCEPT ![o] = @ \cup ws]
        BY <3>1, Zenon DEF KeSetState, KeSatisfy
      <3>4. one \in Nat /\ one \in Int /\ KePosted(o, one) /\ ws \subseteq KeWaiters(o)
        BY <3>1
      <3> HIDE DEF one, ws
      <3> QED BY <2>2, <2>3, <2>4, <3>2, <3>3, <3>4, SignalStep, Zenon
    <2> QED BY <2>5, <2>6, Zenon
  <1> QED BY <1>1, <1>2, Zenon

\* Arming, cancelling and collecting timers.
LEMMA TimerSteps ==
  ASSUME KeIInv, NEW t \in KeThreads,
         \/ \E o \in KeOf({"timer"}) :
              KeCancelTimer(t, o) \/ \E periodic \in BOOLEAN : KeSetTimer(t, o, periodic)
         \/ KeCheckTimers(t)
  PROVE  KeIInv'
  <1>0. KeShape
    BY Zenon DEF KeIInv
  <1>1. ASSUME NEW o \in KeOf({"timer"}), KeCancelTimer(t, o) PROVE KeIInv'
    <2>1. /\ KeSection(t, "cancel", o) /\ o \in KeObjs /\ keTimers' \subseteq keTimers
          /\ UNCHANGED <<keState, keLists, keMutant, keHist>> /\ UNCHANGED <<keLive, keSerial>>
      BY <1>1, Zenon DEF KeCancelTimer, KeOf
    <2> QED BY <1>0, <2>1, SectionFrame, QuietStep, Zenon DEF KeShape
  <1>2. ASSUME NEW o \in KeOf({"timer"}), NEW periodic \in BOOLEAN, KeSetTimer(t, o, periodic)
        PROVE  KeIInv'
    <2> DEFINE zero == 0
               ws == {}
               e == [id |-> keSerial + 1, periodic |-> periodic]
    <2>1. /\ KeSection(t, "arm", o) /\ o \in KeObjs /\ KeKind[o] = "timer"
          /\ keSerial' = keSerial + 1 /\ keTimers' = keTimers \cup {e}
          /\ keState' = [keState EXCEPT ![o] = zero]
          /\ UNCHANGED <<keLive, keList, keSat, keOwner, keCount, keHeld, keGrant, kePosts>>
      BY <1>2, Zenon DEF KeSetTimer, KeOf, KeSetState, keLists, keMutant, keHist
    <2>2. /\ kePc' \in [KeThreads -> KePcs] /\ keReg' \in [KeThreads -> KeRegs]
          /\ \A u \in KeThreads, q \in KeObjs : KeWaitsOn(u, q) => KeWaitsOn(u, q)'
      BY <1>0, <2>1, SectionFrame, Zenon
    <2>3. keSerial' \in Nat /\ keTimers' \subseteq [id : Nat, periodic : BOOLEAN]
      BY <1>0, <2>1 DEF KeShape
    <2> HIDE DEF e
    <2>4. KeShape'
      BY <1>0, <2>1, <2>2, <2>3 DEF KeShape
    <2>5. KeBlocks'
      BY <1>0, <2>1, <2>2, BlocksKept, Zenon DEF KeIInv, KeBlocks
    <2>6. \A q \in KeObjs \ {o} : keState'[q] = keState[q]
      BY <1>0, <2>1, Zenon DEF KeShape
    <2>7. KeOwned' /\ KeBounded'
      BY <2>1, <2>6, Zenon DEF KeIInv, KeOwned, KeBounded, KeOf
    <2> QED BY <2>4, <2>5, <2>7, Zenon DEF KeIInv
  <1>3. ASSUME KeCheckTimers(t) PROVE KeIInv'
    <2>1. PICK due \in SUBSET keTimers :
            /\ KeCall(t, "check", "fire", [KeIdle EXCEPT !.fire = {e.id : e \in due}])
            /\ keTimers' = {e \in keTimers : e \notin due \/ e.periodic}
            /\ UNCHANGED <<keLive, keState, keLists, keMutant, keArm, keSerial, keRun, keHist>>
      BY <1>3, Zenon DEF KeCheckTimers
    <2>2. {e.id : e \in due} \subseteq Nat
      BY SMTT(30), <1>0 DEF KeShape
    <2> DEFINE F == {e.id : e \in due}
               r == [KeIdle EXCEPT !.fire = F]
    <2>3. r \in KeRegs
      <3> HIDE DEF F
      <3>1. F \in SUBSET Nat
        BY <2>2, Zenon DEF F
      <3> QED BY <3>1, IdleReg, Zenon DEF KeRegs
    <2>4. KeCall(t, "check", "fire", r) /\ "fire" \in KePcs
      BY <2>1, Zenon DEF KePcs
    <2> HIDE DEF r
    <2>5. /\ kePc' \in [KeThreads -> KePcs] /\ keReg' \in [KeThreads -> KeRegs]
          /\ \A u \in KeThreads, q \in KeObjs : KeWaitsOn(u, q) => KeWaitsOn(u, q)'
      BY <1>0, <2>3, <2>4, CallFrame, Zenon
    <2>6. /\ keTimers' \subseteq [id : Nat, periodic : BOOLEAN] /\ keSerial' \in Nat
          /\ keLive' \subseteq KeObjs
      BY <1>0, <2>1, Zenon DEF KeShape
    <2>7. UNCHANGED <<keState, keLists, keMutant, keHist>>
      BY <2>1, Zenon
    <2> QED BY <2>5, <2>6, <2>7, QuietStep, Zenon
  <1> QED BY <1>1, <1>2, <1>3, Zenon

LEMMA DestroyStep ==
  ASSUME KeIInv, NEW t \in KeThreads, NEW o \in KeObjs, KeDestroy(t, o)
  PROVE  KeIInv'
  <1>0. KeShape /\ KeBlocks /\ KeOwned /\ KeBounded
    BY Zenon DEF KeIInv
  <1>1. /\ KeSection(t, "destroy", o) /\ keLive' = keLive \ {o}
        /\ keList' = [keList EXCEPT ![o] = <<>>] /\ keSat' = [keSat EXCEPT ![o] = {}]
        /\ UNCHANGED <<keState, keOwner, keCount, keSerial, keTimers, keHeld, keGrant, kePosts>>
    BY Zenon DEF KeDestroy, keMutant, keTimer, keHist
  <1>2. /\ kePc' \in [KeThreads -> KePcs] /\ keReg' \in [KeThreads -> KeRegs]
        /\ \A u \in KeThreads, q \in KeObjs : KeWaitsOn(u, q) => KeWaitsOn(u, q)'
    BY <1>0, <1>1, SectionFrame, Zenon
  <1>3. <<>> \in Seq(KeThreads) /\ Len(<<>>) = 0
    OBVIOUS
  <1>4. KeShape'
    BY <1>0, <1>1, <1>2, <1>3, Zenon DEF KeShape
  <1>5. /\ keList'[o] = <<>> /\ keSat'[o] = {}
        /\ \A q \in KeObjs \ {o} : keList'[q] = keList[q] /\ keSat'[q] = keSat[q]
    BY <1>0, <1>1, Zenon DEF KeShape
  <1>6. KeBlocks'
    <2> SUFFICES ASSUME NEW q \in KeObjs
        PROVE  /\ keSat'[q] \subseteq KeWaiters(q)'
               /\ \A i \in 1 .. Len(keList'[q]) : KeWaitsOn(keList[q][i], q)'
               /\ \A i, j \in 1 .. Len(keList'[q]) : keList'[q][i] = keList'[q][j] => i = j
      BY Zenon DEF KeBlocks
    <2>1. CASE q = o
      BY <1>3, <1>5, <2>1
    <2>2. CASE q # o
      <3>1. KeWaiters(q)' = KeWaiters(q)
        BY <1>5, <2>2, Zenon DEF KeWaiters
      <3>2. keList[q] \in Seq(KeThreads)
        BY <1>0, Zenon DEF KeShape
      <3>3. ASSUME NEW i \in 1 .. Len(keList[q]) PROVE KeWaitsOn(keList[q][i], q)'
        <4>1. PICK u \in KeThreads : u = keList[q][i]
          BY <3>2
        <4>2. KeWaitsOn(u, q)' /\ keList'[q][i] = u
          BY <1>0, <1>2, <1>5, <2>2, <4>1, Zenon DEF KeBlocks
        <4> QED BY <4>2, Zenon DEF KeWaitsOn
      <3> QED BY <1>0, <1>5, <2>2, <3>1, <3>3, Zenon DEF KeBlocks
    <2> QED BY <2>1, <2>2, Zenon
  <1>7. KeOwned'
    <2>1. \A q \in KeObjs : keSat'[q] \subseteq keSat[q]
      BY <1>5, Zenon
    <2> QED BY <1>0, <1>1, <2>1, Zenon DEF KeOwned, KeOf
  <1>8. KeBounded'
    <2>1. \A q \in KeObjs : Cardinality(keSat'[q]) = IF q = o THEN 0 ELSE Cardinality(keSat[q])
      BY <1>5, FS_EmptySet, Zenon
    <2>2. \A q \in KeObjs : /\ Cardinality(keSat[q]) \in Nat /\ keState[q] \in Int
                            /\ keGrant[q] \in Nat /\ kePosts[q] \in Nat
      BY <1>0, ThreadsFinite, Zenon DEF KeShape
    <2> QED BY SMTT(30), <1>0, <1>1, <2>1, <2>2 DEF KeBounded, KeOf
  <1> QED BY <1>4, <1>6, <1>7, <1>8, Zenon DEF KeIInv

-----------------------------------------------------------------------------
(* Mutants.                                                                *)

\* A step that leaves every object but the mutant o alone, and the blocks.
LEMMA MutantStep ==
  ASSUME KeIInv, NEW o \in KeOf({"mutant"}), NEW t \in KeThreads, NEW w \in KeThreads \cup {KeNoOne},
         NEW k \in Nat, NEW m \in Int, NEW ws \in SUBSET KeThreads, NEW h \in Nat,
         ws \subseteq KeWaiters(o),
         keState' = [keState EXCEPT ![o] = m], keOwner' = [keOwner EXCEPT ![o] = w],
         keCount' = [keCount EXCEPT ![o] = k], keSat' = [keSat EXCEPT ![o] = @ \cup ws],
         keHeld' = [keHeld EXCEPT ![t][o] = h],
         UNCHANGED <<keLive, keList, keSerial, keTimers, kePosts>>,
         keGrant' \in [KeObjs -> Nat], \A q \in KeObjs \ {o} : keGrant'[q] = keGrant[q],
         kePc' \in [KeThreads -> KePcs], keReg' \in [KeThreads -> KeRegs],
         \A u \in KeThreads, q \in KeObjs : KeWaitsOn(u, q) => KeWaitsOn(u, q)',
         m > 0 => w = KeNoOne,
         h > 0 => w = t /\ h <= k,
         t \notin keSat[o] \cup ws,
         \A u \in KeThreads \ {t} : keHeld[u][o] > 0 => w = u /\ keHeld[u][o] <= k,
         \A u \in keSat[o] \cup ws : w = u /\ keHeld[u][o] < k
  PROVE  KeIInv'
  <1>0. KeShape /\ KeBlocks /\ KeOwned /\ KeBounded /\ o \in KeObjs /\ KeKind[o] = "mutant"
    BY Zenon DEF KeIInv, KeOf
  <1>1. /\ keState'[o] = m /\ keOwner'[o] = w /\ keCount'[o] = k /\ keSat'[o] = keSat[o] \cup ws
        /\ keHeld'[t][o] = h /\ \A u \in KeThreads \ {t} : keHeld'[u][o] = keHeld[u][o]
    BY <1>0, Zenon DEF KeShape
  <1>2. \A q \in KeObjs \ {o} :
          /\ keState'[q] = keState[q] /\ keOwner'[q] = keOwner[q] /\ keCount'[q] = keCount[q]
          /\ keSat'[q] = keSat[q] /\ \A u \in KeThreads : keHeld'[u][q] = keHeld[u][q]
    BY <1>0, Zenon DEF KeShape
  <1>3. KeShape'
    <2>1. keHeld' \in [KeThreads -> [KeObjs -> Nat]]
      BY <1>0, Zenon DEF KeShape
    <2> QED BY <1>0, <2>1, Zenon DEF KeShape
  <1>4. KeBlocks'
    <2>1. \A q \in KeObjs : keSat'[q] \subseteq KeWaiters(q)
      BY <1>0, <1>1, <1>2, Zenon DEF KeBlocks
    <2> QED BY <1>0, <2>1, BlocksKept, Zenon
  <1>5. KeOwned'
    <2> SUFFICES ASSUME NEW q \in KeOf({"mutant"}), NEW u \in KeThreads
        PROVE  /\ keState'[q] > 0 => keOwner'[q] = KeNoOne
               /\ keHeld'[u][q] > 0 => keOwner'[q] = u /\ keHeld'[u][q] <= keCount'[q]
               /\ u \in keSat'[q] => keOwner'[q] = u /\ keHeld'[u][q] < keCount'[q]
      BY Zenon DEF KeOwned, KeOf
    <2>1. CASE q = o
      BY <1>1, <2>1
    <2>2. CASE q # o
      BY SMTT(30), <1>0, <1>2, <2>2 DEF KeOwned, KeOf
    <2> QED BY <2>1, <2>2, Zenon
  <1>6. KeBounded'
    <2>1. \A q \in KeOf({"synchronization", "semaphore"}) : q \in KeObjs \ {o}
      BY <1>0, Zenon DEF KeOf
    <2> QED BY <1>0, <1>2, <2>1, Zenon DEF KeBounded, KeOf
  <1> QED BY <1>3, <1>4, <1>5, <1>6, Zenon DEF KeIInv

LEMMA AcquireMutantStep ==
  ASSUME KeIInv, NEW t \in KeThreads, NEW o \in KeOf({"mutant"}), KeAcquireMutant(t, o)
  PROVE  KeIInv'
  <1> DEFINE k == IF keOwner[o] = t THEN keCount[o] + 1 ELSE 1
             h == keHeld[t][o] + 1
             zero == IF keOwner[o] = t THEN keState[o] ELSE 0
             ws == {}
  <1>0. KeShape /\ KeBlocks /\ KeOwned /\ o \in KeObjs /\ KeKind[o] = "mutant"
    BY Zenon DEF KeIInv, KeOf
  <1>1. KeSection(t, "acquire", o) /\ keOwner[o] \in {KeNoOne, t}
    BY Zenon DEF KeAcquireMutant
  <1>2. /\ kePc' \in [KeThreads -> KePcs] /\ keReg' \in [KeThreads -> KeRegs]
        /\ \A u \in KeThreads, q \in KeObjs : KeWaitsOn(u, q) => KeWaitsOn(u, q)'
        /\ t \notin keSat[o]
    BY <1>0, <1>1, SectionFrame, NotThere, Zenon
  <1>3. /\ keState' = [keState EXCEPT ![o] = zero] /\ keOwner' = [keOwner EXCEPT ![o] = t]
        /\ UNCHANGED <<keLive, keList, keSat, keSerial, keTimers, kePosts>>
    BY Zenon DEF KeAcquireMutant, KeSetState, KeReport, keLists, keTimer
  <1>4. keCount' = [keCount EXCEPT ![o] = k] /\ keSat' = [keSat EXCEPT ![o] = @ \cup ws]
    BY <1>0, <1>3, Zenon DEF KeAcquireMutant, KeShape
  <1>5. keHeld' = [keHeld EXCEPT ![t][o] = h]
    BY <1>0, Zenon DEF KeAcquireMutant, KeReport, KeShape
  <1>6. keGrant' \in [KeObjs -> Nat] /\ \A q \in KeObjs \ {o} : keGrant'[q] = keGrant[q]
    BY <1>0 DEF KeAcquireMutant, KeReport, KeShape
  <1>7. keCount[o] \in Nat /\ keHeld[t][o] \in Nat /\ KeNoOne \notin KeThreads
    BY <1>0, KeAssumption DEF KeShape
  <1>8. /\ k \in Nat /\ h \in Nat /\ zero \in Int /\ ~(zero > 0)
        /\ ws \in SUBSET KeThreads /\ ws \subseteq KeWaiters(o) /\ t \notin keSat[o] \cup ws
    <2>1. keState[o] \in Int /\ (keOwner[o] = t => ~(keState[o] > 0))
      BY <1>0, <1>7, Zenon DEF KeShape, KeOwned
    <2>2. k \in Nat /\ h \in Nat /\ zero \in Int /\ ~(zero > 0)
      BY <1>7, <2>1
    <2>3. ws \in SUBSET KeThreads /\ ws \subseteq KeWaiters(o) /\ t \notin keSat[o] \cup ws
      BY <1>2, Zenon
    <2> QED BY <2>2, <2>3, Zenon
  <1>9. h <= k
    BY SMTT(30), <1>0, <1>1, <1>7 DEF KeOwned
  <1>10. \A u \in KeThreads \ {t} : ~(keHeld[u][o] > 0) /\ u \notin keSat[o]
    BY <1>0, <1>1, <1>7, Zenon DEF KeOwned
  <1>11. keSat[o] \cup ws = {}
    BY <1>0, <1>2, <1>10, Zenon DEF KeShape
  <1> HIDE DEF k, h, zero, ws
  <1> QED BY <1>2, <1>3, <1>4, <1>5, <1>6, <1>8, <1>9, <1>10, <1>11, MutantStep, Zenon

LEMMA ReleaseMutantStep ==
  ASSUME KeIInv, NEW t \in KeThreads, NEW o \in KeOf({"mutant"}), KeReleaseMutant(t, o)
  PROVE  KeIInv'
  <1> DEFINE h == IF keHeld[t][o] > 0 THEN keHeld[t][o] - 1 ELSE 0
             ws == {}
  <1>0. KeShape /\ KeBlocks /\ KeOwned /\ o \in KeObjs /\ KeKind[o] = "mutant"
    BY Zenon DEF KeIInv, KeOf
  <1>1. KeSection(t, "release", o) /\ keOwner[o] = t
    BY Zenon DEF KeReleaseMutant
  <1>2. /\ kePc' \in [KeThreads -> KePcs] /\ keReg' \in [KeThreads -> KeRegs]
        /\ \A u \in KeThreads, q \in KeObjs : KeWaitsOn(u, q) => KeWaitsOn(u, q)'
        /\ t \notin keSat[o] /\ t \notin KeWaiters(o)
    BY <1>0, <1>1, SectionFrame, NotThere, Zenon
  <1>3. /\ keHeld' = [keHeld EXCEPT ![t][o] = h]
        /\ UNCHANGED <<keLive, keList, keSerial, keTimers, keGrant, kePosts>>
    <2>1. keHeld' = [keHeld EXCEPT ![t][o] = h]
      BY Zenon DEF KeReleaseMutant
    <2>2. UNCHANGED <<keLive, keList, keSerial, keTimers, keGrant, kePosts>>
      BY Zenon DEF KeReleaseMutant, keTimer
    <2> QED BY <2>1, <2>2, Zenon
  <1>4. keGrant' \in [KeObjs -> Nat] /\ \A q \in KeObjs \ {o} : keGrant'[q] = keGrant[q]
    BY <1>0, <1>3, Zenon DEF KeShape
  <1>5. keCount[o] \in Nat /\ keHeld[t][o] \in Nat /\ KeNoOne \notin KeThreads
    BY <1>0, KeAssumption DEF KeShape
  <1>6. keHeld[t][o] <= keCount[o]
    BY SMTT(30), <1>0, <1>5 DEF KeOwned
  <1>7. /\ h \in Nat /\ (h > 0 => h = keHeld[t][o] - 1)
        /\ ws \in SUBSET KeThreads /\ ws \subseteq KeWaiters(o)
    BY <1>5
  <1>8. \A u \in KeThreads \ {t} : ~(keHeld[u][o] > 0) /\ u \notin keSat[o]
    BY <1>0, <1>1, Zenon DEF KeOwned
  <1>9. keSat[o] = {}
    BY <1>0, <1>2, <1>8, Zenon DEF KeShape
  <1> HIDE DEF h
  <1>10. CASE /\ keCount[o] > 1 /\ keCount' = [keCount EXCEPT ![o] = @ - 1]
              /\ UNCHANGED <<keState, keOwner, keSat, keRun>>
    <2> DEFINE k == keCount[o] - 1
               m == keState[o]
    <2>1. /\ keCount' = [keCount EXCEPT ![o] = k] /\ keState' = [keState EXCEPT ![o] = m]
          /\ keOwner' = [keOwner EXCEPT ![o] = t] /\ keSat' = [keSat EXCEPT ![o] = @ \cup ws]
      BY <1>0, <1>1, <1>10, Zenon DEF KeShape
    <2>2. k \in Nat /\ m \in Int /\ (h > 0 => h <= k) /\ ~(m > 0) /\ t \notin keSat[o] \cup ws
      BY <1>0, <1>1, <1>5, <1>6, <1>7, <1>9, <1>10 DEF KeShape, KeOwned
    <2>3. keSat[o] \cup ws = {}
      BY <1>9, Zenon
    <2> HIDE DEF k, m, ws
    <2> QED BY <1>2, <1>3, <1>4, <1>7, <1>8, <2>1, <2>2, <2>3, MutantStep, Zenon
  <1>11. ASSUME keCount[o] = 1, NEW w \in KeOldest(o, 1), KeHandOver(o, w) PROVE KeIInv'
    <2> DEFINE k == 1
               m == 0
               W == {w}
    <2>1. w \in KeWaiters(o) /\ w \in KeThreads /\ w # t
      <3>1. KeOldest(o, 1) \subseteq KeWaiters(o) /\ KeWaiters(o) \subseteq KeThreads
        BY <1>0, OldestWait
      <3>2. t \notin KeWaiters(o)
        BY <1>2, Zenon
      <3> QED BY <1>11, <3>1, <3>2, Zenon
    <2>2. /\ keCount' = [keCount EXCEPT ![o] = k] /\ keState' = [keState EXCEPT ![o] = m]
          /\ keOwner' = [keOwner EXCEPT ![o] = w] /\ keSat' = [keSat EXCEPT ![o] = @ \cup W]
      BY <1>11, Zenon DEF KeHandOver, KeSetState, KeSatisfy
    <2>3. ~(h > 0)
      BY <1>5, <1>6, <1>7, <1>11
    <2>4. keHeld[w][o] < k
      BY <1>0, <1>8, <2>1 DEF KeShape
    <2>5. /\ k \in Nat /\ m \in Int /\ ~(m > 0) /\ W \in SUBSET KeThreads /\ W \subseteq KeWaiters(o)
          /\ t \notin keSat[o] \cup W /\ \A u \in keSat[o] \cup W : u = w
      BY <1>9, <2>1
    <2> HIDE DEF k, m, W
    <2> QED BY <1>2, <1>3, <1>4, <1>7, <1>8, <2>1, <2>2, <2>3, <2>4, <2>5, MutantStep, Zenon
  <1>12. ASSUME keCount[o] = 1, keOwner' = [keOwner EXCEPT ![o] = KeNoOne],
                keCount' = [keCount EXCEPT ![o] = 0], KeSetState(o, 1), KeSatisfy(o, {})
         PROVE  KeIInv'
    <2> DEFINE k == 0
               m == 1
    <2>1. /\ keCount' = [keCount EXCEPT ![o] = k] /\ keState' = [keState EXCEPT ![o] = m]
          /\ keSat' = [keSat EXCEPT ![o] = @ \cup ws]
      BY <1>12, Zenon DEF KeSetState, KeSatisfy
    <2>2. ~(h > 0)
      BY SMTT(30), <1>5, <1>6, <1>7, <1>12
    <2>3. k \in Nat /\ m \in Int /\ t \notin keSat[o] \cup ws /\ keSat[o] \cup ws = {}
      BY SMTT(30), <1>9
    <2> HIDE DEF k, m, ws
    <2> QED BY <1>2, <1>3, <1>4, <1>7, <1>8, <1>12, <2>1, <2>2, <2>3, MutantStep, Zenon
  <1> QED BY <1>10, <1>11, <1>12, Zenon DEF KeReleaseMutant

=============================================================================
