--------------------------- MODULE EventFdProofs ---------------------------
(***************************************************************************)
(* Proofs about EventFd for any number of threads, descriptors and slots:  *)
(* type correctness and the absence of lost wake-ups of blocking reads.    *)
(***************************************************************************)
EXTENDS EventFd, FiniteSetTheorems, WellFoundedInduction, TLAPS

\* Where a call goes on after eventfd::close (and the wake-up it may cause).
EvConts == {"idle", "clear", "unlock", "put", "purged"}

\* The pcs of a call of read(2) that has resolved its descriptor.
EvReading == {"try", "sig", "park", "parked"}

\* The pcs of a call of poll, select or epoll_wait.
EvScanning == {"scan", "scanlevel", "scanrise", "scanned", "bell", "belled", "store"}

\* The locals the argument needs: all fields there, and slots where slots belong.
EvRegOK(pc, reg) ==
    /\ DOMAIN reg = DOMAIN NoReg
    /\ pc \notin EvScanning => reg.slot \in EvSlots \cup {NoSlot}
    /\ reg.val \in Nat
    /\ reg.cont \in EvConts
    /\ pc \in EvReading \cup {"add", "install"} => reg.id \in EvSlots

EvLocals ==
    /\ evPc = [t \in EvThreads |-> evPc[t]]
    /\ evReg = [t \in EvThreads |-> evReg[t]]
    /\ \A t \in EvThreads : EvRegOK(evPc[t], evReg[t])

EvEntry == [in_use : BOOLEAN, counter : 0 .. EvMax, sem : BOOLEAN, refs : Nat, rise_seq : Nat]

EvData ==
    /\ evTable \in [EvSlots -> EvEntry]
    /\ \A s \in EvSlots : ~evTable[s].in_use => evTable[s] = EmptySlot
    /\ evFd \in [EvFds -> EvSlots \cup {NoSlot}]

EvWaits ==
    /\ evWaiters \in [EvSlots -> SUBSET EvThreads]
    /\ evBell \subseteq EvThreads
    /\ evRun \in [EvThreads -> {"ready", "blocked"}]

\* A reader on a slot that is readable or freed has something to be woken for.
EvDue(s) == evTable[s].counter > 0 \/ ~evTable[s].in_use

\* A thread on the list of a slot is parked there.
EvListed ==
    \A s \in EvSlots : \A t \in evWaiters[s] : evPc[t] = "parked" /\ evReg[t].id = s

\* A blocked reader is on the list of its slot, or in the hands of a waker.
EvNoOrphan ==
    \A t \in EvThreads : evPc[t] = "parked" /\ evRun[t] = "blocked" =>
        \/ t \in evWaiters[evReg[t].id]
        \/ \E u \in EvThreads : evPc[u] = "wake" /\ t \in evReg[u].drained

\* A list whose slot is readable or freed is about to be drained.
EvDrainDue ==
    \A s \in EvSlots : evWaiters[s] # {} /\ EvDue(s) =>
        \E u \in EvThreads : evPc[u] = "drain" /\ evReg[u].id = s

EvNoLoss == EvListed /\ EvNoOrphan /\ EvDrainDue

EvIInv == EvLocals /\ EvData /\ EvWaits /\ EvNoLoss

----------------------------------------------------------------------------
(* Facts about constants, registers and steps that leave the lists alone.  *)

LEMMA ConstantFacts ==
    /\ NoSlot \notin EvSlots /\ EvSlots \subseteq Nat
    /\ \A t \in EvThreads : EvFdsOf[t] \subseteq EvFds
    /\ EvFds \subseteq Nat /\ EvPosts \subseteq Nat /\ EvInits \subseteq 0 .. EvMax
    /\ EvMax \in Nat /\ EvModes \subseteq BOOLEAN
  BY EventFdAssumption DEF NoSlot

LEMMA MinIn ==
    ASSUME NEW S \in SUBSET Nat, S # {}
    PROVE  Min(S) \in S
<1>1. PICK i \in S : \A j \in S : ~(<<j, i>> \in OpToRel(<, Nat))
  BY NatLessThanWellFounded, WFMin, Zenon
<1>2. ASSUME NEW j \in S PROVE i <= j
  <2>1. i \in Nat /\ j \in Nat
    BY Zenon
  <2>2. ~(j < i)
    BY <1>1, <2>1, Zenon DEF OpToRel
  <2> QED BY <2>1, <2>2
<1> QED BY <1>2, Zenon DEF Min

LEMMA NoRegOK ==
    ASSUME NEW pc, pc \notin EvReading \cup {"add", "install"}
    PROVE  EvRegOK(pc, NoReg)
  BY Zenon DEF EvRegOK, NoReg, EvConts

\* A step of t that only moves t, to pc with locals reg.
LEMMA GoLocals ==
    ASSUME EvLocals, NEW t \in EvThreads, NEW pc, NEW reg,
           EvGo(t, pc, reg), EvRegOK(pc, reg)
    PROVE  /\ EvLocals'
           /\ evPc'[t] = pc /\ evReg'[t] = reg
           /\ \A u \in EvThreads \ {t} : evPc'[u] = evPc[u] /\ evReg'[u] = evReg[u]
<1>1. /\ evPc = [u \in EvThreads |-> evPc[u]] /\ evReg = [u \in EvThreads |-> evReg[u]]
      /\ evPc' = [evPc EXCEPT ![t] = pc] /\ evReg' = [evReg EXCEPT ![t] = reg]
  BY Zenon DEF EvLocals, EvGo
<1>2. /\ evPc'[t] = pc /\ evReg'[t] = reg
      /\ \A u \in EvThreads \ {t} : evPc'[u] = evPc[u] /\ evReg'[u] = evReg[u]
      /\ evPc' = [u \in EvThreads |-> evPc'[u]] /\ evReg' = [u \in EvThreads |-> evReg'[u]]
  BY <1>1, Zenon
<1>3. \A u \in EvThreads : EvRegOK(evPc'[u], evReg'[u])
  BY <1>2, Zenon DEF EvLocals
<1> QED BY <1>2, <1>3, Zenon DEF EvLocals, EvRegOK

\* A step of t outside the wait for a counter: it touches no list, blocks no
\* reader, and gives no reader a reason to be woken.
EvAside == {"parked", "drain", "wake"}

EvQuiet(t) ==
    /\ evPc[t] \notin EvAside /\ evPc'[t] \notin EvAside
    /\ \A u \in EvThreads \ {t} : evPc'[u] = evPc[u] /\ evReg'[u] = evReg[u]
    /\ UNCHANGED evWaiters
    /\ \A u \in EvThreads \ {t} : evRun'[u] = "blocked" => evRun[u] = "blocked"
    /\ \A s \in EvSlots : EvDue(s)' => EvDue(s)

LEMMA QuietStep ==
    ASSUME NEW t \in EvThreads, EvLocals, EvWaits, EvNoLoss, EvQuiet(t)
    PROVE  EvNoLoss'
<1>1. EvListed'
  BY DEF EvNoLoss, EvListed, EvQuiet, EvAside, EvWaits
<1>2. EvNoOrphan'
  BY Zenon DEF EvNoLoss, EvNoOrphan, EvQuiet, EvAside
<1>3. EvDrainDue'
  BY DEF EvNoLoss, EvDrainDue, EvQuiet, EvAside
<1> QED BY <1>1, <1>2, <1>3, Zenon DEF EvNoLoss

\* The invariant after a quiet step that moves t to pc with locals reg.
LEMMA MoveStep ==
    ASSUME NEW t \in EvThreads, EvIInv, NEW pc, NEW reg,
           EvGo(t, pc, reg), EvRegOK(pc, reg),
           evPc[t] \notin EvAside, pc \notin EvAside,
           EvData', EvWaits', UNCHANGED evWaiters,
           \A u \in EvThreads \ {t} : evRun'[u] = "blocked" => evRun[u] = "blocked",
           \A s \in EvSlots : EvDue(s)' => EvDue(s)
    PROVE  EvIInv'
<1>1. EvLocals /\ EvWaits /\ EvNoLoss
  BY Zenon DEF EvIInv
<1>2. /\ EvLocals' /\ evPc'[t] = pc
      /\ \A u \in EvThreads \ {t} : evPc'[u] = evPc[u] /\ evReg'[u] = evReg[u]
  BY <1>1, GoLocals, Zenon
<1>3. EvQuiet(t)
  BY <1>2, Zenon DEF EvQuiet
<1> QED BY <1>1, <1>2, <1>3, QuietStep, Zenon DEF EvIInv

\* The same when nothing but the thread, locks, watches and signals changes.
LEMMA LocalStep ==
    ASSUME NEW t \in EvThreads, EvIInv, NEW pc, NEW reg,
           EvGo(t, pc, reg), EvRegOK(pc, reg),
           evPc[t] \notin EvAside, pc \notin EvAside,
           UNCHANGED <<evTable, evWaiters, evBell, evFd, evRun>>
    PROVE  EvIInv'
<1>1. EvData' /\ EvWaits' /\ (\A s \in EvSlots : EvDue(s)' => EvDue(s))
  BY Zenon DEF EvIInv, EvData, EvWaits, EvDue
<1> QED BY <1>1, MoveStep, Zenon

\* The same when t does not move either.
LEMMA StillStep ==
    ASSUME EvIInv, UNCHANGED <<evTable, evWaiters, evBell, evFd, evPc, evReg>>,
           evRun' \in [EvThreads -> {"ready", "blocked"}],
           \A u \in EvThreads : evRun'[u] = "blocked" => evRun[u] = "blocked"
    PROVE  EvIInv'
<1>1. EvLocals' /\ EvData' /\ EvWaits'
  BY Zenon DEF EvIInv, EvLocals, EvRegOK, EvData, EvWaits
<1>2. EvNoLoss'
  BY DEF EvIInv, EvNoLoss, EvListed, EvNoOrphan, EvDrainDue, EvDue
<1> QED BY <1>1, <1>2, Zenon DEF EvIInv

\* What the invariant says of one thread.
LEMMA RegFacts ==
    ASSUME EvIInv, NEW t \in EvThreads
    PROVE  EvRegOK(evPc[t], evReg[t])
  BY Zenon DEF EvIInv, EvLocals

LEMMA ReturnStep ==
    ASSUME NEW t \in EvThreads, EvIInv, EvReturn(t), evPc[t] \notin EvAside,
           UNCHANGED <<evTable, evWaiters, evBell, evFd, evRun>>
    PROVE  EvIInv'
<1>1. EvRegOK("idle", NoReg)
  BY NoRegOK, Zenon DEF EvReading
<1> QED BY <1>1, LocalStep, Zenon DEF EvReturn, EvAside

LEMMA ReadStep ==
    ASSUME NEW t \in EvThreads, EvIInv, EvRead(t)
    PROVE  EvIInv'
<1>1. PICK f \in EvFdsOf[t], nb \in EvNonblock :
        evFd[f] # NoSlot /\ EvGo(t, "try", [NoReg EXCEPT !.id = evFd[f], !.nb = nb])
  BY Zenon DEF EvRead
<1>2. evFd[f] \in EvSlots
  BY <1>1, ConstantFacts, Zenon DEF EvIInv, EvData
<1>3. EvRegOK("try", [NoReg EXCEPT !.id = evFd[f], !.nb = nb])
  BY <1>2, Zenon DEF EvRegOK, NoReg, EvConts
<1>4. PICK reg : EvGo(t, "try", reg) /\ EvRegOK("try", reg)
  BY <1>1, <1>3, Zenon
<1>5. evPc[t] = "idle" /\ UNCHANGED <<evTable, evWaiters, evBell, evFd, evRun>>
  BY Zenon DEF EvRead, EvBegin, At
<1> QED BY <1>4, <1>5, LocalStep, Zenon DEF EvAside

LEMMA ReadSigStep ==
    ASSUME NEW t \in EvThreads, EvIInv, EvReadSig(t)
    PROVE  EvIInv'
<1>1. EvRegOK("park", evReg[t])
  BY RegFacts, Zenon DEF EvReadSig, At, EvRegOK, EvReading, EvScanning
<1> QED BY <1>1, LocalStep, ReturnStep, Zenon DEF EvReadSig, At, EvAside

LEMMA WriteStep ==
    ASSUME NEW t \in EvThreads, EvIInv, EvWrite(t)
    PROVE  EvIInv'
<1>1. PICK f \in EvFdsOf[t], v \in EvPosts :
        evFd[f] # NoSlot /\ EvGo(t, "add", [NoReg EXCEPT !.id = evFd[f], !.val = v])
  BY Zenon DEF EvWrite
<1>2. evFd[f] \in EvSlots /\ v \in Nat
  BY <1>1, ConstantFacts, Zenon DEF EvIInv, EvData
<1>3. EvRegOK("add", [NoReg EXCEPT !.id = evFd[f], !.val = v])
  BY <1>2, Zenon DEF EvRegOK, NoReg, EvConts
<1>4. PICK reg : EvGo(t, "add", reg) /\ EvRegOK("add", reg)
  BY <1>1, <1>3, Zenon
<1>5. evPc[t] = "idle" /\ UNCHANGED <<evTable, evWaiters, evBell, evFd, evRun>>
  BY Zenon DEF EvWrite, EvBegin, At
<1> QED BY <1>4, <1>5, LocalStep, Zenon DEF EvAside

LEMMA CloseStep ==
    ASSUME NEW t \in EvThreads, EvIInv, EvClose(t)
    PROVE  EvIInv'
<1>1. PICK f \in EvFdsOf[t] : 
        EvGo(t, "drop", [NoReg EXCEPT !.fd = f, !.id = evFd[f], !.cont = "clear"])
  BY Zenon DEF EvClose
<1>2. evFd[f] \in EvSlots \cup {NoSlot}
  BY <1>1, ConstantFacts, Zenon DEF EvIInv, EvData
<1>3. EvRegOK("drop", [NoReg EXCEPT !.fd = f, !.id = evFd[f], !.cont = "clear"])
  BY <1>2, Zenon DEF EvRegOK, NoReg, EvConts, EvReading
<1>4. PICK reg : EvGo(t, "drop", reg) /\ EvRegOK("drop", reg)
  BY <1>1, <1>3, Zenon
<1>5. evPc[t] = "idle" /\ UNCHANGED <<evTable, evWaiters, evBell, evFd, evRun>>
  BY Zenon DEF EvClose, EvBegin, At
<1> QED BY <1>4, <1>5, LocalStep, Zenon DEF EvAside

\* Locals that agree with good ones on the fields something is required of.
LEMMA LikeOK ==
    ASSUME NEW pc0, NEW reg0, EvRegOK(pc0, reg0), NEW pc, NEW reg,
           pc \notin EvReading \cup {"add", "install"}, pc \in EvScanning,
           DOMAIN reg = DOMAIN reg0,
           \A x \in {"id", "val", "cont"} : reg[x] = reg0[x]
    PROVE  EvRegOK(pc, reg)
  BY Zenon DEF EvRegOK

LEMMA ScanRegOK ==
    ASSUME NEW pc0, NEW reg, NEW phase, EvRegOK(pc0, reg), NEW pc \in {"scan", "scanned"}
    PROVE  EvRegOK(pc, ScanReg(reg, phase))
<1> DEFINE r == ScanReg(reg, phase)
<1>0. DOMAIN reg = DOMAIN NoReg
  BY Zenon DEF EvRegOK
<1>1. DOMAIN r = DOMAIN reg
  BY Zenon DEF ScanReg
<1>2. \A x \in {"id", "val", "cont"} : r[x] = reg[x]
  BY <1>0, Zenon DEF ScanReg, NoReg
<1> HIDE DEF r
<1>3. pc \notin EvReading \cup {"add", "install"} /\ pc \in EvScanning
  BY Zenon DEF EvReading, EvScanning
<1>4. EvRegOK(pc, r)
  BY <1>1, <1>2, <1>3, LikeOK, Zenon
<1> QED BY <1>4, Zenon DEF r

\* The start of a scan (do_poll) is quiet, whatever it does to the bell.
LEMMA ScanFromStep ==
    ASSUME NEW t \in EvThreads, EvIInv, NEW reg, NEW phase, NEW pc0,
           EvScanFrom(t, reg, phase), EvRegOK(pc0, reg), evPc[t] \notin EvAside,
           UNCHANGED <<evTable, evWaiters, evFd, evRun>>, evBell' \subseteq EvThreads
    PROVE  EvIInv'
<1>1. PICK pc \in {"scan", "scanned"} : EvGo(t, pc, ScanReg(reg, phase))
  BY Zenon DEF EvScanFrom
<1>2. EvRegOK(pc, ScanReg(reg, phase))
  BY ScanRegOK, Zenon
<1>3. PICK r : EvGo(t, pc, r) /\ EvRegOK(pc, r)
  BY <1>1, <1>2, Zenon
<1>4. EvData' /\ EvWaits' /\ (\A s \in EvSlots : EvDue(s)' => EvDue(s))
  BY Zenon DEF EvIInv, EvData, EvWaits, EvDue
<1> QED BY <1>3, <1>4, MoveStep, Zenon DEF EvAside

LEMMA EpollWaitStep ==
    ASSUME NEW t \in EvThreads, EvIInv, EvEpollWait(t)
    PROVE  EvIInv'
<1>1. /\ evPc[t] = "idle" /\ UNCHANGED <<evTable, evWaiters, evFd, evRun, evBell>>
      /\ \E tmo, snap : EvScanFrom(t, [NoReg EXCEPT !.call = "epoll", !.tmo = tmo, !.snap = snap], "first")
  BY Zenon DEF EvEpollWait, EvBegin, At
<1>2. \A tmo, snap : EvRegOK("idle", [NoReg EXCEPT !.call = "epoll", !.tmo = tmo, !.snap = snap])
  BY Zenon DEF EvRegOK, NoReg, EvReading, EvConts
<1>3. PICK reg : EvScanFrom(t, reg, "first") /\ EvRegOK("idle", reg)
  BY <1>1, <1>2, Zenon
<1>4. evBell' \subseteq EvThreads
  BY <1>1, Zenon DEF EvIInv, EvWaits
<1> QED BY <1>1, <1>3, <1>4, ScanFromStep, Zenon DEF EvAside

LEMMA PollStep ==
    ASSUME NEW t \in EvThreads, EvIInv, EvPoll(t)
    PROVE  EvIInv'
<1>1. /\ evPc[t] = "idle" /\ UNCHANGED <<evTable, evWaiters, evFd, evRun, evBell>>
      /\ \E call, tmo, snap :
            EvScanFrom(t, [NoReg EXCEPT !.call = call, !.tmo = tmo, !.snap = snap], "first")
  BY Zenon DEF EvPoll, EvBegin, At
<1>2. \A call, tmo, snap : EvRegOK("idle", [NoReg EXCEPT !.call = call, !.tmo = tmo, !.snap = snap])
  BY DEF EvRegOK, NoReg, EvReading, EvConts
<1>3. PICK reg : EvScanFrom(t, reg, "first") /\ EvRegOK("idle", reg)
  BY <1>1, <1>2, Zenon
<1>4. evBell' \subseteq EvThreads
  BY <1>1, Zenon DEF EvIInv, EvWaits
<1> QED BY <1>1, <1>3, <1>4, ScanFromStep, Zenon DEF EvAside

LEMMA ScanFdStep ==
    ASSUME NEW t \in EvThreads, EvIInv, EvScanFd(t)
    PROVE  EvIInv'
<1> DEFINE s == evFd[evReg[t].snap[evReg[t].i].fd]
<1>1. /\ evPc[t] = "scan" /\ UNCHANGED <<evTable, evWaiters, evFd, evRun, evBell>>
      /\ \/ EvGo(t, "scanrise", [evReg[t] EXCEPT !.lev = {"ERR"}])
         \/ EvGo(t, "scanlevel", [evReg[t] EXCEPT !.slot = s])
  BY Zenon DEF EvScanFd, At
<1> HIDE DEF s
<1>2. EvRegOK("scan", evReg[t])
  BY <1>1, RegFacts, Zenon
<1>3. /\ EvRegOK("scanrise", [evReg[t] EXCEPT !.lev = {"ERR"}])
      /\ EvRegOK("scanlevel", [evReg[t] EXCEPT !.slot = s])
  BY <1>2, Zenon DEF EvRegOK, EvReading, EvScanning, NoReg
<1> QED BY <1>1, <1>3, LocalStep DEF EvAside

LEMMA ScanLevelStep ==
    ASSUME NEW t \in EvThreads, EvIInv, EvScanLevel(t)
    PROVE  EvIInv'
<1> DEFINE lev == IF Readable(evReg[t].slot) THEN {"IN"} ELSE {}
           r == [evReg[t] EXCEPT !.slot = NoSlot, !.lev = lev]
<1>1. /\ evPc[t] = "scanlevel" /\ UNCHANGED <<evTable, evWaiters, evFd, evRun, evBell>>
      /\ EvGo(t, "scanrise", r)
  BY Zenon DEF EvScanLevel, At
<1>2. EvRegOK("scanlevel", evReg[t])
  BY <1>1, RegFacts, Zenon
<1> HIDE DEF lev
<1>3. EvRegOK("scanrise", r)
  BY <1>2, Zenon DEF EvRegOK, EvReading, EvScanning, NoReg
<1> HIDE DEF r
<1> QED BY <1>1, <1>3, LocalStep, Zenon DEF EvAside

LEMMA ScanRiseStep ==
    ASSUME NEW t \in EvThreads, EvIInv, EvScanRise(t)
    PROVE  EvIInv'
<1>1. /\ evPc[t] = "scanrise" /\ UNCHANGED <<evTable, evWaiters, evFd, evRun, evBell>>
      /\ \E pc \in {"scan", "scanned"} : \E next, fired, edges :
            EvGo(t, pc, [evReg[t] EXCEPT !.i = next, !.lev = {}, !.fired = fired, !.edges = edges])
  BY Zenon DEF EvScanRise, At
<1>2. EvRegOK("scanrise", evReg[t])
  BY <1>1, RegFacts, Zenon
<1>3. ASSUME NEW pc \in {"scan", "scanned"}, NEW next, NEW fired, NEW edges
      PROVE  EvRegOK(pc, [evReg[t] EXCEPT !.i = next, !.lev = {}, !.fired = fired, !.edges = edges])
  BY <1>2, Zenon DEF EvRegOK, EvReading, EvScanning, NoReg
<1>4. PICK pc \in {"scan", "scanned"} : \E r : EvGo(t, pc, r) /\ EvRegOK(pc, r)
  BY <1>1, <1>3, Zenon
<1> QED BY <1>1, <1>4, LocalStep, Zenon DEF EvAside

\* The end of a call of poll, select or epoll_wait.
LEMMA FinishStep ==
    ASSUME NEW t \in EvThreads, EvIInv, EvFinish(t), evPc[t] \notin EvAside,
           UNCHANGED <<evTable, evWaiters, evBell, evFd, evRun>>
    PROVE  EvIInv'
<1>1. evBell' \subseteq EvThreads
  BY Zenon DEF EvIInv, EvWaits
<1> QED BY <1>1, RegFacts, ScanFromStep, ReturnStep, Zenon DEF EvFinish, EvReport

LEMMA ScannedStep ==
    ASSUME NEW t \in EvThreads, EvIInv, EvScanned(t)
    PROVE  EvIInv'
<1>1. /\ evPc[t] = "scanned" /\ UNCHANGED <<evTable, evWaiters, evFd, evRun, evBell>>
      /\ \/ EvFinish(t) \/ EvReturn(t)
         \/ \E pc \in {"bell", "store"} : EvGo(t, pc, evReg[t])
         \/ EvGo(t, "bell", [evReg[t] EXCEPT !.snap = <<>>])
         \/ \E phase : EvScanFrom(t, evReg[t], phase)
  BY Zenon DEF EvScanned, EvReport, At
<1>2. EvRegOK("scanned", evReg[t])
  BY <1>1, RegFacts, Zenon
<1>3. /\ EvRegOK("bell", [evReg[t] EXCEPT !.snap = <<>>])
      /\ EvRegOK("bell", evReg[t]) /\ EvRegOK("store", evReg[t])
  BY <1>2, Zenon DEF EvRegOK, EvReading, EvScanning, NoReg
<1>4. evPc[t] \notin EvAside /\ "bell" \notin EvAside /\ "store" \notin EvAside
  BY <1>1, Zenon DEF EvAside
<1>5. evBell' \subseteq EvThreads
  BY <1>1, Zenon DEF EvIInv, EvWaits
<1>6. CASE \E pc \in {"bell", "store"} : EvGo(t, pc, evReg[t])
  BY <1>1, <1>3, <1>4, <1>6, LocalStep, Zenon
<1>7. CASE EvGo(t, "bell", [evReg[t] EXCEPT !.snap = <<>>])
  BY <1>1, <1>3, <1>4, <1>7, LocalStep, Zenon
<1>8. CASE \E phase : EvScanFrom(t, evReg[t], phase)
  BY <1>1, <1>2, <1>4, <1>5, <1>8, ScanFromStep, Zenon
<1> QED BY <1>1, <1>4, <1>6, <1>7, <1>8, FinishStep, ReturnStep, Zenon

LEMMA BellLockStep ==
    ASSUME NEW t \in EvThreads, EvIInv, EvBellLock(t)
    PROVE  EvIInv'
<1>1. evBell' \subseteq EvThreads
  BY Zenon DEF EvBellLock, EvIInv, EvWaits
<1> QED BY <1>1, RegFacts, ScanFromStep, Zenon DEF EvBellLock, At, EvAside

LEMMA BellWokenStep ==
    ASSUME NEW t \in EvThreads, EvIInv, EvBellWoken(t)
    PROVE  EvIInv'
<1>1. evBell' \subseteq EvThreads
  BY Zenon DEF EvBellWoken, EvIInv, EvWaits
<1> QED BY <1>1, RegFacts, ScanFromStep, Zenon DEF EvBellWoken, At, EvAside

LEMMA BellParkStep ==
    ASSUME NEW t \in EvThreads, EvIInv, EvBellPark(t)
    PROVE  EvIInv'
<1>1. /\ evPc[t] = "scanned" /\ UNCHANGED <<evTable, evWaiters, evFd>>
      /\ \/ (\E phase : EvScanFrom(t, evReg[t], phase)) /\ UNCHANGED <<evBell, evRun>>
         \/ /\ evBell' = evBell \cup {t} /\ evRun' = [evRun EXCEPT ![t] = "blocked"]
            /\ EvGo(t, "belled", evReg[t])
  BY Zenon DEF EvBellPark, At
<1>2. EvRegOK("scanned", evReg[t])
  BY <1>1, RegFacts, Zenon
<1>3. CASE (\E phase : EvScanFrom(t, evReg[t], phase)) /\ UNCHANGED <<evBell, evRun>>
  <2>1. evBell' \subseteq EvThreads
    BY <1>3, Zenon DEF EvIInv, EvWaits
  <2> QED BY <1>1, <1>2, <1>3, <2>1, ScanFromStep, Zenon DEF EvAside
<1>4. CASE /\ evBell' = evBell \cup {t} /\ evRun' = [evRun EXCEPT ![t] = "blocked"]
           /\ EvGo(t, "belled", evReg[t])
  <2>1. EvRegOK("belled", evReg[t])
    BY <1>2, Zenon DEF EvRegOK, EvReading, EvScanning
  <2>2. /\ EvData' /\ EvWaits' /\ (\A s \in EvSlots : EvDue(s)' => EvDue(s))
        /\ \A u \in EvThreads \ {t} : evRun'[u] = "blocked" => evRun[u] = "blocked"
    BY <1>1, <1>4, Zenon DEF EvIInv, EvData, EvWaits, EvDue
  <2> QED BY <1>1, <1>4, <2>1, <2>2, MoveStep, Zenon DEF EvAside
<1> QED BY <1>1, <1>3, <1>4, Zenon

LEMMA StoreStep ==
    ASSUME NEW t \in EvThreads, EvIInv, EvStore(t)
    PROVE  EvIInv'
<1>1. /\ evPc[t] = "store" /\ UNCHANGED <<evTable, evWaiters, evBell, evFd, evRun>>
      /\ EvReturn(t)
  BY Zenon DEF EvStore, EvReport, At
<1> QED BY <1>1, ReturnStep, Zenon DEF EvAside

-----------------------------------------------------------------------------
(* The wait for a counter: read(2), write(2) and wake_readers_all.          *)

\* One entry of TABLE changes.
LEMMA SetEntry ==
    ASSUME EvData, UNCHANGED evFd, NEW s \in EvSlots, NEW e \in EvEntry,
           e.in_use \/ e = EmptySlot, evTable' = [evTable EXCEPT ![s] = e]
    PROVE  /\ EvData' /\ evTable'[s] = e
           /\ \A r \in EvSlots \ {s} : evTable'[r] = evTable[r] /\ (EvDue(r)' => EvDue(r))
  BY Zenon DEF EvData, EvDue

LEMMA TryReadStep ==
    ASSUME NEW t \in EvThreads, EvIInv, EvTryRead(t)
    PROVE  EvIInv'
<1> DEFINE s == evReg[t].id
<1>1. evPc[t] = "try" /\ UNCHANGED <<evWaiters, evBell, evFd, evRun>>
  BY Zenon DEF EvTryRead, At
<1>2. EvRegOK("try", evReg[t]) /\ s \in EvSlots
  BY <1>1, RegFacts, Zenon DEF EvRegOK, EvReading
<1>3. CASE UNCHANGED evTable /\ (EvReturn(t) \/ EvGo(t, "sig", evReg[t]))
  <2>1. EvRegOK("sig", evReg[t])
    BY <1>2, Zenon DEF EvRegOK, EvReading, EvScanning
  <2> QED BY <1>1, <1>3, <2>1, LocalStep, ReturnStep, Zenon DEF EvAside
<1>4. CASE /\ evTable[s].in_use /\ evTable[s].counter # 0
           /\ evTable' = [evTable EXCEPT ![s].counter = IF evTable[s].sem THEN @ - 1 ELSE 0]
           /\ EvReturn(t)
  <2> DEFINE e == evTable[s]
             g == [e EXCEPT !.counter = IF e.sem THEN e.counter - 1 ELSE 0]
  <2>0. e \in EvEntry /\ evTable' = [evTable EXCEPT ![s] = g]
    BY <1>2, <1>4, Zenon DEF EvIInv, EvData
  <2>3. g \in EvEntry /\ g.in_use /\ e.counter > 0
    BY <1>4, <2>0, ConstantFacts DEF EvEntry
  <2> HIDE DEF g
  <2>4. /\ EvData' /\ evTable'[s] = g /\ \A r \in EvSlots \ {s} : EvDue(r)' => EvDue(r)
    BY <1>1, <1>2, <2>0, <2>3, SetEntry, Zenon DEF EvIInv
  <2>1. EvData' /\ EvWaits' /\ (\A u \in EvSlots : EvDue(u)' => EvDue(u))
    BY <1>1, <2>3, <2>4, Zenon DEF EvIInv, EvWaits, EvDue
  <2>2. EvRegOK("idle", NoReg)
    BY NoRegOK, Zenon DEF EvReading
  <2> QED BY <1>1, <1>4, <2>1, <2>2, MoveStep, Zenon DEF EvReturn, EvAside
<1> QED BY <1>3, <1>4, Zenon DEF EvTryRead

\* The reader enqueues itself on a slot that gives it no reason to be woken.
LEMMA ParkStep ==
    ASSUME NEW t \in EvThreads, EvIInv, EvPark(t)
    PROVE  EvIInv'
<1> DEFINE s == evReg[t].id
<1>1. evPc[t] = "park" /\ UNCHANGED <<evTable, evBell, evFd>>
  BY Zenon DEF EvPark, At
<1>2. EvRegOK("park", evReg[t]) /\ s \in EvSlots
  BY <1>1, RegFacts, Zenon DEF EvRegOK, EvReading
<1>3. CASE UNCHANGED <<evWaiters, evRun>> /\ (EvReturn(t) \/ EvGo(t, "try", evReg[t]))
  <2>1. EvRegOK("try", evReg[t])
    BY <1>2, Zenon DEF EvRegOK, EvReading, EvScanning
  <2> QED BY <1>1, <1>3, <2>1, LocalStep, ReturnStep, Zenon DEF EvAside
<1>4. CASE /\ evTable[s].in_use /\ ~(evTable[s].counter > 0)
           /\ evWaiters' = [evWaiters EXCEPT ![s] = @ \cup {t}]
           /\ evRun' = [evRun EXCEPT ![t] = "blocked"]
           /\ EvGo(t, "parked", evReg[t])
  <2>1. EvRegOK("parked", evReg[t])
    BY <1>2, Zenon DEF EvRegOK, EvReading, EvScanning
  <2>2. /\ EvLocals' /\ evPc'[t] = "parked" /\ evReg'[t] = evReg[t]
        /\ \A u \in EvThreads \ {t} : evPc'[u] = evPc[u] /\ evReg'[u] = evReg[u]
    BY <1>4, <2>1, GoLocals, Zenon DEF EvIInv
  <2>3. EvData' /\ EvWaits'
    BY <1>1, <1>2, <1>4, Zenon DEF EvIInv, EvData, EvWaits
  <2>4. /\ evWaiters'[s] = evWaiters[s] \cup {t}
        /\ \A r \in EvSlots \ {s} : evWaiters'[r] = evWaiters[r]
        /\ \A u \in EvThreads \ {t} : evRun'[u] = evRun[u]
    BY <1>2, <1>4, Zenon DEF EvIInv, EvWaits
  <2>5. EvListed'
    BY <1>1, <1>2, <2>2, <2>4 DEF EvIInv, EvNoLoss, EvListed, EvWaits
  <2>6. EvNoOrphan'
    BY <1>1, <1>2, <2>2, <2>4 DEF EvIInv, EvNoLoss, EvNoOrphan, EvLocals, EvRegOK, EvReading
  <2>7. EvDrainDue'
    BY <1>1, <1>2, <1>4, <2>2, <2>4 DEF EvIInv, EvNoLoss, EvDrainDue, EvDue
  <2> QED BY <2>2, <2>3, <2>5, <2>6, <2>7, Zenon DEF EvIInv, EvNoLoss
<1> QED BY <1>3, <1>4, Zenon DEF EvPark

LEMMA UnparkStep ==
    ASSUME NEW t \in EvThreads, EvIInv, EvUnpark(t)
    PROVE  EvIInv'
<1> DEFINE s == evReg[t].id
<1>1. /\ evPc[t] = "parked" /\ evRun[t] = "ready" /\ UNCHANGED <<evTable, evBell, evFd, evRun>>
      /\ evWaiters' = [evWaiters EXCEPT ![s] = @ \ {t}] /\ EvGo(t, "try", evReg[t])
  BY Zenon DEF EvUnpark, At
<1>2. EvRegOK("parked", evReg[t]) /\ s \in EvSlots
  BY <1>1, RegFacts, Zenon DEF EvRegOK, EvReading
<1>3. EvRegOK("try", evReg[t])
  BY <1>2, Zenon DEF EvRegOK, EvReading, EvScanning
<1>4. /\ EvLocals' /\ evPc'[t] = "try" /\ evReg'[t] = evReg[t]
      /\ \A u \in EvThreads \ {t} : evPc'[u] = evPc[u] /\ evReg'[u] = evReg[u]
  BY <1>1, <1>3, GoLocals, Zenon DEF EvIInv
<1>5. EvData' /\ EvWaits'
  BY <1>1, <1>2, Zenon DEF EvIInv, EvData, EvWaits
<1>6. /\ evWaiters'[s] = evWaiters[s] \ {t}
      /\ \A r \in EvSlots \ {s} : evWaiters'[r] = evWaiters[r]
  BY <1>1, <1>2, Zenon DEF EvIInv, EvWaits
<1>7. EvListed'
  BY <1>1, <1>2, <1>4, <1>6 DEF EvIInv, EvNoLoss, EvListed, EvWaits
<1>8. EvNoOrphan'
  BY <1>1, <1>2, <1>4, <1>6 DEF EvIInv, EvNoLoss, EvNoOrphan, EvLocals, EvRegOK, EvReading
<1>9. EvDrainDue'
  BY <1>1, <1>2, <1>4, <1>6 DEF EvIInv, EvNoLoss, EvDrainDue, EvDue
<1> QED BY <1>4, <1>5, <1>7, <1>8, <1>9, Zenon DEF EvIInv, EvNoLoss

\* A thread that just changed slot s goes on to drain its list.
LEMMA SignalStep ==
    ASSUME NEW t \in EvThreads, EvIInv, evPc[t] \notin EvAside,
           NEW s \in EvSlots, evReg[t].id = s, EvGo(t, "drain", evReg[t]),
           EvRegOK("drain", evReg[t]), EvData', UNCHANGED <<evWaiters, evBell, evFd, evRun>>,
           \A r \in EvSlots \ {s} : EvDue(r)' => EvDue(r)
    PROVE  EvIInv'
<1>1. /\ EvLocals' /\ evPc'[t] = "drain" /\ evReg'[t] = evReg[t]
      /\ \A u \in EvThreads \ {t} : evPc'[u] = evPc[u] /\ evReg'[u] = evReg[u]
  BY GoLocals, Zenon DEF EvIInv
<1>2. EvWaits'
  BY Zenon DEF EvIInv, EvWaits
<1>3. EvListed'
  BY <1>1 DEF EvIInv, EvNoLoss, EvListed, EvWaits, EvAside
<1>4. EvNoOrphan'
  BY <1>1, Zenon DEF EvIInv, EvNoLoss, EvNoOrphan, EvAside
<1>5. EvDrainDue'
  BY <1>1 DEF EvIInv, EvNoLoss, EvDrainDue, EvAside
<1> QED BY <1>1, <1>2, <1>3, <1>4, <1>5, Zenon DEF EvIInv, EvNoLoss

LEMMA AddStep ==
    ASSUME NEW t \in EvThreads, EvIInv, EvAdd(t)
    PROVE  EvIInv'
<1> DEFINE s == evReg[t].id
           v == evReg[t].val
<1>1. evPc[t] = "add" /\ UNCHANGED <<evWaiters, evBell, evFd, evRun>>
  BY Zenon DEF EvAdd, At
<1>2. EvRegOK("add", evReg[t]) /\ s \in EvSlots /\ v \in Nat
  BY <1>1, RegFacts, Zenon DEF EvRegOK
<1>3. CASE UNCHANGED evTable /\ EvReturn(t)
  BY <1>1, <1>3, ReturnStep, Zenon DEF EvAside
<1>4. CASE /\ evTable[s].in_use /\ ~(v > EvMax - evTable[s].counter)
           /\ evTable' = [evTable EXCEPT ![s].counter = @ + v,
                ![s].rise_seq = IF evTable[s].counter = 0 /\ v > 0 THEN @ + 1 ELSE @]
           /\ EvGo(t, "drain", evReg[t])
  <2> DEFINE e == evTable[s]
             x == e.counter + v
             y == IF e.counter = 0 /\ v > 0 THEN e.rise_seq + 1 ELSE e.rise_seq
             g == [e EXCEPT !.counter = x, !.rise_seq = y]
  <2>1. e \in EvEntry /\ evTable \in [EvSlots -> EvEntry]
    BY <1>2, Zenon DEF EvIInv, EvData
  <2>2. evTable' = [evTable EXCEPT ![s] = g]
    BY <1>2, <1>4, <2>1, Zenon
  <2>3. x \in 0 .. EvMax /\ y \in Nat
    BY <1>2, <1>4, <2>1, ConstantFacts DEF EvEntry
  <2> HIDE DEF x, y
  <2>5. g \in EvEntry /\ g.in_use
    BY <1>4, <2>1, <2>3, Zenon DEF EvEntry
  <2> HIDE DEF g
  <2>6. EvData' /\ \A r \in EvSlots \ {s} : EvDue(r)' => EvDue(r)
    BY <1>1, <1>2, <2>2, <2>5, SetEntry, Zenon DEF EvIInv
  <2>4. EvRegOK("drain", evReg[t])
    BY <1>2, Zenon DEF EvRegOK, EvReading, EvScanning
  <2> QED BY <1>1, <1>2, <1>4, <2>4, <2>6, SignalStep, Zenon DEF EvAside
<1> QED BY <1>3, <1>4, Zenon DEF EvAdd

LEMMA DrainStep ==
    ASSUME NEW t \in EvThreads, EvIInv, EvDrain(t)
    PROVE  EvIInv'
<1> DEFINE s == evReg[t].id
           r == [evReg[t] EXCEPT !.drained = evWaiters[s]]
<1>1. /\ evPc[t] = "drain" /\ UNCHANGED <<evTable, evBell, evFd, evRun>>
      /\ evWaiters' = [evWaiters EXCEPT ![s] = {}] /\ EvGo(t, "wake", r)
  BY Zenon DEF EvDrain, At
<1>2. EvRegOK("drain", evReg[t])
  BY <1>1, RegFacts, Zenon
<1>3. EvRegOK("wake", r) /\ r.drained = evWaiters[s]
  BY <1>2, Zenon DEF EvRegOK, EvReading, EvScanning, NoReg
<1> HIDE DEF r
<1>4. /\ EvLocals' /\ evPc'[t] = "wake" /\ evReg'[t] = r
      /\ \A u \in EvThreads \ {t} : evPc'[u] = evPc[u] /\ evReg'[u] = evReg[u]
  BY <1>1, <1>3, GoLocals, Zenon DEF EvIInv
<1>5. EvData' /\ EvWaits'
  BY <1>1, Zenon DEF EvIInv, EvData, EvWaits
<1>6. /\ s \in EvSlots => evWaiters'[s] = {}
      /\ \A q \in EvSlots \ {s} : evWaiters'[q] = evWaiters[q]
  BY <1>1, Zenon DEF EvIInv, EvWaits
<1>7. EvListed'
  BY <1>1, <1>4, <1>6 DEF EvIInv, EvNoLoss, EvListed, EvWaits
<1>8. EvNoOrphan'
  <2> SUFFICES ASSUME NEW u \in EvThreads, evPc'[u] = "parked", evRun'[u] = "blocked"
               PROVE  \/ u \in evWaiters'[evReg'[u].id]
                      \/ \E w \in EvThreads : evPc'[w] = "wake" /\ u \in evReg'[w].drained
    BY Zenon DEF EvNoOrphan
  <2>1. u # t /\ evPc[u] = "parked" /\ evRun[u] = "blocked" /\ evReg'[u] = evReg[u]
    BY <1>1, <1>4, Zenon
  <2>2. evReg[u].id \in EvSlots
    BY <2>1, RegFacts, Zenon DEF EvRegOK, EvReading
  <2>3. CASE u \in evWaiters[evReg[u].id]
    BY <1>3, <1>4, <1>6, <2>1, <2>2, <2>3, Zenon
  <2>4. CASE \E w \in EvThreads : evPc[w] = "wake" /\ u \in evReg[w].drained
    BY <1>1, <1>4, <2>4, Zenon
  <2> QED BY <2>1, <2>3, <2>4, Zenon DEF EvIInv, EvNoLoss, EvNoOrphan
<1>9. EvDrainDue'
  BY <1>1, <1>4, <1>6 DEF EvIInv, EvNoLoss, EvDrainDue, EvDue
<1> QED BY <1>4, <1>5, <1>7, <1>8, <1>9, Zenon DEF EvIInv, EvNoLoss

LEMMA WakeStep ==
    ASSUME NEW t \in EvThreads, EvIInv, EvWake(t)
    PROVE  EvIInv'
<1> DEFINE r == [evReg[t] EXCEPT !.drained = {}]
<1>1. /\ evPc[t] = "wake" /\ UNCHANGED <<evTable, evWaiters, evBell, evFd>>
      /\ Awake(evReg[t].drained) /\ EvGo(t, "ring", r)
  BY Zenon DEF EvWake, At
<1>2. EvRegOK("wake", evReg[t])
  BY <1>1, RegFacts, Zenon
<1>3. EvRegOK("ring", r)
  BY <1>2, Zenon DEF EvRegOK, EvReading, EvScanning, NoReg
<1> HIDE DEF r
<1>4. /\ EvLocals' /\ evPc'[t] = "ring"
      /\ \A u \in EvThreads \ {t} : evPc'[u] = evPc[u] /\ evReg'[u] = evReg[u]
  BY <1>1, <1>3, GoLocals, Zenon DEF EvIInv
<1>5. EvData' /\ EvWaits'
  BY <1>1, Zenon DEF EvIInv, EvData, EvWaits, Awake
<1>6. \A u \in EvThreads : evRun'[u] = "blocked" => evRun[u] = "blocked" /\ u \notin evReg[t].drained
  BY <1>1, Zenon DEF Awake
<1>7. EvListed'
  BY <1>1, <1>4 DEF EvIInv, EvNoLoss, EvListed, EvWaits
<1>8. EvNoOrphan'
  BY <1>1, <1>4, <1>6, Zenon DEF EvIInv, EvNoLoss, EvNoOrphan
<1>9. EvDrainDue'
  BY <1>1, <1>4 DEF EvIInv, EvNoLoss, EvDrainDue, EvDue
<1> QED BY <1>4, <1>5, <1>7, <1>8, <1>9, Zenon DEF EvIInv, EvNoLoss

LEMMA RingStep ==
    ASSUME NEW t \in EvThreads, EvIInv, EvRing(t)
    PROVE  EvIInv'
<1> DEFINE r == [evReg[t] EXCEPT !.drained = evBell]
<1>1. /\ evPc[t] = "ring" /\ UNCHANGED <<evTable, evWaiters, evFd, evRun>> /\ evBell' = {}
      /\ EvGo(t, "ringwake", r)
  BY Zenon DEF EvRing, At
<1>2. EvRegOK("ring", evReg[t])
  BY <1>1, RegFacts, Zenon
<1>3. EvRegOK("ringwake", r)
  BY <1>2, Zenon DEF EvRegOK, EvReading, EvScanning, NoReg
<1> HIDE DEF r
<1>4. EvData' /\ EvWaits' /\ (\A s \in EvSlots : EvDue(s)' => EvDue(s))
  BY <1>1, Zenon DEF EvIInv, EvData, EvWaits, EvDue
<1> QED BY <1>1, <1>3, <1>4, MoveStep, Zenon DEF EvAside

\* Where a call goes on after eventfd::close and its wake-up.
LEMMA ResumeGo ==
    ASSUME NEW t \in EvThreads, EvIInv, EvResume(t), evPc[t] \notin EvScanning
    PROVE  \E pc, reg : EvGo(t, pc, reg) /\ EvRegOK(pc, reg) /\ pc \notin EvAside
<1>1. CASE evReg[t].cont = "idle"
  <2>1. EvRegOK("idle", NoReg)
    BY NoRegOK, Zenon DEF EvReading
  <2> QED BY <1>1, <2>1, Zenon DEF EvResume, EvReturn, EvAside
<1>2. CASE evReg[t].cont # "idle"
  <2>1. EvGo(t, evReg[t].cont, evReg[t])
    BY <1>2, Zenon DEF EvResume
  <2>2. EvRegOK(evReg[t].cont, evReg[t]) /\ evReg[t].cont \notin EvAside
    BY RegFacts, Zenon DEF EvRegOK, EvReading, EvConts, EvAside
  <2> QED BY <2>1, <2>2, Zenon
<1> QED BY <1>1, <1>2, Zenon

LEMMA RingWakeStep ==
    ASSUME NEW t \in EvThreads, EvIInv, EvRingWake(t)
    PROVE  EvIInv'
<1>1. /\ evPc[t] = "ringwake" /\ UNCHANGED <<evTable, evWaiters, evBell, evFd>>
      /\ Awake(evReg[t].drained) /\ EvResume(t)
  BY Zenon DEF EvRingWake, At
<1>2. PICK pc, reg : EvGo(t, pc, reg) /\ EvRegOK(pc, reg) /\ pc \notin EvAside
  BY <1>1, ResumeGo, Zenon DEF EvScanning
<1>3. /\ EvData' /\ EvWaits' /\ (\A s \in EvSlots : EvDue(s)' => EvDue(s))
      /\ \A u \in EvThreads \ {t} : evRun'[u] = "blocked" => evRun[u] = "blocked"
  BY <1>1, Zenon DEF EvIInv, EvData, EvWaits, EvDue, Awake
<1> QED BY <1>1, <1>2, <1>3, MoveStep, Zenon DEF EvAside

-----------------------------------------------------------------------------
(* Descriptors and signals.                                                 *)

\* The last reference frees the slot, and its readers are about to be woken.
LEMMA DropStep ==
    ASSUME NEW t \in EvThreads, EvIInv, EvDrop(t)
    PROVE  EvIInv'
<1> DEFINE s == evReg[t].id
<1>1. evPc[t] = "drop" /\ UNCHANGED <<evWaiters, evBell, evFd, evRun>>
  BY Zenon DEF EvDrop, At
<1>2. EvRegOK("drop", evReg[t])
  BY <1>1, RegFacts, Zenon
<1>3. EvRegOK("drain", evReg[t])
  BY <1>2, Zenon DEF EvRegOK, EvReading, EvScanning
<1>4. EvWaits' /\ evTable \in [EvSlots -> EvEntry] /\ EvData
  BY <1>1, Zenon DEF EvIInv, EvWaits, EvData
<1>5. CASE EvResume(t) /\ UNCHANGED evTable
  <2>1. PICK pc, reg : EvGo(t, pc, reg) /\ EvRegOK(pc, reg) /\ pc \notin EvAside
    BY <1>1, <1>5, ResumeGo, Zenon DEF EvScanning
  <2> QED BY <1>1, <1>5, <2>1, LocalStep, Zenon DEF EvAside
<1>6. CASE /\ evTable[s].in_use /\ evTable[s].refs > 1 /\ EvResume(t)
           /\ evTable' = [evTable EXCEPT ![s].refs = @ - 1]
  <2>1. PICK pc, reg : EvGo(t, pc, reg) /\ EvRegOK(pc, reg) /\ pc \notin EvAside
    BY <1>1, <1>6, ResumeGo, Zenon DEF EvScanning
  <2>2. EvData' /\ (\A r \in EvSlots : EvDue(r)' => EvDue(r))
    <3>1. CASE s \notin EvSlots
      BY <1>1, <1>4, <1>6, <3>1, Zenon DEF EvData, EvDue
    <3>2. CASE s \in EvSlots
      <4> DEFINE e == evTable[s]
                 g == [e EXCEPT !.refs = e.refs - 1]
      <4>1. e \in EvEntry /\ evTable' = [evTable EXCEPT ![s] = g]
        BY <1>4, <1>6, <3>2, Zenon
      <4>2. g \in EvEntry /\ g.in_use /\ g.counter = e.counter
        BY <1>6, <4>1 DEF EvEntry
      <4> HIDE DEF g
      <4>3. /\ EvData' /\ evTable'[s] = g /\ \A r \in EvSlots \ {s} : EvDue(r)' => EvDue(r)
        BY <1>1, <1>4, <3>2, <4>1, <4>2, SetEntry, Zenon
      <4> QED BY <4>2, <4>3, Zenon DEF EvDue
    <3> QED BY <3>1, <3>2, Zenon
  <2> QED BY <1>1, <1>4, <2>1, <2>2, MoveStep, Zenon DEF EvAside
<1>7. CASE /\ evTable' = [evTable EXCEPT ![s] = EmptySlot]
           /\ EvGo(t, "drain", evReg[t])
  <2>1. CASE s \in EvSlots
    <3>1. EmptySlot \in EvEntry
      BY ConstantFacts DEF EmptySlot, EvEntry
    <3>2. EvData' /\ \A r \in EvSlots \ {s} : EvDue(r)' => EvDue(r)
      BY <1>1, <1>4, <1>7, <2>1, <3>1, SetEntry, Zenon
    <3> QED BY <1>1, <1>3, <1>7, <2>1, <3>2, SignalStep, Zenon DEF EvAside
  <2>2. CASE s \notin EvSlots
    <3>1. evTable' = evTable
      BY <1>4, <1>7, <2>2, Zenon
    <3>2. /\ EvLocals' /\ evPc'[t] = "drain" /\ evReg'[t] = evReg[t]
          /\ \A u \in EvThreads \ {t} : evPc'[u] = evPc[u] /\ evReg'[u] = evReg[u]
      BY <1>3, <1>7, GoLocals, Zenon DEF EvIInv
    <3>3. EvData' /\ EvWaits'
      BY <1>1, <1>4, <3>1, Zenon DEF EvIInv, EvData
    <3>4. EvListed'
      BY <1>1, <3>2 DEF EvIInv, EvNoLoss, EvListed, EvWaits
    <3>5. EvNoOrphan'
      BY <1>1, <3>2, Zenon DEF EvIInv, EvNoLoss, EvNoOrphan
    <3>6. EvDrainDue'
      BY <1>1, <3>1, <3>2 DEF EvIInv, EvNoLoss, EvDrainDue, EvDue
    <3> QED BY <3>2, <3>3, <3>4, <3>5, <3>6, Zenon DEF EvIInv, EvNoLoss
  <2> QED BY <2>1, <2>2, Zenon
<1>8. \/ EvResume(t) /\ UNCHANGED evTable
      \/ /\ evTable[s].in_use /\ evTable[s].refs > 1 /\ EvResume(t)
         /\ evTable' = [evTable EXCEPT ![s].refs = @ - 1]
      \/ /\ evTable' = [evTable EXCEPT ![s] = EmptySlot]
         /\ EvGo(t, "drain", evReg[t])
  BY Zenon DEF EvDrop
<1> QED BY <1>5, <1>6, <1>7, <1>8, Zenon

\* A step of PROCESS_TABLE that leaves TABLE and the lists alone.
LEMMA FdStep ==
    ASSUME NEW t \in EvThreads, EvIInv, NEW pc, NEW reg, EvGo(t, pc, reg), EvRegOK(pc, reg),
           evPc[t] \notin EvAside, pc \notin EvAside,
           UNCHANGED <<evTable, evWaiters, evBell, evRun>>,
           evFd' \in [EvFds -> EvSlots \cup {NoSlot}]
    PROVE  EvIInv'
<1>1. EvData' /\ EvWaits' /\ (\A s \in EvSlots : EvDue(s)' => EvDue(s))
  BY Zenon DEF EvIInv, EvData, EvWaits, EvDue
<1> QED BY <1>1, MoveStep, Zenon

LEMMA FdSteps ==
    ASSUME NEW t \in EvThreads, EvIInv,
           EvClear(t) \/ EvPut(t) \/ EvPurged(t) \/ EvInstall(t)
    PROVE  EvIInv'
<1>0. evFd \in [EvFds -> EvSlots \cup {NoSlot}]
  BY Zenon DEF EvIInv, EvData
<1>a. EvRegOK("idle", NoReg) /\ EvReturn(t) = EvGo(t, "idle", NoReg)
  BY NoRegOK, Zenon DEF EvReading, EvReturn
<1>1. CASE EvClear(t)
  <2>1. evFd' \in [EvFds -> EvSlots \cup {NoSlot}]
    BY <1>0, <1>1, Zenon DEF EvClear
  <2> QED BY <1>1, <1>a, <2>1, FdStep, Zenon DEF EvClear, EvReturn, At, EvAside
<1>2. CASE EvPut(t)
  <2>1. evReg[t].slot \in EvSlots \cup {NoSlot}
    BY <1>2, RegFacts, Zenon DEF EvPut, At, EvRegOK, EvScanning
  <2>2. evFd' \in [EvFds -> EvSlots \cup {NoSlot}]
    BY <1>0, <1>2, <2>1, Zenon DEF EvPut
  <2> QED BY <1>2, <1>a, <2>2, FdStep, Zenon DEF EvPut, EvReturn, At, EvAside
<1>3. CASE EvPurged(t)
  <2> DEFINE r == [evReg[t] EXCEPT !.cont = "idle"]
  <2>1. evPc[t] = "purged" /\ EvGo(t, "purge", r) /\ UNCHANGED <<evTable, evWaiters, evBell, evRun>>
    BY <1>3, Zenon DEF EvPurged, At
  <2>2. EvRegOK("purge", r)
    BY <2>1, RegFacts, Zenon DEF EvRegOK, EvReading, EvScanning, EvConts, NoReg
  <2>3. evFd' \in [EvFds -> EvSlots \cup {NoSlot}]
    BY <1>0, <1>3, Zenon DEF EvPurged
  <2> HIDE DEF r
  <2> QED BY <2>1, <2>2, <2>3, FdStep, Zenon DEF EvAside
<1>4. CASE EvInstall(t)
  <2> DEFINE r == [evReg[t] EXCEPT !.cont = "unlock"]
  <2>1. evPc[t] = "install" /\ UNCHANGED <<evTable, evWaiters, evBell, evRun>>
    BY <1>4, Zenon DEF EvInstall, At
  <2>2. evReg[t].id \in EvSlots /\ EvRegOK("drop", r)
    BY <2>1, RegFacts, Zenon DEF EvRegOK, EvReading, EvScanning, EvConts, NoReg
  <2>3. CASE EvGo(t, "drop", r) /\ UNCHANGED evFd
    <3> HIDE DEF r
    <3> QED BY <1>0, <2>1, <2>2, <2>3, FdStep, Zenon DEF EvAside
  <2>4. CASE EvReturn(t) /\ \E f : evFd' = [evFd EXCEPT ![f] = evReg[t].id]
    <3>1. evFd' \in [EvFds -> EvSlots \cup {NoSlot}]
      BY <1>0, <2>2, <2>4, Zenon
    <3> QED BY <1>a, <2>1, <2>4, <3>1, FdStep, Zenon DEF EvAside
  <2> QED BY <1>4, <2>3, <2>4, Zenon DEF EvInstall
<1> QED BY <1>1, <1>2, <1>3, <1>4, Zenon

LEMMA CreateStep ==
    ASSUME NEW t \in EvThreads, EvIInv, EvCreate(t)
    PROVE  EvIInv'
<1> DEFINE free == {s \in EvSlots : ~evTable[s].in_use}
           s == Min(free)
           e == evTable[s]
<1>1. /\ evPc[t] = "idle" /\ free # {} /\ UNCHANGED <<evWaiters, evBell, evFd, evRun>>
      /\ EvGo(t, "install", [NoReg EXCEPT !.id = s])
  BY Zenon DEF EvCreate, EvBegin, At
<1>2. PICK m \in EvModes, v \in EvInits :
        evTable' = [evTable EXCEPT ![s].in_use = TRUE, ![s].counter = v, ![s].sem = m, ![s].refs = 1]
  BY Zenon DEF EvCreate
<1>3. s \in EvSlots /\ ~e.in_use
  <2>1. free \in SUBSET Nat
    BY ConstantFacts, Zenon
  <2>2. s \in free
    BY <1>1, <2>1, MinIn, Zenon
  <2> QED BY <2>2, Zenon
<1> HIDE DEF s
<1>4. EvData /\ evTable \in [EvSlots -> EvEntry] /\ e \in EvEntry
  BY <1>3, Zenon DEF EvIInv, EvData
<1> DEFINE g == [e EXCEPT !.in_use = TRUE, !.counter = v, !.sem = m, !.refs = 1]
<1>5. evTable' = [evTable EXCEPT ![s] = g]
  BY <1>2, <1>3, <1>4, Zenon
<1>6. m \in BOOLEAN /\ v \in 0 .. EvMax
  BY ConstantFacts, Zenon
<1>7. g \in EvEntry /\ g.in_use
  BY <1>4, <1>6, Zenon DEF EvEntry
<1> HIDE DEF g
<1>8. /\ EvData' /\ \A r \in EvSlots \ {s} : EvDue(r)' => EvDue(r)
  BY <1>1, <1>3, <1>4, <1>5, <1>7, SetEntry, Zenon
<1>9. EvWaits' /\ (\A r \in EvSlots : EvDue(r)' => EvDue(r))
  BY <1>1, <1>3, <1>8, Zenon DEF EvIInv, EvWaits, EvDue
<1>10. EvRegOK("install", [NoReg EXCEPT !.id = s])
  BY <1>3, Zenon DEF EvRegOK, NoReg, EvConts, EvReading, EvScanning
<1> QED BY <1>1, <1>8, <1>9, <1>10, MoveStep, Zenon DEF EvAside

LEMMA Dup2Step ==
    ASSUME NEW t \in EvThreads, EvIInv, EvDup2(t)
    PROVE  EvIInv'
<1>0. evPc[t] = "idle" /\ UNCHANGED <<evWaiters, evBell, evRun>>
  BY Zenon DEF EvDup2, EvBegin, At
<1>1. PICK f \in EvFdsOf[t], g \in EvFdsOf[t] :
        /\ evFd[f] # NoSlot
        /\ evTable' = [evTable EXCEPT ![evFd[f]].refs = IF evTable[evFd[f]].in_use THEN @ + 1 ELSE @]
        /\ \/ evFd' = [evFd EXCEPT ![g] = evFd[f]] /\ EvReturn(t)
           \/ /\ evFd' = [evFd EXCEPT ![g] = NoSlot]
              /\ EvGo(t, "drop", [NoReg EXCEPT !.fd = g, !.slot = evFd[f], !.id = evFd[g],
                                               !.cont = "put"])
  BY Zenon DEF EvDup2
<1> DEFINE s == evFd[f]
           e == evTable[s]
           h == [e EXCEPT !.refs = IF e.in_use THEN e.refs + 1 ELSE e.refs]
<1>2. s \in EvSlots /\ evFd[g] \in EvSlots \cup {NoSlot}
  BY <1>1, ConstantFacts, Zenon DEF EvIInv, EvData
<1>3. /\ evTable \in [EvSlots -> EvEntry] /\ evFd \in [EvFds -> EvSlots \cup {NoSlot}]
      /\ \A r \in EvSlots : ~evTable[r].in_use => evTable[r] = EmptySlot
  BY Zenon DEF EvIInv, EvData
<1>4. e \in EvEntry /\ evTable' = [evTable EXCEPT ![s] = h]
  BY <1>1, <1>2, <1>3, Zenon
<1>5. h \in EvEntry /\ h.in_use = e.in_use /\ h.counter = e.counter
  BY <1>4 DEF EvEntry
<1>6. ~e.in_use => h = e
  BY <1>4, Zenon DEF EvEntry
<1> HIDE DEF h
<1>7. evFd' \in [EvFds -> EvSlots \cup {NoSlot}]
  BY <1>1, <1>2, <1>3, Zenon
<1>8. EvData' /\ EvWaits' /\ (\A r \in EvSlots : EvDue(r)' => EvDue(r))
  BY <1>0, <1>2, <1>3, <1>4, <1>5, <1>6, <1>7, Zenon DEF EvIInv, EvData, EvWaits, EvDue
<1>9. /\ EvRegOK("idle", NoReg)
      /\ EvRegOK("drop", [NoReg EXCEPT !.fd = g, !.slot = evFd[f], !.id = evFd[g], !.cont = "put"])
  BY <1>2, NoRegOK, Zenon DEF EvRegOK, NoReg, EvConts, EvReading, EvScanning
<1>10. PICK pc \in {"idle", "drop"} : \E reg : EvGo(t, pc, reg) /\ EvRegOK(pc, reg)
  BY <1>1, <1>9, Zenon DEF EvReturn
<1> QED BY <1>0, <1>8, <1>10, MoveStep, Zenon DEF EvAside

LEMMA ExecSteps ==
    ASSUME NEW t \in EvThreads, EvIInv, EvExec(t) \/ EvPurge(t) \/ EvUnlock(t) \/ EvKill(t)
    PROVE  EvIInv'
<1>0. /\ UNCHANGED <<evTable, evWaiters, evBell, evFd, evRun>>
      /\ evPc[t] \in {"idle", "purge", "unlock"}
  BY Zenon DEF EvExec, EvPurge, EvUnlock, EvKill, EvBegin, At
<1>1. CASE EvExec(t)
  <2>1. PICK todo : EvGo(t, "purge", [NoReg EXCEPT !.todo = todo])
    BY <1>1, Zenon DEF EvExec
  <2>2. EvRegOK("purge", [NoReg EXCEPT !.todo = todo])
    BY Zenon DEF EvRegOK, NoReg, EvConts, EvReading, EvScanning
  <2> QED BY <1>0, <2>1, <2>2, LocalStep, Zenon DEF EvAside
<1>2. CASE EvPurge(t)
  <2> DEFINE todo == evReg[t].todo
             f == Min(todo)
             r == [evReg[t] EXCEPT !.fd = f, !.id = evFd[f], !.todo = @ \ {f}, !.cont = "purged"]
  <2>1. evPc[t] = "purge" /\ (EvGo(t, "unlock", NoReg) \/ EvGo(t, "drop", r))
    BY <1>2, Zenon DEF EvPurge, At
  <2>2. EvRegOK("unlock", NoReg)
    BY NoRegOK, Zenon DEF EvReading
  <2>3. EvRegOK("drop", r)
    BY <2>1, RegFacts DEF EvRegOK, EvConts, EvReading, EvScanning
  <2> HIDE DEF r
  <2> QED BY <1>0, <2>1, <2>2, <2>3, LocalStep, Zenon DEF EvAside
<1>3. CASE EvUnlock(t)
  BY <1>0, <1>3, ReturnStep, Zenon DEF EvUnlock, EvAside
<1>4. CASE EvKill(t)
  <2>1. EvRegOK("ring", NoReg)
    BY NoRegOK, Zenon DEF EvReading
  <2> QED BY <1>0, <1>4, <2>1, LocalStep, Zenon DEF EvKill, EvAside
<1> QED BY <1>1, <1>2, <1>3, <1>4, Zenon

\* Signal delivery, epoll_ctl and the tick that wakes a poller move no call.
LEMMA StillSteps ==
    ASSUME NEW t \in EvThreads, EvIInv, EvDeliver(t) \/ EvCtl(t) \/ EvTick(t)
    PROVE  EvIInv'
<1>0. evRun \in [EvThreads -> {"ready", "blocked"}]
  BY Zenon DEF EvIInv, EvWaits
<1>1. CASE EvDeliver(t)
  BY <1>0, <1>1, StillStep, Zenon DEF EvDeliver
<1>2. CASE EvCtl(t)
  <2>1. UNCHANGED <<evTable, evWaiters, evBell, evFd, evPc, evReg, evRun>>
    BY <1>2, Zenon DEF EvCtl
  <2> QED BY <1>0, <2>1, StillStep, Zenon
<1>3. CASE EvTick(t)
  <2>1. /\ evRun' \in [EvThreads -> {"ready", "blocked"}]
        /\ \A u \in EvThreads : evRun'[u] = "blocked" => evRun[u] = "blocked"
    BY <1>0, <1>3, Zenon DEF EvTick
  <2> QED BY <1>3, <2>1, StillStep, Zenon DEF EvTick
<1> QED BY <1>1, <1>2, <1>3, Zenon

-----------------------------------------------------------------------------
LEMMA InitIInv ==
    ASSUME EvInit
    PROVE  EvIInv
<1>1. EvLocals
  <2>1. EvRegOK("idle", NoReg)
    BY NoRegOK, Zenon DEF EvReading
  <2>2. /\ evPc = [t \in EvThreads |-> "idle"] /\ evReg = [t \in EvThreads |-> NoReg]
    BY Zenon DEF EvInit
  <2> QED BY <2>1, <2>2, Zenon DEF EvLocals
<1>2. EvData
  <2> DEFINE N(s) == Cardinality({f \in EvFds : EvInitFd[f] = s})
             E(s) == IF N(s) = 0 THEN EmptySlot ELSE [EmptySlot EXCEPT !.in_use = TRUE, !.refs = N(s)]
  <2>1. \A s \in EvSlots : N(s) \in Nat
    BY EventFdAssumption, FS_Subset, FS_CardinalityType, Zenon
  <2>2. ASSUME NEW e \in EvEntry, NEW n \in Nat
        PROVE  [e EXCEPT !.in_use = TRUE, !.refs = n] \in EvEntry
               /\ [e EXCEPT !.in_use = TRUE, !.refs = n].in_use
    BY Zenon DEF EvEntry
  <2>3. EmptySlot \in EvEntry
    BY ConstantFacts DEF EmptySlot, EvEntry
  <2>4. evTable = [s \in EvSlots |-> E(s)] /\ evFd = EvInitFd
    BY Zenon DEF EvInit
  <2> HIDE DEF N
  <2>5. \A s \in EvSlots : E(s) \in EvEntry /\ (~E(s).in_use => E(s) = EmptySlot)
    BY <2>1, <2>2, <2>3, Zenon
  <2> HIDE DEF E
  <2> QED BY <2>4, <2>5, EventFdAssumption, Zenon DEF EvData
<1>3. EvWaits
  BY Zenon DEF EvInit, EvWaits
<1>4. EvNoLoss
  BY Zenon DEF EvInit, EvNoLoss, EvListed, EvNoOrphan, EvDrainDue
<1> QED BY <1>1, <1>2, <1>3, <1>4, Zenon DEF EvIInv

LEMMA NextIInv ==
    ASSUME EvIInv, [EvNext]_evVars
    PROVE  EvIInv'
<1>1. ASSUME NEW t \in EvThreads, EvStep(t)
      PROVE  EvIInv'
  BY Zenon, <1>1, TryReadStep, ReadSigStep, ParkStep, UnparkStep, AddStep, DrainStep, WakeStep,
     RingStep, RingWakeStep, DropStep, FdSteps, ExecSteps, ScanFdStep, ScanLevelStep,
     ScanRiseStep, ScannedStep, BellLockStep, BellParkStep, BellWokenStep, StoreStep DEF EvStep
<1>2. ASSUME NEW t \in EvThreads,
             \/ EvRead(t) \/ EvWrite(t) \/ EvClose(t) \/ EvCreate(t) \/ EvDup2(t) \/ EvExec(t)
             \/ EvKill(t) \/ EvDeliver(t) \/ EvCtl(t) \/ EvEpollWait(t) \/ EvPoll(t) \/ EvTick(t)
      PROVE  EvIInv'
  BY Zenon, <1>2, ReadStep, WriteStep, CloseStep, CreateStep, Dup2Step, ExecSteps, StillSteps,
     EpollWaitStep, PollStep
<1>3. CASE UNCHANGED evVars
  <2>1. UNCHANGED <<evTable, evWaiters, evBell, evFd, evPc, evReg, evRun>>
    BY <1>3, Zenon DEF evVars
  <2>2. evRun \in [EvThreads -> {"ready", "blocked"}]
    BY Zenon DEF EvIInv, EvWaits
  <2> QED BY <2>1, <2>2, StillStep, Zenon
<1> QED BY <1>1, <1>2, <1>3, Zenon DEF EvNext

\* The eventfd table, its wait lists, the bell and the descriptors keep their types:
\* no counter exceeds u64::MAX - 1, and a freed slot is left empty.
THEOREM EvTypeCorrect == EvSpec => []EvTypeOK
<1>1. EvInit => EvIInv
  BY InitIInv, Zenon
<1>2. EvIInv /\ [EvNext]_evVars => EvIInv'
  BY NextIInv, Zenon
<1>3. EvIInv => EvTypeOK
  BY Zenon DEF EvIInv, EvData, EvWaits, EvEntry, EvTypeOK
<1> QED BY <1>1, <1>2, <1>3, PTL DEF EvSpec

\* No wake-up of a blocking eventfd read is lost, however many threads read, write,
\* close, dup and create on however many slots: a reader that is blocked on a slot
\* that became readable or was freed is about to be drained or woken.
THEOREM NoReaderLost == EvSpec => []EvNoLostWake
<1>1. EvInit => EvIInv
  BY InitIInv, Zenon
<1>2. EvIInv /\ [EvNext]_evVars => EvIInv'
  BY NextIInv, Zenon
<1>3. ASSUME EvIInv
      PROVE  EvNoLostWake
  <2> SUFFICES ASSUME NEW t \in EvThreads, evPc[t] = "parked", evRun[t] = "blocked",
                      Readable(evReg[t].id) \/ ~evTable[evReg[t].id].in_use
               PROVE  \E u \in EvThreads :
                        \/ evPc[u] = "drain" /\ evReg[u].id = evReg[t].id
                        \/ evPc[u] = "wake" /\ t \in evReg[u].drained
    BY Zenon DEF EvNoLostWake
  <2>1. evReg[t].id \in EvSlots /\ EvDue(evReg[t].id)
    BY <1>3, RegFacts, Zenon DEF EvRegOK, EvReading, Readable, EvDue
  <2> QED BY <1>3, <2>1, Zenon DEF EvIInv, EvNoLoss, EvNoOrphan, EvDrainDue
<1> QED BY <1>1, <1>2, <1>3, PTL DEF EvSpec

============================================================================
