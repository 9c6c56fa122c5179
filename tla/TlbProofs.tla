----------------------------- MODULE TlbProofs -----------------------------
(***************************************************************************)
(* Proofs about Tlb for any number of CPUs, address spaces, pages and       *)
(* frames: no stale translation outlives its shootdown.                     *)
(***************************************************************************)
EXTENDS Tlb, TLAPS

TlbCr3s == TlbSpaces \cup {KernelCr3}
TlbEntry == {e \in [f : TlbFrames \cup {0}, w : BOOLEAN] : e.w => e.f # 0}
TlbSlots == [cr3 : TlbCr3s, range : SUBSET TlbPages, pending : BOOLEAN]
TlbSems == [rd : SUBSET TlbCpus, wr : SUBSET TlbCpus]
TlbLives == {"live", "dying", "torn", "gone"}
TlbCpuRec == [cr3 : TlbCr3s, cache : [TlbPages -> TlbEntry], ipi : BOOLEAN, isr : BOOLEAN,
              force : BOOLEAN, last : Nat]
TlbRegRec == [op : TlbCalls \cup {"none"}, space : TlbCr3s, range : SUBSET TlbPages,
              targets : SUBSET TlbCpus, clean : BOOLEAN, frames : SUBSET TlbFrames,
              new : TlbFrames \cup {0}, next : TlbCr3s]

TlbShape ==
  /\ tlbCpu \in [TlbCpus -> TlbCpuRec]
  /\ tlbMask \in [TlbSpaces -> SUBSET TlbCpus]
  /\ tlbPte \in [TlbSpaces -> [TlbPages -> TlbEntry]]
  /\ tlbSlot \in [TlbCpus -> TlbSlots]
  /\ tlbSem \in [TlbSpaces -> TlbSems]
  /\ tlbLife \in [TlbSpaces -> TlbLives]
  /\ tlbReg \in [TlbCpus -> TlbRegRec]
  /\ tlbPc = [c \in TlbCpus |-> tlbPc[c]]
  /\ tlbRing \subseteq [f : TlbFrames, tick : Nat]
  /\ tlbTick \in Nat
  /\ tlbFree \subseteq TlbFrames
  /\ tlbShared \in BOOLEAN

\* The pcs of a shootdown, of the switch of a CR3, and of an exit before its walk.
TlbShooting == {"snapshot", "publish", "send", "spin", "post"}
TlbSwitching == {"swUnload", "swRead", "swLoad", "swMov"}
TlbLeaving == {"exUnload", "exDrain"}

\* Which call is at which pc, and what it has in its locals there.
TlbAt(pc, r, cr3) ==
  /\ pc \in {"user", "clear", "forkTable", "forkSem", "faultTable", "break", "install", "exSem",
             "done"} \cup TlbShooting \cup TlbSwitching \cup TlbLeaving
  /\ pc = "user" => r.op = "none"
  /\ pc = "clear" => r.op = "unmap"
  /\ pc \in {"forkTable", "forkSem"} => r.op = "fork"
  /\ pc = "faultTable" => r.op \in {"read", "write"}
  /\ pc = "break" => r.op = "write" /\ r.new \in TlbFrames
  /\ pc = "install" => r.op = "read" /\ r.new \in TlbFrames
  /\ pc \in TlbShooting \cup {"done"} => r.op \in {"unmap", "fork", "write", "exit"}
  /\ pc \in TlbShooting \cup {"done"} /\ r.op = "write" => r.new \in TlbFrames
  /\ pc \in TlbSwitching <=> r.op \in {"switch", "idle"}
  /\ pc \in TlbLeaving \cup {"exSem"} => r.op = "exit"
  /\ pc # "user" /\ pc \notin TlbSwitching => r.space \in TlbSpaces
  /\ pc \in {"swLoad", "swMov"} => r.next \in TlbSpaces
  /\ r.op = "fork" => r.range = TlbPages
  /\ r.op \in {"read", "write"} => \E p \in TlbPages : r.range = {p}
  /\ r.op \in {"switch", "idle", "exit"} => cr3 = KernelCr3

\* A CPU that runs on an address space, or is about to, is in its mask.
TlbNoted ==
  \A c \in TlbCpus, s \in TlbSpaces :
    /\ tlbLife[s] # "gone"
    /\ tlbCpu[c].cr3 = s \/ (tlbPc[c] = "swMov" /\ tlbReg[c].next = s)
    => c \in tlbMask[s]

\* One call tears an address space down, and it is gone only after that.
TlbOneExit ==
  \A c \in TlbCpus : tlbReg[c].op = "exit" =>
    /\ tlbLife[tlbReg[c].space] = IF tlbPc[c] \in TlbLeaving THEN "dying" ELSE "torn"
    /\ \A d \in TlbCpus \ {c} : tlbReg[d].op = "exit" => tlbReg[d].space # tlbReg[c].space

\* A copy-on-write break holds mm_sem for writing from break to make, and the
\* entry stays clear.
TlbBroken ==
  \A c \in TlbCpus : tlbReg[c].op = "write" /\ tlbPc[c] \in TlbShooting \cup {"done"} =>
    /\ tlbSem[tlbReg[c].space].wr = {c}
    /\ \A p \in tlbReg[c].range : tlbPte[tlbReg[c].space][p] = NoEntry

\* Until two shootdowns meet in a slot, a slot belongs to the one sender that has
\* its CPU among the targets, and holds that sender's request.
TlbOwned ==
  /\ \A d \in TlbCpus : tlbPc[d] \in {"send", "spin"} => \A t \in tlbReg[d].targets :
       tlbSlot[t].cr3 = tlbReg[d].space /\ tlbSlot[t].range = tlbReg[d].range
  /\ \A d, e \in TlbCpus : d # e /\ tlbPc[d] \in {"send", "spin", "post"}
                                 /\ tlbPc[e] \in {"send", "spin", "post"} =>
       tlbReg[d].targets \cap tlbReg[e].targets = {}

\* The shootdown of d will still reach page p on CPU c.
TlbReaches(d, c, p) ==
  /\ tlbReg[d].space = tlbCpu[c].cr3 /\ p \in tlbReg[d].range
  /\ \/ tlbPc[d] = "snapshot"
     \/ tlbPc[d] \in {"publish", "post"} /\ c \in tlbReg[d].targets
     \/ tlbPc[d] \in {"send", "spin"} /\ c \in tlbReg[d].targets /\ tlbSlot[c].pending

TlbStale(c, p) ==
  LET s == tlbCpu[c].cr3 e == tlbCpu[c].cache[p] IN
  s \in TlbSpaces /\ tlbLife[s] # "gone" /\ e # NoEntry /\ e # tlbPte[s][p]

\* A stale translation is about to be flushed: by a force flush, by the request
\* the CPU has claimed, or by a shootdown that still reaches it.
TlbDueAt(c, p) ==
  \/ tlbCpu[c].force
  \/ tlbCpu[c].isr /\ tlbSlot[c].cr3 = tlbCpu[c].cr3 /\ p \in tlbSlot[c].range
  \/ \E d \in TlbCpus : TlbReaches(d, c, p)

TlbCovered == \A c \in TlbCpus, p \in TlbPages : TlbStale(c, p) => TlbDueAt(c, p)

TlbControl == \A c \in TlbCpus : TlbAt(tlbPc[c], tlbReg[c], tlbCpu[c].cr3)

TlbFlushes == tlbShared \/ (TlbOwned /\ TlbCovered)

TlbIInv ==
  /\ TlbShape /\ TlbControl /\ TlbNoted /\ TlbOneExit /\ TlbBroken /\ TlbFlushes

-----------------------------------------------------------------------------
(* The operators on a CPU.                                                   *)

LEMMA ConstantFacts ==
  /\ KernelCr3 \notin TlbSpaces /\ 0 \notin TlbFrames
  /\ NoEntry \in TlbEntry /\ NoRegs \in TlbRegRec
  /\ NoEntry.f = 0 /\ ~NoEntry.w
<1>1. KernelCr3 \notin TlbSpaces /\ 0 \notin TlbFrames
  BY TlbAssumption, Zenon
<1>2. NoEntry \in TlbEntry
  BY Zenon DEF TlbEntry, NoEntry
<1>3. NoRegs \in TlbRegRec
  BY Zenon DEF NoRegs, TlbRegRec, TlbCr3s
<1> QED BY <1>1, <1>2, <1>3, Zenon DEF NoEntry

LEMMA InvlpgFacts ==
  ASSUME NEW cpu \in TlbCpuRec, NEW range
  PROVE  /\ Invlpg(cpu, range) \in TlbCpuRec
         /\ \A x \in {"cr3", "ipi", "isr", "force", "last"} : Invlpg(cpu, range)[x] = cpu[x]
         /\ \A p \in TlbPages : Invlpg(cpu, range).cache[p] =
                                  IF p \in range THEN NoEntry ELSE cpu.cache[p]
<1> DEFINE k == [p \in TlbPages |-> IF p \in range THEN NoEntry ELSE cpu.cache[p]]
<1>1. k \in [TlbPages -> TlbEntry]
  BY ConstantFacts, Zenon DEF TlbCpuRec
<1>2. Invlpg(cpu, range) = [cpu EXCEPT !.cache = k]
  BY Zenon DEF Invlpg
<1>3. \A p \in TlbPages : k[p] = IF p \in range THEN NoEntry ELSE cpu.cache[p]
  BY Zenon
<1> HIDE DEF k
<1>4. [cpu EXCEPT !.cache = k] \in TlbCpuRec
  BY <1>1, Zenon DEF TlbCpuRec
<1>5. \A x \in {"cr3", "ipi", "isr", "force", "last"} : [cpu EXCEPT !.cache = k][x] = cpu[x]
  BY <1>1, Zenon DEF TlbCpuRec
<1>6. [cpu EXCEPT !.cache = k].cache = k
  BY <1>1, Zenon DEF TlbCpuRec
<1> QED BY <1>2, <1>3, <1>4, <1>5, <1>6, Zenon

LEMMA FlushFacts ==
  ASSUME NEW cpu \in TlbCpuRec
  PROVE  /\ FlushTlb(cpu) \in TlbCpuRec
         /\ \A x \in {"cr3", "ipi", "isr", "force", "last"} : FlushTlb(cpu)[x] = cpu[x]
         /\ \A p \in TlbPages : FlushTlb(cpu).cache[p] = NoEntry
  BY InvlpgFacts, Zenon DEF FlushTlb

LEMMA SwitchFacts ==
  ASSUME NEW cpu \in TlbCpuRec, NEW cr3 \in TlbCr3s
  PROVE  /\ SwitchCr3(cpu, cr3) \in TlbCpuRec
         /\ SwitchCr3(cpu, cr3).cr3 = cr3
         /\ \A p \in TlbPages : SwitchCr3(cpu, cr3).cache[p] = NoEntry
<1> DEFINE k == FlushTlb(cpu)
<1>1. k \in TlbCpuRec /\ \A p \in TlbPages : k.cache[p] = NoEntry
  BY FlushFacts, Zenon
<1>2. SwitchCr3(cpu, cr3) = [k EXCEPT !.cr3 = cr3]
  BY Zenon DEF SwitchCr3
<1> HIDE DEF k
<1> QED BY <1>1, <1>2, Zenon DEF TlbCpuRec

\* A drained CPU keeps its CR3 and either caches nothing or is as it was.
LEMMA DrainFacts ==
  ASSUME NEW cpu \in TlbCpuRec
  PROVE  /\ DrainForce(cpu) \in TlbCpuRec
         /\ DrainForce(cpu).cr3 = cpu.cr3 /\ DrainForce(cpu).isr = cpu.isr
         /\ \/ ~cpu.force /\ DrainForce(cpu) = cpu
            \/ \A p \in TlbPages : DrainForce(cpu).cache[p] = NoEntry
<1> DEFINE k == FlushTlb(cpu)
<1>1. /\ k \in TlbCpuRec /\ k.cr3 = cpu.cr3 /\ k.isr = cpu.isr
      /\ \A p \in TlbPages : k.cache[p] = NoEntry
  BY FlushFacts, Zenon
<1>2. DrainForce(cpu) = IF cpu.force THEN [k EXCEPT !.force = FALSE] ELSE cpu
  BY Zenon DEF DrainForce
<1> HIDE DEF k
<1>3. CASE cpu.force
  BY <1>1, <1>2, <1>3, Zenon DEF TlbCpuRec
<1> QED BY <1>2, <1>3, Zenon

-----------------------------------------------------------------------------
(* What a step of CPU c has to show for each part of the invariant.          *)

\* CPU c goes to pc with locals r.
TlbGoes(c, pc, r) ==
  tlbPc' = [tlbPc EXCEPT ![c] = pc] /\ tlbReg' = [tlbReg EXCEPT ![c] = r]

\* No other CPU changes its CR3.
TlbOthersStay(c) == \A d \in TlbCpus \ {c} : tlbCpu'[d].cr3 = tlbCpu[d].cr3

LEMMA Gone ==
  ASSUME TlbShape, NEW c \in TlbCpus, NEW pc, NEW r \in TlbRegRec, TlbGoes(c, pc, r)
  PROVE  /\ tlbPc'[c] = pc /\ tlbReg'[c] = r
         /\ \A d \in TlbCpus \ {c} : tlbPc'[d] = tlbPc[d] /\ tlbReg'[d] = tlbReg[d]
         /\ tlbPc' = [d \in TlbCpus |-> tlbPc'[d]]
         /\ tlbReg' \in [TlbCpus -> TlbRegRec]
  BY Zenon DEF TlbShape, TlbGoes

LEMMA ControlStep ==
  ASSUME TlbShape, TlbControl, NEW c \in TlbCpus, NEW pc, NEW r \in TlbRegRec,
         TlbGoes(c, pc, r), TlbOthersStay(c), TlbAt(pc, r, tlbCpu'[c].cr3)
  PROVE  TlbControl'
<1>1. SUFFICES ASSUME NEW d \in TlbCpus
               PROVE  TlbAt(tlbPc'[d], tlbReg'[d], tlbCpu'[d].cr3)
  BY Zenon DEF TlbControl
<1>2. CASE d = c
  BY <1>2, Gone, Zenon
<1>3. CASE d # c
  <2>1. tlbPc'[d] = tlbPc[d] /\ tlbReg'[d] = tlbReg[d] /\ tlbCpu'[d].cr3 = tlbCpu[d].cr3
    BY <1>3, Gone, Zenon DEF TlbOthersStay
  <2> QED BY <2>1, Zenon DEF TlbControl
<1> QED BY <1>2, <1>3, Zenon

\* The masks keep every other CPU, and the spaces that are gone stay so.
TlbMaskKept(c) ==
  \A s \in TlbSpaces :
    /\ tlbLife[s] = "gone" => tlbLife'[s] = "gone"
    /\ tlbLife'[s] # "gone" => \A d \in TlbCpus \ {c} : d \in tlbMask[s] => d \in tlbMask'[s]

TlbNotes(c, pc, r) ==
  \A s \in TlbSpaces : tlbLife'[s] # "gone" /\ (tlbCpu'[c].cr3 = s \/ (pc = "swMov" /\ r.next = s))
                         => c \in tlbMask'[s]

LEMMA NotedStep ==
  ASSUME TlbShape, TlbNoted, NEW c \in TlbCpus, NEW pc, NEW r \in TlbRegRec,
         TlbGoes(c, pc, r), TlbOthersStay(c), TlbMaskKept(c), TlbNotes(c, pc, r)
  PROVE  TlbNoted'
<1>1. SUFFICES ASSUME NEW d \in TlbCpus, NEW s \in TlbSpaces, tlbLife'[s] # "gone",
                      tlbCpu'[d].cr3 = s \/ (tlbPc'[d] = "swMov" /\ tlbReg'[d].next = s)
               PROVE  d \in tlbMask'[s]
  BY Zenon DEF TlbNoted
<1>2. CASE d = c
  BY <1>1, <1>2, Gone DEF TlbNotes
<1>3. CASE d # c
  <2>1. tlbPc'[d] = tlbPc[d] /\ tlbReg'[d] = tlbReg[d] /\ tlbCpu'[d].cr3 = tlbCpu[d].cr3
    BY <1>3, Gone, Zenon DEF TlbOthersStay
  <2>2. tlbLife[s] # "gone"
    BY <1>1, Zenon DEF TlbMaskKept
  <2>3. d \in tlbMask[s]
    BY <1>1, <2>1, <2>2, Zenon DEF TlbNoted
  <2> QED BY <1>1, <1>3, <2>3, Zenon DEF TlbMaskKept
<1> QED BY <1>2, <1>3, Zenon

\* A step that is not one of an exit.
LEMMA ExitStep ==
  ASSUME TlbShape, TlbOneExit, NEW c \in TlbCpus, NEW pc, NEW r \in TlbRegRec,
         TlbGoes(c, pc, r), tlbLife' = tlbLife,
         r.op = "exit" => /\ tlbReg[c].op = "exit" /\ r.space = tlbReg[c].space
                          /\ pc \in TlbLeaving <=> tlbPc[c] \in TlbLeaving
  PROVE  TlbOneExit'
<1>1. SUFFICES ASSUME NEW d \in TlbCpus, tlbReg'[d].op = "exit"
               PROVE  /\ tlbLife'[tlbReg'[d].space] =
                           IF tlbPc'[d] \in TlbLeaving THEN "dying" ELSE "torn"
                      /\ \A e \in TlbCpus \ {d} :
                           tlbReg'[e].op = "exit" => tlbReg'[e].space # tlbReg'[d].space
  BY Zenon DEF TlbOneExit
<1>2. \A e \in TlbCpus : tlbReg'[e].op = "exit" =>
        /\ tlbReg[e].op = "exit" /\ tlbReg'[e].space = tlbReg[e].space
        /\ tlbPc'[e] \in TlbLeaving <=> tlbPc[e] \in TlbLeaving
  BY Gone
<1> QED BY <1>1, <1>2 DEF TlbOneExit

\* A copy-on-write break of d is between its break and its make.
TlbBreaks(d) == tlbReg[d].op = "write" /\ tlbPc[d] \in TlbShooting \cup {"done"}

LEMMA BrokenStep ==
  ASSUME TlbShape, TlbBroken, NEW c \in TlbCpus, NEW pc, NEW r \in TlbRegRec,
         TlbGoes(c, pc, r),
         \A d \in TlbCpus \ {c} : TlbBreaks(d) =>
           /\ tlbSem'[tlbReg[d].space].wr = {d}
           /\ \A p \in tlbReg[d].range : tlbPte'[tlbReg[d].space][p] = NoEntry,
         r.op = "write" /\ pc \in TlbShooting \cup {"done"} =>
           /\ tlbSem'[r.space].wr = {c}
           /\ \A p \in r.range : tlbPte'[r.space][p] = NoEntry
  PROVE  TlbBroken'
<1>1. SUFFICES ASSUME NEW d \in TlbCpus,
                      tlbReg'[d].op = "write" /\ tlbPc'[d] \in TlbShooting \cup {"done"}
               PROVE  /\ tlbSem'[tlbReg'[d].space].wr = {d}
                      /\ \A p \in tlbReg'[d].range : tlbPte'[tlbReg'[d].space][p] = NoEntry
  BY Zenon DEF TlbBroken
<1>2. CASE d = c
  BY <1>1, <1>2, Gone
<1>3. CASE d # c
  BY <1>1, <1>3, Gone DEF TlbBreaks
<1> QED BY <1>2, <1>3, Zenon

\* No shootdown moves, but one may begin.
TlbKeeps ==
  /\ tlbSlot' = tlbSlot /\ tlbShared' = tlbShared
  /\ \A d \in TlbCpus :
       tlbPc[d] \in TlbShooting \/ tlbPc'[d] \in TlbShooting \ {"snapshot"} =>
         tlbPc'[d] = tlbPc[d] /\ tlbReg'[d] = tlbReg[d]

\* CPU d still has what is going to flush it.
TlbStillDue(d) ==
  /\ tlbCpu'[d].cr3 = tlbCpu[d].cr3
  /\ tlbCpu[d].force => tlbCpu'[d].force
  /\ tlbCpu[d].isr => tlbCpu'[d].isr

LEMMA FlushStep ==
  ASSUME TlbFlushes, TlbKeeps,
         \A d \in TlbCpus, p \in TlbPages : TlbStale(d, p)' =>
           \/ TlbStale(d, p) /\ TlbStillDue(d)
           \/ \E e \in TlbCpus : TlbReaches(e, d, p)'
  PROVE  TlbFlushes'
<1>1. CASE tlbShared
  BY <1>1, Zenon DEF TlbFlushes, TlbKeeps
<1>2. CASE ~tlbShared
  <2>1. TlbOwned /\ TlbCovered
    BY <1>2, Zenon DEF TlbFlushes
  <2>2. TlbOwned'
    BY <2>1 DEF TlbOwned, TlbKeeps, TlbShooting
  <2>3. TlbCovered'
    <3>1. SUFFICES ASSUME NEW d \in TlbCpus, NEW p \in TlbPages, TlbStale(d, p), TlbStillDue(d)
                   PROVE  TlbDueAt(d, p)'
      BY Zenon DEF TlbCovered, TlbDueAt
    <3>2. CASE \E e \in TlbCpus : TlbReaches(e, d, p)
      <4>1. PICK e \in TlbCpus : TlbReaches(e, d, p)
        BY <3>2, Zenon
      <4>2. TlbReaches(e, d, p)'
        BY <3>1, <4>1, Zenon DEF TlbReaches, TlbKeeps, TlbStillDue, TlbShooting
      <4> QED BY <4>2, Zenon DEF TlbDueAt
    <3> QED BY <2>1, <3>1, <3>2, Zenon DEF TlbCovered, TlbDueAt, TlbStillDue, TlbKeeps
  <2> QED BY <2>2, <2>3, Zenon DEF TlbFlushes
<1> QED BY <1>1, <1>2, Zenon

-----------------------------------------------------------------------------
(* Steps that leave the caches and the masks alone.                          *)

\* What such a step of CPU c leaves alone, and the locks other CPUs hold.
TlbQuiet(c) ==
  /\ UNCHANGED <<tlbCpu, tlbMask, tlbSlot, tlbTick, tlbLife, tlbShared>>
  /\ tlbFree' \subseteq TlbFrames /\ tlbRing' \subseteq [f : TlbFrames, tick : Nat]
  /\ tlbSem' \in [TlbSpaces -> TlbSems]
  /\ \A d \in TlbCpus \ {c}, s \in TlbSpaces : tlbSem[s].wr = {d} => tlbSem'[s].wr = {d}

\* An entry is filled in, or changed with the page in the range of a shootdown
\* that begins, and not under another CPU's write lock.
TlbWrites(c, pc, r) ==
  /\ tlbPte' \in [TlbSpaces -> [TlbPages -> TlbEntry]]
  /\ \A s \in TlbSpaces, p \in TlbPages : tlbPte'[s][p] # tlbPte[s][p] =>
       /\ tlbPte[s][p] = NoEntry \/ (pc = "snapshot" /\ r.space = s /\ p \in r.range)
       /\ \A d \in TlbCpus \ {c} : tlbSem[s].wr # {d}

\* The step begins no part of a shootdown but the first, and none of an exit; a
\* copy-on-write break begins it with the lock held and the entry clear.
TlbSmall(c, pc, r) ==
  /\ tlbPc[c] \notin TlbShooting /\ pc \notin (TlbShooting \ {"snapshot"}) \cup {"done", "swMov"}
  /\ r.op = "exit" => /\ tlbReg[c].op = "exit" /\ r.space = tlbReg[c].space
                      /\ pc \in TlbLeaving <=> tlbPc[c] \in TlbLeaving
  /\ r.op = "write" /\ pc = "snapshot" =>
       /\ tlbSem'[r.space].wr = {c}
       /\ \A p \in r.range : tlbPte'[r.space][p] = NoEntry

LEMMA PteStep ==
  ASSUME TlbIInv, NEW c \in TlbCpus, NEW pc, NEW r \in TlbRegRec, TlbGoes(c, pc, r),
         TlbQuiet(c), TlbWrites(c, pc, r), TlbSmall(c, pc, r), TlbAt(pc, r, tlbCpu[c].cr3)
  PROVE  TlbIInv'
<1>0. TlbShape /\ TlbControl /\ TlbNoted /\ TlbOneExit /\ TlbBroken /\ TlbFlushes
  BY Zenon DEF TlbIInv
<1>1. TlbShape'
  BY <1>0, Gone, Zenon DEF TlbShape, TlbQuiet, TlbWrites
<1>2. TlbOthersStay(c) /\ TlbMaskKept(c)
  BY Zenon DEF TlbOthersStay, TlbMaskKept, TlbQuiet
<1>3. TlbControl'
  BY <1>0, <1>2, ControlStep, Zenon DEF TlbQuiet
<1>4. TlbNotes(c, pc, r)
  BY <1>0, Zenon DEF TlbNotes, TlbNoted, TlbQuiet, TlbSmall
<1>5. TlbNoted'
  BY <1>0, <1>2, <1>4, NotedStep, Zenon
<1>6. TlbOneExit'
  BY <1>0, ExitStep, Zenon DEF TlbQuiet, TlbSmall
<1>7. \A d \in TlbCpus \ {c} : TlbBreaks(d) =>
        /\ tlbSem'[tlbReg[d].space].wr = {d}
        /\ \A p \in tlbReg[d].range : tlbPte'[tlbReg[d].space][p] = NoEntry
  <2>1. \A d \in TlbCpus : TlbBreaks(d) => tlbReg[d].space \in TlbSpaces
    BY <1>0, Zenon DEF TlbControl, TlbAt, TlbBreaks, TlbShooting, TlbSwitching
  <2>2. \A d \in TlbCpus : tlbReg[d].range \subseteq TlbPages
    BY <1>0, Zenon DEF TlbShape, TlbRegRec
  <2>3. \A d \in TlbCpus : TlbBreaks(d) =>
          /\ tlbSem[tlbReg[d].space].wr = {d}
          /\ \A p \in tlbReg[d].range : tlbPte[tlbReg[d].space][p] = NoEntry
    BY <1>0, Zenon DEF TlbBroken, TlbBreaks
  <2>4. SUFFICES ASSUME NEW d \in TlbCpus \ {c}, TlbBreaks(d)
                 PROVE  /\ tlbSem'[tlbReg[d].space].wr = {d}
                        /\ \A p \in tlbReg[d].range : tlbPte'[tlbReg[d].space][p] = NoEntry
    BY Zenon
  <2> DEFINE s == tlbReg[d].space
  <2>5. s \in TlbSpaces /\ tlbSem[s].wr = {d}
    BY <2>1, <2>3, <2>4, Zenon
  <2>6. tlbSem'[s].wr = {d}
    BY <2>5, Zenon DEF TlbQuiet
  <2>7. ASSUME NEW p \in tlbReg[d].range PROVE tlbPte'[s][p] = NoEntry
    BY <2>2, <2>3, <2>4, <2>5 DEF TlbWrites
  <2> QED BY <2>6, <2>7, Zenon
<1>8. TlbBroken'
  BY <1>0, <1>7, BrokenStep, Zenon DEF TlbSmall
<1>9. TlbKeeps
  BY <1>0, Gone DEF TlbKeeps, TlbQuiet, TlbSmall, TlbShooting
<1>10. ASSUME NEW d \in TlbCpus, NEW p \in TlbPages, TlbStale(d, p)'
       PROVE  \/ TlbStale(d, p) /\ TlbStillDue(d)
              \/ \E e \in TlbCpus : TlbReaches(e, d, p)'
  <2> DEFINE s == tlbCpu[d].cr3
  <2>1. /\ s \in TlbSpaces /\ tlbLife[s] # "gone" /\ tlbCpu[d].cache[p] # NoEntry
        /\ tlbCpu[d].cache[p] # tlbPte'[s][p] /\ tlbCpu' = tlbCpu
    BY <1>10, Zenon DEF TlbStale, TlbQuiet
  <2>2. CASE tlbPte[s][p] = tlbPte'[s][p] \/ tlbPte[s][p] = NoEntry
    BY <2>1, <2>2, Zenon DEF TlbStale, TlbStillDue
  <2>3. CASE pc = "snapshot" /\ r.space = s /\ p \in r.range
    <3>1. TlbReaches(c, d, p)'
      BY <1>0, <2>1, <2>3, Gone DEF TlbReaches
    <3> QED BY <3>1, Zenon
  <2> QED BY <2>1, <2>2, <2>3, Zenon DEF TlbWrites
<1>11. TlbFlushes'
  BY <1>0, <1>9, <1>10, FlushStep, Zenon
<1> QED BY <1>1, <1>3, <1>5, <1>6, <1>8, <1>11, Zenon DEF TlbIInv

LEMMA QuietStep ==
  ASSUME TlbIInv, NEW c \in TlbCpus, NEW pc, NEW r \in TlbRegRec, TlbGoes(c, pc, r),
         tlbPte' = tlbPte, TlbQuiet(c), TlbSmall(c, pc, r), TlbAt(pc, r, tlbCpu[c].cr3)
  PROVE  TlbIInv'
<1>1. TlbWrites(c, pc, r)
  BY Zenon DEF TlbWrites, TlbIInv, TlbShape
<1> QED BY <1>1, PteStep, Zenon

\* TlbReturn leaves nothing to say about the locals.
LEMMA ReturnAt ==
  ASSUME NEW cr3
  PROVE  /\ TlbAt("user", NoRegs, cr3) /\ NoRegs \in TlbRegRec /\ NoRegs.op = "none"
         /\ \A c : tlbPc[c] \notin TlbShooting => TlbSmall(c, "user", NoRegs)
<1>1. NoRegs.op = "none" /\ NoRegs \in TlbRegRec
  BY ConstantFacts, Zenon DEF NoRegs
<1>2. TlbAt("user", NoRegs, cr3)
  BY <1>1, Zenon DEF TlbAt, TlbShooting, TlbSwitching, TlbLeaving
<1> QED BY <1>1, <1>2, Zenon DEF TlbSmall, TlbShooting

\* The lock operations on mm_sem touch no other CPU's hold.
LEMMA LockFacts ==
  ASSUME TlbShape, NEW c \in TlbCpus, NEW s \in TlbSpaces
  PROVE  /\ TlbReadLock(c, s) \/ TlbUnlock(c, s) =>
              /\ tlbSem' \in [TlbSpaces -> TlbSems]
              /\ \A d \in TlbCpus \ {c}, t \in TlbSpaces :
                   tlbSem[t].wr = {d} => tlbSem'[t].wr = {d}
         /\ TlbWriteLock(c, s) /\ TlbSemFree(s) =>
              /\ tlbSem' \in [TlbSpaces -> TlbSems] /\ tlbSem'[s].wr = {c}
              /\ \A d \in TlbCpus \ {c}, t \in TlbSpaces :
                   tlbSem[t].wr = {d} => tlbSem'[t].wr = {d}
<1>0. tlbSem \in [TlbSpaces -> TlbSems]
  BY Zenon DEF TlbShape
<1>1. ASSUME TlbReadLock(c, s)
      PROVE  /\ tlbSem' \in [TlbSpaces -> TlbSems]
             /\ \A t \in TlbSpaces : tlbSem'[t].wr = tlbSem[t].wr
  BY <1>0, <1>1, Zenon DEF TlbReadLock, TlbSems
<1>2. ASSUME TlbWriteLock(c, s)
      PROVE  /\ tlbSem' \in [TlbSpaces -> TlbSems] /\ tlbSem'[s].wr = {c}
             /\ \A t \in TlbSpaces \ {s} : tlbSem'[t].wr = tlbSem[t].wr
  BY <1>0, <1>2, Zenon DEF TlbWriteLock, TlbSems
<1>3. ASSUME TlbUnlock(c, s)
      PROVE  /\ tlbSem' \in [TlbSpaces -> TlbSems] /\ tlbSem'[s].wr = tlbSem[s].wr \ {c}
             /\ \A t \in TlbSpaces \ {s} : tlbSem'[t].wr = tlbSem[t].wr
  BY <1>0, <1>3, Zenon DEF TlbUnlock, TlbSems
<1> QED BY <1>1, <1>2, <1>3, Zenon DEF TlbSemFree

LEMMA DisposeFacts ==
  ASSUME TlbShape, NEW c, NEW frames \in SUBSET TlbFrames, TlbDispose(c, frames)
  PROVE  tlbFree' \subseteq TlbFrames /\ tlbRing' \subseteq [f : TlbFrames, tick : Nat]
<1>0. tlbFree \subseteq TlbFrames /\ tlbRing \subseteq [f : TlbFrames, tick : Nat] /\ tlbTick \in Nat
  BY Zenon DEF TlbShape
<1>1. CASE tlbReg[c].clean
  BY <1>0, <1>1, Zenon DEF TlbDispose
<1>2. CASE ~tlbReg[c].clean
  <2>1. PICK Q \in SUBSET frames : /\ tlbRing' = tlbRing \cup {[f |-> f, tick |-> tlbTick] : f \in Q}
                                   /\ tlbFree' = tlbFree \cup (frames \ Q)
    BY <1>2, Zenon DEF TlbDispose
  <2>2. {[f |-> f, tick |-> tlbTick] : f \in Q} \subseteq [f : TlbFrames, tick : Nat]
    BY <1>0
  <2> QED BY <1>0, <2>1, <2>2, Zenon
<1> QED BY <1>1, <1>2, Zenon

LEMMA EnterStep ==
  ASSUME TlbIInv, NEW c \in TlbCpus,
         \/ TlbFork(c)
         \/ \E p \in TlbPages : TlbUnmap(c, p) \/ TlbWriteFault(c, p) \/ TlbReadFault(c, p)
  PROVE  TlbIInv'
<1>0. TlbShape
  BY Zenon DEF TlbIInv
<1>1. PICK call \in {"unmap", "fork", "write", "read"},
           pc \in {"clear", "forkTable", "faultTable"}, range \in SUBSET TlbPages :
        /\ TlbEnter(c, call, pc, range) /\ UNCHANGED <<tlbCpu, tlbLife>>
        /\ call = "unmap" <=> pc = "clear"
        /\ call = "fork" <=> pc = "forkTable"
        /\ call = "fork" => range = TlbPages
        /\ call \in {"write", "read"} => \E p \in TlbPages : range = {p}
  <2>1. TlbPages \in SUBSET TlbPages /\ \A p \in TlbPages : {p} \in SUBSET TlbPages
    BY Zenon
  <2>2. CASE TlbFork(c)
    BY <2>1, <2>2, Zenon DEF TlbFork
  <2>3. ASSUME NEW p \in TlbPages, TlbUnmap(c, p)
        PROVE  TlbEnter(c, "unmap", "clear", {p}) /\ UNCHANGED <<tlbCpu, tlbLife>>
    BY <2>3, Zenon DEF TlbUnmap
  <2>4. ASSUME NEW p \in TlbPages, TlbWriteFault(c, p)
        PROVE  TlbEnter(c, "write", "faultTable", {p}) /\ UNCHANGED <<tlbCpu, tlbLife>>
    BY <2>4, Zenon DEF TlbWriteFault
  <2>5. ASSUME NEW p \in TlbPages, TlbReadFault(c, p)
        PROVE  TlbEnter(c, "read", "faultTable", {p}) /\ UNCHANGED <<tlbCpu, tlbLife>>
    BY <2>5, Zenon DEF TlbReadFault
  <2> QED BY <2>1, <2>2, <2>3, <2>4, <2>5, Zenon
<1> DEFINE s == tlbCpu[c].cr3
           r == [NoRegs EXCEPT !.op = call, !.space = s, !.range = range]
<1>2. s \in TlbSpaces /\ s \in TlbCr3s
  BY <1>1, Zenon DEF TlbEnter, TlbCr3s
<1>3. /\ TlbGoes(c, pc, r) /\ tlbPc[c] = "user"
      /\ UNCHANGED <<tlbMask, tlbPte, tlbFree, tlbRing, tlbSlot, tlbTick, tlbSem, tlbShared>>
  BY <1>1, Zenon DEF TlbEnter, TlbGo, TlbGoes, TlbCall, TlbRuns, tlbMem, tlbLocks
<1>4. r \in TlbRegRec /\ r.op = call /\ r.space = s /\ r.range = range
  <2>1. call \in TlbCalls /\ KernelCr3 \in TlbCr3s
    BY Zenon DEF TlbCalls, TlbCr3s
  <2> HIDE DEF s
  <2> QED BY <1>2, <2>1, ConstantFacts, Zenon DEF NoRegs, TlbRegRec
<1> HIDE DEF r
<1>5. TlbAt(pc, r, s)
  BY <1>1, <1>2, <1>4, Zenon DEF TlbAt, TlbShooting, TlbSwitching, TlbLeaving
<1>6. TlbQuiet(c)
  BY <1>0, <1>1, <1>3, Zenon DEF TlbQuiet, TlbShape
<1>7. TlbSmall(c, pc, r)
  BY <1>1, <1>3, <1>4, Zenon DEF TlbSmall, TlbShooting
<1> QED BY <1>3, <1>4, <1>5, <1>6, <1>7, QuietStep, Zenon

LEMMA ReturnStep ==
  ASSUME TlbIInv, NEW c \in TlbCpus, TlbUnmapped(c) \/ TlbForked(c)
  PROVE  TlbIInv'
<1>0. TlbShape /\ TlbControl
  BY Zenon DEF TlbIInv
<1> DEFINE s == tlbReg[c].space
<1>1. /\ TlbGoes(c, "user", NoRegs) /\ tlbPc[c] = "done" /\ TlbUnlock(c, s)
      /\ UNCHANGED <<tlbCpu, tlbMask, tlbPte, tlbSlot, tlbTick, tlbLife, tlbShared>>
  BY Zenon DEF TlbUnmapped, TlbForked, TlbReturn, TlbGo, TlbGoes, TlbRuns, tlbMem
<1>2. s \in TlbSpaces
  BY <1>0, <1>1, Zenon DEF TlbControl, TlbAt, TlbSwitching
<1>3. tlbFree' \subseteq TlbFrames /\ tlbRing' \subseteq [f : TlbFrames, tick : Nat]
  <2>1. CASE TlbUnmapped(c)
    <3>1. tlbReg[c].frames \in SUBSET TlbFrames
      BY <1>0, Zenon DEF TlbShape, TlbRegRec
    <3> QED BY <1>0, <2>1, <3>1, DisposeFacts, Zenon DEF TlbUnmapped
  <2>2. CASE TlbForked(c)
    BY <1>0, <2>2, Zenon DEF TlbForked, TlbShape, tlbMem
  <2> QED BY <2>1, <2>2, Zenon
<1>4. TlbQuiet(c)
  BY <1>0, <1>1, <1>2, <1>3, LockFacts, Zenon DEF TlbQuiet
<1>5. TlbSmall(c, "user", NoRegs) /\ NoRegs \in TlbRegRec /\ TlbAt("user", NoRegs, tlbCpu[c].cr3)
  BY <1>1, ReturnAt, Zenon DEF TlbShooting
<1> QED BY <1>1, <1>4, <1>5, QuietStep, Zenon

LEMMA LocalStep ==
  ASSUME TlbIInv, NEW c \in TlbCpus, TlbForkTable(c) \/ TlbSwRead(c) \/ TlbExSem(c)
  PROVE  TlbIInv'
<1>0. TlbShape /\ TlbControl
  BY Zenon DEF TlbIInv
<1> DEFINE r == tlbReg[c]
<1>1. r \in TlbRegRec /\ TlbAt(tlbPc[c], r, tlbCpu[c].cr3) /\ tlbReg = [tlbReg EXCEPT ![c] = r]
  BY <1>0, Zenon DEF TlbShape, TlbControl
<1>2. CASE TlbForkTable(c)
  <2>1. TlbGoes(c, "forkSem", r) /\ tlbPc[c] = "forkTable"
    BY <1>1, <1>2, Zenon DEF TlbForkTable, TlbGo, TlbGoes, TlbRuns
  <2>2. TlbAt("forkSem", r, tlbCpu[c].cr3)
    BY <1>1, <2>1, Zenon DEF TlbAt, TlbShooting, TlbSwitching, TlbLeaving
  <2>3. TlbQuiet(c) /\ tlbPte' = tlbPte
    BY <1>0, <1>2, Zenon DEF TlbForkTable, TlbQuiet, TlbShape, tlbMem
  <2>4. TlbSmall(c, "forkSem", r)
    BY <1>1, <2>1, Zenon DEF TlbSmall, TlbShooting, TlbLeaving
  <2> QED BY <1>1, <2>1, <2>2, <2>3, <2>4, QuietStep, Zenon
<1>3. CASE TlbSwRead(c)
  <2>0. TlbQuiet(c) /\ tlbPte' = tlbPte /\ tlbPc[c] = "swRead" /\ tlbPc[c] \notin TlbShooting
    BY <1>0, <1>3, Zenon DEF TlbSwRead, TlbQuiet, TlbShape, tlbMem, tlbLocks, TlbRuns, TlbShooting
  <2>1. CASE TlbReturn(c)
    <3>1. TlbGoes(c, "user", NoRegs)
      BY <2>1, Zenon DEF TlbReturn, TlbGo, TlbGoes
    <3> QED BY <2>0, <3>1, ReturnAt, QuietStep, Zenon
  <2>2. CASE r.next # KernelCr3 /\ TlbGo(c, "swLoad") /\ UNCHANGED tlbReg
    <3>1. TlbGoes(c, "swLoad", r)
      BY <1>1, <2>2, Zenon DEF TlbGo, TlbGoes
    <3>2. TlbAt("swLoad", r, tlbCpu[c].cr3)
      BY <1>1, <2>0, <2>2, Zenon DEF TlbAt, TlbShooting, TlbSwitching, TlbLeaving, TlbRegRec, TlbCr3s
    <3>3. TlbSmall(c, "swLoad", r)
      BY <2>0, <3>2, Zenon DEF TlbSmall, TlbShooting, TlbLeaving, TlbAt, TlbSwitching
    <3> QED BY <1>1, <2>0, <3>1, <3>2, <3>3, QuietStep, Zenon
  <2> QED BY <1>3, <2>1, <2>2, Zenon DEF TlbSwRead
<1>4. CASE TlbExSem(c)
  <2>1. TlbGoes(c, "snapshot", r) /\ tlbPc[c] = "exSem"
    BY <1>1, <1>4, Zenon DEF TlbExSem, TlbGo, TlbGoes, TlbRuns
  <2>2. TlbAt("snapshot", r, tlbCpu[c].cr3)
    BY <1>1, <2>1, Zenon DEF TlbAt, TlbShooting, TlbSwitching, TlbLeaving
  <2>3. r.space \in TlbSpaces /\ r.op = "exit"
    BY <1>1, <2>1, Zenon DEF TlbAt, TlbSwitching
  <2>4. TlbQuiet(c) /\ tlbPte' = tlbPte
    BY <1>0, <1>4, <2>3, LockFacts, Zenon DEF TlbExSem, TlbQuiet, TlbShape, tlbMem
  <2>5. TlbSmall(c, "snapshot", r)
    BY <2>1, <2>3, Zenon DEF TlbSmall, TlbShooting, TlbLeaving
  <2> QED BY <1>1, <2>1, <2>2, <2>4, <2>5, QuietStep, Zenon
<1> QED BY <1>2, <1>3, <1>4, Zenon

-----------------------------------------------------------------------------
(* Steps that change page-table entries.                                     *)

\* The page of a fault.
LEMMA FaultPage ==
  ASSUME TlbShape, TlbControl, NEW c \in TlbCpus, tlbReg[c].op \in {"read", "write"}
  PROVE  \E p \in TlbPages : /\ tlbReg[c].range = {p}
                             /\ (CHOOSE q \in TlbPages : q \in tlbReg[c].range) = p
<1>1. PICK p \in TlbPages : tlbReg[c].range = {p}
  BY Zenon DEF TlbControl, TlbAt
<1>2. (CHOOSE q \in TlbPages : q \in tlbReg[c].range) = p
  BY <1>1, Zenon
<1> QED BY <1>1, <1>2, Zenon

LEMMA FaultTableStep ==
  ASSUME TlbIInv, NEW c \in TlbCpus, TlbFaultTable(c)
  PROVE  TlbIInv'
<1>0. TlbShape /\ TlbControl
  BY Zenon DEF TlbIInv
<1>1. /\ tlbPc[c] = "faultTable" /\ tlbPc[c] \notin TlbShooting
      /\ tlbReg[c] \in TlbRegRec /\ TlbAt(tlbPc[c], tlbReg[c], tlbCpu[c].cr3)
  BY <1>0, Zenon DEF TlbFaultTable, TlbRuns, TlbShape, TlbControl, TlbShooting
<1> DEFINE s == tlbReg[c].space
           op == tlbReg[c].op
<1>2. s \in TlbSpaces /\ op \in {"read", "write"}
  BY <1>1, Zenon DEF TlbAt, TlbSwitching
<1>3. PICK p \in TlbPages : /\ tlbReg[c].range = {p}
                            /\ (CHOOSE q \in TlbPages : q \in tlbReg[c].range) = p
  BY <1>0, <1>2, FaultPage, Zenon
<1>4. UNCHANGED <<tlbCpu, tlbMask, tlbPte, tlbRing, tlbSlot, tlbTick, tlbSem, tlbLife, tlbShared>>
  BY Zenon DEF TlbFaultTable
<1> DEFINE e == tlbPte[s][p]
           copy == e # NoEntry /\ ~e.w
<1>5. CASE \E f \in tlbFree :
             /\ IF op = "write" THEN copy ELSE e = NoEntry
             /\ tlbFree' = tlbFree \ {f}
             /\ tlbReg' = [tlbReg EXCEPT ![c].new = f, ![c].frames = {e.f} \ {0}]
             /\ TlbGo(c, IF copy THEN "break" ELSE "install")
  <2>1. PICK f \in tlbFree :
             /\ IF op = "write" THEN copy ELSE e = NoEntry
             /\ tlbFree' = tlbFree \ {f}
             /\ tlbReg' = [tlbReg EXCEPT ![c].new = f, ![c].frames = {e.f} \ {0}]
             /\ TlbGo(c, IF copy THEN "break" ELSE "install")
    BY <1>5, Zenon
  <2> DEFINE F == {e.f} \ {0}
             r == [tlbReg[c] EXCEPT !.new = f, !.frames = F]
             pc == IF copy THEN "break" ELSE "install"
  <2>2. f \in TlbFrames /\ F \in SUBSET TlbFrames
    <3>1. e \in TlbEntry
      BY <1>0, <1>2, Zenon DEF TlbShape
    <3> QED BY <1>0, <2>1, <3>1, ConstantFacts, Zenon DEF TlbEntry, TlbShape
  <2>3. tlbReg' = [tlbReg EXCEPT ![c] = r]
    BY <1>0, <1>1, <2>1, Zenon DEF TlbShape
  <2>4. pc = (IF op = "write" THEN "break" ELSE "install")
    BY <2>1, Zenon
  <2> HIDE DEF F, copy, e, pc
  <2>5. r \in TlbRegRec /\ r.op = op /\ r.space = s /\ r.range = tlbReg[c].range /\ r.new = f
    BY <1>1, <2>2, Zenon DEF TlbRegRec
  <2> HIDE DEF r
  <2>6. TlbGoes(c, pc, r)
    BY <2>1, <2>3, Zenon DEF TlbGo, TlbGoes, pc
  <2>7. TlbAt(pc, r, tlbCpu[c].cr3)
    BY <1>2, <1>3, <2>2, <2>4, <2>5, Zenon DEF TlbAt, TlbShooting, TlbSwitching, TlbLeaving
  <2>8. TlbQuiet(c)
    BY <1>0, <1>4, <2>1, Zenon DEF TlbQuiet, TlbShape
  <2>9. TlbSmall(c, pc, r)
    BY <1>1, <1>2, <2>4, <2>5, Zenon DEF TlbSmall, TlbShooting
  <2> QED BY <1>4, <2>5, <2>6, <2>7, <2>8, <2>9, QuietStep, Zenon
<1>6. CASE TlbReturn(c) /\ UNCHANGED tlbFree
  <2>1. TlbGoes(c, "user", NoRegs)
    BY <1>6, Zenon DEF TlbReturn, TlbGo, TlbGoes
  <2>2. TlbQuiet(c)
    BY <1>0, <1>4, <1>6, Zenon DEF TlbQuiet, TlbShape
  <2> QED BY <1>1, <1>4, <2>1, <2>2, ReturnAt, QuietStep, Zenon
<1> QED BY <1>3, <1>5, <1>6, Zenon DEF TlbFaultTable

LEMMA ClearStep ==
  ASSUME TlbIInv, NEW c \in TlbCpus, TlbClear(c)
  PROVE  TlbIInv'
<1>0. TlbShape /\ TlbControl
  BY Zenon DEF TlbIInv
<1> DEFINE s == tlbReg[c].space
           R == tlbReg[c].range
           F == {tlbPte[s][p].f : p \in {q \in R : tlbPte[s][q].w}}
           r == [tlbReg[c] EXCEPT !.frames = F]
<1>1. /\ tlbPc[c] = "clear" /\ TlbNoWriter(s) /\ TlbReadLock(c, s)
      /\ tlbReg' = [tlbReg EXCEPT ![c].frames = F]
      /\ tlbPte' = [tlbPte EXCEPT ![s] =
                      [p \in TlbPages |-> IF p \in R THEN NoEntry ELSE tlbPte[s][p]]]
      /\ TlbGo(c, "snapshot")
      /\ UNCHANGED <<tlbCpu, tlbMask, tlbFree, tlbRing, tlbSlot, tlbTick, tlbLife, tlbShared>>
  BY Zenon DEF TlbClear, TlbRuns
<1>2. tlbReg[c] \in TlbRegRec /\ TlbAt("clear", tlbReg[c], tlbCpu[c].cr3)
  BY <1>0, <1>1, Zenon DEF TlbShape, TlbControl
<1>3. s \in TlbSpaces /\ R \subseteq TlbPages /\ tlbReg[c].op = "unmap"
  BY <1>2, Zenon DEF TlbAt, TlbSwitching, TlbRegRec
<1>4. F \in SUBSET TlbFrames
  <2>1. \A p \in R : tlbPte[s][p] \in TlbEntry
    BY <1>0, <1>3, Zenon DEF TlbShape
  <2> QED BY <2>1, ConstantFacts, Zenon DEF TlbEntry
<1>5. tlbReg' = [tlbReg EXCEPT ![c] = r]
  BY <1>0, <1>1, Zenon DEF TlbShape
<1>6. \A t \in TlbSpaces, p \in TlbPages :
        tlbPte'[t][p] = IF t = s /\ p \in R THEN NoEntry ELSE tlbPte[t][p]
  BY <1>0, <1>1, <1>3, Zenon DEF TlbShape
<1>7. tlbPte' \in [TlbSpaces -> [TlbPages -> TlbEntry]]
  BY <1>0, <1>1, <1>3, ConstantFacts, Zenon DEF TlbShape
<1> HIDE DEF F
<1>8. r \in TlbRegRec /\ r.op = "unmap" /\ r.space = s /\ r.range = R
  BY <1>2, <1>3, <1>4, Zenon DEF TlbRegRec
<1> HIDE DEF r
<1>9. TlbGoes(c, "snapshot", r)
  BY <1>1, <1>5, Zenon DEF TlbGo, TlbGoes
<1>10. TlbAt("snapshot", r, tlbCpu[c].cr3)
  BY <1>3, <1>8, Zenon DEF TlbAt, TlbShooting, TlbSwitching, TlbLeaving
<1>11. TlbQuiet(c)
  BY <1>0, <1>1, <1>3, LockFacts, Zenon DEF TlbQuiet, TlbShape
<1>12. TlbWrites(c, "snapshot", r)
  BY <1>1, <1>6, <1>7, <1>8, Zenon DEF TlbWrites, TlbNoWriter
<1>13. TlbSmall(c, "snapshot", r)
  BY <1>1, <1>8, Zenon DEF TlbSmall, TlbShooting
<1> QED BY <1>8, <1>9, <1>10, <1>11, <1>12, <1>13, PteStep, Zenon

LEMMA ProtectStep ==
  ASSUME TlbIInv, NEW c \in TlbCpus, TlbProtect(c)
  PROVE  TlbIInv'
<1>0. TlbShape /\ TlbControl
  BY Zenon DEF TlbIInv
<1> DEFINE s == tlbReg[c].space
           r == tlbReg[c]
<1>1. /\ tlbPc[c] = "forkSem" /\ TlbSemFree(s) /\ TlbWriteLock(c, s)
      /\ tlbReg' = tlbReg
      /\ tlbPte' = [tlbPte EXCEPT ![s] = [p \in TlbPages |-> [tlbPte[s][p] EXCEPT !.w = FALSE]]]
      /\ TlbGo(c, "snapshot")
      /\ UNCHANGED <<tlbCpu, tlbMask, tlbFree, tlbRing, tlbSlot, tlbTick, tlbLife, tlbShared>>
  BY Zenon DEF TlbProtect, TlbRuns
<1>2. r \in TlbRegRec /\ TlbAt("forkSem", r, tlbCpu[c].cr3)
  BY <1>0, <1>1, Zenon DEF TlbShape, TlbControl
<1>3. s \in TlbSpaces /\ r.range = TlbPages /\ r.op = "fork"
  BY <1>2, Zenon DEF TlbAt, TlbSwitching
<1>4. TlbGoes(c, "snapshot", r)
  BY <1>0, <1>1, Zenon DEF TlbGo, TlbGoes, TlbShape
<1>5. TlbAt("snapshot", r, tlbCpu[c].cr3)
  BY <1>2, <1>3, Zenon DEF TlbAt, TlbShooting, TlbSwitching, TlbLeaving
<1>6. TlbQuiet(c)
  BY <1>0, <1>1, <1>3, LockFacts, Zenon DEF TlbQuiet, TlbShape
<1>7. tlbPte' \in [TlbSpaces -> [TlbPages -> TlbEntry]]
  <2>1. ASSUME NEW e \in TlbEntry PROVE [e EXCEPT !.w = FALSE] \in TlbEntry
    BY Zenon DEF TlbEntry
  <2> DEFINE k == [p \in TlbPages |-> [tlbPte[s][p] EXCEPT !.w = FALSE]]
  <2>2. k \in [TlbPages -> TlbEntry]
    BY <1>0, <1>3, <2>1 DEF TlbShape
  <2>3. tlbPte' = [tlbPte EXCEPT ![s] = k]
    BY <1>1, Zenon
  <2> HIDE DEF k
  <2> QED BY <1>0, <2>2, <2>3, Zenon DEF TlbShape
<1>8. \A t \in TlbSpaces \ {s} : tlbPte'[t] = tlbPte[t]
  BY <1>0, <1>1, Zenon DEF TlbShape
<1>9. TlbWrites(c, "snapshot", r)
  BY <1>1, <1>3, <1>7, <1>8, Zenon DEF TlbWrites, TlbSemFree
<1>10. TlbSmall(c, "snapshot", r)
  BY <1>1, <1>3, Zenon DEF TlbSmall, TlbShooting
<1> QED BY <1>2, <1>4, <1>5, <1>6, <1>9, <1>10, PteStep, Zenon

LEMMA BreakStep ==
  ASSUME TlbIInv, NEW c \in TlbCpus, TlbBreak(c)
  PROVE  TlbIInv'
<1>0. TlbShape /\ TlbControl
  BY Zenon DEF TlbIInv
<1> DEFINE s == tlbReg[c].space
           r == tlbReg[c]
<1>1. /\ tlbPc[c] = "break" /\ tlbPc[c] \notin TlbShooting
      /\ r \in TlbRegRec /\ TlbAt("break", r, tlbCpu[c].cr3)
  BY <1>0, Zenon DEF TlbBreak, TlbRuns, TlbShape, TlbControl, TlbShooting
<1>2. s \in TlbSpaces /\ r.op = "write" /\ r.new \in TlbFrames
  BY <1>1, Zenon DEF TlbAt, TlbSwitching
<1>3. PICK p \in TlbPages : r.range = {p} /\ (CHOOSE q \in TlbPages : q \in r.range) = p
  BY <1>0, <1>2, FaultPage, Zenon
<1>4. /\ TlbSemFree(s)
      /\ UNCHANGED <<tlbCpu, tlbMask, tlbRing, tlbSlot, tlbTick, tlbLife, tlbShared>>
  BY Zenon DEF TlbBreak
<1>5. CASE /\ TlbWriteLock(c, s) /\ tlbPte' = [tlbPte EXCEPT ![s][p] = NoEntry]
           /\ TlbGo(c, "snapshot") /\ UNCHANGED <<tlbFree, tlbReg>>
  <2>1. TlbGoes(c, "snapshot", r)
    BY <1>0, <1>5, Zenon DEF TlbGo, TlbGoes, TlbShape
  <2>2. TlbAt("snapshot", r, tlbCpu[c].cr3)
    BY <1>1, <1>2, Zenon DEF TlbAt, TlbShooting, TlbSwitching, TlbLeaving
  <2>3. TlbQuiet(c) /\ tlbSem'[s].wr = {c}
    BY <1>0, <1>2, <1>4, <1>5, LockFacts, Zenon DEF TlbQuiet, TlbShape
  <2>4. /\ tlbPte' \in [TlbSpaces -> [TlbPages -> TlbEntry]]
        /\ \A t \in TlbSpaces, q \in TlbPages :
             tlbPte'[t][q] = IF t = s /\ q = p THEN NoEntry ELSE tlbPte[t][q]
    BY <1>0, <1>2, <1>5, ConstantFacts, Zenon DEF TlbShape
  <2>5. TlbWrites(c, "snapshot", r)
    BY <1>3, <1>4, <2>4 DEF TlbWrites, TlbSemFree
  <2>6. TlbSmall(c, "snapshot", r)
    BY <1>1, <1>2, <1>3, <2>3, <2>4, Zenon DEF TlbSmall, TlbShooting
  <2> QED BY <1>1, <2>1, <2>2, <2>3, <2>5, <2>6, PteStep, Zenon
<1>6. CASE /\ tlbFree' = tlbFree \cup {r.new} /\ TlbReturn(c) /\ UNCHANGED <<tlbPte, tlbSem>>
  <2>1. TlbGoes(c, "user", NoRegs)
    BY <1>6, Zenon DEF TlbReturn, TlbGo, TlbGoes
  <2>2. TlbQuiet(c) /\ tlbPte' = tlbPte
    BY <1>0, <1>2, <1>4, <1>6, Zenon DEF TlbQuiet, TlbShape
  <2> QED BY <1>1, <2>1, <2>2, ReturnAt, QuietStep, Zenon
<1> QED BY <1>3, <1>5, <1>6, Zenon DEF TlbBreak

\* Clear entries of s are filled in, and the locals are dropped.
LEMMA FillStep ==
  ASSUME TlbIInv, NEW c \in TlbCpus, tlbPc[c] \notin TlbShooting, TlbQuiet(c), TlbReturn(c),
         NEW s \in TlbSpaces,
         \A d \in TlbCpus \ {c} : tlbSem[s].wr # {d},
         NEW k \in [TlbPages -> TlbEntry],
         \A p \in TlbPages : k[p] = tlbPte[s][p] \/ tlbPte[s][p] = NoEntry,
         tlbPte' = [tlbPte EXCEPT ![s] = k]
  PROVE  TlbIInv'
<1>0. tlbPte \in [TlbSpaces -> [TlbPages -> TlbEntry]]
  BY Zenon DEF TlbIInv, TlbShape
<1>1. /\ tlbPte' \in [TlbSpaces -> [TlbPages -> TlbEntry]] /\ tlbPte'[s] = k
      /\ \A t \in TlbSpaces \ {s} : tlbPte'[t] = tlbPte[t]
  BY <1>0, Zenon
<1>2. TlbWrites(c, "user", NoRegs)
  BY <1>1, Zenon DEF TlbWrites
<1>3. TlbGoes(c, "user", NoRegs)
  BY Zenon DEF TlbReturn, TlbGo, TlbGoes
<1> QED BY <1>2, <1>3, ReturnAt, PteStep, Zenon

LEMMA MakeStep ==
  ASSUME TlbIInv, NEW c \in TlbCpus, TlbMake(c)
  PROVE  TlbIInv'
<1>0. TlbShape /\ TlbControl /\ TlbBroken
  BY Zenon DEF TlbIInv
<1> DEFINE s == tlbReg[c].space
           R == tlbReg[c].range
           f == tlbReg[c].new
<1>1. /\ tlbPc[c] = "done" /\ tlbReg[c].op = "write" /\ TlbUnlock(c, s) /\ TlbReturn(c)
      /\ tlbPte' = [tlbPte EXCEPT ![s] = [p \in TlbPages |->
                      IF p \in R THEN [f |-> f, w |-> TRUE] ELSE tlbPte[s][p]]]
      /\ UNCHANGED <<tlbCpu, tlbMask, tlbFree, tlbRing, tlbSlot, tlbTick, tlbLife, tlbShared>>
  BY Zenon DEF TlbMake, TlbRuns
<1>2. tlbReg[c] \in TlbRegRec /\ TlbAt("done", tlbReg[c], tlbCpu[c].cr3)
  BY <1>0, <1>1, Zenon DEF TlbShape, TlbControl
<1>3. s \in TlbSpaces /\ R \in SUBSET TlbPages /\ f \in TlbFrames
  BY <1>1, <1>2, Zenon DEF TlbAt, TlbSwitching, TlbRegRec
<1>4. tlbSem[s].wr = {c} /\ \A p \in R : tlbPte[s][p] = NoEntry
  BY <1>0, <1>1, Zenon DEF TlbBroken
<1>5. TlbQuiet(c)
  BY <1>0, <1>1, <1>3, LockFacts, Zenon DEF TlbQuiet, TlbShape
<1>6. tlbPc[c] \notin TlbShooting
  BY <1>1, Zenon DEF TlbShooting
<1>7. \A d \in TlbCpus \ {c} : tlbSem[s].wr # {d}
  BY <1>4, Zenon
<1> DEFINE new == [f |-> f, w |-> TRUE]
           k == [p \in TlbPages |-> IF p \in R THEN new ELSE tlbPte[s][p]]
<1>8. new \in TlbEntry /\ tlbPte' = [tlbPte EXCEPT ![s] = k]
  BY <1>1, <1>3, TlbAssumption, Zenon DEF TlbEntry
<1> HIDE DEF new, s, R, f
<1>9. k \in [TlbPages -> TlbEntry] /\ \A p \in TlbPages : k[p] = tlbPte[s][p] \/ tlbPte[s][p] = NoEntry
  BY <1>0, <1>3, <1>4, <1>8 DEF TlbShape
<1> HIDE DEF k
<1> QED BY <1>1, <1>3, <1>5, <1>6, <1>7, <1>8, <1>9, FillStep

LEMMA InstallStep ==
  ASSUME TlbIInv, NEW c \in TlbCpus, TlbInstall(c)
  PROVE  TlbIInv'
<1>0. TlbShape /\ TlbControl
  BY Zenon DEF TlbIInv
<1> DEFINE s == tlbReg[c].space
           f == tlbReg[c].new
<1>1. /\ tlbPc[c] = "install" /\ tlbPc[c] \notin TlbShooting
      /\ tlbReg[c] \in TlbRegRec /\ TlbAt("install", tlbReg[c], tlbCpu[c].cr3)
  BY <1>0, Zenon DEF TlbInstall, TlbRuns, TlbShape, TlbControl, TlbShooting
<1>2. s \in TlbSpaces /\ tlbReg[c].op = "read" /\ f \in TlbFrames
  BY <1>1, Zenon DEF TlbAt, TlbSwitching
<1>3. PICK p \in TlbPages : /\ tlbReg[c].range = {p}
                            /\ (CHOOSE q \in TlbPages : q \in tlbReg[c].range) = p
  BY <1>0, <1>2, FaultPage, Zenon
<1>4. /\ TlbNoWriter(s) /\ TlbReturn(c)
      /\ UNCHANGED <<tlbCpu, tlbMask, tlbRing, tlbSlot, tlbTick, tlbSem, tlbLife, tlbShared>>
  BY Zenon DEF TlbInstall
<1>5. CASE /\ tlbPte[s][p] = NoEntry /\ UNCHANGED tlbFree
           /\ tlbPte' = [tlbPte EXCEPT ![s][p] = [f |-> f, w |-> TRUE]]
  <2>1. TlbQuiet(c)
    BY <1>0, <1>4, <1>5, Zenon DEF TlbQuiet, TlbShape
  <2>2. \A d \in TlbCpus \ {c} : tlbSem[s].wr # {d}
    BY <1>4, Zenon DEF TlbNoWriter
  <2> DEFINE new == [f |-> f, w |-> TRUE]
             k == [tlbPte[s] EXCEPT ![p] = new]
  <2>3. new \in TlbEntry /\ tlbPte' = [tlbPte EXCEPT ![s] = k]
    <3>1. tlbPte' = [tlbPte EXCEPT ![s][p] = new] /\ new \in TlbEntry
      BY <1>2, <1>5, TlbAssumption, Zenon DEF TlbEntry
    <3> HIDE DEF new
    <3> QED BY <1>0, <1>2, <3>1, Zenon DEF TlbShape
  <2> HIDE DEF new, s, f
  <2>4. k \in [TlbPages -> TlbEntry] /\ \A q \in TlbPages : k[q] = tlbPte[s][q] \/ tlbPte[s][q] = NoEntry
    BY <1>0, <1>2, <1>5, <2>3, Zenon DEF TlbShape
  <2> HIDE DEF k
  <2> QED BY <1>1, <1>2, <1>4, <2>1, <2>2, <2>3, <2>4, FillStep, Zenon
<1>6. CASE tlbFree' = tlbFree \cup {f} /\ UNCHANGED tlbPte
  <2>1. TlbGoes(c, "user", NoRegs)
    BY <1>4, Zenon DEF TlbReturn, TlbGo, TlbGoes
  <2>2. TlbQuiet(c) /\ tlbPte' = tlbPte
    BY <1>0, <1>2, <1>4, <1>6, Zenon DEF TlbQuiet, TlbShape
  <2> QED BY <1>1, <2>1, <2>2, ReturnAt, QuietStep, Zenon
<1> QED BY <1>3, <1>5, <1>6, Zenon DEF TlbInstall

-----------------------------------------------------------------------------
(* Steps that change a CR3, a mask or the life of an address space.          *)

\* What such a step of CPU c leaves alone: entries are cleared only in a space
\* that is gone.
TlbMoves(c) ==
  /\ UNCHANGED <<tlbSlot, tlbTick, tlbShared>>
  /\ tlbMask' \in [TlbSpaces -> SUBSET TlbCpus] /\ tlbLife' \in [TlbSpaces -> TlbLives]
  /\ tlbFree' \subseteq TlbFrames /\ tlbRing' \subseteq [f : TlbFrames, tick : Nat]
  /\ tlbSem' \in [TlbSpaces -> TlbSems]
  /\ \A d \in TlbCpus \ {c}, s \in TlbSpaces : tlbSem[s].wr = {d} => tlbSem'[s].wr = {d}
  /\ tlbPte' \in [TlbSpaces -> [TlbPages -> TlbEntry]]
  /\ \A s \in TlbSpaces, p \in TlbPages :
       tlbPte'[s][p] = tlbPte[s][p] \/ (tlbPte'[s][p] = NoEntry /\ tlbLife'[s] = "gone")

LEMMA CrStep ==
  ASSUME TlbIInv, NEW c \in TlbCpus, NEW pc, NEW r \in TlbRegRec, TlbGoes(c, pc, r),
         tlbPc[c] \notin TlbShooting, pc \notin TlbShooting \cup {"done"},
         TlbMoves(c), TlbMaskKept(c), TlbNotes(c, pc, r), TlbOneExit',
         NEW cpu \in TlbCpuRec, tlbCpu' = [tlbCpu EXCEPT ![c] = cpu],
         cpu = tlbCpu[c] \/ \A p \in TlbPages : cpu.cache[p] = NoEntry,
         TlbAt(pc, r, cpu.cr3)
  PROVE  TlbIInv'
<1>0. TlbShape /\ TlbControl /\ TlbNoted /\ TlbBroken /\ TlbFlushes
  BY Zenon DEF TlbIInv
<1>1. /\ tlbCpu' \in [TlbCpus -> TlbCpuRec] /\ tlbCpu'[c] = cpu
      /\ \A d \in TlbCpus \ {c} : tlbCpu'[d] = tlbCpu[d]
  BY <1>0, Zenon DEF TlbShape
<1>2. TlbShape'
  BY <1>0, <1>1, Gone, Zenon DEF TlbShape, TlbMoves
<1>3. TlbOthersStay(c)
  BY <1>1, Zenon DEF TlbOthersStay
<1>4. TlbControl'
  BY <1>0, <1>1, <1>3, ControlStep, Zenon
<1>5. TlbNoted'
  BY <1>0, <1>3, NotedStep, Zenon
<1>6. TlbBroken'
  <2>1. ASSUME NEW d \in TlbCpus \ {c}, TlbBreaks(d)
        PROVE  /\ tlbSem'[tlbReg[d].space].wr = {d}
               /\ \A p \in tlbReg[d].range : tlbPte'[tlbReg[d].space][p] = NoEntry
    <3> DEFINE s == tlbReg[d].space
    <3>1. /\ s \in TlbSpaces /\ tlbReg[d].range \subseteq TlbPages
      BY <1>0, <2>1, Zenon DEF TlbControl, TlbAt, TlbBreaks, TlbShooting, TlbSwitching, TlbShape, TlbRegRec
    <3>2. tlbSem[s].wr = {d} /\ \A p \in tlbReg[d].range : tlbPte[s][p] = NoEntry
      BY <1>0, <2>1, Zenon DEF TlbBroken, TlbBreaks
    <3> QED BY <3>1, <3>2, Zenon DEF TlbMoves
  <2> QED BY <1>0, <2>1, BrokenStep, Zenon
<1>7. TlbKeeps
  BY <1>0, Gone DEF TlbKeeps, TlbShooting, TlbMoves
<1>8. ASSUME NEW d \in TlbCpus, NEW p \in TlbPages, TlbStale(d, p)'
      PROVE  TlbStale(d, p) /\ TlbStillDue(d)
  <2> DEFINE s == tlbCpu'[d].cr3
  <2>1. /\ s \in TlbSpaces /\ tlbLife'[s] # "gone"
        /\ tlbCpu'[d].cache[p] # NoEntry /\ tlbCpu'[d].cache[p] # tlbPte'[s][p]
    BY <1>8, Zenon DEF TlbStale
  <2>2. tlbCpu'[d] = tlbCpu[d]
    BY <1>1, <2>1, Zenon
  <2>3. tlbLife[s] # "gone"
    BY <2>1, Zenon DEF TlbMaskKept
  <2>4. tlbPte'[s][p] = tlbPte[s][p]
    BY <2>1, Zenon DEF TlbMoves
  <2> QED BY <2>1, <2>2, <2>3, <2>4, Zenon DEF TlbStale, TlbStillDue
<1>9. TlbFlushes'
  BY <1>0, <1>7, <1>8, FlushStep, Zenon
<1> QED BY <1>2, <1>4, <1>5, <1>6, <1>9, Zenon DEF TlbIInv

LEMMA LeaveStep ==
  ASSUME TlbIInv, NEW c \in TlbCpus, NEW call \in {"switch", "idle"}, NEW next \in TlbCr3s,
         TlbLeave(c, call, next)
  PROVE  TlbIInv'
<1>0. TlbShape /\ TlbOneExit
  BY Zenon DEF TlbIInv
<1> DEFINE r == [NoRegs EXCEPT !.op = call, !.space = tlbCpu[c].cr3, !.next = next]
           cpu == SwitchCr3(tlbCpu[c], KernelCr3)
           pc == "swUnload"
<1>1. /\ tlbPc[c] = "user" /\ TlbGoes(c, pc, r) /\ tlbCpu' = [tlbCpu EXCEPT ![c] = cpu]
      /\ UNCHANGED <<tlbMask, tlbPte, tlbFree, tlbRing, tlbSlot, tlbTick, tlbSem, tlbLife, tlbShared>>
  BY Zenon DEF TlbLeave, TlbCall, TlbRuns, TlbGo, TlbGoes, tlbMem, tlbLocks
<1>2. /\ cpu \in TlbCpuRec /\ cpu.cr3 = KernelCr3 /\ \A p \in TlbPages : cpu.cache[p] = NoEntry
      /\ tlbCpu[c].cr3 \in TlbCr3s
  <2>1. tlbCpu[c] \in TlbCpuRec /\ KernelCr3 \in TlbCr3s
    BY <1>0, Zenon DEF TlbShape, TlbCr3s
  <2> QED BY <2>1, SwitchFacts, Zenon DEF TlbCpuRec
<1>3. r \in TlbRegRec /\ r.op = call
  <2>1. call \in TlbCalls /\ KernelCr3 \in TlbCr3s
    BY Zenon DEF TlbCalls, TlbCr3s
  <2> QED BY <1>2, <2>1, ConstantFacts, Zenon DEF NoRegs, TlbRegRec
<1> HIDE DEF r, cpu
<1>4. tlbCpu'[c] = cpu
  BY <1>0, <1>1, Zenon DEF TlbShape
<1>5. TlbAt(pc, r, cpu.cr3)
  BY <1>2, <1>3, Zenon DEF TlbAt, TlbShooting, TlbSwitching, TlbLeaving
<1>6. TlbMoves(c) /\ TlbMaskKept(c)
  BY <1>0, <1>1, Zenon DEF TlbMoves, TlbMaskKept, TlbShape
<1>7. TlbNotes(c, pc, r)
  BY <1>2, <1>4, ConstantFacts, Zenon DEF TlbNotes
<1>8. TlbOneExit'
  BY <1>0, <1>1, <1>3, ExitStep, Zenon
<1>9. tlbPc[c] \notin TlbShooting /\ pc \notin TlbShooting \cup {"done"}
  BY <1>1, Zenon DEF TlbShooting
<1> HIDE DEF pc
<1> QED BY <1>1, <1>2, <1>3, <1>5, <1>6, <1>7, <1>8, <1>9, CrStep, Zenon

\* note_cr3_unload and note_cr3_load around the switch of schedule().
LEMMA NoteStep ==
  ASSUME TlbIInv, NEW c \in TlbCpus, TlbSwUnload(c) \/ TlbSwLoad(c) \/ TlbExUnload(c)
  PROVE  TlbIInv'
<1>0. TlbShape /\ TlbControl /\ TlbNoted /\ TlbOneExit
  BY Zenon DEF TlbIInv
<1> DEFINE r == tlbReg[c]
           cpu == tlbCpu[c]
           pc == IF tlbPc[c] = "swUnload" THEN "swRead"
                 ELSE IF tlbPc[c] = "swLoad" THEN "swMov" ELSE "exDrain"
<1>1. /\ tlbPc[c] \in {"swUnload", "swLoad", "exUnload"} /\ TlbGoes(c, pc, r)
      /\ UNCHANGED <<tlbCpu, tlbPte, tlbFree, tlbRing, tlbSlot, tlbTick, tlbSem, tlbLife, tlbShared>>
  BY <1>0, Zenon DEF TlbSwUnload, TlbSwLoad, TlbExUnload, TlbRuns, TlbGo, TlbGoes, tlbMem, tlbLocks, TlbShape
<1>2. /\ r \in TlbRegRec /\ cpu \in TlbCpuRec /\ tlbCpu' = [tlbCpu EXCEPT ![c] = cpu]
      /\ TlbAt(tlbPc[c], r, cpu.cr3)
  BY <1>0, <1>1, Zenon DEF TlbShape, TlbControl
<1>3. /\ cpu.cr3 = KernelCr3 /\ (tlbPc[c] = "swLoad" => r.next \in TlbSpaces)
  BY <1>1, <1>2, Zenon DEF TlbAt, TlbSwitching, TlbLeaving
<1>4. TlbAt(pc, r, cpu.cr3)
  BY <1>1, <1>2, Zenon DEF TlbAt, TlbShooting, TlbSwitching, TlbLeaving
<1>5. /\ tlbMask' \in [TlbSpaces -> SUBSET TlbCpus]
      /\ \A s \in TlbSpaces : tlbMask[s] \ {c} \subseteq tlbMask'[s]
      /\ tlbPc[c] = "swLoad" => c \in tlbMask'[r.next]
  <2>1. CASE tlbPc[c] = "swLoad"
    <3>1. tlbMask' = [tlbMask EXCEPT ![r.next] = @ \cup {c}]
      BY <2>1, Zenon DEF TlbSwUnload, TlbSwLoad, TlbExUnload, TlbRuns
    <3> QED BY <1>0, <1>3, <2>1, <3>1, Zenon DEF TlbShape
  <2>2. CASE tlbPc[c] # "swLoad"
    <3>1. NoteUnload(c, r.space)
      BY <2>2, Zenon DEF TlbSwUnload, TlbSwLoad, TlbExUnload, TlbRuns
    <3> QED BY <1>0, <2>2, <3>1, Zenon DEF TlbShape, NoteUnload
  <2> QED BY <2>1, <2>2, Zenon
<1>6. TlbMoves(c) /\ TlbMaskKept(c)
  BY <1>0, <1>1, <1>5, Zenon DEF TlbMoves, TlbMaskKept, TlbShape
<1>7. TlbNotes(c, pc, r)
  BY <1>1, <1>3, <1>5, ConstantFacts, Zenon DEF TlbNotes
<1>8. TlbOneExit'
  <2>1. r.op = "exit" => (pc \in TlbLeaving <=> tlbPc[c] \in TlbLeaving)
    BY <1>1, <1>2, Zenon DEF TlbAt, TlbSwitching, TlbLeaving
  <2> HIDE DEF pc
  <2> QED BY <1>0, <1>1, <1>2, <2>1, ExitStep, Zenon
<1>9. tlbPc[c] \notin TlbShooting /\ pc \notin TlbShooting \cup {"done"}
  BY <1>1, Zenon DEF TlbShooting
<1> HIDE DEF pc, r, cpu
<1> QED BY <1>1, <1>2, <1>4, <1>6, <1>7, <1>8, <1>9, CrStep, Zenon DEF cpu

-----------------------------------------------------------------------------
(* Context switches and exit, the shootdown itself and the CPUs that serve   *)
(* it, the caching of an entry, Init, Next, and the theorem.                 *)

LEMMA SwMovStep ==
  ASSUME TlbIInv, NEW c \in TlbCpus, TlbSwMov(c)
  PROVE  TlbIInv'
<1>0. TlbShape /\ TlbControl /\ TlbNoted /\ TlbOneExit
  BY Zenon DEF TlbIInv
<1> DEFINE next == tlbReg[c].next
           cpu == SwitchCr3(tlbCpu[c], next)
<1>1. /\ tlbPc[c] = "swMov" /\ TlbGoes(c, "user", NoRegs) /\ tlbCpu' = [tlbCpu EXCEPT ![c] = cpu]
      /\ UNCHANGED <<tlbMask, tlbPte, tlbFree, tlbRing, tlbSlot, tlbTick, tlbSem, tlbLife, tlbShared>>
  BY Zenon DEF TlbSwMov, TlbRuns, TlbReturn, TlbGo, TlbGoes, tlbMem, tlbLocks
<1>2. next \in TlbSpaces
  BY <1>0, <1>1, Zenon DEF TlbControl, TlbAt
<1>3. cpu \in TlbCpuRec /\ cpu.cr3 = next /\ \A p \in TlbPages : cpu.cache[p] = NoEntry
  <2>1. tlbCpu[c] \in TlbCpuRec /\ next \in TlbCr3s
    BY <1>0, <1>2, Zenon DEF TlbShape, TlbCr3s
  <2> QED BY <2>1, SwitchFacts, Zenon
<1> HIDE DEF cpu
<1>4. tlbCpu'[c] = cpu
  BY <1>0, <1>1, Zenon DEF TlbShape
<1>5. NoRegs \in TlbRegRec /\ NoRegs.op = "none" /\ TlbAt("user", NoRegs, cpu.cr3)
  BY ReturnAt, Zenon
<1>6. TlbMoves(c) /\ TlbMaskKept(c)
  BY <1>0, <1>1, Zenon DEF TlbMoves, TlbMaskKept, TlbShape
<1>7. TlbNotes(c, "user", NoRegs)
  BY <1>0, <1>1, <1>3, <1>4, Zenon DEF TlbNotes, TlbNoted
<1>8. TlbOneExit'
  BY <1>0, <1>1, <1>5, ExitStep, Zenon
<1>9. tlbPc[c] \notin TlbShooting /\ "user" \notin TlbShooting \cup {"done"}
  BY <1>1, Zenon DEF TlbShooting
<1> QED BY <1>1, <1>3, <1>5, <1>6, <1>7, <1>8, <1>9, CrStep, Zenon

LEMMA ExitBeginStep ==
  ASSUME TlbIInv, NEW c \in TlbCpus, TlbExit(c)
  PROVE  TlbIInv'
<1>0. TlbShape /\ TlbControl /\ TlbNoted /\ TlbOneExit
  BY Zenon DEF TlbIInv
<1> DEFINE s == tlbCpu[c].cr3
           r == [NoRegs EXCEPT !.op = "exit", !.space = s, !.range = TlbPages]
           cpu == SwitchCr3(tlbCpu[c], KernelCr3)
<1>1. /\ tlbPc[c] = "user" /\ TlbGoes(c, "exUnload", r) /\ tlbCpu' = [tlbCpu EXCEPT ![c] = cpu]
      /\ s \in TlbSpaces /\ tlbLife[s] = "live" /\ tlbLife' = [tlbLife EXCEPT ![s] = "dying"]
      /\ UNCHANGED <<tlbMask, tlbPte, tlbFree, tlbRing, tlbSlot, tlbTick, tlbSem, tlbShared>>
  BY Zenon DEF TlbExit, TlbEnter, TlbCall, TlbRuns, TlbGo, TlbGoes, tlbMem, tlbLocks
<1>2. cpu \in TlbCpuRec /\ cpu.cr3 = KernelCr3 /\ \A p \in TlbPages : cpu.cache[p] = NoEntry
  <2>1. tlbCpu[c] \in TlbCpuRec /\ KernelCr3 \in TlbCr3s
    BY <1>0, Zenon DEF TlbShape, TlbCr3s
  <2> QED BY <2>1, SwitchFacts, Zenon
<1>3. r \in TlbRegRec /\ r.op = "exit" /\ r.space = s /\ r.range = TlbPages
  <2>1. s \in TlbCr3s /\ KernelCr3 \in TlbCr3s
    BY <1>1, Zenon DEF TlbCr3s
  <2> HIDE DEF s
  <2> QED BY <2>1, ConstantFacts, Zenon DEF NoRegs, TlbRegRec, TlbCalls
<1> HIDE DEF r, cpu
<1>4. tlbCpu'[c] = cpu
  BY <1>0, <1>1, Zenon DEF TlbShape
<1>5. TlbAt("exUnload", r, cpu.cr3)
  BY <1>1, <1>2, <1>3, Zenon DEF TlbAt, TlbShooting, TlbSwitching, TlbLeaving
<1>6. \A t \in TlbSpaces : tlbLife'[t] = IF t = s THEN "dying" ELSE tlbLife[t]
  BY <1>0, <1>1, Zenon DEF TlbShape
<1>7. TlbMoves(c)
  BY <1>0, <1>1, Zenon DEF TlbMoves, TlbShape, TlbLives
<1>8. TlbMaskKept(c)
  BY <1>1, <1>6, Zenon DEF TlbMaskKept
<1>9. TlbNotes(c, "exUnload", r)
  BY <1>2, <1>4, ConstantFacts, Zenon DEF TlbNotes
<1>10. TlbOneExit'
  <2>1. \A d \in TlbCpus : tlbReg[d].op = "exit" => tlbReg[d].space \in TlbSpaces \ {s}
    <3>1. ASSUME NEW d \in TlbCpus, tlbReg[d].op = "exit"
          PROVE  tlbReg[d].space \in TlbSpaces /\ tlbLife[tlbReg[d].space] # "live"
      BY <1>0, <3>1, Zenon DEF TlbControl, TlbAt, TlbSwitching, TlbOneExit
    <3> QED BY <1>1, <3>1, Zenon
  <2>2. /\ tlbPc'[c] = "exUnload" /\ tlbReg'[c] = r
        /\ \A d \in TlbCpus \ {c} : tlbPc'[d] = tlbPc[d] /\ tlbReg'[d] = tlbReg[d]
    BY <1>0, <1>1, <1>3, Gone, Zenon
  <2> QED BY <1>0, <1>1, <1>3, <1>6, <2>1, <2>2 DEF TlbOneExit, TlbLeaving
<1>11. tlbPc[c] \notin TlbShooting /\ "exUnload" \notin TlbShooting \cup {"done"}
  BY <1>1, Zenon DEF TlbShooting
<1> QED BY <1>1, <1>2, <1>3, <1>5, <1>7, <1>8, <1>9, <1>10, <1>11, CrStep, Zenon

LEMMA ExTakeStep ==
  ASSUME TlbIInv, NEW c \in TlbCpus, TlbExTake(c)
  PROVE  TlbIInv'
<1>0. TlbShape /\ TlbControl /\ TlbNoted /\ TlbOneExit
  BY Zenon DEF TlbIInv
<1> DEFINE s == tlbReg[c].space
           r == tlbReg[c]
           cpu == tlbCpu[c]
<1>1. /\ tlbPc[c] = "exDrain" /\ TlbGoes(c, "exSem", r)
      /\ tlbLife' = [tlbLife EXCEPT ![s] = "torn"]
      /\ UNCHANGED <<tlbCpu, tlbMask, tlbPte, tlbFree, tlbRing, tlbSlot, tlbTick, tlbSem, tlbShared>>
  BY <1>0, Zenon DEF TlbExTake, TlbRuns, TlbGo, TlbGoes, tlbMem, tlbLocks, TlbShape
<1>2. /\ r \in TlbRegRec /\ cpu \in TlbCpuRec /\ tlbCpu' = [tlbCpu EXCEPT ![c] = cpu]
      /\ TlbAt("exDrain", r, cpu.cr3)
  BY <1>0, <1>1, Zenon DEF TlbShape, TlbControl
<1>3. s \in TlbSpaces /\ r.op = "exit" /\ cpu.cr3 = KernelCr3
  BY <1>2, Zenon DEF TlbAt, TlbSwitching, TlbLeaving
<1>4. TlbAt("exSem", r, cpu.cr3)
  BY <1>2, Zenon DEF TlbAt, TlbShooting, TlbSwitching, TlbLeaving
<1>5. \A t \in TlbSpaces : tlbLife'[t] = IF t = s THEN "torn" ELSE tlbLife[t]
  BY <1>0, <1>1, Zenon DEF TlbShape
<1>6. TlbMoves(c)
  BY <1>0, <1>1, Zenon DEF TlbMoves, TlbShape, TlbLives
<1>7. tlbLife[s] = "dying"
  BY <1>0, <1>1, <1>3, Zenon DEF TlbOneExit, TlbLeaving
<1>8. TlbMaskKept(c)
  BY <1>1, <1>5, <1>7, Zenon DEF TlbMaskKept
<1>9. TlbNotes(c, "exSem", r)
  BY <1>1, <1>3, ConstantFacts, Zenon DEF TlbNotes
<1>10. TlbOneExit'
  <2>1. \A d \in TlbCpus \ {c} : tlbReg[d].op = "exit" => tlbReg[d].space \in TlbSpaces \ {s}
    BY <1>0, <1>3 DEF TlbControl, TlbAt, TlbSwitching, TlbOneExit
  <2>2. /\ tlbPc'[c] = "exSem" /\ tlbReg'[c] = r
        /\ \A d \in TlbCpus \ {c} : tlbPc'[d] = tlbPc[d] /\ tlbReg'[d] = tlbReg[d]
    BY <1>0, <1>1, <1>2, Gone, Zenon
  <2> QED BY <1>0, <1>3, <1>5, <2>1, <2>2 DEF TlbOneExit, TlbLeaving
<1>11. tlbPc[c] \notin TlbShooting /\ "exSem" \notin TlbShooting \cup {"done"}
  BY <1>1, Zenon DEF TlbShooting
<1> HIDE DEF r, cpu
<1> QED BY <1>1, <1>2, <1>4, <1>6, <1>8, <1>9, <1>10, <1>11, CrStep, Zenon DEF cpu

LEMMA ExFreeStep ==
  ASSUME TlbIInv, NEW c \in TlbCpus, TlbExFree(c)
  PROVE  TlbIInv'
<1>0. TlbShape /\ TlbControl /\ TlbNoted /\ TlbOneExit
  BY Zenon DEF TlbIInv
<1> DEFINE s == tlbReg[c].space
           cpu == tlbCpu[c]
           F == {tlbPte[s][p].f : p \in {q \in TlbPages : tlbPte[s][q].w}}
<1>1. /\ tlbPc[c] = "done" /\ tlbReg[c].op = "exit" /\ TlbGoes(c, "user", NoRegs)
      /\ TlbDispose(c, F) /\ TlbUnlock(c, s)
      /\ tlbPte' = [tlbPte EXCEPT ![s] = [p \in TlbPages |-> NoEntry]]
      /\ tlbMask' = [tlbMask EXCEPT ![s] = {}]
      /\ tlbLife' = [tlbLife EXCEPT ![s] = "gone"]
      /\ UNCHANGED <<tlbCpu, tlbSlot, tlbTick, tlbShared>>
  BY Zenon DEF TlbExFree, TlbRuns, TlbReturn, TlbGo, TlbGoes
<1>2. /\ cpu \in TlbCpuRec /\ tlbCpu' = [tlbCpu EXCEPT ![c] = cpu] /\ s \in TlbSpaces
      /\ cpu.cr3 = KernelCr3
  BY <1>0, <1>1, Zenon DEF TlbShape, TlbControl, TlbAt, TlbSwitching
<1>3. NoRegs \in TlbRegRec /\ NoRegs.op = "none" /\ TlbAt("user", NoRegs, cpu.cr3)
  BY ReturnAt, Zenon
<1>4. F \in SUBSET TlbFrames
  <2>1. \A p \in TlbPages : tlbPte[s][p] \in TlbEntry
    BY <1>0, <1>2, Zenon DEF TlbShape
  <2> QED BY <2>1, ConstantFacts, Zenon DEF TlbEntry
<1> HIDE DEF F
<1>5. \A t \in TlbSpaces : /\ tlbLife'[t] = IF t = s THEN "gone" ELSE tlbLife[t]
                           /\ t # s => tlbMask'[t] = tlbMask[t] /\ tlbPte'[t] = tlbPte[t]
                           /\ \A p \in TlbPages : t = s => tlbPte'[t][p] = NoEntry
  BY <1>0, <1>1, Zenon DEF TlbShape
<1>6. TlbMoves(c)
  <2>1. /\ tlbMask' \in [TlbSpaces -> SUBSET TlbCpus] /\ tlbLife' \in [TlbSpaces -> TlbLives]
        /\ tlbPte' \in [TlbSpaces -> [TlbPages -> TlbEntry]]
    BY <1>0, <1>1, <1>2, ConstantFacts, Zenon DEF TlbShape, TlbLives
  <2> QED BY <1>0, <1>1, <1>2, <1>4, <1>5, <2>1, DisposeFacts, LockFacts, Zenon DEF TlbMoves
<1>7. TlbMaskKept(c)
  BY <1>5, Zenon DEF TlbMaskKept
<1>8. TlbNotes(c, "user", NoRegs)
  BY <1>1, <1>2, ConstantFacts, Zenon DEF TlbNotes
<1>9. TlbOneExit'
  <2>1. \A d \in TlbCpus \ {c} : tlbReg[d].op = "exit" => tlbReg[d].space \in TlbSpaces \ {s}
    BY <1>0, <1>1 DEF TlbControl, TlbAt, TlbSwitching, TlbOneExit
  <2>2. /\ tlbPc'[c] = "user" /\ tlbReg'[c] = NoRegs
        /\ \A d \in TlbCpus \ {c} : tlbPc'[d] = tlbPc[d] /\ tlbReg'[d] = tlbReg[d]
    BY <1>0, <1>1, <1>3, Gone, Zenon
  <2> QED BY <1>0, <1>3, <1>5, <2>1, <2>2 DEF TlbOneExit
<1>10. tlbPc[c] \notin TlbShooting /\ "user" \notin TlbShooting \cup {"done"}
  BY <1>1, Zenon DEF TlbShooting
<1> HIDE DEF cpu
<1> QED BY <1>1, <1>2, <1>3, <1>6, <1>7, <1>8, <1>9, <1>10, CrStep, Zenon DEF cpu

-----------------------------------------------------------------------------
(* The steps of a shootdown.                                                 *)

\* What they leave alone: the page tables, their locks, the masks, and which
\* address space a CPU runs on.
TlbOnlyCaches ==
  /\ UNCHANGED <<tlbMask, tlbPte, tlbSem, tlbLife>>
  /\ tlbCpu' \in [TlbCpus -> TlbCpuRec]
  /\ \A d \in TlbCpus : tlbCpu'[d].cr3 = tlbCpu[d].cr3
  /\ tlbSlot' \in [TlbCpus -> TlbSlots] /\ tlbShared' \in BOOLEAN /\ tlbTick' \in Nat
  /\ tlbFree' \subseteq TlbFrames /\ tlbRing' \subseteq [f : TlbFrames, tick : Nat]

\* The locals r of a shootdown differ from those it had in the targets only.
TlbSameCall(c, r) ==
  \A x \in {"op", "space", "range", "frames", "new", "next"} : r[x] = tlbReg[c][x]

LEMMA ShootFrame ==
  ASSUME TlbIInv, NEW c \in TlbCpus, NEW pc, NEW r \in TlbRegRec, TlbGoes(c, pc, r),
         pc = tlbPc[c] \/ (tlbPc[c] \in TlbShooting /\ pc \in TlbShooting \cup {"done"}),
         TlbSameCall(c, r), TlbOnlyCaches
  PROVE  TlbShape' /\ TlbControl' /\ TlbNoted' /\ TlbOneExit' /\ TlbBroken'
<1>0. TlbShape /\ TlbControl /\ TlbNoted /\ TlbOneExit /\ TlbBroken
  BY Zenon DEF TlbIInv
<1>1. TlbShape'
  BY <1>0, Gone, Zenon DEF TlbShape, TlbOnlyCaches
<1>2. TlbOthersStay(c) /\ TlbMaskKept(c)
  BY Zenon DEF TlbOthersStay, TlbMaskKept, TlbOnlyCaches
<1>3. TlbControl'
  <2>1. TlbAt(tlbPc[c], tlbReg[c], tlbCpu[c].cr3)
    BY <1>0, Zenon DEF TlbControl
  <2>2. TlbAt(pc, r, tlbCpu[c].cr3)
    BY <2>1, Zenon DEF TlbAt, TlbSameCall, TlbShooting, TlbSwitching, TlbLeaving
  <2> QED BY <1>0, <1>2, <2>2, ControlStep, Zenon DEF TlbOnlyCaches
<1>4. TlbNotes(c, pc, r)
  BY <1>0, Zenon DEF TlbNotes, TlbNoted, TlbOnlyCaches, TlbSameCall, TlbShooting
<1>5. TlbNoted'
  BY <1>0, <1>2, <1>4, NotedStep, Zenon
<1>6. TlbOneExit'
  BY <1>0, ExitStep, Zenon DEF TlbOnlyCaches, TlbSameCall, TlbShooting, TlbLeaving
<1>7. TlbBroken'
  <2>1. \A d \in TlbCpus : TlbBreaks(d) =>
          /\ tlbSem'[tlbReg[d].space].wr = {d}
          /\ \A p \in tlbReg[d].range : tlbPte'[tlbReg[d].space][p] = NoEntry
    BY <1>0, Zenon DEF TlbBroken, TlbBreaks, TlbOnlyCaches
  <2>2. r.op = "write" /\ pc \in TlbShooting \cup {"done"} => TlbBreaks(c)
    BY Zenon DEF TlbBreaks, TlbSameCall
  <2>3. r.space = tlbReg[c].space /\ r.range = tlbReg[c].range
    BY Zenon DEF TlbSameCall
  <2> QED BY <1>0, <2>1, <2>2, <2>3, BrokenStep, Zenon
<1> QED BY <1>1, <1>3, <1>5, <1>6, <1>7, Zenon

\* No request is published: slots keep theirs, and a sender keeps its call.
TlbSendersKeep ==
  /\ tlbShared' = tlbShared
  /\ \A t \in TlbCpus : tlbSlot'[t].cr3 = tlbSlot[t].cr3 /\ tlbSlot'[t].range = tlbSlot[t].range
  /\ \A d \in TlbCpus : tlbPc'[d] \in {"send", "spin", "post"} =>
       /\ tlbPc[d] \in {"send", "spin"} \/ (tlbPc[d] = "post" /\ tlbPc'[d] = "post")
       /\ tlbReg'[d].targets \subseteq tlbReg[d].targets
       /\ tlbReg'[d].space = tlbReg[d].space /\ tlbReg'[d].range = tlbReg[d].range

LEMMA CoverStep ==
  ASSUME TlbShape', TlbFlushes, TlbSendersKeep,
         ASSUME NEW d \in TlbCpus, NEW p \in TlbPages, TlbStale(d, p)', TlbOwned
         PROVE  TlbStale(d, p) /\ (TlbDueAt(d, p) => TlbDueAt(d, p)')
  PROVE  TlbFlushes'
<1>1. SUFFICES ASSUME ~tlbShared PROVE TlbOwned' /\ TlbCovered'
  BY Zenon DEF TlbFlushes, TlbSendersKeep
<1>2. TlbOwned /\ TlbCovered
  BY <1>1, Zenon DEF TlbFlushes
<1>3. \A d \in TlbCpus : tlbReg'[d].targets \subseteq TlbCpus
  BY Zenon DEF TlbShape, TlbRegRec
<1>4. ASSUME NEW d \in TlbCpus, tlbPc'[d] \in {"send", "spin"}, NEW t \in tlbReg'[d].targets
      PROVE  tlbSlot'[t].cr3 = tlbReg'[d].space /\ tlbSlot'[t].range = tlbReg'[d].range
  BY <1>2, <1>3, <1>4 DEF TlbOwned, TlbSendersKeep
<1>5. ASSUME NEW d \in TlbCpus, NEW e \in TlbCpus, d # e,
             tlbPc'[d] \in {"send", "spin", "post"}, tlbPc'[e] \in {"send", "spin", "post"}
      PROVE  tlbReg'[d].targets \cap tlbReg'[e].targets = {}
  <2>1. tlbReg[d].targets \cap tlbReg[e].targets = {}
    BY <1>2, <1>5, Zenon DEF TlbOwned, TlbSendersKeep
  <2> QED BY <1>5, <2>1, Zenon DEF TlbSendersKeep
<1>6. TlbOwned'
  BY <1>4, <1>5, Zenon DEF TlbOwned
<1>7. TlbCovered'
  BY <1>2, Zenon DEF TlbCovered
<1> QED BY <1>6, <1>7, Zenon

LEMMA SnapshotStep ==
  ASSUME TlbIInv, NEW c \in TlbCpus, TlbSnapshot(c)
  PROVE  TlbIInv'
<1>0. TlbShape /\ TlbControl /\ TlbNoted /\ TlbFlushes
  BY Zenon DEF TlbIInv
<1> DEFINE s == tlbReg[c].space
           R == tlbReg[c].range
           T == tlbMask[s] \ {c}
           r == [tlbReg[c] EXCEPT !.targets = T, !.clean = TRUE]
           pc == IF T = {} THEN "done" ELSE "publish"
           cpu == Invlpg(tlbCpu[c], R)
<1>1. /\ tlbPc[c] = "snapshot" /\ tlbReg' = [tlbReg EXCEPT ![c].targets = T, ![c].clean = TRUE]
      /\ TlbGo(c, pc) /\ tlbCpu' = [tlbCpu EXCEPT ![c] = cpu]
      /\ UNCHANGED <<tlbMask, tlbPte, tlbFree, tlbRing, tlbSlot, tlbTick, tlbSem, tlbLife, tlbShared>>
  BY Zenon DEF TlbSnapshot, TlbRuns, tlbMem, tlbLocks
<1>2. tlbReg[c] \in TlbRegRec /\ tlbCpu[c] \in TlbCpuRec /\ s \in TlbSpaces /\ T \in SUBSET TlbCpus
  BY <1>0, <1>1, Zenon DEF TlbShape, TlbControl, TlbAt, TlbSwitching
<1>3. tlbReg' = [tlbReg EXCEPT ![c] = r]
  BY <1>0, <1>1, Zenon DEF TlbShape
<1>4. /\ cpu \in TlbCpuRec
      /\ cpu.cr3 = tlbCpu[c].cr3 /\ cpu.force = tlbCpu[c].force /\ cpu.isr = tlbCpu[c].isr
      /\ \A p \in TlbPages : cpu.cache[p] = IF p \in R THEN NoEntry ELSE tlbCpu[c].cache[p]
  BY <1>2, InvlpgFacts
<1> HIDE DEF T, cpu
<1>5. r \in TlbRegRec /\ TlbSameCall(c, r) /\ r.targets = T
  BY <1>2, Zenon DEF TlbRegRec, TlbSameCall
<1> HIDE DEF r
<1>6. TlbGoes(c, pc, r)
  BY <1>1, <1>3, Zenon DEF TlbGo, TlbGoes
<1>7. /\ tlbCpu' \in [TlbCpus -> TlbCpuRec] /\ tlbCpu'[c] = cpu
      /\ \A d \in TlbCpus \ {c} : tlbCpu'[d] = tlbCpu[d]
  BY <1>0, <1>1, <1>4, Zenon DEF TlbShape
<1>8. TlbOnlyCaches
  BY <1>0, <1>1, <1>4, <1>7, Zenon DEF TlbOnlyCaches, TlbShape
<1>9. TlbShape' /\ TlbControl' /\ TlbNoted' /\ TlbOneExit' /\ TlbBroken'
  <2>1. pc \in TlbShooting \cup {"done"} /\ tlbPc[c] \in TlbShooting
    BY <1>1, Zenon DEF TlbShooting
  <2> HIDE DEF pc
  <2> QED BY <1>5, <1>6, <1>8, <2>1, ShootFrame, Zenon
<1>10. /\ tlbPc'[c] = pc /\ tlbReg'[c] = r
       /\ \A d \in TlbCpus \ {c} : tlbPc'[d] = tlbPc[d] /\ tlbReg'[d] = tlbReg[d]
  BY <1>0, <1>5, <1>6, Gone
<1>11. TlbSendersKeep
  BY <1>1, <1>10, Zenon DEF TlbSendersKeep
<1>12. ASSUME NEW d \in TlbCpus, NEW p \in TlbPages, TlbStale(d, p)', TlbOwned
       PROVE  TlbStale(d, p) /\ (TlbDueAt(d, p) => TlbDueAt(d, p)')
  <2>1. TlbStale(d, p) /\ (d = c => p \notin R)
    BY <1>1, <1>4, <1>7, <1>12, Zenon DEF TlbStale
  <2>2. TlbStillDue(d)
    BY <1>4, <1>7, Zenon DEF TlbStillDue
  <2>3. ASSUME NEW e \in TlbCpus, TlbReaches(e, d, p) PROVE TlbReaches(e, d, p)'
    <3>1. CASE e # c
      BY <1>1, <1>10, <2>2, <2>3, <3>1, Zenon DEF TlbReaches, TlbStillDue
    <3>2. CASE e = c
      <4>1. tlbCpu[d].cr3 = s /\ p \in R /\ d # c
        BY <1>1, <2>1, <2>3, <3>2, Zenon DEF TlbReaches
      <4>2. d \in T
        BY <1>0, <2>1, <4>1, Zenon DEF TlbNoted, TlbStale, T
      <4> QED BY <1>5, <1>10, <2>2, <3>2, <4>1, <4>2, Zenon DEF TlbReaches, TlbStillDue, TlbSameCall
    <3> QED BY <3>1, <3>2, Zenon
  <2> QED BY <1>1, <2>1, <2>2, <2>3, Zenon DEF TlbDueAt, TlbStillDue
<1>13. TlbFlushes'
  BY <1>0, <1>9, <1>11, <1>12, CoverStep, Zenon
<1> QED BY <1>9, <1>13, Zenon DEF TlbIInv

LEMMA PublishStep ==
  ASSUME TlbIInv, NEW c \in TlbCpus, TlbPublish(c)
  PROVE  TlbIInv'
<1>0. TlbShape /\ TlbControl /\ TlbFlushes
  BY Zenon DEF TlbIInv
<1> DEFINE r == tlbReg[c]
           T == tlbReg[c].targets
           slot == [cr3 |-> r.space, range |-> r.range, pending |-> TRUE]
           InUse(t) == \/ tlbCpu[t].isr
                       \/ \E d \in TlbCpus \ {c} : /\ tlbPc[d] \in {"send", "spin", "post"}
                                                   /\ t \in tlbReg[d].targets
<1>1. /\ tlbPc[c] = "publish" /\ TlbGo(c, "send") /\ tlbReg' = tlbReg
      /\ tlbSlot' = [t \in TlbCpus |-> IF t \in T THEN slot ELSE tlbSlot[t]]
      /\ tlbShared' = (tlbShared \/ \E t \in T : InUse(t))
      /\ UNCHANGED <<tlbCpu, tlbMask, tlbPte, tlbFree, tlbRing, tlbTick, tlbSem, tlbLife>>
  BY Zenon DEF TlbPublish, TlbRuns, tlbMem, tlbLocks
<1>2. /\ r \in TlbRegRec /\ T \in SUBSET TlbCpus /\ TlbGoes(c, "send", r)
  BY <1>0, <1>1, Zenon DEF TlbShape, TlbRegRec, TlbGo, TlbGoes
<1>3. slot \in TlbSlots /\ slot.cr3 = r.space /\ slot.range = r.range /\ slot.pending
  BY <1>2, Zenon DEF TlbRegRec, TlbSlots
<1> HIDE DEF slot
<1>4. TlbOnlyCaches
  BY <1>0, <1>1, <1>3, Zenon DEF TlbOnlyCaches, TlbShape
<1>5. TlbShape' /\ TlbControl' /\ TlbNoted' /\ TlbOneExit' /\ TlbBroken'
  BY <1>1, <1>2, <1>4, ShootFrame, Zenon DEF TlbSameCall, TlbShooting
<1>6. tlbPc'[c] = "send" /\ \A d \in TlbCpus \ {c} : tlbPc'[d] = tlbPc[d]
  BY <1>0, <1>2, Gone, Zenon
<1>7. \A t \in TlbCpus : tlbSlot'[t] = IF t \in T THEN slot ELSE tlbSlot[t]
  BY <1>1, Zenon
<1>8. TlbFlushes'
  <2>1. SUFFICES ASSUME ~tlbShared' PROVE TlbOwned' /\ TlbCovered'
    BY Zenon DEF TlbFlushes
  <2>2. ~tlbShared /\ \A t \in T : ~InUse(t)
    BY <1>1, <2>1, Zenon
  <2>3. TlbOwned /\ TlbCovered
    BY <1>0, <2>2, Zenon DEF TlbFlushes
  <2>4. \A e \in TlbCpus \ {c} : tlbPc[e] \in {"send", "spin", "post"} => T \cap tlbReg[e].targets = {}
    BY <2>2, Zenon
  <2>5. TlbOwned'
    <3>0. \A e \in TlbCpus : tlbReg[e].targets \subseteq TlbCpus
      BY <1>0, Zenon DEF TlbShape, TlbRegRec
    <3>1. ASSUME NEW d \in TlbCpus, tlbPc'[d] \in {"send", "spin"}, NEW t \in tlbReg'[d].targets
          PROVE  tlbSlot'[t].cr3 = tlbReg'[d].space /\ tlbSlot'[t].range = tlbReg'[d].range
      <4>1. CASE d = c
        BY <1>1, <1>2, <1>3, <1>7, <3>1, <4>1, Zenon
      <4>2. CASE d # c
        BY <1>1, <1>6, <1>7, <2>3, <2>4, <3>0, <3>1, <4>2 DEF TlbOwned
      <4> QED BY <4>1, <4>2, Zenon
    <3>2. ASSUME NEW d \in TlbCpus, NEW e \in TlbCpus, d # e,
                 tlbPc'[d] \in {"send", "spin", "post"}, tlbPc'[e] \in {"send", "spin", "post"}
          PROVE  tlbReg'[d].targets \cap tlbReg'[e].targets = {}
      BY <1>1, <1>6, <2>3, <2>4, <3>2, Zenon DEF TlbOwned
    <3> QED BY <3>1, <3>2, Zenon DEF TlbOwned
  <2>6. ASSUME NEW d \in TlbCpus, NEW p \in TlbPages, TlbStale(d, p)'
        PROVE  TlbDueAt(d, p)'
    <3>1. TlbStale(d, p)
      BY <1>1, <2>6, Zenon DEF TlbStale
    <3>2. CASE tlbCpu[d].isr /\ tlbSlot[d].cr3 = tlbCpu[d].cr3 /\ p \in tlbSlot[d].range
      <4>1. d \notin T
        BY <2>2, <3>2, Zenon
      <4> QED BY <1>1, <1>7, <3>2, <4>1, Zenon DEF TlbDueAt
    <3>3. CASE \E e \in TlbCpus : TlbReaches(e, d, p)
      <4>1. PICK e \in TlbCpus : TlbReaches(e, d, p)
        BY <3>3, Zenon
      <4>2. tlbSlot[d].pending => tlbSlot'[d].pending
        BY <1>3, <1>7, Zenon
      <4>3. CASE e # c
        BY <1>1, <1>6, <4>1, <4>2, <4>3, Zenon DEF TlbReaches, TlbDueAt
      <4>4. CASE e = c
        <5>1. d \in T /\ tlbSlot'[d].pending
          BY <1>1, <1>3, <1>7, <4>1, <4>4, Zenon DEF TlbReaches
        <5>2. TlbReaches(c, d, p)'
          BY <1>1, <1>6, <4>1, <4>4, <5>1, Zenon DEF TlbReaches
        <5> QED BY <5>2, Zenon DEF TlbDueAt
      <4> QED BY <4>3, <4>4, Zenon
    <3> QED BY <1>1, <2>3, <3>1, <3>2, <3>3, Zenon DEF TlbCovered, TlbDueAt
  <2> QED BY <2>5, <2>6, Zenon DEF TlbCovered
<1> QED BY <1>5, <1>8, Zenon DEF TlbIInv

LEMMA SendStep ==
  ASSUME TlbIInv, NEW c \in TlbCpus, TlbSend(c)
  PROVE  TlbIInv'
<1>0. TlbShape /\ TlbControl /\ TlbFlushes
  BY Zenon DEF TlbIInv
<1> DEFINE r == tlbReg[c]
<1>1. /\ tlbPc[c] = "send" /\ TlbGo(c, "spin") /\ tlbReg' = tlbReg
      /\ tlbCpu' = [t \in TlbCpus |-> IF t \in r.targets
                      THEN [tlbCpu[t] EXCEPT !.ipi = TRUE] ELSE tlbCpu[t]]
      /\ UNCHANGED <<tlbMask, tlbPte, tlbFree, tlbRing, tlbSlot, tlbTick, tlbSem, tlbLife, tlbShared>>
  BY Zenon DEF TlbSend, TlbRuns, tlbMem, tlbLocks
<1>2. r \in TlbRegRec /\ TlbGoes(c, "spin", r)
  BY <1>0, <1>1, Zenon DEF TlbShape, TlbGo, TlbGoes
<1>3. ASSUME NEW d \in TlbCpus
      PROVE  /\ tlbCpu'[d] \in TlbCpuRec /\ tlbCpu'[d].cr3 = tlbCpu[d].cr3
             /\ tlbCpu'[d].cache = tlbCpu[d].cache
             /\ tlbCpu'[d].isr = tlbCpu[d].isr /\ tlbCpu'[d].force = tlbCpu[d].force
  <2>1. tlbCpu[d] \in TlbCpuRec
    BY <1>0, Zenon DEF TlbShape
  <2> QED BY <1>1, <2>1, Zenon DEF TlbCpuRec
<1>4. TlbOnlyCaches
  <2>1. tlbCpu' \in [TlbCpus -> TlbCpuRec]
    BY <1>1, <1>3, Zenon
  <2> QED BY <1>0, <1>1, <1>3, <2>1, Zenon DEF TlbOnlyCaches, TlbShape
<1>5. TlbShape' /\ TlbControl' /\ TlbNoted' /\ TlbOneExit' /\ TlbBroken'
  BY <1>1, <1>2, <1>4, ShootFrame, Zenon DEF TlbSameCall, TlbShooting
<1>6. tlbPc'[c] = "spin" /\ \A d \in TlbCpus \ {c} : tlbPc'[d] = tlbPc[d]
  BY <1>0, <1>2, Gone, Zenon
<1>7. TlbSendersKeep
  BY <1>1, <1>6, Zenon DEF TlbSendersKeep
<1>8. ASSUME NEW d \in TlbCpus, NEW p \in TlbPages, TlbStale(d, p)', TlbOwned
      PROVE  TlbStale(d, p) /\ (TlbDueAt(d, p) => TlbDueAt(d, p)')
  <2>1. TlbStale(d, p)
    BY <1>1, <1>3, <1>8, Zenon DEF TlbStale
  <2>2. ASSUME NEW e \in TlbCpus, TlbReaches(e, d, p) PROVE TlbReaches(e, d, p)'
    BY <1>1, <1>3, <1>6, <2>2, Zenon DEF TlbReaches
  <2> QED BY <1>1, <1>3, <2>1, <2>2, Zenon DEF TlbDueAt
<1>9. TlbFlushes'
  BY <1>0, <1>5, <1>7, <1>8, CoverStep, Zenon
<1> QED BY <1>5, <1>9, Zenon DEF TlbIInv

\* The last target has acknowledged.
LEMMA PollDoneStep ==
  ASSUME TlbIInv, NEW c \in TlbCpus, tlbPc[c] = "spin", TlbGo(c, "done"),
         \A t \in tlbReg[c].targets : ~tlbSlot[t].pending,
         tlbReg' = [tlbReg EXCEPT ![c].targets = {}],
         UNCHANGED <<tlbCpu, tlbMask, tlbPte, tlbFree, tlbRing, tlbSlot, tlbTick, tlbSem, tlbLife,
                     tlbShared>>
  PROVE  TlbIInv'
<1>0. TlbShape /\ TlbControl /\ TlbFlushes
  BY Zenon DEF TlbIInv
<1> DEFINE r == [tlbReg[c] EXCEPT !.targets = {}]
<1>1. r \in TlbRegRec /\ TlbSameCall(c, r) /\ TlbGoes(c, "done", r)
  <2>1. tlbReg[c] \in TlbRegRec /\ tlbReg' = [tlbReg EXCEPT ![c] = r]
    BY <1>0, Zenon DEF TlbShape
  <2>2. r \in TlbRegRec /\ TlbSameCall(c, r)
    BY <2>1, Zenon DEF TlbRegRec, TlbSameCall
  <2> QED BY <2>1, <2>2, Zenon DEF TlbGo, TlbGoes
<1> HIDE DEF r
<1>2. TlbOnlyCaches
  BY <1>0, Zenon DEF TlbOnlyCaches, TlbShape
<1>3. TlbShape' /\ TlbControl' /\ TlbNoted' /\ TlbOneExit' /\ TlbBroken'
  BY <1>1, <1>2, ShootFrame, Zenon DEF TlbShooting
<1>4. tlbPc'[c] = "done" /\ \A d \in TlbCpus \ {c} : tlbPc'[d] = tlbPc[d] /\ tlbReg'[d] = tlbReg[d]
  BY <1>0, <1>1, Gone, Zenon
<1>5. TlbSendersKeep
  BY <1>4, Zenon DEF TlbSendersKeep
<1>6. ASSUME NEW d \in TlbCpus, NEW p \in TlbPages, TlbStale(d, p)', TlbOwned
      PROVE  TlbStale(d, p) /\ (TlbDueAt(d, p) => TlbDueAt(d, p)')
  <2>1. TlbStale(d, p)
    BY <1>6, Zenon DEF TlbStale
  <2>2. ASSUME NEW e \in TlbCpus, TlbReaches(e, d, p) PROVE TlbReaches(e, d, p)'
    BY <1>4, <2>2, Zenon DEF TlbReaches
  <2> QED BY <2>1, <2>2, Zenon DEF TlbDueAt
<1>7. TlbFlushes'
  BY <1>0, <1>3, <1>5, <1>6, CoverStep, Zenon
<1> QED BY <1>3, <1>7, Zenon DEF TlbIInv

LEMMA TimeoutStep ==
  ASSUME TlbIInv, NEW c \in TlbCpus, TlbTimeout(c)
  PROVE  TlbIInv'
<1>0. TlbShape /\ TlbControl /\ TlbFlushes
  BY Zenon DEF TlbIInv
<1> DEFINE r == tlbReg[c]
<1>1. /\ tlbPc[c] = "spin" /\ TlbGo(c, "post") /\ tlbReg' = tlbReg
      /\ tlbSlot' = [t \in TlbCpus |-> IF t \in r.targets
                       THEN [tlbSlot[t] EXCEPT !.pending = FALSE] ELSE tlbSlot[t]]
      /\ UNCHANGED <<tlbCpu, tlbMask, tlbPte, tlbFree, tlbRing, tlbTick, tlbSem, tlbLife, tlbShared>>
  BY Zenon DEF TlbTimeout, TlbRuns, tlbMem, tlbLocks
<1>2. r \in TlbRegRec /\ TlbGoes(c, "post", r)
  BY <1>0, <1>1, Zenon DEF TlbShape, TlbGo, TlbGoes
<1>3. ASSUME NEW t \in TlbCpus
      PROVE  /\ tlbSlot'[t] \in TlbSlots /\ tlbSlot'[t].cr3 = tlbSlot[t].cr3
             /\ tlbSlot'[t].range = tlbSlot[t].range
             /\ t \notin r.targets => tlbSlot'[t] = tlbSlot[t]
  <2>1. tlbSlot[t] \in TlbSlots
    BY <1>0, Zenon DEF TlbShape
  <2> QED BY <1>1, <2>1, Zenon DEF TlbSlots
<1>4. TlbOnlyCaches
  <2>1. tlbSlot' \in [TlbCpus -> TlbSlots]
    BY <1>1, <1>3, Zenon
  <2> QED BY <1>0, <1>1, <2>1, Zenon DEF TlbOnlyCaches, TlbShape
<1>5. TlbShape' /\ TlbControl' /\ TlbNoted' /\ TlbOneExit' /\ TlbBroken'
  BY <1>1, <1>2, <1>4, ShootFrame, Zenon DEF TlbSameCall, TlbShooting
<1>6. tlbPc'[c] = "post" /\ \A d \in TlbCpus \ {c} : tlbPc'[d] = tlbPc[d]
  BY <1>0, <1>2, Gone, Zenon
<1>7. TlbSendersKeep
  BY <1>1, <1>3, <1>6, Zenon DEF TlbSendersKeep
<1>8. ASSUME NEW d \in TlbCpus, NEW p \in TlbPages, TlbStale(d, p)', TlbOwned
      PROVE  TlbStale(d, p) /\ (TlbDueAt(d, p) => TlbDueAt(d, p)')
  <2>1. TlbStale(d, p)
    BY <1>1, <1>8, Zenon DEF TlbStale
  <2>2. ASSUME NEW e \in TlbCpus, TlbReaches(e, d, p) PROVE TlbReaches(e, d, p)'
    <3>1. CASE e = c
      BY <1>1, <1>6, <2>2, <3>1, Zenon DEF TlbReaches
    <3>2. CASE e # c
      <4>1. tlbPc[e] \in {"send", "spin"} /\ d \in tlbReg[e].targets => d \notin r.targets
        BY <1>1, <1>8, <3>2, Zenon DEF TlbOwned
      <4> QED BY <1>1, <1>3, <1>6, <2>2, <3>2, <4>1, Zenon DEF TlbReaches
    <3> QED BY <3>1, <3>2, Zenon
  <2> QED BY <1>1, <1>3, <2>1, <2>2, Zenon DEF TlbDueAt
<1>9. TlbFlushes'
  BY <1>0, <1>5, <1>7, <1>8, CoverStep, Zenon
<1> QED BY <1>5, <1>9, Zenon DEF TlbIInv

LEMMA PostForceStep ==
  ASSUME TlbIInv, NEW c \in TlbCpus, TlbPostForce(c)
  PROVE  TlbIInv'
<1>0. TlbShape /\ TlbControl /\ TlbFlushes
  BY Zenon DEF TlbIInv
<1> DEFINE T == tlbReg[c].targets
           r == [tlbReg[c] EXCEPT !.clean = FALSE, !.targets = {}]
<1>1. /\ tlbPc[c] = "post" /\ TlbGo(c, "done")
      /\ tlbReg' = [tlbReg EXCEPT ![c].clean = FALSE, ![c].targets = {}]
      /\ tlbCpu' = [t \in TlbCpus |-> IF t \in T
                      THEN [tlbCpu[t] EXCEPT !.force = TRUE] ELSE tlbCpu[t]]
      /\ UNCHANGED <<tlbMask, tlbPte, tlbFree, tlbRing, tlbSlot, tlbTick, tlbSem, tlbLife, tlbShared>>
  BY Zenon DEF TlbPostForce, TlbRuns, tlbMem, tlbLocks
<1>2. r \in TlbRegRec /\ TlbSameCall(c, r) /\ TlbGoes(c, "done", r)
  <2>1. tlbReg[c] \in TlbRegRec /\ tlbReg' = [tlbReg EXCEPT ![c] = r]
    BY <1>0, <1>1, Zenon DEF TlbShape
  <2>2. r \in TlbRegRec /\ TlbSameCall(c, r)
    BY <2>1, Zenon DEF TlbRegRec, TlbSameCall
  <2> QED BY <1>1, <2>1, <2>2, Zenon DEF TlbGo, TlbGoes
<1> HIDE DEF r
<1>3. ASSUME NEW d \in TlbCpus
      PROVE  /\ tlbCpu'[d] \in TlbCpuRec /\ tlbCpu'[d].cr3 = tlbCpu[d].cr3
             /\ tlbCpu'[d].cache = tlbCpu[d].cache /\ tlbCpu'[d].isr = tlbCpu[d].isr
             /\ tlbCpu[d].force \/ d \in T => tlbCpu'[d].force
  <2>1. tlbCpu[d] \in TlbCpuRec
    BY <1>0, Zenon DEF TlbShape
  <2> QED BY <1>1, <2>1, Zenon DEF TlbCpuRec
<1>4. TlbOnlyCaches
  <2>1. tlbCpu' \in [TlbCpus -> TlbCpuRec]
    BY <1>1, <1>3, Zenon
  <2> QED BY <1>0, <1>1, <1>3, <2>1, Zenon DEF TlbOnlyCaches, TlbShape
<1>5. TlbShape' /\ TlbControl' /\ TlbNoted' /\ TlbOneExit' /\ TlbBroken'
  BY <1>1, <1>2, <1>4, ShootFrame, Zenon DEF TlbShooting
<1>6. tlbPc'[c] = "done" /\ \A d \in TlbCpus \ {c} : tlbPc'[d] = tlbPc[d] /\ tlbReg'[d] = tlbReg[d]
  BY <1>0, <1>2, Gone, Zenon
<1>7. TlbSendersKeep
  BY <1>1, <1>6, Zenon DEF TlbSendersKeep
<1>8. ASSUME NEW d \in TlbCpus, NEW p \in TlbPages, TlbStale(d, p)', TlbOwned
      PROVE  TlbStale(d, p) /\ (TlbDueAt(d, p) => TlbDueAt(d, p)')
  <2>1. TlbStale(d, p)
    BY <1>1, <1>3, <1>8, Zenon DEF TlbStale
  <2>2. ASSUME NEW e \in TlbCpus, TlbReaches(e, d, p), ~tlbCpu'[d].force PROVE TlbReaches(e, d, p)'
    BY <1>1, <1>3, <1>6, <2>2, Zenon DEF TlbReaches
  <2> QED BY <1>1, <1>3, <2>1, <2>2, Zenon DEF TlbDueAt
<1>9. TlbFlushes'
  BY <1>0, <1>5, <1>7, <1>8, CoverStep, Zenon
<1> QED BY <1>5, <1>9, Zenon DEF TlbIInv

\* A CPU serves its slot; a spinning sender drops the targets that have
\* acknowledged.
LEMMA ServiceStep ==
  ASSUME TlbIInv, NEW c \in TlbCpus, NEW cpu \in TlbCpuRec, TlbService(c, cpu), ~tlbCpu[c].isr,
         \A x \in {"cr3", "cache", "isr", "force"} : cpu[x] = tlbCpu[c][x],
         NEW r \in TlbRegRec, TlbGoes(c, tlbPc[c], r), TlbSameCall(c, r),
         r.targets \subseteq tlbReg[c].targets,
         \A t \in tlbReg[c].targets \ r.targets : tlbPc[c] = "spin" /\ ~tlbSlot[t].pending,
         UNCHANGED <<tlbMask, tlbPte, tlbFree, tlbRing, tlbTick, tlbSem, tlbLife, tlbShared>>
  PROVE  TlbIInv'
<1>0. TlbShape /\ TlbControl /\ TlbFlushes
  BY Zenon DEF TlbIInv
<1>1. /\ \A d \in TlbCpus : tlbPc'[d] = tlbPc[d]
      /\ tlbReg'[c] = r /\ \A d \in TlbCpus \ {c} : tlbReg'[d] = tlbReg[d]
  BY <1>0, Gone
<1>2. \A d \in TlbCpus : /\ tlbReg'[d].space = tlbReg[d].space /\ tlbReg'[d].range = tlbReg[d].range
                         /\ tlbReg'[d].targets \subseteq tlbReg[d].targets
  BY <1>1, Zenon DEF TlbSameCall
<1>3. ASSUME NEW e \in TlbCpus, NEW d \in TlbCpus, NEW p \in TlbPages, TlbReaches(e, d, p),
             tlbCpu'[d].cr3 = tlbCpu[d].cr3, tlbSlot'[d] = tlbSlot[d]
      PROVE  TlbReaches(e, d, p)'
  <2>1. tlbReg[e].space = tlbCpu[d].cr3 /\ p \in tlbReg[e].range
    BY <1>3, Zenon DEF TlbReaches
  <2>2. d \in tlbReg[e].targets /\ (tlbPc[e] = "spin" => tlbSlot[d].pending) => d \in tlbReg'[e].targets
    BY <1>1, Zenon
  <2> QED BY <1>1, <1>2, <1>3, <2>1, <2>2, Zenon DEF TlbReaches
<1>4. CASE tlbSlot[c].pending
  <2> DEFINE new == [cpu EXCEPT !.isr = TRUE]
  <2>1. /\ tlbSlot' = [tlbSlot EXCEPT ![c].pending = FALSE] /\ tlbCpu' = [tlbCpu EXCEPT ![c] = new]
    BY <1>4, Zenon DEF TlbService
  <2>2. /\ new \in TlbCpuRec /\ new.cr3 = tlbCpu[c].cr3 /\ new.cache = tlbCpu[c].cache
        /\ new.force = tlbCpu[c].force /\ new.isr
    BY Zenon DEF TlbCpuRec
  <2> HIDE DEF new
  <2>3. /\ tlbCpu' \in [TlbCpus -> TlbCpuRec] /\ tlbCpu'[c] = new
        /\ \A d \in TlbCpus \ {c} : tlbCpu'[d] = tlbCpu[d]
    BY <1>0, <2>1, <2>2, Zenon DEF TlbShape
  <2>4. /\ tlbSlot' \in [TlbCpus -> TlbSlots]
        /\ tlbSlot'[c].cr3 = tlbSlot[c].cr3 /\ tlbSlot'[c].range = tlbSlot[c].range
        /\ \A d \in TlbCpus \ {c} : tlbSlot'[d] = tlbSlot[d]
    BY <1>0, <2>1, Zenon DEF TlbShape, TlbSlots
  <2>5. TlbOnlyCaches
    BY <1>0, <2>2, <2>3, <2>4, Zenon DEF TlbOnlyCaches, TlbShape
  <2>6. TlbShape' /\ TlbControl' /\ TlbNoted' /\ TlbOneExit' /\ TlbBroken'
    BY <2>5, ShootFrame, Zenon
  <2>7. TlbSendersKeep
    BY <1>1, <1>2, <2>4, Zenon DEF TlbSendersKeep
  <2>8. ASSUME NEW d \in TlbCpus, NEW p \in TlbPages, TlbStale(d, p)', TlbOwned
        PROVE  TlbStale(d, p) /\ (TlbDueAt(d, p) => TlbDueAt(d, p)')
    <3>1. TlbStale(d, p)
      BY <2>2, <2>3, <2>8, Zenon DEF TlbStale
    <3>2. CASE d # c
      BY <1>3, <2>3, <2>4, <3>1, <3>2, Zenon DEF TlbDueAt
    <3>3. CASE d = c
      <4>1. ASSUME NEW e \in TlbCpus, TlbReaches(e, c, p) PROVE TlbDueAt(c, p)'
        <5>1. CASE tlbPc[e] \in {"send", "spin"}
          <6>1. tlbSlot[c].cr3 = tlbCpu[c].cr3 /\ p \in tlbSlot[c].range
            BY <2>8, <4>1, <5>1, Zenon DEF TlbReaches, TlbOwned
          <6> QED BY <2>2, <2>3, <2>4, <6>1, Zenon DEF TlbDueAt
        <5>2. CASE tlbPc[e] \notin {"send", "spin"}
          <6>1. c \in tlbReg[e].targets => c \in tlbReg'[e].targets
            BY <1>1, <5>2, Zenon
          <6>2. TlbReaches(e, c, p)'
            BY <1>1, <1>2, <2>2, <2>3, <4>1, <5>2, <6>1, Zenon DEF TlbReaches
          <6> QED BY <6>2, Zenon DEF TlbDueAt
        <5> QED BY <5>1, <5>2, Zenon
      <4> QED BY <2>2, <2>3, <3>1, <3>3, <4>1, Zenon DEF TlbDueAt
    <3> QED BY <3>2, <3>3, Zenon
  <2>9. TlbFlushes'
    BY <1>0, <2>6, <2>7, <2>8, CoverStep, Zenon
  <2> QED BY <2>6, <2>9, Zenon DEF TlbIInv
<1>5. CASE ~tlbSlot[c].pending
  <2> DEFINE new == DrainForce(cpu)
  <2>1. tlbSlot' = tlbSlot /\ tlbCpu' = [tlbCpu EXCEPT ![c] = new]
    BY <1>5, Zenon DEF TlbService
  <2>2. /\ new \in TlbCpuRec /\ new.cr3 = tlbCpu[c].cr3 /\ ~new.isr
        /\ \/ ~tlbCpu[c].force /\ new.cache = tlbCpu[c].cache
           \/ \A p \in TlbPages : new.cache[p] = NoEntry
    BY DrainFacts, Zenon
  <2> HIDE DEF new
  <2>3. /\ tlbCpu' \in [TlbCpus -> TlbCpuRec] /\ tlbCpu'[c] = new
        /\ \A d \in TlbCpus \ {c} : tlbCpu'[d] = tlbCpu[d]
    BY <1>0, <2>1, <2>2, Zenon DEF TlbShape
  <2>4. TlbOnlyCaches
    BY <1>0, <2>1, <2>2, <2>3, Zenon DEF TlbOnlyCaches, TlbShape
  <2>5. TlbShape' /\ TlbControl' /\ TlbNoted' /\ TlbOneExit' /\ TlbBroken'
    BY <2>4, ShootFrame, Zenon
  <2>6. TlbSendersKeep
    BY <1>1, <1>2, <2>1, Zenon DEF TlbSendersKeep
  <2>7. ASSUME NEW d \in TlbCpus, NEW p \in TlbPages, TlbStale(d, p)', TlbOwned
        PROVE  TlbStale(d, p) /\ (TlbDueAt(d, p) => TlbDueAt(d, p)')
    <3>1. d = c => ~tlbCpu[c].force /\ new.cache = tlbCpu[c].cache
      BY <2>2, <2>3, <2>7, Zenon DEF TlbStale
    <3>2. TlbStale(d, p)
      BY <2>2, <2>3, <2>7, <3>1, Zenon DEF TlbStale
    <3>3. tlbCpu'[d].cr3 = tlbCpu[d].cr3 /\ tlbSlot'[d] = tlbSlot[d]
      BY <2>1, <2>2, <2>3, Zenon
    <3> QED BY <1>3, <2>1, <2>3, <3>1, <3>2, <3>3, Zenon DEF TlbDueAt
  <2>8. TlbFlushes'
    BY <1>0, <2>5, <2>6, <2>7, CoverStep, Zenon
  <2> QED BY <2>5, <2>8, Zenon DEF TlbIInv
<1> QED BY <1>4, <1>5, Zenon

LEMMA ServeStep ==
  ASSUME TlbIInv, NEW c \in TlbCpus, TlbServe(c)
  PROVE  TlbIInv'
<1>0. TlbShape /\ TlbControl /\ TlbFlushes
  BY Zenon DEF TlbIInv
<1> DEFINE R == IF tlbSlot[c].cr3 = tlbCpu[c].cr3 THEN tlbSlot[c].range ELSE {}
           mid == Invlpg(tlbCpu[c], R)
           cpu == [mid EXCEPT !.isr = FALSE]
           new == DrainForce(cpu)
           r == tlbReg[c]
<1>1. /\ tlbCpu' = [tlbCpu EXCEPT ![c] = new]
      /\ UNCHANGED <<tlbMask, tlbPte, tlbFree, tlbRing, tlbSlot, tlbTick, tlbSem, tlbLife, tlbPc,
                     tlbReg, tlbShared>>
  BY Zenon DEF TlbServe, tlbMem, tlbLocks
<1>2. /\ mid \in TlbCpuRec /\ mid.cr3 = tlbCpu[c].cr3 /\ mid.force = tlbCpu[c].force
      /\ \A p \in TlbPages : mid.cache[p] = IF p \in R THEN NoEntry ELSE tlbCpu[c].cache[p]
  <2>1. tlbCpu[c] \in TlbCpuRec
    BY <1>0, Zenon DEF TlbShape
  <2> HIDE DEF R
  <2> QED BY <2>1, InvlpgFacts
<1> HIDE DEF mid
<1>3. cpu \in TlbCpuRec /\ cpu.cr3 = mid.cr3 /\ cpu.force = mid.force /\ cpu.cache = mid.cache
  BY <1>2, Zenon DEF TlbCpuRec
<1> HIDE DEF cpu
<1>4. /\ new \in TlbCpuRec /\ new.cr3 = tlbCpu[c].cr3
      /\ \A p \in TlbPages : new.cache[p] # NoEntry =>
           ~tlbCpu[c].force /\ p \notin R /\ new.cache[p] = tlbCpu[c].cache[p]
  BY <1>2, <1>3, DrainFacts
<1> HIDE DEF new
<1>5. /\ tlbCpu' \in [TlbCpus -> TlbCpuRec] /\ tlbCpu'[c] = new
      /\ \A d \in TlbCpus \ {c} : tlbCpu'[d] = tlbCpu[d]
  BY <1>0, <1>1, <1>4, Zenon DEF TlbShape
<1>6. TlbOnlyCaches
  BY <1>0, <1>1, <1>4, <1>5, Zenon DEF TlbOnlyCaches, TlbShape
<1>7. TlbShape' /\ TlbControl' /\ TlbNoted' /\ TlbOneExit' /\ TlbBroken'
  <2>1. r \in TlbRegRec /\ TlbGoes(c, tlbPc[c], r) /\ TlbSameCall(c, r)
    BY <1>0, <1>1, Zenon DEF TlbShape, TlbGoes, TlbSameCall
  <2> HIDE DEF r
  <2> QED BY <1>6, <2>1, ShootFrame, Zenon
<1>8. TlbSendersKeep
  BY <1>1, Zenon DEF TlbSendersKeep
<1>9. ASSUME NEW d \in TlbCpus, NEW p \in TlbPages, TlbStale(d, p)', TlbOwned
      PROVE  TlbStale(d, p) /\ (TlbDueAt(d, p) => TlbDueAt(d, p)')
  <2>1. d = c => ~tlbCpu[c].force /\ p \notin R /\ new.cache[p] = tlbCpu[c].cache[p]
    BY <1>4, <1>5, <1>9, Zenon DEF TlbStale
  <2>2. TlbStale(d, p)
    BY <1>1, <1>4, <1>5, <1>9, <2>1, Zenon DEF TlbStale
  <2>3. ASSUME NEW e \in TlbCpus, TlbReaches(e, d, p) PROVE TlbReaches(e, d, p)'
    BY <1>1, <1>4, <1>5, <2>3, Zenon DEF TlbReaches
  <2> QED BY <1>1, <1>5, <2>1, <2>2, <2>3, Zenon DEF TlbDueAt
<1>10. TlbFlushes'
  BY <1>0, <1>7, <1>8, <1>9, CoverStep, Zenon
<1> QED BY <1>7, <1>10, Zenon DEF TlbIInv

LEMMA ServiceSteps ==
  ASSUME TlbIInv, NEW c \in TlbCpus, TlbIpi(c) \/ TlbDrain(c) \/ TlbPoll(c)
  PROVE  TlbIInv'
<1>0. TlbShape
  BY Zenon DEF TlbIInv
<1>1. /\ tlbCpu[c] \in TlbCpuRec /\ tlbReg[c] \in TlbRegRec
      /\ tlbPc = [tlbPc EXCEPT ![c] = tlbPc[c]] /\ tlbReg = [tlbReg EXCEPT ![c] = tlbReg[c]]
  BY <1>0, Zenon DEF TlbShape
<1>2. CASE tlbPc' = tlbPc /\ tlbReg' = tlbReg
  <2> DEFINE cpu == IF TlbIpi(c) THEN [tlbCpu[c] EXCEPT !.ipi = FALSE] ELSE tlbCpu[c]
             r == tlbReg[c]
  <2>1. TlbIpi(c) \/ TlbDrain(c) \/ (TlbPoll(c) /\ TlbService(c, tlbCpu[c]))
    BY <1>0, <1>2, Zenon DEF TlbPoll, TlbGo, TlbRuns, TlbShape
  <2>2. /\ TlbService(c, cpu) /\ ~tlbCpu[c].isr
        /\ UNCHANGED <<tlbMask, tlbPte, tlbFree, tlbRing, tlbTick, tlbSem, tlbLife, tlbShared>>
    BY <2>1, Zenon DEF TlbIpi, TlbDrain, TlbPoll, TlbRuns, tlbMem, tlbLocks
  <2>3. cpu \in TlbCpuRec /\ \A x \in {"cr3", "cache", "isr", "force"} : cpu[x] = tlbCpu[c][x]
    BY <1>1, Zenon DEF TlbCpuRec
  <2>4. /\ r \in TlbRegRec /\ TlbGoes(c, tlbPc[c], r) /\ TlbSameCall(c, r)
        /\ r.targets \subseteq tlbReg[c].targets /\ tlbReg[c].targets \ r.targets = {}
    BY <1>1, <1>2, Zenon DEF TlbGoes, TlbSameCall
  <2> HIDE DEF cpu, r
  <2> QED BY <2>2, <2>3, <2>4, ServiceStep, Zenon
<1>3. CASE TlbPoll(c)
  <2> DEFINE S == {t \in tlbReg[c].targets : tlbSlot[t].pending}
             r == [tlbReg[c] EXCEPT !.targets = S]
             cpu == tlbCpu[c]
  <2>1. /\ tlbPc[c] = "spin" /\ ~tlbCpu[c].isr
        /\ UNCHANGED <<tlbMask, tlbPte, tlbFree, tlbRing, tlbTick, tlbSem, tlbLife, tlbShared>>
    BY <1>3, Zenon DEF TlbPoll, TlbRuns, tlbMem, tlbLocks
  <2>2. CASE /\ S = {} /\ TlbGo(c, "done") /\ tlbReg' = [tlbReg EXCEPT ![c].targets = {}]
             /\ UNCHANGED <<tlbCpu, tlbSlot>>
    BY <2>1, <2>2, PollDoneStep, Zenon
  <2>3. CASE /\ tlbReg' = [tlbReg EXCEPT ![c].targets = S] /\ TlbService(c, tlbCpu[c])
             /\ UNCHANGED tlbPc
    <3>1. /\ S \subseteq tlbReg[c].targets /\ \A t \in tlbReg[c].targets \ S : ~tlbSlot[t].pending
      BY Zenon
    <3>2. tlbReg' = [tlbReg EXCEPT ![c] = r]
      BY <1>0, <2>3, Zenon DEF TlbShape
    <3> HIDE DEF S
    <3>3. r \in TlbRegRec /\ TlbSameCall(c, r) /\ r.targets = S
      BY <1>1, <3>1, Zenon DEF TlbRegRec, TlbSameCall
    <3> HIDE DEF r
    <3>4. TlbGoes(c, tlbPc[c], r)
      BY <1>1, <2>3, <3>2, Zenon DEF TlbGoes
    <3>5. cpu \in TlbCpuRec /\ TlbService(c, cpu)
          /\ \A x \in {"cr3", "cache", "isr", "force"} : cpu[x] = tlbCpu[c][x]
      BY <1>1, <2>3, Zenon
    <3> HIDE DEF cpu
    <3>6. \A t \in tlbReg[c].targets \ r.targets : tlbPc[c] = "spin" /\ ~tlbSlot[t].pending
      BY <2>1, <3>1, <3>3, Zenon
    <3> QED BY <2>1, <3>1, <3>3, <3>4, <3>5, <3>6, ServiceStep, Zenon
  <2> QED BY <1>3, <2>2, <2>3, Zenon DEF TlbPoll
<1> QED BY <1>2, <1>3, Zenon DEF TlbIpi, TlbDrain

\* No page of cpu is stale that was not on CPU c, with all that is due there.
TlbFresher(c, cpu) ==
  \A p \in TlbPages :
    \/ cpu.cache[p] \in {NoEntry, tlbPte[cpu.cr3][p]}
    \/ /\ cpu.cache[p] = tlbCpu[c].cache[p]
       /\ cpu.isr = tlbCpu[c].isr /\ cpu.force = tlbCpu[c].force

\* The timer ISR, and the processor's own walk of the tables.
LEMMA CacheStep ==
  ASSUME TlbIInv, NEW c \in TlbCpus, NEW cpu \in TlbCpuRec, tlbCpu' = [tlbCpu EXCEPT ![c] = cpu],
         cpu.cr3 = tlbCpu[c].cr3, TlbFresher(c, cpu),
         UNCHANGED <<tlbMask, tlbPte, tlbSlot, tlbSem, tlbLife, tlbPc, tlbReg, tlbShared>>,
         tlbTick' \in Nat, tlbFree' \subseteq TlbFrames, tlbRing' \subseteq [f : TlbFrames, tick : Nat]
  PROVE  TlbIInv'
<1>0. TlbShape /\ TlbFlushes
  BY Zenon DEF TlbIInv
<1> DEFINE r == tlbReg[c]
<1>1. /\ tlbCpu' \in [TlbCpus -> TlbCpuRec] /\ tlbCpu'[c] = cpu
      /\ \A d \in TlbCpus \ {c} : tlbCpu'[d] = tlbCpu[d]
  BY <1>0, Zenon DEF TlbShape
<1>2. TlbOnlyCaches
  BY <1>0, <1>1, Zenon DEF TlbOnlyCaches, TlbShape
<1>3. TlbShape' /\ TlbControl' /\ TlbNoted' /\ TlbOneExit' /\ TlbBroken'
  <2>1. r \in TlbRegRec /\ TlbGoes(c, tlbPc[c], r) /\ TlbSameCall(c, r)
    BY <1>0, Zenon DEF TlbShape, TlbGoes, TlbSameCall
  <2> HIDE DEF r
  <2> QED BY <1>2, <2>1, ShootFrame, Zenon
<1>4. TlbKeeps
  BY Zenon DEF TlbKeeps
<1>5. ASSUME NEW d \in TlbCpus, NEW p \in TlbPages, TlbStale(d, p)'
      PROVE  TlbStale(d, p) /\ TlbStillDue(d)
  <2>1. CASE d # c
    BY <1>1, <1>5, <2>1, Zenon DEF TlbStale, TlbStillDue
  <2>2. CASE d = c
    <3>1. cpu.cache[p] \notin {NoEntry, tlbPte[cpu.cr3][p]}
      BY <1>1, <1>5, <2>2, Zenon DEF TlbStale
    <3> QED BY <1>1, <1>5, <2>2, <3>1, Zenon DEF TlbStale, TlbStillDue, TlbFresher
  <2> QED BY <2>1, <2>2, Zenon
<1>6. TlbFlushes'
  BY <1>0, <1>4, <1>5, FlushStep, Zenon
<1> QED BY <1>3, <1>6, Zenon DEF TlbIInv

LEMMA TickStep ==
  ASSUME TlbIInv, NEW c \in TlbCpus, TlbTickIsr(c)
  PROVE  TlbIInv'
<1>0. TlbShape
  BY Zenon DEF TlbIInv
<1> DEFINE mid == FlushTlb(tlbCpu[c])
           cpu == [mid EXCEPT !.last = tlbTick', !.force = FALSE]
<1>1. /\ tlbTick' \in {tlbTick, tlbTick + 1} /\ tlbCpu' = [tlbCpu EXCEPT ![c] = cpu]
      /\ \E due \in SUBSET tlbRing : tlbRing' = tlbRing \ due /\ tlbFree' = tlbFree \cup {e.f : e \in due}
      /\ UNCHANGED <<tlbMask, tlbPte, tlbSlot, tlbSem, tlbLife, tlbPc, tlbReg, tlbShared>>
  <2> DEFINE D == {e \in tlbRing : e.tick < Min({tlbCpu'[d].last : d \in TlbCpus})}
  <2>1. D \in SUBSET tlbRing
    BY Zenon
  <2>2. tlbRing' = tlbRing \ D /\ tlbFree' = tlbFree \cup {e.f : e \in D}
    BY Zenon DEF TlbTickIsr
  <2> HIDE DEF D
  <2> QED BY <2>1, <2>2, Zenon DEF TlbTickIsr, tlbLocks
<1>2. tlbTick' \in Nat
  BY <1>0, <1>1 DEF TlbShape
<1>3. tlbFree' \subseteq TlbFrames /\ tlbRing' \subseteq [f : TlbFrames, tick : Nat]
  <2>1. PICK due \in SUBSET tlbRing :
          tlbRing' = tlbRing \ due /\ tlbFree' = tlbFree \cup {e.f : e \in due}
    BY <1>1, Zenon
  <2>2. {e.f : e \in due} \subseteq TlbFrames
    BY <1>0, <2>1 DEF TlbShape
  <2> QED BY <1>0, <2>1, <2>2, Zenon DEF TlbShape
<1>4. /\ mid \in TlbCpuRec /\ mid.cr3 = tlbCpu[c].cr3
      /\ \A p \in TlbPages : mid.cache[p] = NoEntry
  <2>1. tlbCpu[c] \in TlbCpuRec
    BY <1>0, Zenon DEF TlbShape
  <2> QED BY <2>1, FlushFacts, Zenon
<1> HIDE DEF mid
<1>5. cpu \in TlbCpuRec /\ cpu.cr3 = tlbCpu[c].cr3 /\ cpu.cache = mid.cache
  BY <1>2, <1>4, Zenon DEF TlbCpuRec
<1> HIDE DEF cpu
<1>6. TlbFresher(c, cpu)
  BY <1>4, <1>5, Zenon DEF TlbFresher
<1> QED BY <1>1, <1>2, <1>3, <1>5, <1>6, CacheStep, Zenon

LEMMA FillCacheStep ==
  ASSUME TlbIInv, NEW c \in TlbCpus, NEW p \in TlbPages, TlbFill(c, p)
  PROVE  TlbIInv'
<1>0. TlbShape
  BY Zenon DEF TlbIInv
<1> DEFINE s == tlbCpu[c].cr3
           e == tlbPte[s][p]
           k == [tlbCpu[c].cache EXCEPT ![p] = e]
           cpu == [tlbCpu[c] EXCEPT !.cache = k]
<1>1. /\ s \in TlbSpaces /\ tlbCpu' = [tlbCpu EXCEPT ![c].cache[p] = e]
      /\ UNCHANGED <<tlbMask, tlbPte, tlbFree, tlbRing, tlbSlot, tlbTick, tlbSem, tlbLife, tlbPc,
                     tlbReg, tlbShared>>
  BY Zenon DEF TlbFill, tlbMem, tlbLocks
<1>2. tlbCpu[c] \in TlbCpuRec /\ e \in TlbEntry
  BY <1>0, <1>1, Zenon DEF TlbShape
<1>3. tlbCpu' = [tlbCpu EXCEPT ![c] = cpu]
  BY <1>0, <1>1, Zenon DEF TlbShape
<1>4. /\ k \in [TlbPages -> TlbEntry] /\ k[p] = e
      /\ \A q \in TlbPages \ {p} : k[q] = tlbCpu[c].cache[q]
  BY <1>2, Zenon DEF TlbCpuRec
<1> HIDE DEF k
<1>5. /\ cpu \in TlbCpuRec /\ cpu.cache = k
      /\ \A x \in {"cr3", "isr", "force"} : cpu[x] = tlbCpu[c][x]
  BY <1>2, <1>4, Zenon DEF TlbCpuRec
<1> HIDE DEF cpu
<1>6. tlbTick' \in Nat /\ tlbFree' \subseteq TlbFrames /\ tlbRing' \subseteq [f : TlbFrames, tick : Nat]
  BY <1>0, <1>1, Zenon DEF TlbShape
<1>7. TlbFresher(c, cpu)
  BY <1>4, <1>5, Zenon DEF TlbFresher
<1> QED BY <1>1, <1>3, <1>5, <1>6, <1>7, CacheStep, Zenon

-----------------------------------------------------------------------------
(* The theorem.                                                              *)

LEMMA InitIInv ==
  ASSUME TlbInit PROVE TlbIInv
<1>0. /\ TlbMap \in [TlbSpaces -> [TlbPages -> TlbFrames \cup {0}]]
      /\ TlbStart \in [TlbCpus -> TlbSpaces \cup {KernelCr3}] /\ 0 \notin TlbFrames
  BY TlbAssumption, Zenon
<1>1. \A c \in TlbCpus : /\ tlbCpu[c].cr3 = TlbStart[c] /\ tlbPc[c] = "user" /\ tlbReg[c] = NoRegs
                         /\ \A p \in TlbPages : tlbCpu[c].cache[p] = NoEntry
  BY Zenon DEF TlbInit
<1>2. NoRegs \in TlbRegRec /\ NoRegs.op = "none" /\ NoEntry \in TlbEntry
  BY ConstantFacts, ReturnAt, Zenon
<1>3. TlbShape
  <2>1. tlbCpu \in [TlbCpus -> TlbCpuRec]
    <3> DEFINE k == [p \in TlbPages |-> NoEntry]
    <3>1. k \in [TlbPages -> TlbEntry]
      BY <1>2, Zenon
    <3>2. tlbCpu = [c \in TlbCpus |-> [cr3 |-> TlbStart[c], cache |-> k, ipi |-> FALSE,
                                       isr |-> FALSE, force |-> FALSE, last |-> 0]]
      BY Zenon DEF TlbInit
    <3> HIDE DEF k
    <3> QED BY <1>0, <3>1, <3>2, Zenon DEF TlbCpuRec, TlbCr3s
  <2>2. tlbPte \in [TlbSpaces -> [TlbPages -> TlbEntry]]
    <3>1. ASSUME NEW s \in TlbSpaces, NEW p \in TlbPages
          PROVE  (IF TlbMap[s][p] = 0 THEN NoEntry ELSE [f |-> TlbMap[s][p], w |-> TRUE]) \in TlbEntry
      <4>1. TlbMap[s][p] \in TlbFrames \cup {0}
        BY <1>0, Zenon
      <4> QED BY <1>0, <1>2, <4>1, Zenon DEF TlbEntry
    <3> QED BY <3>1, Zenon DEF TlbInit
  <2>3. /\ tlbMask \in [TlbSpaces -> SUBSET TlbCpus] /\ tlbSem \in [TlbSpaces -> TlbSems]
        /\ tlbLife \in [TlbSpaces -> TlbLives] /\ tlbSlot \in [TlbCpus -> TlbSlots]
    BY Zenon DEF TlbInit, TlbSems, TlbLives, TlbSlots, TlbCr3s
  <2>4. /\ tlbReg \in [TlbCpus -> TlbRegRec] /\ tlbPc = [c \in TlbCpus |-> tlbPc[c]]
        /\ tlbTick \in Nat /\ tlbShared \in BOOLEAN
        /\ tlbFree \subseteq TlbFrames /\ tlbRing \subseteq [f : TlbFrames, tick : Nat]
    BY <1>2, Zenon DEF TlbInit
  <2> QED BY <2>1, <2>2, <2>3, <2>4, Zenon DEF TlbShape
<1>4. TlbControl
  BY <1>1, ReturnAt, Zenon DEF TlbControl
<1>5. TlbNoted
  BY <1>1, Zenon DEF TlbNoted, TlbInit
<1>6. TlbOneExit /\ TlbBroken
  BY <1>1, <1>2, Zenon DEF TlbOneExit, TlbBroken
<1>7. TlbFlushes
  BY <1>1, Zenon DEF TlbFlushes, TlbOwned, TlbCovered, TlbStale
<1> QED BY <1>3, <1>4, <1>5, <1>6, <1>7, Zenon DEF TlbIInv

LEMMA NextIInv ==
  ASSUME TlbIInv, [TlbNext]_tlbVars PROVE TlbIInv'
<1>1. CASE UNCHANGED tlbVars
  <2>1. TlbShape'
    BY <1>1, Zenon DEF TlbIInv, TlbShape, tlbVars
  <2>2. TlbControl'
    BY <1>1, Zenon DEF TlbIInv, TlbControl, tlbVars
  <2>3. TlbNoted' /\ TlbOneExit' /\ TlbBroken'
    BY <1>1, Zenon DEF TlbIInv, TlbNoted, TlbOneExit, TlbBroken, tlbVars
  <2>4. TlbKeeps
    BY <1>1, Zenon DEF TlbKeeps, tlbVars
  <2>5. \A d \in TlbCpus, p \in TlbPages : TlbStale(d, p)' => TlbStale(d, p) /\ TlbStillDue(d)
    BY <1>1, Zenon DEF TlbStale, TlbStillDue, tlbVars
  <2>6. TlbFlushes'
    BY <2>4, <2>5, FlushStep, Zenon DEF TlbIInv
  <2> QED BY <2>1, <2>2, <2>3, <2>6, Zenon DEF TlbIInv
<1>2. CASE TlbNext
  <2>1. PICK c \in TlbCpus : \/ TlbStep(c) \/ TlbBegin(c) \/ TlbTimeout(c) \/ TlbTickIsr(c)
                             \/ \E p \in TlbPages : TlbFill(c, p)
    BY <1>2, Zenon DEF TlbNext
  <2>2. CASE TlbStep(c)
    BY Zenon, <2>2, SnapshotStep, PublishStep, SendStep, PostForceStep, ServeStep, ServiceSteps, ClearStep,
       ReturnStep, LocalStep, ProtectStep, FaultTableStep, BreakStep, MakeStep, InstallStep,
       NoteStep, SwMovStep, ExTakeStep, ExFreeStep DEF TlbStep
  <2>3. CASE TlbBegin(c)
    <3>1. ASSUME NEW p \in TlbPages, TlbUnmap(c, p) \/ TlbWriteFault(c, p) \/ TlbReadFault(c, p)
          PROVE  TlbIInv'
      BY <3>1, EnterStep, Zenon
    <3>2. ASSUME NEW s \in TlbSpaces, TlbSwitch(c, s) PROVE TlbIInv'
      BY <3>2, LeaveStep, Zenon DEF TlbSwitch, TlbCr3s
    <3>3. CASE TlbFork(c)
      BY <3>3, EnterStep, Zenon
    <3>4. CASE TlbIdle(c)
      BY <3>4, LeaveStep, Zenon DEF TlbIdle, TlbCr3s
    <3>5. CASE TlbExit(c)
      BY <3>5, ExitBeginStep, Zenon
    <3> QED BY <2>3, <3>1, <3>2, <3>3, <3>4, <3>5, Zenon DEF TlbBegin
  <2> QED BY <2>1, <2>2, <2>3, TimeoutStep, TickStep, FillCacheStep, Zenon
<1> QED BY <1>1, <1>2, Zenon

\* No stale translation outlives its shootdown (shootdown_range and its callers,
\* the timer ISR, the draining lock acquisitions and the CR3 switches of
\* schedule() and exit_group): for any number of CPUs, address spaces and pages,
\* whether or not spins time out, a cached translation differs from the page
\* tables only while something that will flush it is under way, as long as the
\* tables a CPU runs on have not been freed.
THEOREM NoStaleTranslation == TlbSpec => [](TlbTablesLive => TlbCoherent)
<1>1. TlbIInv => (TlbTablesLive => TlbCoherent)
  <2>1. SUFFICES ASSUME TlbIInv, TlbTablesLive, ~tlbShared, NEW c \in TlbCpus, NEW p \in TlbPages,
                        tlbCpu[c].cr3 \in TlbSpaces, tlbCpu[c].cache[p] # NoEntry,
                        tlbCpu[c].cache[p] # tlbPte[tlbCpu[c].cr3][p]
                 PROVE  tlbCpu[c].isr \/ tlbCpu[c].force \/ TlbInFlight(tlbCpu[c].cr3, p)
    BY Zenon DEF TlbCoherent
  <2>2. TlbDueAt(c, p)
    BY <2>1, Zenon DEF TlbIInv, TlbFlushes, TlbCovered, TlbStale, TlbTablesLive
  <2> QED BY <2>2, Zenon DEF TlbDueAt, TlbReaches, TlbInFlight
<1> QED BY <1>1, InitIInv, NextIInv, PTL DEF TlbSpec

=============================================================================
