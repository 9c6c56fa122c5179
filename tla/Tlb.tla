-------------------------------- MODULE Tlb --------------------------------
(***************************************************************************)
(* TLB shootdown (mm/tlb.rs) with the code that calls it: unmapping a      *)
(* range, the copy-on-write break of the page-fault handler, the           *)
(* write-protect pass of fork, the teardown of an address space at exit,   *)
(* demand paging and the CR3 switches of schedule().                       *)
(*                                                                         *)
(* A CPU runs one call at a time (tlbPc, tlbReg).  Interrupts reach it     *)
(* while TlbIF holds: the timer (TlbTickIsr) and the shootdown vector      *)
(* (TlbIpi).  A shootdown request is claimed in one step and carried out   *)
(* in a later one, as the handler clears `pending' before it reads the     *)
(* request.  The processor may cache a translation at any time             *)
(* (TlbFill).                                                              *)
(*                                                                         *)
(* A leaf entry is a frame and its writable bit.  A read-only entry stands *)
(* for a frame shared with a fork child, which holds the other reference.  *)
(* The clear of a force-flush request by the timer ISR is atomic with the  *)
(* flush before it: a request is posted only after an acknowledgement      *)
(* spin (ACK_BOUND) many times longer than that interval.  Of a write      *)
(* fault only the copy is here, the arm that shoots down; module Cow has   *)
(* the others.                                                             *)
(***************************************************************************)
EXTENDS Integers, FiniteSets, FiniteSetsExt, Functions

CONSTANTS
  TlbCpus,          \* logical processors
  TlbSpaces,        \* user address spaces, named by their CR3
  TlbPages,         \* user pages of each address space
  TlbFrames,        \* physical frames
  TlbMap,           \* frame behind each page at the start
  TlbStart,         \* CR3 of each CPU at the start
  TlbBudgets,       \* for each scenario, how often a CPU makes each call
  TlbMaxTick,       \* bound on TICK_COUNT
  TlbRingCap,       \* QUARANTINE_CAPACITY
  TlbTimeouts,      \* whether an acknowledgement spin may reach ACK_BOUND
  TlbDrainTimeouts  \* whether the CR3 drain wait may reach its tick bound

VARIABLES
  tlbCpu,    \* per CPU: cr3, cached translations, IPI, force flush, tick stamp
  tlbMask,   \* CR3_ACTIVE_CPUS
  tlbPte,    \* leaf page-table entries
  tlbSlot,   \* SHOOTDOWN_SLOTS
  tlbTick,   \* TICK_COUNT
  tlbRing,   \* QUARANTINE
  tlbFree,   \* frames in the physical allocator
  tlbSem,    \* mm_sem of each address space: readers and writer
  tlbProc,   \* holder of PROCESS_TABLE
  tlbLife,   \* progress of the teardown of each address space
  tlbPc,
  tlbReg,
  tlbLeft,
  tlbShared  \* history: two shootdowns have met in one slot

tlbVars == <<tlbCpu, tlbMask, tlbPte, tlbSlot, tlbTick, tlbRing, tlbFree,
             tlbSem, tlbProc, tlbLife, tlbPc, tlbReg, tlbLeft, tlbShared>>

tlbMem == <<tlbPte, tlbFree, tlbRing>>
tlbLocks == <<tlbSem, tlbProc>>

TlbCalls == {"unmap", "fork", "write", "read", "switch", "idle", "exit", "tick"}
KernelCr3 == "kernel"

ASSUME TlbAssumption ==
  /\ KernelCr3 \notin TlbSpaces
  /\ 0 \notin TlbFrames
  /\ TlbMap \in [TlbSpaces -> [TlbPages -> TlbFrames \cup {0}]]
  /\ \A s, t \in TlbSpaces : \A p, q \in TlbPages :
       TlbMap[s][p] = TlbMap[t][q] /\ TlbMap[s][p] # 0 => s = t /\ p = q
  /\ TlbStart \in [TlbCpus -> TlbSpaces \cup {KernelCr3}]
  /\ TlbBudgets \subseteq [TlbCpus -> [TlbCalls -> Nat]]
  /\ TlbMaxTick \in Nat /\ TlbRingCap \in Nat
  /\ TlbTimeouts \in BOOLEAN /\ TlbDrainTimeouts \in BOOLEAN

NoEntry == [f |-> 0, w |-> FALSE]
NoRegs == [op |-> "none", space |-> KernelCr3, range |-> {}, targets |-> {},
           clean |-> TRUE, frames |-> {}, new |-> 0, next |-> KernelCr3]

TlbInit ==
  /\ tlbCpu = [c \in TlbCpus |->
       [cr3 |-> TlbStart[c], cache |-> [p \in TlbPages |-> NoEntry],
        ipi |-> FALSE, isr |-> FALSE, force |-> FALSE, last |-> 0]]
  /\ tlbMask = [s \in TlbSpaces |-> {c \in TlbCpus : TlbStart[c] = s}]
  /\ tlbPte = [s \in TlbSpaces |-> [p \in TlbPages |->
       IF TlbMap[s][p] = 0 THEN NoEntry ELSE [f |-> TlbMap[s][p], w |-> TRUE]]]
  /\ tlbSlot = [c \in TlbCpus |->
       [cr3 |-> KernelCr3, range |-> {}, pending |-> FALSE]]
  /\ tlbTick = 0
  /\ tlbRing = {}
  /\ tlbFree = TlbFrames \ UNION {Range(TlbMap[s]) : s \in TlbSpaces}
  /\ tlbSem = [s \in TlbSpaces |-> [rd |-> {}, wr |-> {}]]
  /\ tlbProc = {}
  /\ tlbLife = [s \in TlbSpaces |-> "live"]
  /\ tlbPc = [c \in TlbCpus |-> "user"]
  /\ tlbReg = [c \in TlbCpus |-> NoRegs]
  /\ tlbLeft \in TlbBudgets
  /\ tlbShared = FALSE

------------------------------------------------------------------------------
(* Locks, program counters and the local TLB.                                *)

TlbRuns(c, l) == tlbPc[c] = l /\ ~tlbCpu[c].isr

TlbGo(c, l) == tlbPc' = [tlbPc EXCEPT ![c] = l]

TlbReturn(c) == TlbGo(c, "user") /\ tlbReg' = [tlbReg EXCEPT ![c] = NoRegs]

TlbCall(c, call) ==
  /\ TlbRuns(c, "user")
  /\ tlbLeft[c][call] > 0
  /\ tlbLeft' = [tlbLeft EXCEPT ![c][call] = @ - 1]

\* RwLock::try_read and try_write of spin: a reader only minds a writer.
TlbNoWriter(s) == tlbSem[s].wr = {}

TlbSemFree(s) == tlbSem[s].wr = {} /\ tlbSem[s].rd = {}

TlbReadLock(c, s) == tlbSem' = [tlbSem EXCEPT ![s].rd = @ \cup {c}]
TlbWriteLock(c, s) == tlbSem' = [tlbSem EXCEPT ![s].wr = {c}]
TlbUnlock(c, s) == tlbSem' = [tlbSem EXCEPT ![s] = [rd |-> @.rd \ {c}, wr |-> @.wr \ {c}]]

\* #PF and schedule() run with IF=0; the calls made by system calls do not.
TlbIF(c) ==
  /\ tlbPc[c] \notin {"swUnload", "swRead", "swLoad", "swMov"}
  /\ tlbReg[c].op \notin {"write", "read"}

Invlpg(cpu, range) ==
  [cpu EXCEPT !.cache = [p \in TlbPages |-> IF p \in range THEN NoEntry ELSE @[p]]]

FlushTlb(cpu) == Invlpg(cpu, TlbPages)

\* switch_cr3: the MOV to CR3 drops every cached translation.
SwitchCr3(cpu, cr3) == [FlushTlb(cpu) EXCEPT !.cr3 = cr3]

\* drain_pending_force_flush
DrainForce(cpu) == IF cpu.force THEN [FlushTlb(cpu) EXCEPT !.force = FALSE] ELSE cpu

------------------------------------------------------------------------------
(* The shootdown protocol.                                                   *)

\* shootdown_range, up to the snapshot of the CPUs that run on the CR3.
TlbSnapshot(c) ==
  /\ TlbRuns(c, "snapshot")
  /\ LET targets == tlbMask[tlbReg[c].space] \ {c} IN
       /\ tlbReg' = [tlbReg EXCEPT ![c].targets = targets, ![c].clean = TRUE]
       /\ TlbGo(c, IF targets = {} THEN "done" ELSE "publish")
  /\ tlbCpu' = [tlbCpu EXCEPT ![c] = Invlpg(@, tlbReg[c].range)]
  /\ UNCHANGED <<tlbMask, tlbMem, tlbSlot, tlbTick, tlbLocks, tlbLife, tlbLeft, tlbShared>>

\* The slot of every target is written; another sender may be using it.
TlbPublish(c) ==
  /\ TlbRuns(c, "publish")
  /\ LET targets == tlbReg[c].targets
         InUse(t) == \/ tlbCpu[t].isr
                     \/ \E d \in TlbCpus \ {c} : /\ tlbPc[d] \in {"send", "spin", "post"}
                                                 /\ t \in tlbReg[d].targets
     IN /\ tlbSlot' = [t \in TlbCpus |-> IF t \in targets
              THEN [cr3 |-> tlbReg[c].space, range |-> tlbReg[c].range, pending |-> TRUE]
              ELSE tlbSlot[t]]
        /\ tlbShared' = (tlbShared \/ \E t \in targets : InUse(t))
  /\ TlbGo(c, "send")
  /\ UNCHANGED <<tlbCpu, tlbMask, tlbMem, tlbTick, tlbLocks, tlbLife, tlbReg, tlbLeft>>

TlbSend(c) ==
  /\ TlbRuns(c, "send")
  /\ tlbCpu' = [t \in TlbCpus |-> IF t \in tlbReg[c].targets
                  THEN [tlbCpu[t] EXCEPT !.ipi = TRUE] ELSE tlbCpu[t]]
  /\ TlbGo(c, "spin")
  /\ UNCHANGED <<tlbMask, tlbMem, tlbSlot, tlbTick, tlbLocks, tlbLife, tlbReg, tlbLeft, tlbShared>>

\* service_incoming_shootdown_and_drain, up to the compare-exchange: a pending
\* request is claimed, which acknowledges it; without one only a force flush
\* is due.
TlbService(c, cpu) ==
  IF tlbSlot[c].pending
  THEN /\ tlbSlot' = [tlbSlot EXCEPT ![c].pending = FALSE]
       /\ tlbCpu' = [tlbCpu EXCEPT ![c] = [cpu EXCEPT !.isr = TRUE]]
  ELSE /\ tlbCpu' = [tlbCpu EXCEPT ![c] = DrainForce(cpu)]
       /\ UNCHANGED tlbSlot

\* The rest of it: the request is read from the slot and carried out.
TlbServe(c) ==
  /\ tlbCpu[c].isr
  /\ LET hit == tlbSlot[c].cr3 = tlbCpu[c].cr3
         cpu == Invlpg(tlbCpu[c], IF hit THEN tlbSlot[c].range ELSE {})
     IN tlbCpu' = [tlbCpu EXCEPT ![c] = DrainForce([cpu EXCEPT !.isr = FALSE])]
  /\ UNCHANGED <<tlbMask, tlbMem, tlbSlot, tlbTick, tlbLocks, tlbLife, tlbPc, tlbReg, tlbLeft, tlbShared>>

TlbIpi(c) ==
  /\ tlbCpu[c].ipi /\ ~tlbCpu[c].isr /\ TlbIF(c)
  /\ TlbService(c, [tlbCpu[c] EXCEPT !.ipi = FALSE])
  /\ UNCHANGED <<tlbMask, tlbMem, tlbTick, tlbLocks, tlbLife, tlbPc, tlbReg, tlbLeft, tlbShared>>

TlbDue(c) == tlbSlot[c].pending \/ tlbCpu[c].force

\* One turn of the acknowledgement spin: the targets still pending are kept,
\* and this CPU serves its own slot.
TlbPoll(c) ==
  /\ TlbRuns(c, "spin")
  /\ LET still == {t \in tlbReg[c].targets : tlbSlot[t].pending} IN
       \/ /\ still = {}
          /\ TlbGo(c, "done")
          /\ tlbReg' = [tlbReg EXCEPT ![c].targets = {}]
          /\ UNCHANGED <<tlbCpu, tlbSlot>>
       \/ /\ still # {}
          /\ still # tlbReg[c].targets \/ TlbDue(c)
          /\ tlbReg' = [tlbReg EXCEPT ![c].targets = still]
          /\ TlbService(c, tlbCpu[c])
          /\ UNCHANGED tlbPc
  /\ UNCHANGED <<tlbMask, tlbMem, tlbTick, tlbLocks, tlbLife, tlbLeft, tlbShared>>

\* ACK_BOUND is reached: the requests are withdrawn, and then a force flush is
\* posted to every CPU that did not acknowledge.
TlbTimeout(c) ==
  /\ TlbTimeouts
  /\ TlbRuns(c, "spin")
  /\ tlbReg[c].targets # {}
  /\ tlbSlot' = [t \in TlbCpus |-> IF t \in tlbReg[c].targets
                   THEN [tlbSlot[t] EXCEPT !.pending = FALSE] ELSE tlbSlot[t]]
  /\ TlbGo(c, "post")
  /\ UNCHANGED <<tlbCpu, tlbMask, tlbMem, tlbTick, tlbLocks, tlbLife, tlbReg, tlbLeft, tlbShared>>

TlbPostForce(c) ==
  /\ TlbRuns(c, "post")
  /\ tlbCpu' = [t \in TlbCpus |-> IF t \in tlbReg[c].targets
                  THEN [tlbCpu[t] EXCEPT !.force = TRUE] ELSE tlbCpu[t]]
  /\ tlbReg' = [tlbReg EXCEPT ![c].clean = FALSE, ![c].targets = {}]
  /\ TlbGo(c, "done")
  /\ UNCHANGED <<tlbMask, tlbMem, tlbSlot, tlbTick, tlbLocks, tlbLife, tlbLeft, tlbShared>>

\* Mutant: a quarantined frame is freed as well.
TlbDisposeTwice(c, frames) ==
  /\ tlbFree' = tlbFree \cup frames
  /\ IF tlbReg[c].clean \/ Cardinality(frames) > TlbRingCap - Cardinality(tlbRing)
       THEN UNCHANGED tlbRing
       ELSE tlbRing' = tlbRing \cup {[f |-> f, tick |-> tlbTick] : f \in frames}

\* Frames are freed after a clean shootdown and quarantined after another one;
\* quarantine_free frees what does not fit into the ring.
TlbDispose(c, frames) ==
  IF tlbReg[c].clean
  THEN tlbFree' = tlbFree \cup frames /\ UNCHANGED tlbRing
  ELSE \E Q \in SUBSET frames :
         /\ Cardinality(Q) = Min({Cardinality(frames), TlbRingCap - Cardinality(tlbRing)})
         /\ tlbRing' = tlbRing \cup {[f |-> f, tick |-> tlbTick] : f \in Q}
         /\ tlbFree' = tlbFree \cup (frames \ Q)

\* Mutant: a frame leaves quarantine in the tick it went in.
TlbTickIsrEarly(c) ==
  /\ ~tlbCpu[c].isr /\ TlbIF(c)
  /\ tlbLeft[c]["tick"] > 0
  /\ tlbLeft' = [tlbLeft EXCEPT ![c]["tick"] = @ - 1]
  /\ tlbTick' \in {tlbTick, tlbTick + 1} /\ tlbTick' <= TlbMaxTick
  /\ tlbCpu' = [tlbCpu EXCEPT ![c] =
       [FlushTlb(@) EXCEPT !.last = tlbTick', !.force = FALSE]]
  /\ LET min_tick == Min({tlbCpu'[d].last : d \in TlbCpus})
         due == {e \in tlbRing : e.tick <= min_tick}
     IN /\ tlbRing' = tlbRing \ due
        /\ tlbFree' = tlbFree \cup {e.f : e \in due}
  /\ UNCHANGED <<tlbMask, tlbPte, tlbSlot, tlbLocks, tlbLife, tlbPc, tlbReg, tlbShared>>

\* The timer ISR: TICK_COUNT may advance, and on_cpu_tick flushes the TLB,
\* stamps the CPU and frees the quarantined frames every CPU has ticked past.
TlbTickIsr(c) ==
  /\ ~tlbCpu[c].isr /\ TlbIF(c)
  /\ tlbLeft[c]["tick"] > 0
  /\ tlbLeft' = [tlbLeft EXCEPT ![c]["tick"] = @ - 1]
  /\ tlbTick' \in {tlbTick, tlbTick + 1} /\ tlbTick' <= TlbMaxTick
  /\ tlbCpu' = [tlbCpu EXCEPT ![c] =
       [FlushTlb(@) EXCEPT !.last = tlbTick', !.force = FALSE]]
  /\ LET min_tick == Min({tlbCpu'[d].last : d \in TlbCpus})
         due == {e \in tlbRing : e.tick < min_tick}
     IN /\ tlbRing' = tlbRing \ due
        /\ tlbFree' = tlbFree \cup {e.f : e \in due}
  /\ UNCHANGED <<tlbMask, tlbPte, tlbSlot, tlbLocks, tlbLife, tlbPc, tlbReg, tlbShared>>

\* The processor walks the tables it is running on and caches what it finds.
TlbFill(c, p) ==
  LET s == tlbCpu[c].cr3 IN
  /\ s \in TlbSpaces
  /\ tlbPte[s][p] # NoEntry
  /\ tlbCpu' = [tlbCpu EXCEPT ![c].cache[p] = tlbPte[s][p]]
  /\ UNCHANGED <<tlbMask, tlbMem, tlbSlot, tlbTick, tlbLocks, tlbLife, tlbPc, tlbReg, tlbLeft, tlbShared>>

------------------------------------------------------------------------------
(* munmap and madvise: unmap_and_free_range_in_ctx under mm_sem.read().      *)

TlbEnter(c, call, l, range) ==
  /\ TlbCall(c, call)
  /\ tlbCpu[c].cr3 \in TlbSpaces
  /\ tlbReg' = [tlbReg EXCEPT ![c] =
       [NoRegs EXCEPT !.op = call, !.space = tlbCpu[c].cr3, !.range = range]]
  /\ TlbGo(c, l)
  /\ UNCHANGED <<tlbMask, tlbMem, tlbSlot, tlbTick, tlbLocks, tlbShared>>

TlbUnmap(c, p) == TlbEnter(c, "unmap", "clear", {p}) /\ UNCHANGED <<tlbCpu, tlbLife>>

\* Pass 1: the entry is cleared and its reference dropped; a frame no fork
\* child shares is collected.
TlbClear(c) ==
  LET s == tlbReg[c].space IN
  /\ TlbRuns(c, "clear")
  /\ TlbNoWriter(s)
  /\ TlbReadLock(c, s)
  /\ tlbReg' = [tlbReg EXCEPT ![c].frames =
       {tlbPte[s][p].f : p \in {q \in tlbReg[c].range : tlbPte[s][q].w}}]
  /\ tlbPte' = [tlbPte EXCEPT ![s] =
       [p \in TlbPages |-> IF p \in tlbReg[c].range THEN NoEntry ELSE @[p]]]
  /\ TlbGo(c, "snapshot")
  /\ UNCHANGED <<tlbCpu, tlbMask, tlbFree, tlbRing, tlbSlot, tlbTick, tlbProc, tlbLife, tlbLeft, tlbShared>>

\* Pass 3: the frames go back to the allocator, at once or through quarantine.
TlbUnmapped(c) ==
  /\ TlbRuns(c, "done") /\ tlbReg[c].op = "unmap"
  /\ TlbDispose(c, tlbReg[c].frames)
  /\ TlbUnlock(c, tlbReg[c].space)
  /\ TlbReturn(c)
  /\ UNCHANGED <<tlbCpu, tlbMask, tlbPte, tlbSlot, tlbTick, tlbProc, tlbLife, tlbLeft, tlbShared>>

------------------------------------------------------------------------------
(* fork: PROCESS_TABLE and mm_sem.write() are held across the shootdown.     *)

TlbFork(c) == TlbEnter(c, "fork", "forkTable", TlbPages) /\ UNCHANGED <<tlbCpu, tlbLife>>

TlbForkTable(c) ==
  /\ TlbRuns(c, "forkTable")
  /\ tlbProc = {}
  /\ tlbProc' = {c}
  /\ TlbGo(c, "forkSem")
  /\ UNCHANGED <<tlbCpu, tlbMask, tlbMem, tlbSlot, tlbTick, tlbSem, tlbLife, tlbReg, tlbLeft, tlbShared>>

\* clone_for_fork: every present leaf becomes read-only and shared.
TlbProtect(c) ==
  LET s == tlbReg[c].space IN
  /\ TlbRuns(c, "forkSem")
  /\ TlbSemFree(s)
  /\ TlbWriteLock(c, s)
  /\ tlbPte' = [tlbPte EXCEPT ![s] = [p \in TlbPages |-> [@[p] EXCEPT !.w = FALSE]]]
  /\ TlbGo(c, "snapshot")
  /\ UNCHANGED <<tlbCpu, tlbMask, tlbFree, tlbRing, tlbSlot, tlbTick, tlbProc, tlbLife, tlbReg, tlbLeft, tlbShared>>

TlbForked(c) ==
  /\ TlbRuns(c, "done") /\ tlbReg[c].op = "fork"
  /\ TlbUnlock(c, tlbReg[c].space)
  /\ tlbProc' = {}
  /\ TlbReturn(c)
  /\ UNCHANGED <<tlbCpu, tlbMask, tlbMem, tlbSlot, tlbTick, tlbLife, tlbLeft, tlbShared>>

------------------------------------------------------------------------------
(* The page-fault handler: the copy-on-write arm and the anonymous demand    *)
(* arm, both entered with IF=0.                                              *)

\* A store through a read-only translation.
TlbWriteFault(c, p) ==
  /\ TlbEnter(c, "write", "faultTable", {p})
  /\ LET pte == tlbPte[tlbCpu[c].cr3][p]
         seen == IF tlbCpu[c].cache[p] = NoEntry THEN pte ELSE tlbCpu[c].cache[p]
     IN seen # NoEntry /\ ~seen.w
  /\ UNCHANGED <<tlbCpu, tlbLife>>

\* An access to a page that has no entry.
TlbReadFault(c, p) ==
  /\ TlbEnter(c, "read", "faultTable", {p})
  /\ tlbCpu[c].cache[p] = NoEntry
  /\ tlbPte[tlbCpu[c].cr3][p] = NoEntry
  /\ UNCHANGED <<tlbCpu, tlbLife>>

\* Mutant: the page-fault handler takes PROCESS_TABLE with a plain lock().
TlbBlockedSem(c) ==
  \/ tlbPc[c] = "break" /\ ~TlbSemFree(tlbReg[c].space)
  \/ tlbPc[c] = "install" /\ ~TlbNoWriter(tlbReg[c].space)

\* lock_process_table_draining, mm_sem_read_draining, mm_sem_write_draining: a
\* contended acquisition serves this CPU's own slot.
TlbBlocked(c) ==
  \/ tlbPc[c] = "faultTable" /\ tlbProc # {}
  \/ tlbPc[c] = "break" /\ ~TlbSemFree(tlbReg[c].space)
  \/ tlbPc[c] = "install" /\ ~TlbNoWriter(tlbReg[c].space)

TlbDrain(c) ==
  /\ ~tlbCpu[c].isr /\ TlbBlocked(c) /\ TlbDue(c)
  /\ TlbService(c, tlbCpu[c])
  /\ UNCHANGED <<tlbMask, tlbMem, tlbTick, tlbLocks, tlbLife, tlbPc, tlbReg, tlbLeft, tlbShared>>

\* Copy-on-write arm: with a private copy made and PROCESS_TABLE dropped, the
\* entry is broken; the demand arm keeps PROCESS_TABLE until it has installed.
TlbFaultTable(c) ==
  LET s == tlbReg[c].space
      p == CHOOSE q \in TlbPages : q \in tlbReg[c].range
      copy == tlbPte[s][p] # NoEntry /\ ~tlbPte[s][p].w
      fresh == tlbPte[s][p] = NoEntry
  IN
  /\ TlbRuns(c, "faultTable")
  /\ tlbProc = {}
  /\ \/ \E f \in tlbFree :
          /\ IF tlbReg[c].op = "write" THEN copy ELSE fresh
          /\ tlbFree' = tlbFree \ {f}
          /\ tlbReg' = [tlbReg EXCEPT ![c].new = f,
                          ![c].frames = {tlbPte[s][p].f} \ {0}]
          /\ TlbGo(c, IF copy THEN "break" ELSE "install")
          /\ tlbProc' = IF copy THEN {} ELSE {c}
     \/ /\ tlbFree = {} \/ ~(IF tlbReg[c].op = "write" THEN copy ELSE fresh)
        /\ TlbReturn(c)
        /\ UNCHANGED <<tlbFree, tlbProc>>
  /\ UNCHANGED <<tlbCpu, tlbMask, tlbPte, tlbRing, tlbSlot, tlbTick, tlbSem, tlbLife, tlbLeft, tlbShared>>

\* cow_break_if_unchanged, step 1: break, unless the entry has moved on.
TlbBreak(c) ==
  LET s == tlbReg[c].space
      p == CHOOSE q \in TlbPages : q \in tlbReg[c].range
  IN
  /\ TlbRuns(c, "break")
  /\ TlbSemFree(s)
  /\ \/ /\ {tlbPte[s][p].f} = tlbReg[c].frames
        /\ TlbWriteLock(c, s)
        /\ tlbPte' = [tlbPte EXCEPT ![s][p] = NoEntry]
        /\ TlbGo(c, "snapshot")
        /\ UNCHANGED <<tlbFree, tlbReg>>
     \/ /\ {tlbPte[s][p].f} # tlbReg[c].frames
        /\ tlbFree' = tlbFree \cup {tlbReg[c].new}
        /\ TlbReturn(c)
        /\ UNCHANGED <<tlbPte, tlbSem>>
  /\ UNCHANGED <<tlbCpu, tlbMask, tlbRing, tlbSlot, tlbTick, tlbProc, tlbLife, tlbLeft, tlbShared>>

\* Step 3: make.  The old frame keeps the child's reference.
TlbMake(c) ==
  LET s == tlbReg[c].space IN
  /\ TlbRuns(c, "done") /\ tlbReg[c].op = "write"
  /\ tlbPte' = [tlbPte EXCEPT ![s] = [p \in TlbPages |-> IF p \in tlbReg[c].range
                  THEN [f |-> tlbReg[c].new, w |-> TRUE] ELSE @[p]]]
  /\ TlbUnlock(c, s)
  /\ TlbReturn(c)
  /\ UNCHANGED <<tlbCpu, tlbMask, tlbFree, tlbRing, tlbSlot, tlbTick, tlbProc, tlbLife, tlbLeft, tlbShared>>

\* install_anon_frame: a sibling may have installed a frame first.
TlbInstall(c) ==
  LET s == tlbReg[c].space
      p == CHOOSE q \in TlbPages : q \in tlbReg[c].range
  IN
  /\ TlbRuns(c, "install")
  /\ TlbNoWriter(s)
  /\ \/ /\ tlbPte[s][p] = NoEntry
        /\ tlbPte' = [tlbPte EXCEPT ![s][p] = [f |-> tlbReg[c].new, w |-> TRUE]]
        /\ UNCHANGED tlbFree
     \/ /\ tlbPte[s][p] # NoEntry
        /\ tlbFree' = tlbFree \cup {tlbReg[c].new}
        /\ UNCHANGED tlbPte
  /\ tlbProc' = {}
  /\ TlbReturn(c)
  /\ UNCHANGED <<tlbCpu, tlbMask, tlbRing, tlbSlot, tlbTick, tlbSem, tlbLife, tlbLeft, tlbShared>>

------------------------------------------------------------------------------
(* schedule(): to the kernel CR3 first, then to the CR3 of the thread that   *)
(* was picked, each bracketed by note_cr3_load and note_cr3_unload.          *)

TlbLeave(c, call, next) ==
  /\ TlbCall(c, call)
  /\ tlbCpu' = [tlbCpu EXCEPT ![c] = SwitchCr3(@, KernelCr3)]
  /\ tlbReg' = [tlbReg EXCEPT ![c] =
       [NoRegs EXCEPT !.op = call, !.space = tlbCpu[c].cr3, !.next = next]]
  /\ TlbGo(c, "swUnload")
  /\ UNCHANGED <<tlbMask, tlbMem, tlbSlot, tlbTick, tlbLocks, tlbLife, tlbShared>>

\* A thread of a live process is picked.
TlbSwitch(c, s) == tlbLife[s] = "live" /\ TlbLeave(c, "switch", s)

\* The idle thread is picked.
TlbIdle(c) == TlbLeave(c, "idle", KernelCr3)

NoteUnload(c, s) == tlbMask' = [t \in TlbSpaces |-> IF t = s THEN tlbMask[t] \ {c} ELSE tlbMask[t]]

TlbSwUnload(c) ==
  /\ TlbRuns(c, "swUnload")
  /\ NoteUnload(c, tlbReg[c].space)
  /\ TlbGo(c, "swRead")
  /\ UNCHANGED <<tlbCpu, tlbMem, tlbSlot, tlbTick, tlbLocks, tlbLife, tlbReg, tlbLeft, tlbShared>>

\* Process::cr3 is read under PROCESS_TABLE, taken without draining; it is zero
\* once the address space has been taken for its teardown.
TlbSwRead(c) ==
  LET next == tlbReg[c].next IN
  /\ TlbRuns(c, "swRead")
  /\ tlbProc = {}
  /\ IF next # KernelCr3 /\ tlbLife[next] \in {"live", "dying"}
     THEN TlbGo(c, "swLoad") /\ UNCHANGED tlbReg
     ELSE TlbReturn(c)
  /\ UNCHANGED <<tlbCpu, tlbMask, tlbMem, tlbSlot, tlbTick, tlbLocks, tlbLife, tlbLeft, tlbShared>>

\* Mutant: the CR3 is loaded without note_cr3_load.
TlbSwLoadSilent(c) ==
  /\ TlbRuns(c, "swLoad")
  /\ TlbGo(c, "swMov")
  /\ UNCHANGED <<tlbCpu, tlbMask, tlbMem, tlbSlot, tlbTick, tlbLocks, tlbLife, tlbReg, tlbLeft, tlbShared>>

TlbSwLoad(c) ==
  /\ TlbRuns(c, "swLoad")
  /\ tlbMask' = [tlbMask EXCEPT ![tlbReg[c].next] = @ \cup {c}]
  /\ TlbGo(c, "swMov")
  /\ UNCHANGED <<tlbCpu, tlbMem, tlbSlot, tlbTick, tlbLocks, tlbLife, tlbReg, tlbLeft, tlbShared>>

TlbSwMov(c) ==
  /\ TlbRuns(c, "swMov")
  /\ tlbCpu' = [tlbCpu EXCEPT ![c] = SwitchCr3(@, tlbReg[c].next)]
  /\ TlbReturn(c)
  /\ UNCHANGED <<tlbMask, tlbMem, tlbSlot, tlbTick, tlbLocks, tlbLife, tlbLeft, tlbShared>>

------------------------------------------------------------------------------
(* exit_group: every thread of the process is marked Dead, the caller leaves *)
(* the CR3, and free_process_memory tears the address space down.            *)

TlbExit(c) ==
  /\ TlbEnter(c, "exit", "exUnload", TlbPages)
  /\ LET s == tlbCpu[c].cr3 IN
       /\ tlbLife[s] = "live"
       /\ tlbLife' = [tlbLife EXCEPT ![s] = "dying"]
  /\ tlbCpu' = [tlbCpu EXCEPT ![c] = SwitchCr3(@, KernelCr3)]

TlbExUnload(c) ==
  /\ TlbRuns(c, "exUnload")
  /\ NoteUnload(c, tlbReg[c].space)
  /\ TlbGo(c, "exDrain")
  /\ UNCHANGED <<tlbCpu, tlbMem, tlbSlot, tlbTick, tlbLocks, tlbLife, tlbReg, tlbLeft, tlbShared>>

\* The CR3 drain wait, and then vm_space.take() with Process::cr3 set to zero.
TlbExTake(c) ==
  LET s == tlbReg[c].space IN
  /\ TlbRuns(c, "exDrain")
  /\ tlbMask[s] \ {c} = {} \/ TlbDrainTimeouts
  /\ tlbProc = {}
  /\ tlbLife' = [tlbLife EXCEPT ![s] = "torn"]
  /\ TlbGo(c, "exSem")
  /\ UNCHANGED <<tlbCpu, tlbMask, tlbMem, tlbSlot, tlbTick, tlbLocks, tlbReg, tlbLeft, tlbShared>>

TlbExSem(c) ==
  /\ TlbRuns(c, "exSem")
  /\ TlbSemFree(tlbReg[c].space)
  /\ TlbWriteLock(c, tlbReg[c].space)
  /\ TlbGo(c, "snapshot")
  /\ UNCHANGED <<tlbCpu, tlbMask, tlbMem, tlbSlot, tlbTick, tlbProc, tlbLife, tlbReg, tlbLeft, tlbShared>>

\* The walk drops the references, and free_user_page_tables forgets the CR3
\* and frees the tables.
TlbExFree(c) ==
  LET s == tlbReg[c].space IN
  /\ TlbRuns(c, "done") /\ tlbReg[c].op = "exit"
  /\ TlbDispose(c, {tlbPte[s][p].f : p \in {q \in TlbPages : tlbPte[s][q].w}})
  /\ tlbPte' = [tlbPte EXCEPT ![s] = [p \in TlbPages |-> NoEntry]]
  /\ tlbMask' = [tlbMask EXCEPT ![s] = {}]
  /\ tlbLife' = [tlbLife EXCEPT ![s] = "gone"]
  /\ TlbUnlock(c, s)
  /\ TlbReturn(c)
  /\ UNCHANGED <<tlbCpu, tlbSlot, tlbTick, tlbProc, tlbLeft, tlbShared>>

------------------------------------------------------------------------------

\* The steps a CPU takes by itself once a call has begun.
TlbStep(c) ==
  \/ TlbSnapshot(c) \/ TlbPublish(c) \/ TlbSend(c) \/ TlbPoll(c) \/ TlbPostForce(c)
  \/ TlbServe(c) \/ TlbIpi(c) \/ TlbDrain(c)
  \/ TlbClear(c) \/ TlbUnmapped(c)
  \/ TlbForkTable(c) \/ TlbProtect(c) \/ TlbForked(c)
  \/ TlbFaultTable(c) \/ TlbBreak(c) \/ TlbMake(c) \/ TlbInstall(c)
  \/ TlbSwUnload(c) \/ TlbSwRead(c) \/ TlbSwLoad(c) \/ TlbSwMov(c)
  \/ TlbExUnload(c) \/ TlbExTake(c) \/ TlbExSem(c) \/ TlbExFree(c)

TlbBegin(c) ==
  \/ \E p \in TlbPages :
       TlbUnmap(c, p) \/ TlbWriteFault(c, p) \/ TlbReadFault(c, p)
  \/ \E s \in TlbSpaces : TlbSwitch(c, s)
  \/ TlbFork(c) \/ TlbIdle(c) \/ TlbExit(c)

TlbNext ==
  \E c \in TlbCpus :
    \/ TlbStep(c) \/ TlbBegin(c) \/ TlbTimeout(c) \/ TlbTickIsr(c)
    \/ \E p \in TlbPages : TlbFill(c, p)

TlbSpec == TlbInit /\ [][TlbNext]_tlbVars

\* A CPU that has begun a call goes on with it; interrupts are delivered.
TlbFairSpec == TlbSpec /\ \A c \in TlbCpus : WF_tlbVars(TlbStep(c))

------------------------------------------------------------------------------

\* Types: the shape of every variable; a frame in quarantine carries a tick
\* that has been.
TlbTypeOK ==
  LET Entry == [f : TlbFrames \cup {0}, w : BOOLEAN] IN
  /\ tlbCpu \in [TlbCpus -> [cr3 : TlbSpaces \cup {KernelCr3}, cache : [TlbPages -> Entry],
       ipi : BOOLEAN, isr : BOOLEAN, force : BOOLEAN, last : 0..TlbMaxTick]]
  /\ tlbMask \in [TlbSpaces -> SUBSET TlbCpus]
  /\ tlbPte \in [TlbSpaces -> [TlbPages -> Entry]]
  /\ tlbSlot \in [TlbCpus -> [cr3 : TlbSpaces \cup {KernelCr3}, range : SUBSET TlbPages,
                              pending : BOOLEAN]]
  /\ tlbTick \in 0..TlbMaxTick
  /\ tlbRing \subseteq [f : TlbFrames, tick : 0..tlbTick]
  /\ Cardinality(tlbRing) <= TlbRingCap
  /\ tlbFree \subseteq TlbFrames
  /\ \A s \in TlbSpaces : Cardinality(tlbSem[s].wr) <= 1 /\ (tlbSem[s].wr # {} => tlbSem[s].rd = {})
  /\ tlbLife \in [TlbSpaces -> {"live", "dying", "torn", "gone"}]

\* A shootdown of this page of this address space is not finished.
TlbInFlight(s, p) ==
  \E d \in TlbCpus : /\ tlbPc[d] \in {"snapshot", "publish", "send", "spin", "post"}
                     /\ tlbReg[d].space = s /\ p \in tlbReg[d].range

\* A cached translation differs from the page tables only while a shootdown of
\* the page is under way, while its claimed request is being carried out, or
\* while a force flush is posted to the CPU: no unmap, write-protect or
\* copy-on-write break leaves a stale translation behind (shootdown_range and
\* its callers), as long as no two shootdowns meet in one slot.
TlbCoherent ==
  tlbShared \/ \A c \in TlbCpus, p \in TlbPages :
    LET s == tlbCpu[c].cr3 e == tlbCpu[c].cache[p] IN
    (s \in TlbSpaces /\ e # NoEntry /\ e # tlbPte[s][p])
      => tlbCpu[c].isr \/ tlbCpu[c].force \/ TlbInFlight(s, p)

\* No CPU can use a translation to a frame that the allocator holds, whether
\* the frame was freed after a clean shootdown, by the quarantine or by the
\* teardown of the address space (unmap_and_free_range_in_ctx, quarantine_free,
\* on_cpu_tick, free_process_memory), as long as no two shootdowns meet in one
\* slot: a CPU that has claimed a request is still inside the handler.
TlbFreedUnreachable ==
  tlbShared \/ \A c \in TlbCpus, p \in TlbPages :
    (tlbCpu[c].cache[p].f \in tlbFree) => tlbCpu[c].isr

\* A frame is in one place: an entry maps it, or the quarantine, the allocator
\* or a call under way holds it, and no two entries map it (the three passes of
\* unmap, the frame swap of the copy-on-write arm, the loser of an install).
TlbOneHome ==
  \A f \in TlbFrames :
    Cardinality({sp \in TlbSpaces \X TlbPages : tlbPte[sp[1]][sp[2]].f = f})
    + Cardinality({e \in tlbRing : e.f = f})
    + Cardinality({c \in TlbCpus : \/ tlbReg[c].op \in {"write", "read"} /\ tlbReg[c].new = f
                                   \/ tlbReg[c].op = "unmap" /\ f \in tlbReg[c].frames})
    + (IF f \in tlbFree THEN 1 ELSE 0) <= 1

\* The page tables of an address space are not freed while a CPU runs on them
\* (free_process_memory: its CR3 drain wait, and the order in which every CR3
\* switch brackets the load by note_cr3_load and note_cr3_unload).
TlbTablesLive ==
  \A c \in TlbCpus : tlbCpu[c].cr3 \in TlbSpaces => tlbLife[tlbCpu[c].cr3] # "gone"

\* Every shootdown is acknowledged without the help of its bound: two CPUs that
\* shoot each other down, and a CPU that waits in the page-fault handler for a
\* lock the sender holds, serve their own slot while they wait.
TlbAcknowledged ==
  \A c \in TlbCpus : tlbPc[c] = "spin" ~> tlbPc[c] # "spin"
==============================================================================
