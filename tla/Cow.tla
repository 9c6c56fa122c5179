-------------------------------- MODULE Cow --------------------------------
(***************************************************************************)
(* User memory across fork: page-table entries, the reference count of     *)
(* each frame (mm/refcount.rs), the physical allocator, and the code that  *)
(* changes them: the write-fault and demand-fault arms of #PF (idt.rs),    *)
(* resolve_user_write_page (the CLEARTID store), madvise, munmap,          *)
(* mprotect, clone_for_fork and the teardown of an address space.          *)
(*                                                                         *)
(* A thread makes one call at a time (cowPc, cowReg).  PROCESS_TABLE and   *)
(* the mm_sem of each address space are held where the code holds them; a  *)
(* step is what happens under VMM_LOCK or in one access to shared memory.  *)
(* A shootdown is one step here (module Tlb is about its protocol), so a   *)
(* user store goes through the entry as it is.                             *)
(*                                                                         *)
(* The contents of a frame are the set of threads that have stored to it.  *)
(* cowSeen is the history a process is entitled to: the stores made in its *)
(* address space, and those it inherited at fork.                          *)
(***************************************************************************)
EXTENDS Naturals, FiniteSets, FiniteSetsExt, Functions

CONSTANTS
  CowThreads,
  CowSpaces,    \* address spaces; those not in CowLive are made by fork
  CowPages,     \* user pages of each address space
  CowFrames,    \* physical frames, numbered from 1: frame 0 is reserved memory
  CowHome,      \* the address space a thread runs in
  CowLive,      \* the address spaces that exist at the start
  CowVmas,      \* "private", "shared" or "none": the VMA over each page
  CowMap,       \* frame behind each page at the start, 0 for none
  CowTidPage,   \* the page of the word the kernel clears when a thread ends
  CowCached,    \* frames the page cache also holds a reference to
  CowBudgets,   \* for each scenario, how often a thread makes each call
  CowProts,     \* PROT_WRITE of the mprotect calls
  CowForkFails  \* whether alloc_page may fail in the middle of clone_for_fork

VARIABLES
  cowPte,   \* leaf page-table entries
  cowRc,    \* reference count of each frame
  cowFree,  \* frames in the physical allocator
  cowVma,   \* per page: the kind of its VMA and PROT_WRITE
  cowLive,  \* address spaces of processes
  cowProc,  \* holder of PROCESS_TABLE
  cowSem,   \* mm_sem: readers and writer
  cowData,  \* contents of each frame
  cowSeen,  \* history: the stores a process must find in each page
  cowPc,
  cowReg,
  cowLeft

cowVars == <<cowPte, cowRc, cowFree, cowVma, cowLive, cowProc, cowSem, cowData,
             cowSeen, cowPc, cowReg, cowLeft>>

cowLocks == <<cowProc, cowSem>>
cowFrame == <<cowRc, cowFree, cowData>>
cowSpace == <<cowVma, cowLive>>

CowCalls == {"store", "kstore", "madvise", "munmap", "protect", "fork", "exit"}
CowAbsent == [f |-> 0, w |-> FALSE, present |-> FALSE]
CowEntry(f, w) == [f |-> f, w |-> w, present |-> TRUE]
CowNoRegs == [op |-> "none", page |-> 0, old |-> 0, new |-> 0, w |-> FALSE]

CowMappers(pte, f) == {m \in CowSpaces \X CowPages : pte[m[1]][m[2]].present
                                                  /\ pte[m[1]][m[2]].f = f}

CowInit ==
  /\ cowPte = [s \in CowSpaces |-> [p \in CowPages |->
       IF s \in CowLive /\ CowMap[s][p] # 0
         THEN CowEntry(CowMap[s][p], TRUE) ELSE CowAbsent]]
  /\ cowRc = [f \in CowFrames |-> Cardinality(CowMappers(cowPte, f))
                                  + Cardinality({f} \cap CowCached)]
  /\ cowFree = {f \in CowFrames : cowRc[f] = 0}
  /\ cowVma = [s \in CowSpaces |-> [p \in CowPages |->
       [kind |-> IF s \in CowLive THEN CowVmas[p] ELSE "none", w |-> TRUE]]]
  /\ cowLive = CowLive
  /\ cowProc = {}
  /\ cowSem = [s \in CowSpaces |-> [rd |-> {}, wr |-> {}]]
  /\ cowData = [f \in CowFrames |-> {}]
  /\ cowSeen = [s \in CowSpaces |-> [p \in CowPages |-> {}]]
  /\ cowPc = [t \in CowThreads |-> "user"]
  /\ cowReg = [t \in CowThreads |-> CowNoRegs]
  /\ cowLeft \in CowBudgets

------------------------------------------------------------------------------
(* Program counters, locks, reference counts and the allocator.              *)

CowRuns(t, l) == cowPc[t] = l /\ CowHome[t] \in cowLive

CowGo(t, l) == cowPc' = [cowPc EXCEPT ![t] = l]

CowReturn(t) == CowGo(t, "user") /\ cowReg' = [cowReg EXCEPT ![t] = CowNoRegs]

CowCall(t, call) ==
  /\ CowRuns(t, "user")
  /\ cowLeft[t][call] > 0
  /\ cowLeft' = [cowLeft EXCEPT ![t][call] = @ - 1]

CowSetReg(t, r) == cowReg' = [cowReg EXCEPT ![t] = r]

CowPteOf(t) == cowPte[CowHome[t]][cowReg[t].page]
CowVmaOf(t) == cowVma[CowHome[t]][cowReg[t].page]
CowSetPte(t, e) == cowPte' = [cowPte EXCEPT ![CowHome[t]][cowReg[t].page] = e]

CowTableFree == cowProc = {}
CowDropTable(t) == cowProc' = cowProc \ {t}

CowNoWriter(s) == cowSem[s].wr = {}
CowSemFree(s) == cowSem[s].wr = {} /\ cowSem[s].rd = {}
CowReadLock(t) == cowSem' = [cowSem EXCEPT ![CowHome[t]].rd = @ \cup {t}]
CowWriteLock(t) == cowSem' = [cowSem EXCEPT ![CowHome[t]].wr = {t}]
CowUnlock(t) == cowSem' = [cowSem EXCEPT ![CowHome[t]] =
                             [rd |-> @.rd \ {t}, wr |-> @.wr \ {t}]]

\* page_ref_dec never goes below zero; frame 0 and other low frames have no count.
PageRefDec(rc, f) == IF f \in CowFrames /\ rc[f] > 0 THEN [rc EXCEPT ![f] = @ - 1] ELSE rc
PageRefCount(f) == IF f \in CowFrames THEN cowRc[f] ELSE 0

\* free_page refuses reserved frames, frames with references, and free frames.
FreePage(rc, f) == cowFree \cup {g \in {f} \cap CowFrames : rc[g] = 0}

\* alloc_page: which free frame it returns does not matter; the lowest one
\* comes back soonest after it is freed.
AllocPage(n, contents) ==
  /\ cowFree # {}
  /\ n = Min(cowFree)
  /\ cowFree' = cowFree \ {n}
  /\ cowData' = [cowData EXCEPT ![n] = contents]

------------------------------------------------------------------------------
(* A store by user code, or by the kernel to a user word.                    *)

CowStore(t) ==
  \E p \in CowPages, op \in {"store", "kstore"} :
    /\ op = "kstore" => p = CowTidPage
    /\ CowCall(t, op)
    /\ CowSetReg(t, [CowNoRegs EXCEPT !.op = op, !.page = p])
    /\ CowGo(t, "try")
    /\ UNCHANGED <<cowPte, cowFrame, cowSpace, cowLocks, cowSeen>>

\* The entry is writable: the store goes to the frame.
CowStored(t) ==
  /\ CowRuns(t, "try")
  /\ CowPteOf(t).w
  /\ cowData' = [cowData EXCEPT ![CowPteOf(t).f] = @ \cup {t}]
  /\ cowSeen' = [s \in CowSpaces |-> [p \in CowPages |->
       cowSeen[s][p] \cup
         IF p = cowReg[t].page /\ (s = CowHome[t] \/ CowVmaOf(t).kind = "shared")
           THEN {t} ELSE {}]]
  /\ CowReturn(t)
  /\ UNCHANGED <<cowPte, cowRc, cowFree, cowSpace, cowLocks, cowLeft>>

\* #PF: the error code is latched before the handler takes any lock.
CowTrap(t) ==
  /\ CowRuns(t, "try")
  /\ cowReg[t].op = "store"
  /\ ~CowPteOf(t).w
  /\ CowGo(t, IF CowPteOf(t).present THEN "wfault" ELSE "dfault")
  /\ UNCHANGED <<cowPte, cowFrame, cowSpace, cowLocks, cowSeen, cowReg, cowLeft>>

------------------------------------------------------------------------------
(* The write-fault arm.                                                      *)

\* Mutant: a MAP_SHARED page is treated like a private one.
CowWfReadPrivate(t) ==
  /\ CowRuns(t, "wfault")
  /\ CowTableFree
  /\ CowSetReg(t, [cowReg[t] EXCEPT !.old = CowPteOf(t).f, !.w = TRUE])
  /\ CowGo(t, "count")
  /\ cowProc' = {t}
  /\ UNCHANGED <<cowPte, cowFrame, cowSpace, cowSem, cowSeen, cowLeft>>

\* PROCESS_TABLE is taken, the VMA looked up and the entry read.
CowWfRead(t) ==
  /\ CowRuns(t, "wfault")
  /\ CowTableFree
  /\ LET vma == CowVmaOf(t)
         denied == vma.kind # "none" /\ ~vma.w
     IN IF denied THEN CowReturn(t) /\ UNCHANGED cowProc
        ELSE /\ CowSetReg(t, [cowReg[t] EXCEPT !.old = CowPteOf(t).f, !.w = TRUE])
             /\ CowGo(t, IF vma.kind = "shared" THEN "flip" ELSE "count")
             /\ cowProc' = {t}
  /\ UNCHANGED <<cowPte, cowFrame, cowSpace, cowSem, cowSeen, cowLeft>>

\* The copy of a shared frame, with its first reference; OOM ends the call.
CowCopy(t) ==
  IF cowFree = {} THEN CowReturn(t) /\ CowDropTable(t) /\ UNCHANGED cowFrame
  ELSE \E n \in cowFree :
         /\ AllocPage(n, cowData[cowReg[t].old])
         /\ cowRc' = [cowRc EXCEPT ![n] = 1]
         /\ CowSetReg(t, [cowReg[t] EXCEPT !.new = n])
         /\ CowDropTable(t)
         /\ CowGo(t, "break")

\* The count is read.  A shared frame is copied into a new one; PROCESS_TABLE
\* is released before the break.  The generation re-check between the two ends
\* the call only for a page without a VMA, as VMAs go away under PROCESS_TABLE;
\* whether the generation moved is left open.
CowWfCount(t) ==
  /\ CowRuns(t, "count")
  /\ \E moved \in {FALSE, CowVmaOf(t).kind = "none"} :
       IF PageRefCount(cowReg[t].old) <= 1
         THEN CowGo(t, "flip") /\ UNCHANGED <<cowFrame, cowProc, cowReg>>
         ELSE IF moved THEN CowReturn(t) /\ CowDropTable(t) /\ UNCHANGED cowFrame
         ELSE CowCopy(t)
  /\ UNCHANGED <<cowPte, cowSpace, cowSem, cowSeen, cowLeft>>

\* write_pte_fault_path: the entry read before is written back writable.
CowFlip(t) ==
  /\ CowRuns(t, "flip")
  /\ CowNoWriter(CowHome[t])
  /\ CowSetPte(t, CowEntry(cowReg[t].old, cowReg[t].w))
  /\ CowDropTable(t)
  /\ CowGo(t, "try")
  /\ UNCHANGED <<cowFrame, cowSpace, cowSem, cowSeen, cowReg, cowLeft>>

\* Mutant: the entry is not compared with the one the copy was made from.
CowBreakBlind(t) ==
  /\ CowRuns(t, "break")
  /\ CowSemFree(CowHome[t])
  /\ CowSetPte(t, CowAbsent)
  /\ CowWriteLock(t)
  /\ CowGo(t, "make")
  /\ UNCHANGED <<cowFrame, cowSpace, cowProc, cowSeen, cowReg, cowLeft>>

\* cow_break_if_unchanged, step 1: under mm_sem in write mode the entry is
\* compared by its frame and cleared.  The loser frees its copy.
CowBreak(t) ==
  /\ CowRuns(t, "break")
  /\ CowSemFree(CowHome[t])
  /\ IF CowPteOf(t).present /\ CowPteOf(t).f = cowReg[t].old
       THEN /\ CowSetPte(t, CowAbsent)
            /\ CowWriteLock(t)
            /\ CowGo(t, "make")
            /\ UNCHANGED <<cowRc, cowFree>>
       ELSE /\ cowRc' = PageRefDec(cowRc, cowReg[t].new)
            /\ cowFree' = FreePage(cowRc', cowReg[t].new)
            /\ CowGo(t, "try")
            /\ UNCHANGED <<cowPte, cowSem>>
  /\ UNCHANGED <<cowData, cowSpace, cowProc, cowSeen, cowReg, cowLeft>>

\* Steps 2 and 3: every CPU is flushed, the copy is published.
CowMake(t) ==
  /\ CowRuns(t, "make")
  /\ CowSetPte(t, CowEntry(cowReg[t].new, cowReg[t].w))
  /\ CowUnlock(t)
  /\ CowGo(t, "unref")
  /\ UNCHANGED <<cowFrame, cowSpace, cowProc, cowSeen, cowReg, cowLeft>>

\* Mutant: the old frame keeps the reference.
CowUnrefNot(t) ==
  /\ CowRuns(t, "unref")
  /\ CowGo(t, "try")
  /\ UNCHANGED <<cowPte, cowFrame, cowSpace, cowLocks, cowSeen, cowReg, cowLeft>>

\* The old frame loses the reference; the new count is not looked at.
CowUnref(t) ==
  /\ CowRuns(t, "unref")
  /\ cowRc' = PageRefDec(cowRc, cowReg[t].old)
  /\ CowGo(t, "try")
  /\ UNCHANGED <<cowPte, cowFree, cowData, cowSpace, cowLocks, cowSeen, cowReg, cowLeft>>

------------------------------------------------------------------------------
(* The anonymous demand-fault arm.                                           *)

\* With a frame at hand PROCESS_TABLE is held until the entry is installed;
\* without one it is released and the fault waits for a frame.
CowDfRead(t) ==
  /\ CowRuns(t, "dfault")
  /\ CowTableFree
  /\ IF CowVmaOf(t).kind = "none" THEN CowReturn(t) /\ UNCHANGED <<cowFree, cowData, cowProc>>
     ELSE IF cowFree = {} THEN /\ CowGo(t, "dwait")
                               /\ UNCHANGED <<cowFree, cowData, cowProc, cowReg>>
     ELSE \E n \in cowFree :
            /\ AllocPage(n, {})
            /\ CowSetReg(t, [cowReg[t] EXCEPT !.new = n, !.w = CowVmaOf(t).w])
            /\ cowProc' = {t}
            /\ CowGo(t, "install")
  /\ UNCHANGED <<cowPte, cowRc, cowSpace, cowSem, cowSeen, cowLeft>>

\* alloc_page after reclaim: a frame freed meanwhile, or none.
CowDfWait(t) ==
  /\ CowRuns(t, "dwait")
  /\ IF cowFree = {} THEN CowReturn(t) /\ UNCHANGED <<cowFree, cowData>>
     ELSE \E n \in cowFree : /\ AllocPage(n, {})
                             /\ CowSetReg(t, [cowReg[t] EXCEPT !.new = n])
                             /\ CowGo(t, "recheck")
  /\ UNCHANGED <<cowPte, cowRc, cowSpace, cowLocks, cowSeen, cowLeft>>

\* revalidate_anon_vma_generation: the VMA must still be the same mapping.
CowDfCheck(t) ==
  /\ CowRuns(t, "recheck")
  /\ CowTableFree
  /\ IF CowVmaOf(t).kind = "none"
       THEN cowFree' = FreePage(cowRc, cowReg[t].new) /\ CowReturn(t)
       ELSE /\ CowSetReg(t, [cowReg[t] EXCEPT !.w = CowVmaOf(t).w])
            /\ CowGo(t, "install")
            /\ UNCHANGED cowFree
  /\ UNCHANGED <<cowPte, cowRc, cowData, cowSpace, cowLocks, cowSeen, cowLeft>>

\* map_page_in_if_absent: the loser of a race frees its frame.
CowInstall(t) ==
  /\ CowRuns(t, "install")
  /\ CowNoWriter(CowHome[t])
  /\ IF CowPteOf(t).present
       THEN /\ cowFree' = FreePage(cowRc, cowReg[t].new)
            /\ CowDropTable(t)
            /\ CowGo(t, "try")
            /\ UNCHANGED cowPte
       ELSE /\ CowSetPte(t, CowEntry(cowReg[t].new, cowReg[t].w))
            /\ CowGo(t, "setref")
            /\ UNCHANGED <<cowFree, cowProc>>
  /\ UNCHANGED <<cowRc, cowData, cowSpace, cowSem, cowSeen, cowReg, cowLeft>>

\* page_ref_set(phys, 1), after the entry is visible.
CowSetRef(t) ==
  /\ CowRuns(t, "setref")
  /\ cowRc' = [cowRc EXCEPT ![cowReg[t].new] = 1]
  /\ CowDropTable(t)
  /\ CowGo(t, "try")
  /\ UNCHANGED <<cowPte, cowFree, cowData, cowSpace, cowSem, cowSeen, cowReg, cowLeft>>

------------------------------------------------------------------------------
(* resolve_user_write_page: the kernel makes a user page writable.           *)

\* The entry is read without a lock.
CowResolve(t) ==
  /\ CowRuns(t, "try")
  /\ cowReg[t].op = "kstore"
  /\ ~CowPteOf(t).w
  /\ CowSetReg(t, [cowReg[t] EXCEPT !.old = CowPteOf(t).f])
  /\ CowGo(t, IF CowPteOf(t).present THEN "kvma" ELSE "kdemand")
  /\ UNCHANGED <<cowPte, cowFrame, cowSpace, cowLocks, cowSeen, cowLeft>>

\* The VMA must allow writes; PROCESS_TABLE is released again.
CowKVma(t) ==
  /\ cowPc[t] \in {"kvma", "kdemand"} /\ CowHome[t] \in cowLive
  /\ CowTableFree
  /\ IF CowVmaOf(t).kind = "none" \/ ~CowVmaOf(t).w THEN CowReturn(t)
     ELSE /\ CowSetReg(t, [cowReg[t] EXCEPT !.w = TRUE])
          /\ CowGo(t, IF cowPc[t] = "kvma" THEN "kcount" ELSE "kalloc")
  /\ UNCHANGED <<cowPte, cowFrame, cowSpace, cowLocks, cowSeen, cowLeft>>

CowKCount(t) ==
  /\ CowRuns(t, "kcount")
  /\ IF PageRefCount(cowReg[t].old) <= 1
       THEN CowGo(t, "kflip") /\ UNCHANGED <<cowFrame, cowProc, cowReg>>
       ELSE CowCopy(t)
  /\ UNCHANGED <<cowPte, cowSpace, cowSem, cowSeen, cowLeft>>

\* flip_writable_if_sole_owner checks the frame and its count once more.
CowKFlip(t) ==
  /\ CowRuns(t, "kflip")
  /\ CowNoWriter(CowHome[t])
  /\ IF /\ CowPteOf(t).present
        /\ CowPteOf(t).f = cowReg[t].old
        /\ PageRefCount(cowReg[t].old) <= 1
       THEN CowSetPte(t, CowEntry(cowReg[t].old, cowReg[t].w))
       ELSE UNCHANGED cowPte
  /\ CowGo(t, "try")
  /\ UNCHANGED <<cowFrame, cowSpace, cowLocks, cowSeen, cowReg, cowLeft>>

CowKAlloc(t) ==
  /\ CowRuns(t, "kalloc")
  /\ IF cowFree = {} THEN CowReturn(t) /\ UNCHANGED <<cowFree, cowData>>
     ELSE \E n \in cowFree : /\ AllocPage(n, {})
                             /\ CowSetReg(t, [cowReg[t] EXCEPT !.new = n])
                             /\ CowGo(t, "install")
  /\ UNCHANGED <<cowPte, cowRc, cowSpace, cowLocks, cowSeen, cowLeft>>

------------------------------------------------------------------------------
(* madvise(MADV_DONTNEED), munmap and mprotect of one page.                  *)

\* A MAP_SHARED page would come back through the file-backed fault arm, which
\* is not modelled, so madvise is called on private pages.
CowMadvise(t) ==
  \E p \in CowPages :
    /\ cowVma[CowHome[t]][p].kind # "shared"
    /\ CowCall(t, "madvise")
    /\ CowSetReg(t, [CowNoRegs EXCEPT !.op = "madvise", !.page = p])
    /\ CowGo(t, "drop")
    /\ UNCHANGED <<cowPte, cowFrame, cowSpace, cowLocks, cowSeen>>

\* munmap removes the VMA first, under PROCESS_TABLE.
CowMunmap(t) ==
  \E p \in CowPages :
    /\ CowTableFree
    /\ CowCall(t, "munmap")
    /\ cowVma' = [cowVma EXCEPT ![CowHome[t]][p].kind = "none"]
    /\ CowSetReg(t, [CowNoRegs EXCEPT !.op = "munmap", !.page = p])
    /\ CowGo(t, "drop")
    /\ UNCHANGED <<cowPte, cowFrame, cowLive, cowLocks, cowSeen>>

\* mm_sem is taken in read mode, which keeps neither faults nor other calls out.
CowDropLock(t) ==
  /\ CowRuns(t, "drop")
  /\ CowNoWriter(CowHome[t])
  /\ CowReadLock(t)
  /\ CowGo(t, "dread")
  /\ UNCHANGED <<cowPte, cowFrame, cowSpace, cowProc, cowSeen, cowReg, cowLeft>>

\* Mutant: an absent page returns with mm_sem locked.
CowDropReadLocked(t) ==
  /\ CowRuns(t, "dread")
  /\ IF CowPteOf(t).present
       THEN /\ CowSetReg(t, [cowReg[t] EXCEPT !.old = CowPteOf(t).f])
            /\ CowGo(t, "dclear")
       ELSE CowReturn(t)
  /\ UNCHANGED <<cowPte, cowFrame, cowSpace, cowLocks, cowSeen, cowLeft>>

CowDropRead(t) ==
  /\ CowRuns(t, "dread")
  /\ IF CowPteOf(t).present
       THEN /\ CowSetReg(t, [cowReg[t] EXCEPT !.old = CowPteOf(t).f])
            /\ CowGo(t, "dclear")
            /\ UNCHANGED cowSem
       ELSE CowUnlock(t) /\ CowReturn(t)
  /\ UNCHANGED <<cowPte, cowFrame, cowSpace, cowProc, cowSeen, cowLeft>>

CowDropClear(t) ==
  /\ CowRuns(t, "dclear")
  /\ CowSetPte(t, CowAbsent)
  /\ cowSeen' = [cowSeen EXCEPT ![CowHome[t]][cowReg[t].page] = {}]
  /\ CowGo(t, "dunref")
  /\ UNCHANGED <<cowFrame, cowSpace, cowLocks, cowReg, cowLeft>>

CowDropRef(t) ==
  /\ CowRuns(t, "dunref")
  /\ cowRc' = PageRefDec(cowRc, cowReg[t].old)
  /\ IF cowReg[t].old \in CowFrames /\ cowRc'[cowReg[t].old] = 0
       THEN CowGo(t, "dfree") /\ UNCHANGED <<cowSem, cowReg>>
       ELSE CowUnlock(t) /\ CowReturn(t)
  /\ UNCHANGED <<cowPte, cowFree, cowData, cowSpace, cowProc, cowSeen, cowLeft>>

\* After the shootdown.
CowDropFree(t) ==
  /\ CowRuns(t, "dfree")
  /\ cowFree' = FreePage(cowRc, cowReg[t].old)
  /\ CowUnlock(t)
  /\ CowReturn(t)
  /\ UNCHANGED <<cowPte, cowRc, cowData, cowSpace, cowProc, cowSeen, cowLeft>>

\* mprotect changes the VMA under PROCESS_TABLE and the entry after it.
CowProtect(t) ==
  \E p \in CowPages, w \in CowProts :
    /\ CowTableFree
    /\ CowCall(t, "protect")
    /\ cowVma' = [cowVma EXCEPT ![CowHome[t]][p].w = w]
    /\ CowSetReg(t, [CowNoRegs EXCEPT !.op = "protect", !.page = p, !.w = w])
    /\ CowGo(t, "pread")
    /\ UNCHANGED <<cowPte, cowFrame, cowLive, cowLocks, cowSeen>>

CowRetagRead(t) ==
  /\ CowRuns(t, "pread")
  /\ IF CowPteOf(t).present
       THEN /\ CowSetReg(t, [cowReg[t] EXCEPT !.old = CowPteOf(t).f])
            /\ CowGo(t, "pwrite")
       ELSE CowReturn(t)
  /\ UNCHANGED <<cowPte, cowFrame, cowSpace, cowLocks, cowSeen, cowLeft>>

CowRetag(t) ==
  /\ CowRuns(t, "pwrite")
  /\ CowNoWriter(CowHome[t])
  /\ CowSetPte(t, CowEntry(cowReg[t].old, cowReg[t].w))
  /\ CowReturn(t)
  /\ UNCHANGED <<cowFrame, cowSpace, cowLocks, cowSeen, cowLeft>>

------------------------------------------------------------------------------
(* fork and exit.                                                            *)

\* The walk of clone_for_fork over the pages ps of the parent: entries become
\* read-only in both tables and every frame gets a reference.
CowClone(s, child, ps) ==
  LET Ro(p) == CowEntry(cowPte[s][p].f, FALSE)
      shared == {p \in ps : cowPte[s][p].present}
  IN /\ cowPte' = [cowPte EXCEPT
            ![s] = [p \in CowPages |-> IF p \in shared THEN Ro(p) ELSE @[p]],
            ![child] = [p \in CowPages |-> IF p \in shared THEN Ro(p) ELSE CowAbsent]]
     /\ cowRc' = [f \in CowFrames |->
            cowRc[f] + Cardinality({p \in shared : cowPte[s][p].f = f})]

\* PROCESS_TABLE and mm_sem in write mode are held until the parent is flushed.
CowFork(t) ==
  LET s == CowHome[t] IN
  \E child \in CowSpaces \ cowLive :
    /\ CowTableFree /\ CowSemFree(s)
    /\ \A p \in CowPages : ~cowPte[child][p].present
    /\ CowCall(t, "fork")
    /\ CowClone(s, child, CowPages)
    /\ cowVma' = [cowVma EXCEPT ![child] = cowVma[s]]
    /\ cowProc' = {t} /\ CowWriteLock(t)
    /\ CowSetReg(t, [CowNoRegs EXCEPT !.op = "fork", !.new = child])
    /\ CowGo(t, "forked")
    /\ UNCHANGED <<cowFree, cowData, cowLive, cowSeen>>

CowForked(t) ==
  /\ CowRuns(t, "forked")
  /\ cowLive' = cowLive \cup {cowReg[t].new}
  /\ cowSeen' = [cowSeen EXCEPT ![cowReg[t].new] = cowSeen[CowHome[t]]]
  /\ CowDropTable(t) /\ CowUnlock(t)
  /\ CowReturn(t)
  /\ UNCHANGED <<cowPte, cowFrame, cowVma, cowLeft>>

\* alloc_page fails at a page-table page: the walk so far stays as it is, and
\* the tables made for the child are abandoned with the references they hold.
\* fork goes on with a child that runs on the parent's CR3.
CowForkOom(t) ==
  LET s == CowHome[t] IN
  \E child \in CowSpaces \ cowLive, ps \in SUBSET CowPages :
    /\ CowForkFails
    /\ CowTableFree /\ CowSemFree(s)
    /\ \A p \in ps, q \in CowPages : q < p => q \in ps
    /\ \A p \in CowPages : ~cowPte[child][p].present
    /\ CowCall(t, "fork")
    /\ CowClone(s, child, ps)
    /\ UNCHANGED <<cowFree, cowData, cowSpace, cowLocks, cowSeen, cowPc, cowReg>>

\* The last thread takes the VmSpace out of the process once no other CPU runs
\* on it.
CowExit(t) ==
  /\ CowTableFree
  /\ CowCall(t, "exit")
  /\ \A u \in CowThreads \ {t} : CowHome[u] = CowHome[t] => cowPc[u] = "user"
  /\ cowLive' = cowLive \ {CowHome[t]}
  /\ CowSetReg(t, [CowNoRegs EXCEPT !.op = "exit"])
  /\ CowGo(t, "xlock")
  /\ UNCHANGED <<cowPte, cowFrame, cowVma, cowLocks, cowSeen>>

CowExitLock(t) ==
  /\ cowPc[t] = "xlock"
  /\ CowSemFree(CowHome[t])
  /\ CowWriteLock(t)
  /\ CowGo(t, "xwalk")
  /\ UNCHANGED <<cowPte, cowFrame, cowSpace, cowProc, cowSeen, cowReg, cowLeft>>

\* One page of a VMA: its frame loses a reference and is freed with the last.
CowExitPage(t) ==
  LET s == CowHome[t]
      mapped == {p \in CowPages : cowVma[s][p].kind # "none" /\ cowPte[s][p].present}
  IN /\ cowPc[t] = "xwalk"
     /\ mapped # {}
     /\ LET p == Min(mapped)
            f == cowPte[s][p].f
        IN /\ cowRc' = PageRefDec(cowRc, f)
           /\ cowFree' = FreePage(cowRc', f)
           /\ cowPte' = [cowPte EXCEPT ![s][p] = CowAbsent]
     /\ UNCHANGED <<cowData, cowSpace, cowLocks, cowSeen, cowPc, cowReg, cowLeft>>

\* free_user_page_tables
CowExited(t) ==
  LET s == CowHome[t] IN
  /\ cowPc[t] = "xwalk"
  /\ \A p \in CowPages : cowPte[s][p].present => cowVma[s][p].kind = "none"
  /\ cowPte' = [cowPte EXCEPT ![s] = [p \in CowPages |-> CowAbsent]]
  /\ CowUnlock(t)
  /\ CowGo(t, "dead")
  /\ UNCHANGED <<cowFrame, cowSpace, cowProc, cowSeen, cowReg, cowLeft>>

------------------------------------------------------------------------------
(* The specification.                                                        *)

CowStep(t) ==
  \/ CowStored(t) \/ CowTrap(t)
  \/ CowWfRead(t) \/ CowWfCount(t) \/ CowFlip(t)
  \/ CowBreak(t) \/ CowMake(t) \/ CowUnref(t)
  \/ CowDfRead(t) \/ CowDfWait(t) \/ CowDfCheck(t) \/ CowInstall(t) \/ CowSetRef(t)
  \/ CowResolve(t) \/ CowKVma(t) \/ CowKCount(t) \/ CowKFlip(t) \/ CowKAlloc(t)
  \/ CowDropLock(t) \/ CowDropRead(t) \/ CowDropClear(t) \/ CowDropRef(t) \/ CowDropFree(t)
  \/ CowRetagRead(t) \/ CowRetag(t)
  \/ CowForked(t)
  \/ CowExitLock(t) \/ CowExitPage(t) \/ CowExited(t)

CowBegin(t) ==
  \/ CowStore(t) \/ CowMadvise(t) \/ CowMunmap(t) \/ CowProtect(t)
  \/ CowFork(t) \/ CowForkOom(t) \/ CowExit(t)

CowNext == \E t \in CowThreads : CowStep(t) \/ CowBegin(t)

CowSpec == CowInit /\ [][CowNext]_cowVars

\* A call that has begun goes on: its thread is scheduled, and the spin locks
\* it waits for are held for a bounded time.
CowFairSpec == CowSpec /\ \A t \in CowThreads : WF_cowVars(CowStep(t))

------------------------------------------------------------------------------
(* Properties.                                                               *)

CowPcs == {"user", "try", "wfault", "dfault", "count", "flip", "break", "make",
           "unref", "dwait", "recheck", "install", "setref", "kvma", "kdemand",
           "kcount", "kflip", "kalloc", "drop", "dread", "dclear", "dunref",
           "dfree", "pread", "pwrite", "forked", "xlock", "xwalk", "dead"}

\* Every variable has its type, and a thread that is in the middle of a call
\* only holds the locks that call takes.
CowTypeOK ==
  /\ \A s \in CowSpaces, p \in CowPages :
       /\ cowPte[s][p] \in [f : CowFrames \cup {0}, w : BOOLEAN, present : BOOLEAN]
       /\ cowVma[s][p] \in [kind : {"private", "shared", "none"}, w : BOOLEAN]
       /\ cowSeen[s][p] \subseteq CowThreads
  /\ cowRc \in [CowFrames -> Nat]
  /\ cowFree \subseteq CowFrames
  /\ cowData \in [CowFrames -> SUBSET CowThreads]
  /\ cowLive \subseteq CowSpaces
  /\ cowPc \in [CowThreads -> CowPcs]
  /\ cowProc \subseteq {t \in CowThreads :
                          cowPc[t] \in {"count", "flip", "install", "setref", "forked"}}
  /\ \A s \in CowSpaces :
       /\ cowSem[s].wr \subseteq {t \in CowThreads : cowPc[t] \in {"make", "forked", "xwalk"}}
       /\ cowSem[s].rd \subseteq {t \in CowThreads :
                                    cowPc[t] \in {"dread", "dclear", "dunref", "dfree"}}
       /\ cowSem[s].wr # {} => cowSem[s].rd = {}

\* References held by a call in progress: the copy before it is published, the
\* frame whose entry is already cleared.
CowHeld(f) ==
  Cardinality({t \in CowThreads : cowPc[t] \in {"break", "make"} /\ cowReg[t].new = f})
  + Cardinality({t \in CowThreads : cowPc[t] \in {"make", "unref", "dunref"} /\ cowReg[t].old = f})

\* A frame that is mapped but does not have its first reference yet.
CowUnset(f) == Cardinality({t \in CowThreads : cowPc[t] = "setref" /\ cowReg[t].new = f})

\* The reference count of a frame is the number of entries that map it, in the
\* tables of every address space, plus the page cache's reference and those of
\* the calls in progress (refcount.rs: page_ref_inc, page_ref_dec, page_ref_set).
CowRefsExact ==
  \A f \in CowFrames :
    cowRc[f] + CowUnset(f)
      = Cardinality(CowMappers(cowPte, f)) + Cardinality({f} \cap CowCached) + CowHeld(f)

\* An entry of a user page table maps a frame that was allocated and is not
\* free: neither free memory nor reserved memory is reachable from user mode.
CowBacked ==
  \A s \in CowSpaces, p \in CowPages :
    cowPte[s][p].present => cowPte[s][p].f \in CowFrames \ cowFree

\* A process finds in a private page exactly the stores made in its address
\* space since the page was mapped, those before the fork included: no store of
\* its threads is lost to a copy, none of another process shows through.
CowMemory ==
  \A s \in cowLive, p \in CowPages :
    (cowPte[s][p].present /\ cowVma[s][p].kind = "private")
      => cowData[cowPte[s][p].f] = cowSeen[s][p]

\* A MAP_SHARED page stays one frame in every process that maps it, although
\* fork write-protects it like any other (the write-through arm).
CowOneShared ==
  \A s, q \in cowLive, p \in CowPages :
    (/\ cowPte[s][p].present /\ cowVma[s][p].kind = "shared"
     /\ cowPte[q][p].present /\ cowVma[q][p].kind = "shared")
      => cowPte[s][p].f = cowPte[q][p].f

\* Every call comes to an end: a store that faults is not sent round the fault
\* handler for ever, and no two calls wait for each other's locks.
CowCallsEnd ==
  \A t \in CowThreads : cowPc[t] # "user" ~> cowPc[t] \in {"user", "dead"}
=============================================================================
