----------------------------- MODULE PipeProofs -----------------------------
(***************************************************************************)
(* Proofs about Pipe for any number of threads, processes and bytes: type   *)
(* correctness, the capacity bound and the absence of lost wake-ups.  The   *)
(* inductive invariant is IInv; each step has an effect lemma or a frame.   *)
(***************************************************************************)
EXTENDS Pipe, TLAPS

\* A write never counts more bytes than it was given, and between the probe and
\* the deposit the room it saw fits in what is left.
Progress ==
    \A t \in Threads :
        /\ total[t] <= len[t]
        /\ pc[t] = "idle" => total[t] = 0
        /\ pc[t] = "put" => total[t] + room[t] <= len[t]

\* Wake-ups are pending exactly while a thread is in wake_*_all.
WakesPending ==
    \A t \in Threads :
        /\ wake1[t] # None => pc[t] \in {"wake", "flip"}
        /\ wake1[t] = None => wake2[t] = None
        /\ pc[t] = "wake" => wake1[t] # None

\* A thread between its re-check and its enqueue holds the lock of its list.
LockHeld ==
    \A t \in Threads : pc[t] = "enqueue" => lock[side[t]] = t

\* A thread is on no wait list but the one of its call, and only in the wait.
Queued ==
    \A t \in Threads, q \in Queues :
        t \in waitq[q] => q = side[t] /\ pc[t] \in {"parked", "cleanup"}

\* Only a parked thread is Blocked.
BlockedParked ==
    \A t \in Threads : tstate[t] = "Blocked" => pc[t] = "parked"

\* The wait protocol, and the whole inductive invariant.  pc "drain" is the
\* console backstop, which these theorems exclude.
Protocol ==
    /\ WakesPending /\ LockHeld /\ Queued /\ BlockedParked
    /\ NoOrphan /\ NoLostWake

NoDrain == \A t \in Threads : pc[t] # "drain"

IInv == TypeOK /\ WithinCapacity /\ Progress /\ NoDrain /\ Protocol

-----------------------------------------------------------------------------
(* Most steps are quiet: the thread is outside the wait, touches no list,   *)
(* and undertakes to wake whatever list its change makes it possible to     *)
(* serve.                                                                   *)

Busy == {"enqueue", "parked", "cleanup", "wake", "flip"}

Quiet(t) ==
    /\ pc[t] \notin Busy
    /\ pc'[t] \notin Busy \ {"wake"}
    /\ pc'[t] = "wake" <=> wake1'[t] # None
    /\ wake1'[t] = None => wake2'[t] = None
    /\ UNCHANGED <<waitq, lock, tstate, drained>>
    /\ \A u \in Threads \ {t} :
          /\ pc'[u] = pc[u] /\ side'[u] = side[u]
          /\ wake1'[u] = wake1[u] /\ wake2'[u] = wake2[u]
          /\ Satisfied(u)' => Satisfied(u) \/ WillWake(t, side[u])'

\* None is neither a thread nor a list, and capacities are numbers.
LEMMA ConstantFacts ==
    /\ None \notin Threads /\ None \notin Queues
    /\ Caps \subseteq Nat /\ PipeBuf \in Nat
  BY PipeAssumption, Zenon

\* The parts of the invariant, by name.
LEMMA Parts ==
    ASSUME IInv
    PROVE  /\ DataType /\ CallType /\ WaitType /\ WithinCapacity /\ Progress /\ NoDrain
           /\ WakesPending /\ LockHeld /\ Queued /\ BlockedParked /\ NoOrphan /\ NoLostWake
  BY Zenon DEF IInv, TypeOK, Protocol

LEMMA FromParts ==
    ASSUME DataType' /\ CallType' /\ WaitType' /\ WithinCapacity' /\ Progress' /\ NoDrain',
           Protocol'
    PROVE  IInv'
  BY Zenon DEF IInv, TypeOK

LEMMA QuietStep ==
    ASSUME NEW t \in Threads, CallType, CallType', WaitType, WaitType', Protocol, Quiet(t)
    PROVE  Protocol'
<1>0. /\ WakesPending /\ LockHeld /\ Queued /\ BlockedParked /\ NoOrphan /\ NoLostWake
  BY Zenon DEF Protocol
<1>1. /\ pc[t] \notin Busy /\ pc'[t] \notin Busy \ {"wake"}
      /\ pc'[t] = "wake" <=> wake1'[t] # None
      /\ wake1'[t] = None => wake2'[t] = None
      /\ UNCHANGED <<waitq, lock, tstate, drained>>
      /\ \A u \in Threads \ {t} :
            /\ pc'[u] = pc[u] /\ side'[u] = side[u]
            /\ wake1'[u] = wake1[u] /\ wake2'[u] = wake2[u]
            /\ Satisfied(u)' => Satisfied(u) \/ WillWake(t, side[u])'
  BY Zenon DEF Quiet
<1>2. /\ side \in [Threads -> Queues] /\ side' \in [Threads -> Queues]
      /\ wake1[t] = None /\ wake2[t] = None
  BY <1>0, <1>1, Zenon DEF CallType, WakesPending, Busy
<1>3. WakesPending'
  BY <1>0, <1>1, Zenon DEF WakesPending, Busy
<1>4. LockHeld'
  BY <1>0, <1>1, Zenon DEF LockHeld, Busy
<1>5. Queued'
  BY <1>0, <1>1, Zenon DEF Queued, Busy
<1>6. BlockedParked'
  BY <1>0, <1>1, Zenon DEF BlockedParked, Busy
<1>7. NoOrphan'
  BY <1>0, <1>1, <1>2, Zenon DEF NoOrphan, BlockedParked, Busy
<1>8. NoLostWake'
  <2> SUFFICES ASSUME NEW u \in Threads,
                      pc'[u] = "enqueue" \/ (u \in waitq'[side'[u]] /\ tstate'[u] = "Blocked"),
                      Satisfied(u)'
               PROVE  \E s \in Threads : WillWake(s, side[u])'
    BY Zenon DEF NoLostWake
  <2>1. u # t
    BY <1>0, <1>1, <1>2, Zenon DEF Queued, Busy
  <2>2. CASE Satisfied(u)
    <3>1. PICK s \in Threads : WillWake(s, side[u])
      BY <1>0, <1>1, <2>1, <2>2, Zenon DEF NoLostWake
    <3>2. s # t
      BY <1>2, <3>1, ConstantFacts, Zenon DEF WillWake
    <3> QED
      BY <1>1, <2>1, <3>1, <3>2, Zenon DEF WillWake
  <2>3. CASE WillWake(t, side[u])'
    BY <2>3, Zenon
  <2> QED
    BY <1>1, <2>1, <2>2, <2>3, Zenon
<1> QED
  BY <1>3, <1>4, <1>5, <1>6, <1>7, <1>8, Zenon DEF Protocol

-----------------------------------------------------------------------------
(* What the byte operations do to the length of the ring.                   *)

LEMMA TakeLen ==
    ASSUME NEW b \in Seq(Nat), NEW n \in 0..Len(b)
    PROVE  /\ SubSeq(b, n + 1, Len(b)) \in Seq(Nat)
           /\ Len(SubSeq(b, n + 1, Len(b))) = Len(b) - n
  OBVIOUS

LEMMA AppendLen ==
    ASSUME NEW b \in Seq(Nat), NEW n \in Nat, NEW x \in Nat
    PROVE  /\ b \o [i \in 1..n |-> x] \in Seq(Nat)
           /\ Len(b \o [i \in 1..n |-> x]) = Len(b) + n
<1>1. [i \in 1..n |-> x] \in Seq(Nat) /\ Len([i \in 1..n |-> x]) = n
  OBVIOUS
<1> QED
  BY <1>1

\* When the ring shrinks and the writers are going to be woken, and when it
\* grows and the readers are, nobody is newly satisfied without a wake-up.
LEMMA SatisfiedFrame ==
    ASSUME NEW t \in Threads, DataType, DataType', CallType,
           UNCHANGED <<exists, cap, readers, writers, side, len>>,
           Len(buf') < Len(buf) => WillWake(t, "W")',
           Len(buf') > Len(buf) => WillWake(t, "R")'
    PROVE  \A u \in Threads \ {t} : Satisfied(u)' => Satisfied(u) \/ WillWake(t, side[u])'
<1>1. /\ Len(buf) \in Nat /\ Len(buf') \in Nat /\ cap \in Nat
      /\ \A u \in Threads : side[u] \in {"R", "W"} /\ len[u] \in Nat
  BY ConstantFacts DEF DataType, CallType, Queues
<1> QED
  BY <1>1 DEF Satisfied, CanProceed, Need, Atomic, Space, WillWake

\* A step that leaves the pipe alone satisfies nobody else.
LEMMA SatisfiedLocal ==
    ASSUME NEW t \in Threads, UNCHANGED pipe,
           \A u \in Threads \ {t} : side'[u] = side[u] /\ len'[u] = len[u]
    PROVE  \A u \in Threads \ {t} : Satisfied(u)' => Satisfied(u)
  BY Zenon DEF pipe, Satisfied, CanProceed, Need, Atomic, Space

\* Of the call, at most the continuation and the result change.
OutOnly(t) ==
    /\ UNCHANGED <<side, len, nb, id, total, room>>
    /\ then' = then \/ then' = [then EXCEPT ![t] = "ret"]
    /\ out' = out \/ \E r \in Results : out' = [out EXCEPT ![t] = r]

LEMMA OutOnlyType ==
    ASSUME NEW t \in Threads, CallType, OutOnly(t)
    PROVE  CallType'
  BY Zenon DEF CallType, OutOnly, Results

\* The program counter and the pending wake-ups change for t only, and t is
\* neither in the wait nor in a wake-up before the step.
CtlOnly(t) ==
    /\ UNCHANGED <<waitq, lock, tstate, drained>>
    /\ pc[t] \notin Busy
    /\ \/ UNCHANGED <<pc, wake1, wake2>>
       \/ /\ UNCHANGED <<wake1, wake2>>
          /\ pc' = [pc EXCEPT ![t] = pc'[t]]
          /\ pc'[t] \in PCs /\ pc'[t] \notin Busy /\ pc'[t] # "drain"
       \/ /\ pc' = [pc EXCEPT ![t] = "wake"]
          /\ \/ wake1' = [wake1 EXCEPT ![t] = "R"] /\ wake2' = [wake2 EXCEPT ![t] = "W"]
             \/ wake1' = [wake1 EXCEPT ![t] = "W"] /\ wake2' = [wake2 EXCEPT ![t] = "R"]
             \/ wake1' = [wake1 EXCEPT ![t] = "R"] /\ wake2' = [wake2 EXCEPT ![t] = None]
             \/ wake1' = [wake1 EXCEPT ![t] = "W"] /\ wake2' = [wake2 EXCEPT ![t] = None]

LEMMA CtlOnlyFacts ==
    ASSUME NEW t \in Threads, WaitType, WakesPending, CtlOnly(t)
    PROVE  /\ WaitType'
           /\ UNCHANGED <<waitq, lock, tstate, drained>>
           /\ \A u \in Threads \ {t} :
                 pc'[u] = pc[u] /\ wake1'[u] = wake1[u] /\ wake2'[u] = wake2[u]
           /\ pc[t] \notin Busy /\ pc'[t] \notin Busy \ {"wake"}
           /\ pc'[t] = "wake" <=> wake1'[t] # None
           /\ wake1'[t] = None => wake2'[t] = None
           /\ pc'[t] = "drain" => pc[t] = "drain"
<1>0. /\ pc \in [Threads -> PCs] /\ None \notin Queues /\ wake1[t] = None /\ wake2[t] = None
      /\ wake1 \in [Threads -> Queues \union {None}] /\ wake2 \in [Threads -> Queues \union {None}]
      /\ pc[t] # "wake"
  BY ConstantFacts, Zenon DEF WaitType, WakesPending, CtlOnly, Busy
<1>1. CASE UNCHANGED <<pc, wake1, wake2>>
  BY <1>0, <1>1, Zenon DEF WaitType, CtlOnly, Busy
<1>2. CASE /\ UNCHANGED <<wake1, wake2>>
           /\ pc' = [pc EXCEPT ![t] = pc'[t]]
           /\ pc'[t] \in PCs /\ pc'[t] \notin Busy /\ pc'[t] # "drain"
  BY <1>0, <1>2, Zenon DEF WaitType, CtlOnly, Busy
<1>3. CASE /\ pc' = [pc EXCEPT ![t] = "wake"]
           /\ \E a \in Queues, b \in Queues \union {None} :
                 wake1' = [wake1 EXCEPT ![t] = a] /\ wake2' = [wake2 EXCEPT ![t] = b]
  BY <1>0, <1>3 DEF WaitType, CtlOnly, Busy, PCs
<1> QED
  BY <1>1, <1>2, <1>3, Zenon DEF CtlOnly, Queues

\* A quiet step with its effect on the call, on the bytes and on what the
\* other threads wait for preserves the invariant.
LEMMA QuietInv ==
    ASSUME NEW t \in Threads, IInv, DataType', WithinCapacity', CallType', Progress', CtlOnly(t),
           \A u \in Threads \ {t} : side'[u] = side[u],
           \A u \in Threads \ {t} : Satisfied(u)' => Satisfied(u) \/ WillWake(t, side[u])'
    PROVE  IInv'
<1>0. CallType /\ WaitType /\ WakesPending /\ NoDrain /\ Protocol
  BY Parts, Zenon DEF IInv
<1>1. /\ WaitType'
      /\ UNCHANGED <<waitq, lock, tstate, drained>>
      /\ \A u \in Threads \ {t} :
            pc'[u] = pc[u] /\ wake1'[u] = wake1[u] /\ wake2'[u] = wake2[u]
      /\ pc[t] \notin Busy /\ pc'[t] \notin Busy \ {"wake"}
      /\ pc'[t] = "wake" <=> wake1'[t] # None
      /\ wake1'[t] = None => wake2'[t] = None
      /\ pc'[t] = "drain" => pc[t] = "drain"
  BY <1>0, CtlOnlyFacts, Zenon
<1>2. Quiet(t)
  BY <1>1, Zenon DEF Quiet
<1>3. Protocol'
  BY <1>0, <1>1, <1>2, QuietStep, Zenon
<1>4. NoDrain'
  BY <1>0, <1>1, Zenon DEF NoDrain
<1> QED
  BY <1>1, <1>3, <1>4, FromParts, Zenon

\* The same when the call keeps its arguments and its progress.
LEMMA OutOnlyInv ==
    ASSUME NEW t \in Threads, IInv, DataType', WithinCapacity', OutOnly(t), CtlOnly(t),
           pc'[t] # "put", pc'[t] = "idle" => pc[t] = "idle",
           \A u \in Threads \ {t} : Satisfied(u)' => Satisfied(u) \/ WillWake(t, side[u])'
    PROVE  IInv'
<1>0. CallType /\ WaitType /\ WakesPending /\ Progress
  BY Parts, Zenon
<1>1. CallType'
  BY <1>0, OutOnlyType, Zenon
<1>2. \A u \in Threads \ {t} : pc'[u] = pc[u]
  BY <1>0, CtlOnlyFacts, Zenon
<1>3. UNCHANGED <<side, len, total, room>>
  BY Zenon DEF OutOnly
<1>4. Progress'
  BY <1>0, <1>2, <1>3, Zenon DEF Progress
<1> QED
  BY <1>1, <1>3, <1>4, QuietInv, Zenon

-----------------------------------------------------------------------------
(* One lemma per quiet action.                                              *)

LEMMA StartReadStep ==
    ASSUME NEW t \in Threads, IInv, StartRead(t)
    PROVE  IInv'
<1>0. DataType /\ CallType /\ WaitType /\ WithinCapacity /\ Progress
  BY Parts, Zenon
<1>1. PICK n \in Nat, b \in BOOLEAN : Enter(t, "R", n, b, 0)
  BY PipeAssumption, Zenon DEF StartRead
<1>2. /\ pc[t] = "idle" /\ pc' = [pc EXCEPT ![t] = "read"]
      /\ UNCHANGED <<pipe, ends, parking, sig, console, wake1, wake2, drained, hist>>
  BY Zenon DEF StartRead, Goto, wakes
<1>3. DataType' /\ WithinCapacity'
  BY <1>0, <1>2, Zenon DEF DataType, WithinCapacity, pipe, ends, hist
<1>4. CallType' /\ \A u \in Threads \ {t} : side'[u] = side[u] /\ len'[u] = len[u]
  BY <1>0, <1>1, Zenon DEF CallType, Queues, Enter
<1>5. Progress'
  BY <1>0, <1>1, <1>2 DEF Progress, CallType, WaitType, Enter
<1>6. CtlOnly(t)
  BY <1>0, <1>2, Zenon DEF CtlOnly, WaitType, PCs, Busy, parking
<1>7. \A u \in Threads \ {t} : Satisfied(u)' => Satisfied(u)
  BY <1>2, <1>4, SatisfiedLocal, Zenon
<1> QED
  BY <1>3, <1>4, <1>5, <1>6, <1>7, QuietInv, Zenon

LEMMA ReadEmptyStep ==
    ASSUME NEW t \in Threads, IInv, ReadEmpty(t)
    PROVE  IInv'
<1>0. DataType /\ CallType /\ WaitType /\ WithinCapacity /\ Progress
  BY Parts, Zenon
<1>1. DataType' /\ WithinCapacity'
  BY <1>0, Zenon DEF DataType, WithinCapacity, ReadEmpty, pipe, ends, hist
<1>2. OutOnly(t)
  BY Zenon DEF OutOnly, Results, ReadEmpty, Return, call, args
<1>3. CtlOnly(t)
  BY <1>0, Zenon DEF CtlOnly, WaitType, PCs, Busy, ReadEmpty, Return, Goto, parking, wakes
<1>4. pc'[t] \notin {"put", "idle"}
  BY <1>0, Zenon DEF WaitType, ReadEmpty, Return, Goto
<1>5. \A u \in Threads \ {t} : Satisfied(u)' => Satisfied(u)
  BY <1>2, SatisfiedLocal, Zenon DEF OutOnly, ReadEmpty
<1> QED
  BY <1>1, <1>2, <1>3, <1>4, <1>5, OutOnlyInv, Zenon

LEMMA StartWriteStep ==
    ASSUME NEW t \in Threads, IInv, StartWrite(t)
    PROVE  IInv'
<1>0. DataType /\ CallType /\ WaitType /\ WithinCapacity /\ Progress
  BY Parts, Zenon
<1>1. PICK n \in Nat, b \in BOOLEAN :
         Enter(t, "W", n, b, Len(sizes) + 1) /\ sizes' = Append(sizes, n)
  BY PipeAssumption, Zenon DEF StartWrite
<1>2. /\ pc[t] = "idle" /\ pc' = [pc EXCEPT ![t] = "write"]
      /\ UNCHANGED <<pipe, ends, parking, sig, console, wake1, wake2, drained, stream>>
  BY Zenon DEF StartWrite, Goto, wakes
<1>3. DataType' /\ WithinCapacity' /\ Len(sizes) + 1 \in Nat
  BY <1>0, <1>1, <1>2 DEF DataType, WithinCapacity, pipe, ends
<1>4. CallType' /\ \A u \in Threads \ {t} : side'[u] = side[u] /\ len'[u] = len[u]
  BY <1>0, <1>1, <1>3, Zenon DEF CallType, Queues, Enter
<1>5. Progress'
  BY <1>0, <1>1, <1>2 DEF Progress, CallType, WaitType, Enter
<1>6. CtlOnly(t)
  BY <1>0, <1>2, Zenon DEF CtlOnly, WaitType, PCs, Busy, parking
<1>7. \A u \in Threads \ {t} : Satisfied(u)' => Satisfied(u)
  BY <1>2, <1>4, SatisfiedLocal, Zenon
<1> QED
  BY <1>3, <1>4, <1>5, <1>6, <1>7, QuietInv, Zenon

LEMMA WriteCheckReaderStep ==
    ASSUME NEW t \in Threads, IInv, WriteCheckReader(t)
    PROVE  IInv'
<1>0. DataType /\ CallType /\ WaitType /\ WithinCapacity /\ Progress
  BY Parts, Zenon
<1>1. DataType' /\ WithinCapacity'
  BY <1>0, Zenon DEF DataType, WithinCapacity, WriteCheckReader, pipe, ends, hist
<1>2. OutOnly(t)
  BY Zenon DEF OutOnly, Results, WriteCheckReader, ReturnErr, Return, call, args
<1>3. CtlOnly(t)
  BY <1>0, Zenon DEF CtlOnly, WaitType, PCs, Busy, WriteCheckReader, ReturnErr, Return, Goto, parking, wakes
<1>4. pc'[t] \notin {"put", "idle"}
  BY <1>0, Zenon DEF WaitType, WriteCheckReader, ReturnErr, Return, Goto
<1>5. \A u \in Threads \ {t} : Satisfied(u)' => Satisfied(u)
  BY <1>2, SatisfiedLocal, Zenon DEF OutOnly, WriteCheckReader
<1> QED
  BY <1>1, <1>2, <1>3, <1>4, <1>5, OutOnlyInv, Zenon

LEMMA WriteProbeStep ==
    ASSUME NEW t \in Threads, IInv, WriteProbe(t)
    PROVE  IInv'
<1>0. DataType /\ CallType /\ WaitType /\ WithinCapacity /\ Progress
  BY Parts, Zenon
<1>b. (IF exists THEN Min2(Space, len[t] - total[t]) ELSE 0) \in Nat
  BY <1>0, ConstantFacts DEF DataType, CallType, Progress, WithinCapacity, Min2, Space
<1>c. total[t] + (IF exists THEN Min2(Space, len[t] - total[t]) ELSE 0) <= len[t]
  BY <1>0, ConstantFacts DEF DataType, CallType, Progress, WithinCapacity, Min2, Space
<1>1. PICK n \in Nat : /\ total[t] + n <= len[t]
                      /\ n = IF exists THEN Min2(Space, len[t] - total[t]) ELSE 0
  BY <1>b, <1>c, Zenon
<1>a. /\ room' = [room EXCEPT ![t] = n]
      /\ pc[t] = "probe"
      /\ pc' = [pc EXCEPT ![t] = IF n > 0 THEN "put" ELSE "full"]
      /\ UNCHANGED <<pipe, ends, parking, sig, console, args, total, then, out, wakes, drained, hist>>
  BY <1>1, Zenon DEF WriteProbe, Goto
<1>2. /\ room' = [room EXCEPT ![t] = n]
      /\ pc[t] = "probe"
      /\ pc' = [pc EXCEPT ![t] = "put"] \/ pc' = [pc EXCEPT ![t] = "full"]
      /\ UNCHANGED <<pipe, ends, parking, sig, console, total, then, out, drained, hist>>
      /\ UNCHANGED <<side, len, nb, id>>
      /\ UNCHANGED <<wake1, wake2>>
  BY <1>1, <1>a, Zenon DEF args, wakes
<1>3. DataType' /\ WithinCapacity'
  BY <1>0, <1>2, Zenon DEF DataType, WithinCapacity, pipe, ends, hist
<1>4. CallType'
  BY <1>0, <1>1, <1>2, Zenon DEF CallType
<1>5. Progress'
  BY <1>0, <1>1, <1>2, Zenon DEF Progress, CallType, WaitType
<1>6. CtlOnly(t)
  BY <1>0, <1>2, Zenon DEF CtlOnly, WaitType, PCs, Busy, parking
<1>7. \A u \in Threads \ {t} : Satisfied(u)' => Satisfied(u)
  BY <1>2, SatisfiedLocal, Zenon
<1> QED
  BY <1>2, <1>3, <1>4, <1>5, <1>6, <1>7, QuietInv, Zenon

LEMMA WriteFullStep ==
    ASSUME NEW t \in Threads, IInv, WriteFull(t), Console = {FALSE}
    PROVE  IInv'
<1>0. DataType /\ CallType /\ WaitType /\ WithinCapacity /\ Progress
  BY Parts, Zenon
<1>1. DataType' /\ WithinCapacity'
  BY <1>0, Zenon DEF DataType, WithinCapacity, WriteFull, pipe, ends, hist
<1>2. OutOnly(t)
  BY Zenon DEF OutOnly, Results, WriteFull, ReturnErr, Return, call, args
<1>c. ~console
  BY <1>0, Zenon DEF DataType
<1>p. \E l \in {"ret", "park"} : Goto(t, l)
  BY <1>c, Zenon DEF WriteFull, ReturnErr, Return
<1>3. CtlOnly(t)
  BY <1>0, <1>p, Zenon DEF CtlOnly, WaitType, PCs, Busy, WriteFull, Goto, parking, wakes
<1>4. pc'[t] \notin {"put", "idle"}
  BY <1>0, <1>p, Zenon DEF WaitType, Goto
<1>5. \A u \in Threads \ {t} : Satisfied(u)' => Satisfied(u)
  BY <1>2, SatisfiedLocal, Zenon DEF OutOnly, WriteFull
<1> QED
  BY <1>1, <1>2, <1>3, <1>4, <1>5, OutOnlyInv, Zenon

LEMMA UserReturnStep ==
    ASSUME NEW t \in Threads, IInv, UserReturn(t)
    PROVE  IInv'
<1>0. DataType /\ CallType /\ WaitType /\ WithinCapacity /\ Progress
  BY Parts, Zenon
<1>1. DataType' /\ WithinCapacity'
  BY <1>0, Zenon DEF DataType, WithinCapacity, UserReturn, pipe, ends, hist
<1>2. CallType' /\ \A u \in Threads \ {t} : side'[u] = side[u] /\ len'[u] = len[u]
  BY <1>0, Zenon DEF CallType, Queues, Results, UserReturn
<1>3. Progress'
  BY <1>0 DEF Progress, CallType, WaitType, UserReturn, Goto
<1>4. CtlOnly(t)
  BY <1>0, Zenon DEF CtlOnly, WaitType, PCs, Busy, UserReturn, Goto, parking, wakes
<1>5. \A u \in Threads \ {t} : Satisfied(u)' => Satisfied(u)
  BY <1>2, SatisfiedLocal, Zenon DEF UserReturn
<1> QED
  BY <1>1, <1>2, <1>3, <1>4, <1>5, QuietInv, Zenon

LEMMA ForkStep ==
    ASSUME NEW t \in Threads, NEW p \in Procs, IInv, Fork(t, p)
    PROVE  IInv'
<1>0. DataType /\ WithinCapacity
  BY Parts, Zenon
<1>1. /\ pc[t] = "idle"
      /\ UNCHANGED <<exists, buf, cap, parking, sig, console, pc, call, wakes, drained, hist>>
      /\ born' \subseteq Procs /\ rend' \subseteq Procs /\ wend' \subseteq Procs
      /\ readers' \in Nat /\ writers' \in Nat
      /\ readers' = 0 => readers = 0
      /\ writers' = 0 => writers = 0
  BY <1>0 DEF DataType, Fork
<1>2. DataType' /\ WithinCapacity'
  BY <1>0, <1>1, Zenon DEF DataType, WithinCapacity, hist
<1>3. OutOnly(t)
  BY <1>1, Zenon DEF OutOnly, call, args
<1>c. CtlOnly(t)
  BY <1>1, Zenon DEF CtlOnly, Busy, parking, wakes
<1>4. \A u \in Threads \ {t} : Satisfied(u)' => Satisfied(u)
  BY <1>1, Zenon DEF Satisfied, CanProceed, Need, Atomic, Space, call, args
<1> QED
  BY <1>1, <1>2, <1>3, <1>c, <1>4, OutOnlyInv, Zenon

\* A step that changes at most sig and the records of who holds an end.
LEMMA FrameStep ==
    ASSUME IInv, DataType', UNCHANGED <<pipe, parking, pc, call, wakes, drained>>
    PROVE  IInv'
<1>1. CallType' /\ WaitType' /\ WithinCapacity'
  BY Parts, Zenon DEF CallType, WaitType, WithinCapacity, pipe, parking, wakes, call, args
<1>2. Progress' /\ NoDrain' /\ WakesPending' /\ LockHeld'
  BY Parts, Zenon DEF Progress, NoDrain, WakesPending, LockHeld, parking, wakes, call, args
<1>3. Queued' /\ BlockedParked' /\ NoOrphan'
  BY Parts, Zenon DEF Queued, BlockedParked, NoOrphan, parking, call, args
<1>4. NoLostWake'
  BY Parts, Zenon DEF NoLostWake, Satisfied, CanProceed, Need, Atomic, Space, WillWake,
     pipe, parking, call, args, wakes
<1> QED
  BY <1>1, <1>2, <1>3, <1>4, FromParts, Zenon DEF Protocol

LEMMA KillStep ==
    ASSUME NEW p \in Killable, IInv, Kill(p)
    PROVE  IInv'
<1>1. DataType'
  BY Parts, PipeAssumption, Zenon DEF DataType, Kill, pipe, ends, hist
<1> QED
  BY <1>1, FrameStep, Zenon DEF Kill

-----------------------------------------------------------------------------
(* The steps that move bytes (each has an effect lemma: what happens to the *)
(* length of the ring, and which wake-up goes with it) and those that       *)
(* change the ends or the capacity.                                         *)

LEMMA PipeReadEffect ==
    ASSUME NEW t \in Threads, IInv, PipeRead(t)
    PROVE  /\ UNCHANGED <<exists, cap, readers, writers, ends, parking, sig, console, drained, hist>>
           /\ UNCHANGED <<args, total, room>>
           /\ pc[t] = "read"
           /\ buf' \in Seq(Nat)
           /\ \/ /\ Len(buf') < Len(buf)
                 /\ WakeThen(t, "W", None, "ret", "ok")
              \/ /\ UNCHANGED <<buf, wakes, then>>
                 /\ out' = out \/ out' = [out EXCEPT ![t] = "EBADF"]
                 /\ Goto(t, "ret") \/ Goto(t, "empty")
<1> DEFINE n == Min2(len[t], Len(buf))
<1>1. buf \in Seq(Nat) /\ Len(buf) \in Nat /\ len[t] \in Nat
  BY DEF IInv, TypeOK, DataType, CallType
<1>2. n \in 0..Len(buf)
  BY <1>1 DEF Min2
<1>3. CASE exists /\ n > 0
  <2>1. buf' = SubSeq(buf, n + 1, Len(buf)) /\ WakeThen(t, "W", None, "ret", "ok")
    BY <1>3 DEF PipeRead
  <2>2. buf' \in Seq(Nat) /\ Len(buf') = Len(buf) - n
    BY <1>1, <1>2, <2>1, TakeLen, Zenon
  <2>3. Len(buf') < Len(buf)
    BY <1>1, <1>2, <1>3, <2>2
  <2> HIDE DEF n
  <2> QED
    BY <2>1, <2>2, <2>3, Zenon DEF PipeRead, WakeThen
<1>4. CASE ~exists \/ n = 0
  <2>1. /\ UNCHANGED <<buf, wakes, then>>
        /\ out' = out \/ out' = [out EXCEPT ![t] = "EBADF"]
        /\ Goto(t, "ret") \/ Goto(t, "empty")
        /\ UNCHANGED <<args, total, room>>
    BY <1>4 DEF PipeRead, Return, call, wakes
  <2> QED
    BY <1>1, <2>1, Zenon DEF PipeRead
<1> QED
  BY <1>2, <1>3, <1>4

LEMMA PipeReadStep ==
    ASSUME NEW t \in Threads, IInv, PipeRead(t)
    PROVE  IInv'
<1>0. DataType /\ CallType /\ WaitType /\ WithinCapacity /\ Progress
  BY Parts, Zenon
<1>e. /\ UNCHANGED <<exists, cap, readers, writers, ends, parking, sig, console, drained, hist>>
      /\ UNCHANGED <<args, total, room>>
      /\ pc[t] = "read" /\ buf' \in Seq(Nat)
      /\ \/ /\ Len(buf') < Len(buf)
            /\ WakeThen(t, "W", None, "ret", "ok")
         \/ /\ UNCHANGED <<buf, wakes, then>>
            /\ out' = out \/ out' = [out EXCEPT ![t] = "EBADF"]
            /\ Goto(t, "ret") \/ Goto(t, "empty")
  BY PipeReadEffect, Zenon
<1>1. DataType' /\ WithinCapacity'
  <2>1. Len(buf) \in Nat /\ Len(buf') \in Nat /\ cap \in Nat
    BY <1>0, <1>e, ConstantFacts DEF DataType
  <2> QED
    BY <1>0, <1>e, <2>1 DEF DataType, WithinCapacity, ends, hist
<1>2. OutOnly(t)
  BY <1>0, <1>e, Zenon DEF OutOnly, Results, WakeThen, call, args
<1>3. CtlOnly(t)
  BY <1>0, <1>e, Zenon DEF CtlOnly, PCs, Busy, WaitType, WakeThen, Goto, parking, wakes
<1>4. pc'[t] \notin {"put", "idle"}
  BY <1>0, <1>e, Zenon DEF WaitType, WakeThen, Goto
<1>5. \A u \in Threads \ {t} : Satisfied(u)' => Satisfied(u) \/ WillWake(t, side[u])'
  <2>1. Len(buf) \in Nat /\ Len(buf') \in Nat
    BY <1>0, <1>1 DEF DataType
  <2>2. /\ Len(buf') < Len(buf) => WillWake(t, "W")'
        /\ Len(buf') > Len(buf) => WillWake(t, "R")'
    BY <1>0, <1>e, <2>1 DEF WillWake, WaitType, WakeThen, wakes
  <2>3. UNCHANGED <<exists, cap, readers, writers, side, len>>
    BY <1>e, Zenon DEF args
  <2> QED
    BY <1>0, <1>1, <2>2, <2>3, SatisfiedFrame, Zenon
<1> QED
  BY <1>1, <1>2, <1>3, <1>4, <1>5, OutOnlyInv, Zenon

LEMMA PutEffect ==
    ASSUME NEW t \in Threads, NEW n \in Nat, IInv, Len(buf) + n <= cap, Put(t, n)
    PROVE  /\ buf' \in Seq(Nat) /\ stream' \in Seq(Nat)
           /\ Len(buf') = Len(buf) + n /\ Len(buf') <= cap
<1>1. buf \in Seq(Nat) /\ stream \in Seq(Nat) /\ id[t] \in Nat
  BY Zenon DEF IInv, TypeOK, DataType, CallType
<1> QED
  BY <1>1, AppendLen, Zenon DEF Put

LEMMA WriteAtomicEffect ==
    ASSUME NEW t \in Threads, IInv, WriteAtomic(t)
    PROVE  /\ UNCHANGED <<exists, cap, readers, writers, ends, parking, sig, console, drained, sizes>>
           /\ UNCHANGED <<args, total, room>>
           /\ pc[t] = "deposit"
           /\ buf' \in Seq(Nat) /\ stream' \in Seq(Nat) /\ Len(buf') <= cap
           /\ \/ /\ Len(buf') >= Len(buf)
                 /\ WakeThen(t, "R", None, "ret", "ok")
              \/ /\ UNCHANGED <<buf, wakes, then>>
                 /\ out' = out \/ out' = [out EXCEPT ![t] = "EBADF"]
                 /\ Goto(t, "ret") \/ Goto(t, "full")
<1>0. DataType /\ CallType
  BY Parts, Zenon
<1>1. buf \in Seq(Nat) /\ stream \in Seq(Nat) /\ cap \in Nat /\ len[t] \in Nat
  BY <1>0, ConstantFacts, Zenon DEF DataType, CallType
<1>2. CASE exists /\ Space >= len[t]
  <2>1. Put(t, len[t]) /\ WakeThen(t, "R", None, "ret", "ok")
    BY <1>1, <1>2 DEF WriteAtomic, Space
  <2>2. Len(buf) + len[t] <= cap
    BY <1>1, <1>2 DEF Space
  <2>3. /\ buf' \in Seq(Nat) /\ stream' \in Seq(Nat)
        /\ Len(buf') = Len(buf) + len[t] /\ Len(buf') <= cap
    BY <1>1, <2>1, <2>2, PutEffect, Zenon
  <2> QED
    BY <1>1, <2>1, <2>3 DEF WriteAtomic, WakeThen
<1>3. CASE ~(exists /\ Space >= len[t])
  <2>1. /\ UNCHANGED <<buf, stream, wakes, args, total, room, then>>
        /\ out' = out \/ out' = [out EXCEPT ![t] = "EBADF"]
        /\ Goto(t, "ret") \/ Goto(t, "full")
    BY <1>1, <1>3, Zenon DEF WriteAtomic, Return, call, Space
  <2> QED
    BY <1>1, <2>1, Parts, Zenon DEF WriteAtomic, WithinCapacity
<1> QED
  BY <1>2, <1>3, Zenon

LEMMA WriteAtomicStep ==
    ASSUME NEW t \in Threads, IInv, WriteAtomic(t)
    PROVE  IInv'
<1>0. DataType /\ CallType /\ WaitType /\ WithinCapacity /\ Progress
  BY Parts, Zenon
<1>e. /\ UNCHANGED <<exists, cap, readers, writers, ends, parking, sig, console, drained, sizes>>
      /\ UNCHANGED <<args, total, room>>
      /\ pc[t] = "deposit"
      /\ buf' \in Seq(Nat) /\ stream' \in Seq(Nat) /\ Len(buf') <= cap
      /\ \/ /\ Len(buf') >= Len(buf)
            /\ WakeThen(t, "R", None, "ret", "ok")
         \/ /\ UNCHANGED <<buf, wakes, then>>
            /\ out' = out \/ out' = [out EXCEPT ![t] = "EBADF"]
            /\ Goto(t, "ret") \/ Goto(t, "full")
  BY WriteAtomicEffect, Zenon
<1>1. DataType' /\ WithinCapacity'
  BY <1>0, <1>e, Zenon DEF DataType, WithinCapacity, ends
<1>2. OutOnly(t)
  BY <1>0, <1>e, Zenon DEF OutOnly, Results, WakeThen, call, args
<1>3. CtlOnly(t)
  BY <1>0, <1>e, Zenon DEF CtlOnly, PCs, Busy, WaitType, WakeThen, Goto, parking, wakes
<1>4. pc'[t] \notin {"put", "idle"}
  BY <1>0, <1>e, Zenon DEF WaitType, WakeThen, Goto
<1>5. \A u \in Threads \ {t} : Satisfied(u)' => Satisfied(u) \/ WillWake(t, side[u])'
  <2>1. Len(buf) \in Nat /\ Len(buf') \in Nat
    BY <1>0, <1>1 DEF DataType
  <2>2. /\ Len(buf') < Len(buf) => WillWake(t, "W")'
        /\ Len(buf') > Len(buf) => WillWake(t, "R")'
    BY <1>0, <1>e, <2>1 DEF WillWake, WaitType, WakeThen, wakes
  <2>3. UNCHANGED <<exists, cap, readers, writers, side, len>>
    BY <1>e, Zenon DEF args
  <2> QED
    BY <1>0, <1>1, <2>2, <2>3, SatisfiedFrame, Zenon
<1> QED
  BY <1>1, <1>2, <1>3, <1>4, <1>5, OutOnlyInv, Zenon

LEMMA WritePutEffect ==
    ASSUME NEW t \in Threads, IInv, WritePut(t)
    PROVE  /\ UNCHANGED <<exists, cap, readers, writers, ends, parking, sig, console, drained, sizes, args>>
           /\ pc[t] = "put"
           /\ buf' \in Seq(Nat) /\ stream' \in Seq(Nat) /\ Len(buf') <= cap
           /\ \/ /\ Len(buf') >= Len(buf)
                 /\ \E n \in Nat : total[t] + n <= len[t] /\ Deposited(t, n)
              \/ /\ UNCHANGED <<buf, wakes, then, total, room>>
                 /\ out' = out \/ (\E r \in Results : out' = [out EXCEPT ![t] = r])
                 /\ Goto(t, "ret") \/ Goto(t, "write")
<1> DEFINE n == Min2(room[t], Space)
<1>p. DataType /\ CallType /\ WithinCapacity /\ Progress /\ pc[t] = "put"
  BY Parts, Zenon DEF WritePut
<1>0. /\ buf \in Seq(Nat) /\ stream \in Seq(Nat) /\ cap \in Nat /\ Len(buf) <= cap
      /\ Len(buf) \in Nat
  BY <1>p, ConstantFacts DEF DataType, WithinCapacity
<1>a. room[t] \in Nat /\ total[t] \in Nat /\ len[t] \in Nat /\ total[t] + room[t] <= len[t]
  BY <1>p, Zenon DEF CallType, Progress
<1>1. /\ n \in Nat /\ Len(buf) + n <= cap /\ total[t] + n <= len[t] /\ pc[t] = "put"
      /\ buf \in Seq(Nat) /\ stream \in Seq(Nat) /\ cap \in Nat /\ Len(buf) <= cap
  BY <1>p, <1>0, <1>a DEF Min2, Space
<1>2. CASE exists /\ n > 0
  <2>0. n # 0
    BY <1>1, <1>2
  <2>1. Put(t, n) /\ Deposited(t, n)
    BY <1>2, <2>0, Zenon DEF WritePut
  <2>2. /\ buf' \in Seq(Nat) /\ stream' \in Seq(Nat)
        /\ Len(buf') = Len(buf) + n /\ Len(buf') <= cap
    BY <1>1, <2>1, PutEffect, Zenon
  <2>3. UNCHANGED <<exists, cap, readers, writers, ends, parking, sig, console, drained, sizes, args>>
    BY <2>1, Zenon DEF WritePut, Deposited
  <2>4. Len(buf') >= Len(buf)
    BY <1>1, <2>2
  <2> HIDE DEF n
  <2> QED
    BY <1>1, <2>1, <2>2, <2>3, <2>4, Zenon
<1>3. CASE ~(exists /\ n > 0)
  <2>1. \/ /\ ReturnErr(t, "EBADF")
           /\ UNCHANGED <<buf, stream, wakes>>
        \/ /\ Goto(t, "write")
           /\ UNCHANGED <<buf, stream, wakes, call>>
    BY <1>1, <1>3, Zenon DEF WritePut
  <2>2. UNCHANGED <<exists, cap, readers, writers, ends, parking, sig, console, drained, sizes>>
    BY Zenon DEF WritePut
  <2> HIDE DEF n
  <2>3. /\ UNCHANGED <<buf, stream, wakes, args, then, total, room>>
        /\ out' = out \/ (\E r \in Results : out' = [out EXCEPT ![t] = r])
        /\ Goto(t, "ret") \/ Goto(t, "write")
    BY <2>1, Zenon DEF ReturnErr, Return, Results, call
  <2> QED
    BY <1>1, <2>2, <2>3, Zenon
<1> QED
  BY <1>2, <1>3, Zenon

LEMMA WritePutStep ==
    ASSUME NEW t \in Threads, IInv, WritePut(t)
    PROVE  IInv'
<1>0. DataType /\ CallType /\ WaitType /\ WithinCapacity /\ Progress
  BY Parts, Zenon
<1>e. /\ UNCHANGED <<exists, cap, readers, writers, ends, parking, sig, console, drained, sizes, args>>
      /\ pc[t] = "put"
      /\ buf' \in Seq(Nat) /\ stream' \in Seq(Nat) /\ Len(buf') <= cap
      /\ \/ /\ Len(buf') >= Len(buf)
            /\ \E n \in Nat : total[t] + n <= len[t] /\ Deposited(t, n)
         \/ /\ UNCHANGED <<buf, wakes, then, total, room>>
            /\ out' = out \/ (\E r \in Results : out' = [out EXCEPT ![t] = r])
            /\ Goto(t, "ret") \/ Goto(t, "write")
  BY WritePutEffect, Zenon
<1>1. DataType' /\ WithinCapacity'
  BY <1>0, <1>e, Zenon DEF DataType, WithinCapacity, ends
<1>3. CallType'
  <2>1. ASSUME NEW n \in Nat, Deposited(t, n)
        PROVE  CallType'
    BY <1>0, <2>1 DEF CallType, Results, Deposited, args
  <2>2. ASSUME UNCHANGED <<args, then, total, room>>,
               out' = out \/ (\E r \in Results : out' = [out EXCEPT ![t] = r])
        PROVE  CallType'
    BY <1>0, <2>2, Zenon DEF CallType, args
  <2> QED
    BY <1>e, <2>1, <2>2, Zenon
<1>4. CtlOnly(t)
  BY <1>0, <1>e, Zenon DEF CtlOnly, PCs, Busy, WaitType, Deposited, Goto, parking, wakes
<1>6. Progress'
  <2>1. ASSUME NEW n \in Nat, total[t] + n <= len[t], Deposited(t, n)
        PROVE  Progress'
    BY <1>0, <2>1, Zenon DEF Progress, CallType, WaitType, Deposited, Goto, args
  <2>2. ASSUME UNCHANGED <<args, total, room>>, Goto(t, "ret") \/ Goto(t, "write")
        PROVE  Progress'
    BY <1>0, <2>2, Zenon DEF Progress, WaitType, Goto, args
  <2> QED
    BY <1>e, <2>1, <2>2, Zenon
<1>9. \A u \in Threads \ {t} : side'[u] = side[u]
  BY <1>e, Zenon DEF args
<1>10. \A u \in Threads \ {t} : Satisfied(u)' => Satisfied(u) \/ WillWake(t, side[u])'
  <2>1. Len(buf) \in Nat /\ Len(buf') \in Nat
    BY <1>0, <1>1 DEF DataType
  <2>2. /\ Len(buf') < Len(buf) => WillWake(t, "W")'
        /\ Len(buf') > Len(buf) => WillWake(t, "R")'
    BY <1>0, <1>e, <2>1 DEF WillWake, WaitType, Deposited, wakes
  <2>3. UNCHANGED <<exists, cap, readers, writers, side, len>>
    BY <1>e, Zenon DEF args
  <2> QED
    BY <1>0, <1>1, <2>2, <2>3, SatisfiedFrame, Zenon
<1> QED
  BY <1>1, <1>3, <1>4, <1>6, <1>9, <1>10, QuietInv, Zenon

-----------------------------------------------------------------------------
(* The ends and the capacity.                                               *)

LEMMA CloseWriterStep ==
    ASSUME NEW t \in Threads, IInv, CloseWriter(t)
    PROVE  IInv'
<1>0. DataType /\ CallType /\ WaitType /\ WithinCapacity /\ Progress
  BY Parts, Zenon
<1>1. DataType' /\ WithinCapacity'
  BY <1>0 DEF DataType, WithinCapacity, CloseWriter, ends, hist
<1>2. OutOnly(t)
  BY Zenon DEF OutOnly, Results, CloseWriter, WakeThen, call, args
<1>3. CtlOnly(t)
  BY <1>0, Zenon DEF CtlOnly, WaitType, Busy, CloseWriter, WakeThen, Goto, parking, wakes
<1>4. pc'[t] \in {"wake", "idle"} /\ pc[t] = "idle"
  BY <1>0, Zenon DEF WaitType, CloseWriter, WakeThen, Goto
<1>5. \A u \in Threads \ {t} : Satisfied(u)' => Satisfied(u) \/ WillWake(t, side[u])'
  <2>1. UNCHANGED <<buf, cap, side, len, readers, exists>>
    BY <1>2, Zenon DEF CloseWriter, OutOnly
  <2>2. CASE WakeThen(t, "R", "W", "ret", "ok")
    BY <1>0, <2>1, <2>2, Zenon DEF WakeThen, WillWake, WaitType, CallType, Queues
  <2>3. CASE UNCHANGED <<exists, writers>> \/ (exists /\ exists' /\ writers' > 0)
    BY <2>1, <2>3 DEF Satisfied, CanProceed, Need, Atomic, Space
  <2> QED
    BY <1>0, <2>2, <2>3 DEF CloseWriter, DataType
<1> QED
  BY <1>1, <1>2, <1>3, <1>4, <1>5, OutOnlyInv, Zenon

LEMMA CloseReaderStep ==
    ASSUME NEW t \in Threads, IInv, CloseReader(t)
    PROVE  IInv'
<1>0. DataType /\ CallType /\ WaitType /\ WithinCapacity /\ Progress
  BY Parts, Zenon
<1>1. DataType' /\ WithinCapacity'
  BY <1>0 DEF DataType, WithinCapacity, CloseReader, ends, hist
<1>2. OutOnly(t)
  BY Zenon DEF OutOnly, Results, CloseReader, WakeThen, call, args
<1>3. CtlOnly(t)
  BY <1>0, Zenon DEF CtlOnly, WaitType, Busy, CloseReader, WakeThen, Goto, parking, wakes
<1>4. pc'[t] \in {"wake", "idle"} /\ pc[t] = "idle"
  BY <1>0, Zenon DEF WaitType, CloseReader, WakeThen, Goto
<1>5. \A u \in Threads \ {t} : Satisfied(u)' => Satisfied(u) \/ WillWake(t, side[u])'
  <2>1. UNCHANGED <<buf, cap, side, len, writers>>
    BY <1>2, Zenon DEF CloseReader, OutOnly
  <2>2. CASE WakeThen(t, "W", "R", "ret", "ok")
    BY <1>0, <2>1, <2>2, Zenon DEF WakeThen, WillWake, WaitType, CallType, Queues
  <2>3. CASE UNCHANGED <<exists, readers>> \/ (exists /\ exists' /\ readers' > 0)
    BY <2>1, <2>3 DEF Satisfied, CanProceed, Need, Atomic, Space
  <2> QED
    BY <1>0, <2>2, <2>3 DEF CloseReader, DataType
<1> QED
  BY <1>1, <1>2, <1>3, <1>4, <1>5, OutOnlyInv, Zenon

LEMMA SetCapacityStep ==
    ASSUME NEW t \in Threads, IInv, SetCapacity(t)
    PROVE  IInv'
<1>0. DataType /\ CallType /\ WaitType /\ WithinCapacity /\ Progress
  BY Parts, Zenon
<1>1. DataType' /\ WithinCapacity'
  BY <1>0, PipeAssumption, Zenon DEF DataType, WithinCapacity, SetCapacity, ends, hist
<1>2. OutOnly(t)
  BY Zenon DEF OutOnly, Results, SetCapacity, WakeThen, call, args
<1>3. CtlOnly(t)
  BY <1>0, Zenon DEF CtlOnly, WaitType, Busy, SetCapacity, WakeThen, Goto, parking, wakes
<1>4. pc'[t] \in {"wake", "idle"} /\ pc[t] = "idle"
  BY <1>0, Zenon DEF WaitType, SetCapacity, WakeThen, Goto
<1>5. \A u \in Threads \ {t} : Satisfied(u)' => Satisfied(u) \/ WillWake(t, side[u])'
  <2>1. UNCHANGED <<exists, buf, readers, writers, side, len>>
    BY <1>2, Zenon DEF SetCapacity, OutOnly
  <2>2. CASE WakeThen(t, "W", None, "ret", "ok")
    BY <1>0, <2>1, <2>2, Zenon DEF WakeThen, WillWake, WaitType, CallType, Queues, Satisfied, CanProceed
  <2>3. CASE cap' < cap
    <3>1. Len(buf) \in Nat /\ cap \in Nat /\ cap' \in Nat /\ \A u \in Threads : len[u] \in Nat
      BY <1>0, <1>1, ConstantFacts DEF DataType, CallType
    <3> QED
      BY <2>1, <2>3, <3>1, ConstantFacts DEF Satisfied, CanProceed, Need, Atomic, Space
  <2> QED
    BY <2>2, <2>3, Zenon DEF SetCapacity
<1> QED
  BY <1>1, <1>2, <1>3, <1>4, <1>5, OutOnlyInv, Zenon

-----------------------------------------------------------------------------
(* The steps inside the wait.  They leave the pipe and the call alone, so    *)
(* what is satisfied does not change.                                        *)

LEMMA SatisfiedSame ==
    ASSUME UNCHANGED <<pipe, side, len>>
    PROVE  \A u \in Threads : Satisfied(u)' <=> Satisfied(u)
  BY Zenon DEF pipe, Satisfied, CanProceed, Need, Atomic, Space

\* The wait steps change no data; what they may change of the call is its result.
LEMMA WaitFrame ==
    ASSUME NEW t \in Threads, IInv, UNCHANGED <<pipe, ends, sig, console, hist>>, OutOnly(t), WaitType',
           \A u \in Threads : pc'[u] \in {"put", "idle", "drain"} => pc'[u] = pc[u],
           Protocol'
    PROVE  IInv'
<1>0. DataType /\ CallType /\ WithinCapacity /\ Progress /\ NoDrain
  BY Parts, Zenon
<1>1. DataType' /\ WithinCapacity'
  BY <1>0, Zenon DEF DataType, WithinCapacity, pipe, ends, hist
<1>2. CallType'
  BY <1>0, OutOnlyType, Zenon
<1>3. Progress' /\ NoDrain'
  BY <1>0, Zenon DEF Progress, NoDrain, OutOnly
<1> QED
  BY <1>1, <1>2, <1>3, FromParts, Zenon

\* A thread that is not on the list is not on it.
LEMMA ParkCheckStep ==
    ASSUME NEW t \in Threads, IInv, ParkCheck(t)
    PROVE  IInv'
<1>0. /\ CallType /\ WaitType /\ WakesPending /\ LockHeld /\ Queued /\ BlockedParked
      /\ NoOrphan /\ NoLostWake /\ NoDrain
  BY Parts, Zenon
<1>1. /\ UNCHANGED <<pipe, ends, waitq, tstate, sig, console, wake1, wake2, drained, hist>>
      /\ UNCHANGED <<side, len>> /\ OutOnly(t)
      /\ pc[t] = "park" /\ lock[side[t]] = None
      /\ \/ /\ UNCHANGED lock
            /\ Goto(t, "ret") \/ Goto(t, "read") \/ Goto(t, "write")
         \/ /\ ~Satisfied(t) /\ Goto(t, "enqueue")
            /\ lock' = [lock EXCEPT ![side[t]] = t]
  BY Zenon DEF ParkCheck, ReturnErr, Return, Results, Satisfied, OutOnly, call, args, wakes
<1>2. /\ \A u \in Threads \ {t} : pc'[u] = pc[u]
      /\ pc'[t] \in {"ret", "read", "write", "enqueue"}
      /\ pc'[t] = "enqueue" => ~Satisfied(t) /\ lock' = [lock EXCEPT ![side[t]] = t]
      /\ pc'[t] # "enqueue" => UNCHANGED lock
  BY <1>0, <1>1, Zenon DEF WaitType, Goto
<1>3. WaitType'
  <2>1. pc' \in [Threads -> PCs]
    BY <1>0, <1>1 DEF WaitType, PCs, Goto
  <2>2. lock' \in [Queues -> Threads \union {None}]
    BY <1>0, <1>1, Zenon DEF WaitType, CallType
  <2> QED BY <1>0, <1>1, <2>1, <2>2, Zenon DEF WaitType
<1>4. WakesPending' /\ BlockedParked' /\ Queued'
  BY <1>0, <1>1, <1>2, Zenon DEF WakesPending, BlockedParked, Queued
<1>5. LockHeld'
  BY <1>0, <1>1, <1>2, ConstantFacts DEF LockHeld, WaitType, CallType
<1>6. NoOrphan'
  BY <1>0, <1>1, <1>2, Zenon DEF NoOrphan
<1>7. NoLostWake'
  <2>1. \A u \in Threads : Satisfied(u)' <=> Satisfied(u)
    BY <1>1, SatisfiedSame, Zenon
  <2>2. t \notin waitq[side[t]]
    BY <1>0, <1>1, Zenon DEF Queued, CallType
  <2> QED
    BY <1>0, <1>1, <1>2, <2>1, <2>2, Zenon DEF NoLostWake, WillWake
<1> QED
  BY <1>1, <1>2, <1>3, <1>4, <1>5, <1>6, <1>7, WaitFrame, Zenon DEF Protocol

LEMMA ParkEnqueueStep ==
    ASSUME NEW t \in Threads, IInv, ParkEnqueue(t)
    PROVE  IInv'
<1>0. /\ CallType /\ WaitType /\ WakesPending /\ LockHeld /\ Queued /\ BlockedParked
      /\ NoOrphan /\ NoLostWake /\ NoDrain
  BY Parts, Zenon
<1>1. /\ UNCHANGED <<pipe, ends, sig, console, call, hist>> /\ OutOnly(t)
      /\ UNCHANGED <<side, len, wake1, wake2, drained>>
      /\ pc[t] = "enqueue" /\ Goto(t, "parked")
      /\ waitq' = [waitq EXCEPT ![side[t]] = @ \union {t}]
      /\ tstate' = [tstate EXCEPT ![t] = "Blocked"]
      /\ lock' = [lock EXCEPT ![side[t]] = None]
  BY Zenon DEF ParkEnqueue, OutOnly, call, args, wakes
<1>2. /\ side \in [Threads -> Queues] /\ pc'[t] = "parked"
      /\ \A u \in Threads \ {t} : pc'[u] = pc[u] /\ tstate'[u] = tstate[u]
      /\ \A u \in Threads \ {t} : u \in waitq'[side[u]] <=> u \in waitq[side[u]]
      /\ t \in waitq'[side[t]]
  BY <1>0, <1>1, Zenon DEF WaitType, CallType, Goto
<1>3. WaitType'
  <2>0. side[t] \in Queues /\ waitq[side[t]] \union {t} \in SUBSET Threads
    BY <1>0, <1>2, Zenon DEF WaitType
  <2>1. waitq' \in [Queues -> SUBSET Threads]
    BY <1>0, <1>1, <2>0, Zenon DEF WaitType
  <2>3. lock' \in [Queues -> Threads \union {None}]
    BY <1>0, <1>1, <2>0, Zenon DEF WaitType
  <2>2. pc' \in [Threads -> PCs] /\ tstate' \in [Threads -> {"Running", "Ready", "Blocked"}]
    BY <1>0, <1>1, Zenon DEF WaitType, PCs, Goto
  <2> QED
    BY <1>0, <1>1, <2>1, <2>2, <2>3, Zenon DEF WaitType
<1>4. WakesPending' /\ BlockedParked'
  BY <1>0, <1>1, <1>2, Zenon DEF WakesPending, BlockedParked
<1>5. LockHeld'
  BY <1>0, <1>1, <1>2 DEF LockHeld, WaitType
<1>6. Queued'
  BY <1>0, <1>1, <1>2 DEF Queued, WaitType
<1>7. NoOrphan'
  BY <1>0, <1>1, <1>2, Zenon DEF NoOrphan
<1>8. NoLostWake'
  <2>1. \A u \in Threads : Satisfied(u)' <=> Satisfied(u)
    BY <1>1, SatisfiedSame, Zenon
  <2> QED
    BY <1>0, <1>1, <1>2, <2>1, Zenon DEF NoLostWake, WillWake
<1> QED
  BY <1>1, <1>2, <1>3, <1>4, <1>5, <1>6, <1>7, <1>8, WaitFrame, Zenon DEF Protocol

LEMMA ResumeStep ==
    ASSUME NEW t \in Threads, IInv, Resume(t)
    PROVE  IInv'
<1>0. /\ CallType /\ WaitType /\ WakesPending /\ LockHeld /\ Queued /\ BlockedParked
      /\ NoOrphan /\ NoLostWake /\ NoDrain
  BY Parts, Zenon
<1>1. /\ UNCHANGED <<pipe, ends, sig, console, call, hist>> /\ OutOnly(t)
      /\ UNCHANGED <<side, len, waitq, lock, wake1, wake2, drained>>
      /\ pc[t] = "parked" /\ Goto(t, "cleanup") /\ tstate[t] = "Ready"
      /\ tstate' = [tstate EXCEPT ![t] = "Running"]
  BY Zenon DEF Resume, OutOnly, call, args, wakes
<1>2. /\ pc'[t] = "cleanup" /\ tstate'[t] = "Running"
      /\ \A u \in Threads \ {t} : pc'[u] = pc[u] /\ tstate'[u] = tstate[u]
  BY <1>0, <1>1, Zenon DEF WaitType, Goto
<1>3. WaitType'
  BY <1>0, <1>1, Zenon DEF WaitType, PCs, Goto
<1>4. WakesPending' /\ LockHeld' /\ Queued' /\ BlockedParked'
  BY <1>0, <1>1, <1>2 DEF WakesPending, LockHeld, Queued, BlockedParked
<1>5. NoOrphan'
  BY <1>0, <1>1, <1>2, Zenon DEF NoOrphan
<1>6. NoLostWake'
  <2>1. \A u \in Threads : Satisfied(u)' <=> Satisfied(u)
    BY <1>1, SatisfiedSame, Zenon
  <2> QED
    BY <1>0, <1>1, <1>2, <2>1 DEF NoLostWake, WillWake
<1> QED
  BY <1>1, <1>2, <1>3, <1>4, <1>5, <1>6, WaitFrame, Zenon DEF Protocol

LEMMA CleanupStep ==
    ASSUME NEW t \in Threads, IInv, Cleanup(t)
    PROVE  IInv'
<1>0. /\ CallType /\ WaitType /\ WakesPending /\ LockHeld /\ Queued /\ BlockedParked
      /\ NoOrphan /\ NoLostWake /\ NoDrain
  BY Parts, Zenon
<1>1. /\ UNCHANGED <<pipe, ends, sig, console, call, hist>> /\ OutOnly(t)
      /\ UNCHANGED <<side, len, lock, tstate, wake1, wake2, drained>>
      /\ pc[t] = "cleanup" /\ (Goto(t, "read") \/ Goto(t, "write"))
      /\ waitq' = [waitq EXCEPT ![side[t]] = @ \ {t}]
  BY Zenon DEF Cleanup, OutOnly, call, args, wakes
<1>2. /\ pc'[t] \in {"read", "write"}
      /\ \A u \in Threads \ {t} : pc'[u] = pc[u]
      /\ \A u \in Threads \ {t} : u \in waitq'[side[u]] <=> u \in waitq[side[u]]
      /\ tstate[t] # "Blocked" /\ side \in [Threads -> Queues]
  BY <1>0, <1>1 DEF WaitType, CallType, BlockedParked, Goto
<1>3. WaitType'
  BY <1>0, <1>1, <1>2 DEF WaitType, PCs, Goto
<1>4. WakesPending' /\ LockHeld' /\ BlockedParked'
  BY <1>0, <1>1, <1>2, Zenon DEF WakesPending, LockHeld, BlockedParked
<1>5. Queued'
  BY <1>0, <1>1, <1>2, Zenon DEF Queued, WaitType
<1>6. NoOrphan'
  BY <1>0, <1>1, <1>2, Zenon DEF NoOrphan
<1>7. NoLostWake'
  <2>1. \A u \in Threads : Satisfied(u)' <=> Satisfied(u)
    BY <1>1, SatisfiedSame, Zenon
  <2> QED
    BY <1>0, <1>1, <1>2, <2>1, Zenon DEF NoLostWake, WillWake
<1> QED
  BY <1>1, <1>2, <1>3, <1>4, <1>5, <1>6, <1>7, WaitFrame, Zenon DEF Protocol

LEMMA WakeDrainStep ==
    ASSUME NEW t \in Threads, IInv, WakeDrain(t)
    PROVE  IInv'
<1>0. /\ CallType /\ WaitType /\ WakesPending /\ LockHeld /\ Queued /\ BlockedParked
      /\ NoOrphan /\ NoLostWake /\ NoDrain
  BY Parts, Zenon
<1>1. /\ UNCHANGED <<pipe, ends, sig, console, call, hist>> /\ OutOnly(t)
      /\ UNCHANGED <<side, len, lock, tstate>>
      /\ pc[t] = "wake" /\ Goto(t, "flip") /\ lock[wake1[t]] = None
      /\ drained' = [drained EXCEPT ![t] = waitq[wake1[t]]]
      /\ waitq' = [waitq EXCEPT ![wake1[t]] = {}]
      /\ wake1' = [wake1 EXCEPT ![t] = wake2[t]]
      /\ wake2' = [wake2 EXCEPT ![t] = None]
  BY Zenon DEF WakeDrain, OutOnly, call, args, wakes
<1>2. /\ wake1[t] \in Queues /\ side \in [Threads -> Queues] /\ pc'[t] = "flip"
      /\ \A u \in Threads \ {t} : /\ pc'[u] = pc[u] /\ drained'[u] = drained[u]
                                  /\ wake1'[u] = wake1[u] /\ wake2'[u] = wake2[u]
      /\ drained'[t] = waitq[wake1[t]] /\ wake1'[t] = wake2[t] /\ wake2'[t] = None
      /\ waitq'[wake1[t]] = {}
      /\ \A x \in Queues : x # wake1[t] => waitq'[x] = waitq[x]
  BY <1>0, <1>1 DEF WaitType, CallType, WakesPending, Goto
<1>3. WaitType'
  BY <1>0, <1>1, <1>2, Zenon DEF WaitType, PCs, Goto
<1>4. WakesPending'
  BY <1>0, <1>1, <1>2 DEF WakesPending
<1>5. LockHeld' /\ BlockedParked'
  BY <1>0, <1>1, <1>2, Zenon DEF LockHeld, BlockedParked
<1>6. Queued'
  BY <1>0, <1>1, <1>2, Zenon DEF Queued
<1>7. NoOrphan'
  <2> SUFFICES ASSUME NEW u \in Threads, tstate[u] = "Blocked"
               PROVE  \/ u \in waitq'[side[u]]
                      \/ \E s \in Threads : pc'[s] = "flip" /\ u \in drained'[s]
    BY <1>1, Zenon DEF NoOrphan
  <2>1. CASE u \in waitq[side[u]] /\ side[u] = wake1[t]
    BY <1>2, <2>1
  <2>2. CASE u \in waitq[side[u]] /\ side[u] # wake1[t]
    BY <1>2, <2>2, Zenon
  <2>3. CASE \E s \in Threads : pc[s] = "flip" /\ u \in drained[s]
    BY <1>1, <1>2, <2>3, Zenon
  <2> QED
    BY <1>0, <2>1, <2>2, <2>3, Zenon DEF NoOrphan
<1>8. NoLostWake'
  <2> SUFFICES ASSUME NEW u \in Threads,
                      pc'[u] = "enqueue" \/ (u \in waitq'[side[u]] /\ tstate[u] = "Blocked"),
                      Satisfied(u)
               PROVE  \E s \in Threads : WillWake(s, side[u])'
    BY <1>1, SatisfiedSame, Zenon DEF NoLostWake
  <2>1. u # t /\ side[u] # wake1[t]
    BY <1>0, <1>1, <1>2, ConstantFacts DEF LockHeld, Queued
  <2>2. pc[u] = "enqueue" \/ (u \in waitq[side[u]] /\ tstate[u] = "Blocked")
    BY <1>2, <2>1, Zenon
  <2>3. PICK s \in Threads : WillWake(s, side[u])
    BY <1>0, <2>2, Zenon DEF NoLostWake
  <2> QED
    BY <1>1, <1>2, <2>1, <2>3, Zenon DEF WillWake
<1> QED
  BY <1>1, <1>2, <1>3, <1>4, <1>5, <1>6, <1>7, <1>8, WaitFrame, Zenon DEF Protocol

LEMMA WakeFlipStep ==
    ASSUME NEW t \in Threads, IInv, WakeFlip(t)
    PROVE  IInv'
<1>0. /\ CallType /\ WaitType /\ WakesPending /\ LockHeld /\ Queued /\ BlockedParked
      /\ NoOrphan /\ NoLostWake /\ NoDrain
  BY Parts, Zenon
<1>1. /\ UNCHANGED <<pipe, ends, sig, console, call, hist>> /\ OutOnly(t)
      /\ UNCHANGED <<side, len, waitq, lock, wake1, wake2>>
      /\ pc[t] = "flip"
      /\ \/ wake1[t] # None /\ Goto(t, "wake")
         \/ wake1[t] = None /\ Goto(t, then[t])
      /\ tstate' = [u \in Threads |->
             IF u \in drained[t] /\ tstate[u] = "Blocked" THEN "Ready" ELSE tstate[u]]
      /\ drained' = [drained EXCEPT ![t] = {}]
  BY Zenon DEF WakeFlip, OutOnly, call, args, wakes
<1>2. /\ pc'[t] \in {"wake", "ret", "write"} /\ (pc'[t] = "wake" <=> wake1[t] # None)
      /\ \A u \in Threads \ {t} : pc'[u] = pc[u] /\ drained'[u] = drained[u]
      /\ \A u \in Threads : /\ tstate'[u] = "Blocked" <=> tstate[u] = "Blocked" /\ u \notin drained[t]
                            /\ tstate'[u] # tstate[u] => tstate[u] = "Blocked"
  BY <1>0, <1>1 DEF WaitType, CallType, Goto
<1>3. WaitType'
  BY <1>0, <1>1, <1>2 DEF WaitType, CallType, PCs, Goto
<1>4. WakesPending'
  BY <1>0, <1>1, <1>2, Zenon DEF WakesPending
<1>5. LockHeld' /\ Queued'
  BY <1>0, <1>1, <1>2 DEF LockHeld, Queued
<1>8. BlockedParked'
  BY <1>0, <1>1, <1>2, Zenon DEF BlockedParked
<1>6. NoOrphan'
  BY <1>0, <1>1, <1>2 DEF NoOrphan
<1>7. NoLostWake'
  <2>1. \A u \in Threads : Satisfied(u)' <=> Satisfied(u)
    BY <1>1, SatisfiedSame, Zenon
  <2> QED
    BY <1>0, <1>1, <1>2, <2>1, Zenon DEF NoLostWake, WillWake
<1> QED
  BY <1>1, <1>2, <1>3, <1>4, <1>5, <1>6, <1>7, <1>8, WaitFrame, Zenon DEF Protocol

-----------------------------------------------------------------------------
(* The invariant holds initially and every step preserves it.               *)

LEMMA InitIInv ==
    ASSUME Init
    PROVE  IInv
<1>1. DataType
  BY PipeAssumption DEF Init, DataType
<1>2. CallType
  BY Zenon DEF Init, CallType, Queues, Results
<1>3. WaitType
  BY Zenon DEF Init, WaitType, Queues, PCs
<1>4. WithinCapacity /\ Progress /\ NoDrain
  BY PipeAssumption DEF Init, WithinCapacity, Progress, NoDrain
<1>5. Protocol
  BY PipeAssumption, Zenon
     DEF Init, Queues, Protocol, WakesPending, LockHeld, Queued, BlockedParked, NoOrphan, NoLostWake
<1> QED
  BY <1>1, <1>2, <1>3, <1>4, <1>5, Zenon DEF IInv, TypeOK

LEMMA NextIInv ==
    ASSUME IInv, Console = {FALSE}, [Next]_vars
    PROVE  IInv'
<1>1. ASSUME NEW t \in Threads, Advance(t)
      PROVE  IInv'
  <2>1. ~WriteDrainConsole(t)
    BY Zenon DEF IInv, NoDrain, WriteDrainConsole
  <2> QED
    BY Zenon, <1>1, <2>1, PipeReadStep, ReadEmptyStep, WriteCheckReaderStep, WriteAtomicStep,
       WriteProbeStep, WritePutStep, WriteFullStep, ParkCheckStep, ParkEnqueueStep,
       ResumeStep, CleanupStep, WakeDrainStep, WakeFlipStep, UserReturnStep DEF Advance
<1>2. ASSUME NEW t \in Threads, Begin(t)
      PROVE  IInv'
  BY Zenon, <1>2, StartReadStep, StartWriteStep, CloseWriterStep, CloseReaderStep,
     SetCapacityStep, ForkStep DEF Begin
<1>3. ASSUME NEW p \in Killable, Kill(p)
      PROVE  IInv'
  BY <1>3, KillStep, Zenon
<1>4. ASSUME UNCHANGED vars
      PROVE  IInv'
  <2>1. DataType' /\ CallType' /\ WaitType' /\ WithinCapacity'
    BY <1>4, Parts, Zenon DEF vars, pipe, ends, parking, hist, args, call, wakes,
       DataType, CallType, WaitType, WithinCapacity
  <2>2. Progress' /\ NoDrain' /\ WakesPending' /\ LockHeld' /\ Queued' /\ BlockedParked' /\ NoOrphan'
    BY <1>4, Parts, Zenon DEF vars, parking, args, call, wakes, Progress, NoDrain, WakesPending,
       LockHeld, Queued, BlockedParked, NoOrphan
  <2>3. NoLostWake'
    BY <1>4, Parts, Zenon DEF vars, pipe, parking, args, call, wakes, NoLostWake, Satisfied,
       CanProceed, Need, Atomic, Space, WillWake
  <2> QED
    BY <2>1, <2>2, <2>3, FromParts, Zenon DEF Protocol
<1> QED
  BY <1>1, <1>2, <1>3, <1>4, Zenon DEF Next

\* Type correctness of an ordinary pipe (one that is not the console backstop's).
THEOREM TypeCorrect ==
    ASSUME Console = {FALSE}
    PROVE  Spec => []TypeOK
<1>1. Init => IInv
  BY InitIInv, Zenon
<1>2. IInv /\ [Next]_vars => IInv'
  BY NextIInv, Zenon
<1>3. IInv => TypeOK
  BY Zenon DEF IInv
<1> QED
  BY <1>1, <1>2, <1>3, PTL DEF Spec

\* No wake-up of wait_readable / wait_writable is lost, however many threads read,
\* write, close, fork and resize: whenever what a queued thread waits for is there,
\* some thread is on its way to wake its list.
THEOREM NoWakeIsLost ==
    ASSUME Console = {FALSE}
    PROVE  Spec => []NoLostWake
<1>1. Init => IInv
  BY InitIInv, Zenon
<1>2. IInv /\ [Next]_vars => IInv'
  BY NextIInv, Zenon
<1>3. IInv => NoLostWake
  BY Zenon DEF IInv, Protocol
<1> QED
  BY <1>1, <1>2, <1>3, PTL DEF Spec

\* A Blocked thread is on its wait list or in the hands of a waker that has drained
\* the list and is about to flip it (wake_readers_all, wake_writers_all, wake_tids).
THEOREM NoThreadForgotten ==
    ASSUME Console = {FALSE}
    PROVE  Spec => []NoOrphan
<1>1. Init => IInv
  BY InitIInv, Zenon
<1>2. IInv /\ [Next]_vars => IInv'
  BY NextIInv, Zenon
<1>3. IInv => NoOrphan
  BY Zenon DEF IInv, Protocol
<1> QED
  BY <1>1, <1>2, <1>3, PTL DEF Spec

\* The ring is never overfilled, whatever happens between the space probe and the
\* deposit of a large write (Pipe::write caps by the space there is then).
THEOREM RingWithinCapacity ==
    ASSUME Console = {FALSE}
    PROVE  Spec => []WithinCapacity
<1>1. Init => IInv
  BY InitIInv, Zenon
<1>2. IInv /\ [Next]_vars => IInv'
  BY NextIInv, Zenon
<1>3. IInv => WithinCapacity
  BY Zenon DEF IInv
<1> QED
  BY <1>1, <1>2, <1>3, PTL DEF Spec

=============================================================================
