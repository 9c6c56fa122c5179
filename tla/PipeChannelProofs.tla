------------------------- MODULE PipeChannelProofs -------------------------
(***************************************************************************)
(* What the users of a pipe see, for any number of threads, processes and   *)
(* bytes, with or without the console backstop: the pipe implements the     *)
(* byte channel, write(2) reports what it deposited, the end counts are     *)
(* exact, and end of file is final.                                         *)
(***************************************************************************)
EXTENDS PipeChannel, Integers, FiniteSetTheorems, TLAPS

-----------------------------------------------------------------------------
(* The ends: RefsExact and EofIsFinal.                                      *)

\* Only a finished read reports end of file.
EofReported ==
    \A t \in Threads : out[t] = "eof" => pc[t] = "ret" /\ wend = {}

EndsType ==
    /\ born \subseteq Procs /\ rend \subseteq born /\ wend \subseteq born
    /\ exists \in BOOLEAN /\ readers \in Nat /\ writers \in Nat
    /\ pc \in [Threads -> PCs] /\ out \in [Threads -> Results]
    /\ then \in [Threads -> {"ret", "write"}]

EndsInv == EndsType /\ RefsExact /\ EofReported

\* The steps that leave the ends and their counts alone, and do not end a read.
LEMMA EndsFrame ==
    ASSUME EndsInv, NEW t \in Threads,
           UNCHANGED <<exists, readers, writers, born, rend, wend>>,
           then' \in [Threads -> {"ret", "write"}],
           \E l \in PCs : pc' = [pc EXCEPT ![t] = l],
           \/ /\ pc[t] # "ret" /\ UNCHANGED out
           \/ \E r \in Results \ {"eof"} : out' = [out EXCEPT ![t] = r]
    PROVE  EndsInv'
  BY DEF EndsInv, EndsType, RefsExact, EofReported

\* Adding or removing one process changes the number of open ends by one.
LEMMA OneEnd ==
    ASSUME NEW S \in SUBSET Procs, NEW p \in Procs
    PROVE  /\ IsFiniteSet(S) /\ Cardinality(S) \in Nat
           /\ p \notin S => Cardinality(S \union {p}) = Cardinality(S) + 1
           /\ p \in S => /\ Cardinality(S) > 0
                         /\ Cardinality(S \ {p}) = Cardinality(S) - 1
           /\ Cardinality(S) = 0 <=> S = {}
<1>1. IsFiniteSet(S) /\ Cardinality(S) \in Nat
  BY PipeAssumption, FS_Subset, FS_CardinalityType, Zenon
<1>2. p \notin S => Cardinality(S \union {p}) = Cardinality(S) + 1
  BY <1>1, FS_AddElement, Zenon
<1>3. Cardinality(S) = 0 <=> S = {}
  BY <1>1, FS_EmptySet, Zenon
<1>4. p \in S => Cardinality(S \ {p}) = Cardinality(S) - 1
  BY <1>1, FS_RemoveElement, Zenon
<1> QED
  BY <1>1, <1>2, <1>3, <1>4

LEMMA AdvanceEnds ==
    ASSUME EndsInv, NEW t \in Threads, Advance(t)
    PROVE  EndsInv'
<1> USE DEF EndsInv, EndsType, pipe, call, args, PCs, Results, Goto
<1>1. CASE PipeRead(t)
  BY <1>1, EndsFrame DEF PipeRead, Return, WakeThen, ends
<1>2. CASE ReadEmpty(t)
  <2>1. CASE Return(t, "eof")
    <3>1. /\ UNCHANGED <<exists, readers, writers, born, rend, wend, then>>
          /\ ~exists \/ writers = 0
      BY <1>2, <2>1, Zenon DEF ReadEmpty, Return, ends
    <3>2. wend = {}
      <4>1. Creator \in Procs /\ wend \in SUBSET Procs
        BY PipeAssumption, Zenon
      <4>2. Cardinality(wend) = 0 => wend = {}
        BY <4>1, OneEnd, Zenon
      <4> QED
        BY <3>1, <4>2, Zenon DEF RefsExact
    <3>3. EndsType' /\ RefsExact'
      BY <2>1, <3>1, Zenon DEF Return, RefsExact
    <3>4. EofReported'
      BY <2>1, <3>1, <3>2, Zenon DEF Return, EofReported
    <3> QED
      BY <3>3, <3>4, Zenon
  <2>2. CASE ~Return(t, "eof")
    <3>1. /\ UNCHANGED <<exists, readers, writers, born, rend, wend, then>>
          /\ pc[t] = "empty"
          /\ \/ Return(t, "EAGAIN") \/ Return(t, "EINTR") \/ (Goto(t, "park") /\ UNCHANGED out)
      BY <1>2, <2>2, Zenon DEF ReadEmpty, ends, Return
    <3> QED
      BY <3>1, EndsFrame, Zenon DEF Return
  <2> QED
    BY <2>1, <2>2, Zenon
<1>3. CASE WriteCheckReader(t)
  BY <1>3, EndsFrame DEF WriteCheckReader, ReturnErr, Return, ends
<1>4. CASE WriteAtomic(t)
  BY <1>4, EndsFrame DEF WriteAtomic, Return, WakeThen, ends
<1>5. CASE WriteProbe(t)
  BY <1>5, EndsFrame, Zenon DEF WriteProbe, ends
<1>6. CASE WritePut(t)
  BY <1>6, EndsFrame DEF WritePut, ReturnErr, Return, Deposited, ends
<1>7. CASE WriteFull(t)
  BY <1>7, EndsFrame, Zenon DEF WriteFull, ReturnErr, Return, ends
<1>8. CASE WriteDrainConsole(t)
  BY <1>8, EndsFrame, Zenon DEF WriteDrainConsole, ends
<1>9. CASE ParkCheck(t)
  BY <1>9, EndsFrame DEF ParkCheck, ReturnErr, Return, ends
<1>10. CASE ParkEnqueue(t)
  BY <1>10, EndsFrame, Zenon DEF ParkEnqueue, ends
<1>11. CASE Resume(t)
  BY <1>11, EndsFrame, Zenon DEF Resume, ends
<1>12. CASE Cleanup(t)
  BY <1>12, EndsFrame, Zenon DEF Cleanup, ends
<1>13. CASE WakeDrain(t)
  BY <1>13, EndsFrame, Zenon DEF WakeDrain, ends
<1>14. CASE WakeFlip(t)
  BY <1>14, EndsFrame, Zenon DEF WakeFlip, ends
<1>15. CASE UserReturn(t)
  BY <1>15, EndsFrame, Zenon DEF UserReturn, ends
<1> QED
  BY Zenon, <1>1, <1>2, <1>3, <1>4, <1>5, <1>6, <1>7, <1>8, <1>9, <1>10, <1>11, <1>12,
     <1>13, <1>14, <1>15 DEF Advance

LEMMA BeginEnds ==
    ASSUME EndsInv, NEW t \in Threads, Begin(t)
    PROVE  EndsInv'
<1> USE DEF EndsInv, EndsType, call, args, PCs, Results, Goto
<1>0. ProcOf[t] \in Procs
  BY PipeAssumption, Zenon
<1>1. CASE StartRead(t)
  BY <1>1, EndsFrame, Zenon DEF StartRead, Enter, pipe, ends
<1>2. CASE StartWrite(t)
  BY <1>2, EndsFrame, Zenon DEF StartWrite, Enter, pipe, ends
<1>3. CASE SetCapacity(t)
  BY <1>3, EndsFrame DEF SetCapacity, WakeThen, ends
<1>4. ASSUME NEW p \in Procs, Fork(t, p)
      PROVE  EndsInv'
  <2>0. p \notin rend /\ p \notin wend /\ rend \in SUBSET Procs /\ wend \in SUBSET Procs
    BY <1>4, Zenon DEF Fork
  <2>1. EndsType'
    BY <1>4, PipeAssumption DEF Fork
  <2>2. RefsExact'
    <3>1. /\ Cardinality(rend \union {p}) = Cardinality(rend) + 1
          /\ Cardinality(wend \union {p}) = Cardinality(wend) + 1
      BY <2>0, OneEnd, Zenon
    <3> QED
      BY <1>4, <3>1, Zenon DEF Fork, RefsExact
  <2>3. EofReported'
    BY <1>4, Zenon DEF Fork, EofReported
  <2> QED
    BY <2>1, <2>2, <2>3, Zenon
<1>5. CASE CloseWriter(t)
  <2>1. EndsType'
    BY <1>0, <1>5 DEF CloseWriter, WakeThen
  <2>2. RefsExact'
    <3>1. /\ rend \in SUBSET Procs /\ wend \in SUBSET Procs
          /\ ProcOf[t] \in wend
      BY <1>5, Zenon DEF CloseWriter
    <3>2. /\ Cardinality(wend) \in Nat /\ Cardinality(wend) > 0
          /\ Cardinality(wend \ {ProcOf[t]}) = Cardinality(wend) - 1
      BY <1>0, <3>1, OneEnd, Zenon
    <3>3. /\ Cardinality(wend \ {ProcOf[t]}) = 0 => wend \ {ProcOf[t]} = {}
          /\ Cardinality(wend) = 0 => wend = {}
      <4>1. wend \ {ProcOf[t]} \in SUBSET Procs
        BY <3>1, Zenon
      <4> QED
        BY <1>0, <3>1, <4>1, OneEnd, Zenon
    <3> QED
      BY <1>5, <3>2, <3>3, Zenon DEF CloseWriter, RefsExact
  <2>3. EofReported'
    BY <1>5, Zenon DEF CloseWriter, WakeThen, EofReported
  <2> QED
    BY <2>1, <2>2, <2>3, Zenon
<1>6. CASE CloseReader(t)
  <2>1. EndsType'
    BY <1>0, <1>6 DEF CloseReader, WakeThen
  <2>2. RefsExact'
    <3>1. /\ rend \in SUBSET Procs /\ wend \in SUBSET Procs
          /\ ProcOf[t] \in rend
      BY <1>6, Zenon DEF CloseReader
    <3>2. /\ Cardinality(rend) \in Nat /\ Cardinality(rend) > 0
          /\ Cardinality(rend \ {ProcOf[t]}) = Cardinality(rend) - 1
      BY <1>0, <3>1, OneEnd, Zenon
    <3>3. /\ Cardinality(rend \ {ProcOf[t]}) = 0 => rend \ {ProcOf[t]} = {}
          /\ Cardinality(wend) = 0 => wend = {}
      <4>1. rend \ {ProcOf[t]} \in SUBSET Procs
        BY <3>1, Zenon
      <4> QED
        BY <1>0, <3>1, <4>1, OneEnd, Zenon
    <3> QED
      BY <1>6, <3>2, <3>3 DEF CloseReader, RefsExact
  <2>3. EofReported'
    BY <1>6, Zenon DEF CloseReader, WakeThen, EofReported
  <2> QED
    BY <2>1, <2>2, <2>3, Zenon
<1> QED
  BY <1>1, <1>2, <1>3, <1>4, <1>5, <1>6, Zenon DEF Begin

LEMMA EndsInvariant ==
    Spec => []EndsInv
<1>1. Init => EndsInv
  <2> SUFFICES ASSUME Init
               PROVE  EndsInv
    BY Zenon
  <2> USE PipeAssumption DEF Init, EndsInv
  <2>1. EndsType
    BY Zenon DEF EndsType, PCs, Results
  <2>2. RefsExact
    <3>1. Cardinality({Creator}) = 1
      BY FS_Singleton, Zenon
    <3> QED
      BY <3>1, Zenon DEF RefsExact
  <2>3. EofReported
    BY Zenon DEF EofReported
  <2> QED
    BY <2>1, <2>2, <2>3, Zenon
<1>2. EndsInv /\ [Next]_vars => EndsInv'
  <2> SUFFICES ASSUME EndsInv, [Next]_vars
               PROVE  EndsInv'
    BY Zenon
  <2>1. ASSUME NEW p \in Killable, Kill(p)
        PROVE  EndsInv'
    BY <2>1, Zenon DEF Kill, pipe, ends, call, args, EndsInv, EndsType, RefsExact, EofReported
  <2>2. CASE UNCHANGED vars
    BY <2>2, Zenon DEF vars, pipe, ends, call, args, EndsInv, EndsType, RefsExact, EofReported
  <2> QED
    BY <2>1, <2>2, AdvanceEnds, BeginEnds, Zenon DEF Next
<1> QED
  BY <1>1, <1>2, PTL DEF Spec

\* The reader and writer counts that fork, dup and close maintain are exactly the
\* numbers of open ends, and PIPE_TABLE drops a pipe only when no end is open.
THEOREM EndCountsExact == Spec => []RefsExact
<1>1. EndsInv => RefsExact
  BY Zenon DEF EndsInv
<1> QED
  BY <1>1, EndsInvariant, PTL

\* A read(2) that reports end of file is right: no write end is open any more.
THEOREM EofIsRight == Spec => []EofIsFinal
<1>1. EndsInv => EofIsFinal
  BY Zenon DEF EndsInv, EofReported, EofIsFinal
<1> QED
  BY <1>1, EndsInvariant, PTL

-----------------------------------------------------------------------------
(* The record: which write call every byte belongs to.                      *)

RecordType ==
    /\ buf \in Seq(Nat) /\ cap \in Caps
    /\ sizes \in Seq(WriteSizes) /\ stream \in Seq(Nat)
    /\ side \in [Threads -> Queues] /\ len \in [Threads -> Nat]
    /\ id \in [Threads -> Nat] /\ total \in [Threads -> Nat] /\ room \in [Threads -> Int]
    /\ then \in [Threads -> {"ret", "write"}] /\ pc \in [Threads -> PCs]

\* A write in progress is the write call it was numbered, no other thread has
\* that number, and every byte deposited belongs to a call made.
Numbered ==
    /\ \A t \in Threads : side[t] = "W" =>
          id[t] \in 1..Len(sizes) /\ sizes[id[t]] = len[t]
    /\ \A t, u \in Threads : side[t] = "W" /\ side[u] = "W" /\ id[t] = id[u] => t = u
    /\ \A i \in 1..Len(stream) : stream[i] <= Len(sizes)

Writing == {"write", "deposit", "probe", "put", "full", "drain"}
Done == {"wake", "flip", "ret"}

\* The two arms of pipe_write_blocking stay apart.
Arms ==
    \A t \in Threads :
        /\ pc[t] = "idle" => side[t] = "R"
        /\ pc[t] \in Writing => side[t] = "W"
        /\ pc[t] = "deposit" => Atomic(t)
        /\ pc[t] \in {"probe", "put"} => ~Atomic(t)
        /\ then[t] = "write" => side[t] = "W" /\ ~Atomic(t)

\* A small write has deposited nothing until it is done.
Fresh ==
    \A t \in Threads : side[t] = "W" /\ Atomic(t) /\ pc[t] \notin Done =>
        \A i \in 1..Len(stream) : stream[i] # id[t]

RecordInv == RecordType /\ Numbered /\ Arms /\ Fresh

\* The steps that keep the call and the bytes deposited.
LEMMA RecordFrame ==
    ASSUME RecordInv, NEW t \in Threads, NEW l \in PCs,
           UNCHANGED <<side, len, id, sizes, stream>>,
           buf' \in Seq(Nat), cap' \in Caps,
           total' \in [Threads -> Nat], room' \in [Threads -> Int],
           then' = then \/ then' = [then EXCEPT ![t] = "ret"],
           pc' = [pc EXCEPT ![t] = l],
           l \in Writing => side[t] = "W",
           l = "idle" => side[t] = "R",
           l = "deposit" => Atomic(t),
           l \in {"probe", "put"} => ~Atomic(t),
           pc[t] \notin Done \/ l \in Done \/ side[t] = "R" \/ ~Atomic(t)
    PROVE  RecordInv'
<1>1. RecordType'
  BY Zenon DEF RecordInv, RecordType
<1>2. Numbered'
  BY Zenon DEF RecordInv, Numbered
<1>3. Arms'
  BY Zenon DEF RecordInv, RecordType, Arms, Atomic
<1>4. Fresh'
  BY Zenon DEF RecordInv, RecordType, Fresh, Atomic
<1> QED
  BY <1>1, <1>2, <1>3, <1>4, Zenon DEF RecordInv

\* Fewer bytes: what is left of the ring is a ring.
LEMMA DropBytes ==
    ASSUME NEW b \in Seq(Nat), NEW n \in 0..Len(b)
    PROVE  SubSeq(b, n + 1, Len(b)) \in Seq(Nat)
  OBVIOUS

\* n more bytes x at the end: the old ones stay where they are.
LEMMA MoreBytes ==
    ASSUME NEW b \in Seq(Nat), NEW n \in Nat, NEW x \in Nat
    PROVE  LET c == b \o [i \in 1..n |-> x]
           IN  /\ c \in Seq(Nat) /\ Len(c) = Len(b) + n
               /\ \A i \in 1..Len(c) : c[i] = IF i <= Len(b) THEN b[i] ELSE x
<1> DEFINE s == [i \in 1..n |-> x]
<1>1. s \in Seq(Nat) /\ Len(s) = n
  OBVIOUS
<1>2. \A i \in 1..n : s[i] = x
  BY Zenon
<1> HIDE DEF s
<1>3. /\ b \o s \in Seq(Nat) /\ Len(b \o s) = Len(b) + n
      /\ \A i \in 1..Len(b \o s) : (b \o s)[i] = IF i <= Len(b) THEN b[i] ELSE x
  BY <1>1, <1>2
<1> QED
  BY <1>3, Zenon DEF s

\* A deposit by a write whose bytes are not (or need not be) in the stream yet.
LEMMA PutRecord ==
    ASSUME RecordInv, NEW t \in Threads, NEW n \in Nat, Put(t, n),
           UNCHANGED <<side, len, id, sizes, cap>>,
           pc[t] \in {"deposit", "put"}, pc' = [pc EXCEPT ![t] = "wake"],
           total' \in [Threads -> Nat], room' \in [Threads -> Int],
           \/ then' = [then EXCEPT ![t] = "ret"]
           \/ pc[t] = "put" /\ then' = [then EXCEPT ![t] = "write"]
    PROVE  RecordInv'
<1>1. /\ buf \in Seq(Nat) /\ stream \in Seq(Nat) /\ id[t] \in Nat /\ Len(stream) \in Nat
      /\ side[t] = "W" /\ id[t] \in 1..Len(sizes) /\ Len(sizes) \in Nat
  BY DEF RecordInv, RecordType, Numbered, Arms, Writing
<1>2. /\ buf' \in Seq(Nat) /\ stream' \in Seq(Nat) /\ Len(stream') = Len(stream) + n
      /\ \A i \in 1..Len(stream') :
            stream'[i] = IF i <= Len(stream) THEN stream[i] ELSE id[t]
  BY <1>1, MoreBytes DEF Put
<1>b. ASSUME NEW i \in 1..Len(stream')
      PROVE  stream'[i] = id[t] \/ (\E j \in 1..Len(stream) : stream'[i] = stream[j])
  <2>1. CASE i <= Len(stream)
    BY <1>1, <1>2, <2>1
  <2>2. CASE ~(i <= Len(stream))
    BY <1>1, <1>2, <2>2, Zenon
  <2> QED
    BY <2>1, <2>2, Zenon
<1>3. RecordType'
  BY <1>2, Zenon DEF RecordInv, RecordType, PCs
<1>4. Numbered'
  <2>1. \A i \in 1..Len(stream') : stream'[i] <= Len(sizes)
    <3>1. \A i \in 1..Len(stream) : stream[i] <= Len(sizes)
      BY Zenon DEF RecordInv, Numbered
    <3>2. id[t] <= Len(sizes)
      BY <1>1
    <3> QED
      BY <1>b, <3>1, <3>2, Zenon
  <2> QED
    BY <2>1, Zenon DEF RecordInv, Numbered
<1>5. Arms'
  BY <1>1, Zenon DEF RecordInv, RecordType, Arms, Atomic, Writing
<1>6. Fresh'
  <2> SUFFICES ASSUME NEW u \in Threads, side[u] = "W", Atomic(u), pc'[u] \notin Done,
                      NEW i \in 1..Len(stream')
               PROVE  stream'[i] # id[u]
    BY Zenon DEF Fresh, Atomic
  <2>1. u # t /\ pc'[u] = pc[u]
    BY Zenon DEF RecordInv, RecordType, Done
  <2>2. id[u] # id[t]
    BY <1>1, <2>1, Zenon DEF RecordInv, Numbered
  <2>3. \A j \in 1..Len(stream) : stream[j] # id[u]
    BY <2>1, Zenon DEF RecordInv, Fresh
  <2> QED
    BY <1>b, <2>2, <2>3, Zenon
<1> QED
  BY <1>3, <1>4, <1>5, <1>6, Zenon DEF RecordInv

-----------------------------------------------------------------------------
(* RecordInv is inductive.                                                  *)

LEMMA InitRecord == Init => RecordInv
<1> SUFFICES ASSUME Init PROVE RecordInv
  BY Zenon
<1> USE DEF Init
<1>1. RecordType
  BY PipeAssumption DEF RecordType, PCs, Queues
<1>2. Numbered /\ Fresh
  BY DEF Numbered, Fresh
<1>3. Arms
  BY Zenon DEF Arms, Writing
<1> QED
  BY <1>1, <1>2, <1>3, Zenon DEF RecordInv

LEMMA AdvanceRecord ==
    ASSUME RecordInv, NEW t \in Threads, Advance(t)
    PROVE  RecordInv'
<1>0. RecordType /\ Arms /\ PipeBuf \in Nat
  BY PipeAssumption, Zenon DEF RecordInv
<1> USE DEF Goto, call, args, pipe, hist, PCs, Writing, Done
<1>1. CASE PipeRead(t)
  <2>1. pc[t] = "read" /\ buf' \in Seq(Nat)
    <3> DEFINE n == Min2(len[t], Len(buf))
    <3>1. n \in 0..Len(buf)
      BY <1>0 DEF RecordType, Min2
    <3>2. SubSeq(buf, n + 1, Len(buf)) \in Seq(Nat)
      BY <1>0, <3>1, DropBytes, Zenon DEF RecordType
    <3> QED
      BY <1>0, <1>1, <3>2, Zenon DEF PipeRead, RecordType
  <2>2. /\ UNCHANGED <<side, len, id, sizes, stream, cap, total, room>>
        /\ then' = then \/ then' = [then EXCEPT ![t] = "ret"]
        /\ \E l \in {"wake", "ret", "empty"} : pc' = [pc EXCEPT ![t] = l]
    BY <1>1, Zenon DEF PipeRead, Return, WakeThen
  <2> QED
    BY <1>0, <2>1, <2>2, RecordFrame, Zenon DEF RecordType
<1>2. CASE ReadEmpty(t)
  <2>1. /\ pc[t] = "empty" /\ UNCHANGED <<side, len, id, sizes, stream, buf, cap, total, room, then>>
        /\ \E l \in {"ret", "park"} : pc' = [pc EXCEPT ![t] = l]
    BY <1>2, Zenon DEF ReadEmpty, Return
  <2> QED
    BY <1>0, <2>1, RecordFrame, Zenon DEF RecordType
<1>3. CASE WriteCheckReader(t)
  <2>1. /\ pc[t] = "write" /\ UNCHANGED <<side, len, id, sizes, stream, buf, cap, total, room, then>>
        /\ \E l \in {"ret", "deposit", "probe"} :
              /\ pc' = [pc EXCEPT ![t] = l]
              /\ l = "deposit" => Atomic(t)
              /\ l = "probe" => ~Atomic(t)
    BY <1>3, Zenon DEF WriteCheckReader, ReturnErr, Return
  <2> QED
    BY <1>0, <2>1, RecordFrame, Zenon DEF RecordType, Arms
<1>4. CASE WriteAtomic(t)
  <2>1. CASE Put(t, len[t]) /\ WakeThen(t, "R", None, "ret", "ok")
    BY <1>0, <1>4, <2>1, PutRecord, Zenon DEF WriteAtomic, WakeThen, RecordType
  <2>2. CASE UNCHANGED <<buf, stream>> /\ (Return(t, "EBADF") \/ (Goto(t, "full") /\ UNCHANGED call))
    BY <1>0, <1>4, <2>2, RecordFrame DEF WriteAtomic, Return, RecordType, Arms
  <2> QED
    BY <1>4, <2>1, <2>2, Zenon DEF WriteAtomic
<1>5. CASE WriteProbe(t)
  <2> DEFINE n == IF exists THEN Min2(Space, len[t] - total[t]) ELSE 0
  <2>1. n \in Int
    BY <1>0, PipeAssumption DEF RecordType, Min2, Space
  <2>2. /\ room' = [room EXCEPT ![t] = n] /\ pc[t] = "probe"
        /\ UNCHANGED <<side, len, id, sizes, stream, buf, cap, total, then>>
        /\ \E l \in {"put", "full"} : pc' = [pc EXCEPT ![t] = l]
    BY <1>5, Zenon DEF WriteProbe
  <2> HIDE DEF n
  <2>3. room' \in [Threads -> Int]
    BY <1>0, <2>1, <2>2, Zenon DEF RecordType
  <2> QED
    BY <1>0, <2>2, <2>3, RecordFrame, Zenon DEF RecordType, Arms
<1>6. CASE WritePut(t)
  <2> DEFINE n == Min2(room[t], Space)
  <2>1. n \in Int
    BY <1>0, PipeAssumption DEF RecordType, Min2, Space
  <2>2. /\ pc[t] = "put" /\ UNCHANGED <<sizes, cap>>
        /\ \/ n > 0 /\ Put(t, n) /\ Deposited(t, n)
           \/ /\ UNCHANGED <<buf, stream>>
              /\ ReturnErr(t, "EBADF") \/ (Goto(t, "write") /\ UNCHANGED call)
    BY <1>6, Zenon DEF WritePut
  <2> HIDE DEF n
  <2>3. CASE n > 0 /\ Put(t, n) /\ Deposited(t, n)
    <3>1. n \in Nat
      BY <2>1, <2>3
    <3>2. total' \in [Threads -> Nat] /\ room' \in [Threads -> Int]
      BY <1>0, <2>3, <3>1 DEF Deposited, RecordType
    <3> QED
      BY <1>0, <2>2, <2>3, <3>1, <3>2, PutRecord, Zenon DEF Deposited
  <2>4. CASE UNCHANGED <<buf, stream>> /\ (ReturnErr(t, "EBADF") \/ (Goto(t, "write") /\ UNCHANGED call))
    <3>1. /\ pc[t] = "put" /\ UNCHANGED <<side, len, id, sizes, stream, buf, cap, total, room, then>>
          /\ \E l \in {"ret", "write"} : pc' = [pc EXCEPT ![t] = l]
      BY <2>2, <2>4, Zenon DEF ReturnErr, Return
    <3> QED
      BY <1>0, <3>1, RecordFrame, Zenon DEF RecordType, Arms
  <2> QED
    BY <2>2, <2>3, <2>4, Zenon
<1>7. CASE WriteFull(t)
  BY <1>0, <1>7, RecordFrame DEF WriteFull, ReturnErr, Return, RecordType, Arms
<1>8. CASE WriteDrainConsole(t)
  <2> DEFINE n == IF exists THEN Min2(PipeBuf, Len(buf)) ELSE 0
             got == room[t] + n
  <2>1. n \in 0..Len(buf) /\ got \in Int
    BY <1>0, PipeAssumption DEF RecordType, Min2
  <2>2. SubSeq(buf, n + 1, Len(buf)) \in Seq(Nat)
    BY <1>0, <2>1, DropBytes, Zenon DEF RecordType
  <2>3. /\ pc[t] = "drain" /\ buf' = SubSeq(buf, n + 1, Len(buf))
        /\ room' = [room EXCEPT ![t] = IF n = PipeBuf THEN got ELSE 0]
        /\ UNCHANGED <<side, len, id, sizes, stream, cap, total, then>>
        /\ \E l \in {"drain", "write", "park"} : pc' = [pc EXCEPT ![t] = l]
    BY <1>8, Zenon DEF WriteDrainConsole
  <2> HIDE DEF n, got
  <2>4. room' \in [Threads -> Int]
    BY <1>0, <2>1, <2>3 DEF RecordType
  <2> QED
    BY <1>0, <2>2, <2>3, <2>4, RecordFrame, Zenon DEF RecordType, Arms
<1>9. CASE ParkCheck(t)
  <2>1. /\ pc[t] = "park" /\ UNCHANGED <<side, len, id, sizes, stream, buf, cap, total, room, then>>
        /\ \E l \in {"ret", "read", "write", "enqueue"} :
              pc' = [pc EXCEPT ![t] = l] /\ (l = "write" => side[t] # "R")
    BY <1>9, Zenon DEF ParkCheck, ReturnErr, Return
  <2> QED
    BY <1>0, <2>1, RecordFrame, Zenon DEF RecordType, Queues
<1>10. CASE ParkEnqueue(t)
  BY <1>0, <1>10, RecordFrame, Zenon DEF ParkEnqueue, RecordType
<1>11. CASE Resume(t)
  BY <1>0, <1>11, RecordFrame, Zenon DEF Resume, RecordType
<1>12. CASE Cleanup(t)
  BY <1>0, <1>12, RecordFrame, Zenon DEF Cleanup, RecordType, Queues
<1>13. CASE WakeDrain(t)
  BY <1>0, <1>13, RecordFrame, Zenon DEF WakeDrain, RecordType
<1>14. CASE WakeFlip(t)
  BY <1>0, <1>14, RecordFrame, Zenon DEF WakeFlip, RecordType, Arms
<1>15. CASE UserReturn(t)
  <2>1. RecordType'
    BY <1>0, <1>15 DEF UserReturn, RecordType, Queues
  <2>2. Numbered' /\ Arms'
    BY <1>0, <1>15 DEF UserReturn, RecordInv, RecordType, Numbered, Arms, Atomic
  <2>3. Fresh'
    BY <1>0, <1>15, Zenon DEF UserReturn, RecordInv, RecordType, Fresh, Atomic
  <2> QED
    BY <2>1, <2>2, <2>3, Zenon DEF RecordInv
<1> QED
  BY Zenon, <1>1, <1>2, <1>3, <1>4, <1>5, <1>6, <1>7, <1>8, <1>9, <1>10, <1>11, <1>12,
     <1>13, <1>14, <1>15 DEF Advance

LEMMA StartWriteRecord ==
    ASSUME RecordInv, NEW t \in Threads, StartWrite(t)
    PROVE  RecordInv' /\ \E n \in WriteSizes : Channel!Call(n)
<1>0. RecordType /\ Numbered /\ Arms /\ Fresh
  BY Zenon DEF RecordInv
<1>1. PICK n \in WriteSizes :
         /\ sizes' = Append(sizes, n)
         /\ \E b \in NbFlags : Enter(t, "W", n, b, Len(sizes) + 1)
  BY Zenon DEF StartWrite
<1>2. /\ pc[t] = "idle" /\ pc' = [pc EXCEPT ![t] = "write"]
      /\ side' = [side EXCEPT ![t] = "W"] /\ len' = [len EXCEPT ![t] = n]
      /\ id' = [id EXCEPT ![t] = Len(sizes) + 1]
      /\ UNCHANGED <<buf, cap, stream, total, room, then>>
  BY <1>1, Zenon DEF StartWrite, Enter, Goto, pipe
<1>3. /\ n \in Nat /\ Len(sizes) \in Nat /\ sizes' \in Seq(WriteSizes)
      /\ Len(sizes') = Len(sizes) + 1 /\ sizes'[Len(sizes) + 1] = n
      /\ \A i \in 1..Len(sizes) : sizes'[i] = sizes[i]
  BY <1>0, <1>1, PipeAssumption DEF RecordType
<1>4. RecordType'
  BY <1>0, <1>2, <1>3 DEF RecordType, PCs, Queues
<1>5. Numbered'
  <2>1. \A u \in Threads : side'[u] = "W" => id'[u] \in 1..Len(sizes') /\ sizes'[id'[u]] = len'[u]
    <3> SUFFICES ASSUME NEW u \in Threads, side'[u] = "W"
                 PROVE  id'[u] \in 1..Len(sizes') /\ sizes'[id'[u]] = len'[u]
      BY Zenon
    <3>1. CASE u = t
      BY <1>0, <1>2, <1>3, <3>1 DEF RecordType
    <3>2. CASE u # t
      <4>1. side[u] = "W" /\ id'[u] = id[u] /\ len'[u] = len[u]
        BY <1>0, <1>2, <3>2, Zenon DEF RecordType
      <4>2. id[u] \in 1..Len(sizes) /\ sizes[id[u]] = len[u]
        BY <1>0, <4>1, Zenon DEF Numbered
      <4> QED
        BY <1>3, <4>1, <4>2
    <3> QED
      BY <3>1, <3>2, Zenon
  <2>2. \A u \in Threads \ {t} : side[u] = "W" => id[u] # Len(sizes) + 1
    BY <1>0, <1>3 DEF Numbered
  <2>3. \A u, v \in Threads : side'[u] = "W" /\ side'[v] = "W" /\ id'[u] = id'[v] => u = v
    BY <1>0, <1>2, <2>2 DEF Numbered, RecordType
  <2>4. \A i \in 1..Len(stream') : stream'[i] <= Len(sizes')
    BY <1>0, <1>2, <1>3 DEF Numbered, RecordType
  <2> QED
    BY <2>1, <2>3, <2>4, Zenon DEF Numbered
<1>6. Arms'
  BY <1>0, <1>2, Zenon DEF Arms, RecordType, Atomic, Writing
<1>7. Fresh'
  <2>1. \A i \in 1..Len(stream) : stream[i] # Len(sizes) + 1
    BY <1>0, <1>3 DEF Numbered, RecordType
  <2> QED
    BY <1>0, <1>2, <2>1, Zenon DEF Fresh, RecordType, Atomic, Done
<1>8. Channel!Call(n)
  BY <1>1, <1>2, Zenon DEF Channel!Call
<1> QED
  BY <1>4, <1>5, <1>6, <1>7, <1>8, Zenon DEF RecordInv

LEMMA BeginRecord ==
    ASSUME RecordInv, NEW t \in Threads, Begin(t)
    PROVE  RecordInv'
<1>0. RecordType /\ Arms
  BY Zenon DEF RecordInv
<1> USE DEF Goto, call, args, pipe, hist, PCs, Writing, Done
<1>1. CASE StartRead(t)
  <2>1. /\ pc[t] = "idle" /\ pc' = [pc EXCEPT ![t] = "read"]
        /\ side' = [side EXCEPT ![t] = "R"]
        /\ \E n \in ReadSizes : len' = [len EXCEPT ![t] = n]
        /\ id' = [id EXCEPT ![t] = 0]
        /\ UNCHANGED <<buf, cap, sizes, stream, total, room, then>>
    BY <1>1, Zenon DEF StartRead, Enter
  <2>2. RecordType'
    BY <1>0, <2>1, PipeAssumption DEF RecordType, Queues
  <2>3. Numbered'
    BY <1>0, <2>1, Zenon DEF RecordInv, RecordType, Numbered
  <2>4. Arms' /\ Fresh'
    BY <1>0, <2>1 DEF RecordInv, RecordType, Arms, Fresh, Atomic
  <2> QED
    BY <2>2, <2>3, <2>4, Zenon DEF RecordInv
<1>2. CASE StartWrite(t)
  BY <1>2, StartWriteRecord, Zenon
<1>3. ASSUME UNCHANGED <<side, len, id, sizes, stream, buf, total, room>>, cap' \in Caps,
             pc[t] = "idle",
             \/ UNCHANGED <<pc, then>>
             \/ pc' = [pc EXCEPT ![t] = "wake"] /\ then' = [then EXCEPT ![t] = "ret"]
      PROVE  RecordInv'
  <2>1. side[t] = "R" /\ (pc' = [pc EXCEPT ![t] = "idle"] \/ pc' = [pc EXCEPT ![t] = "wake"])
    BY <1>0, <1>3, Zenon DEF Arms, RecordType
  <2>2. then' = then \/ then' = [then EXCEPT ![t] = "ret"]
    BY <1>3, Zenon
  <2> QED
    BY <1>0, <1>3, <2>1, <2>2, RecordFrame, Zenon DEF RecordType
<1>4. CASE CloseWriter(t)
  BY <1>0, <1>3, <1>4, Zenon DEF CloseWriter, WakeThen, RecordType
<1>5. CASE CloseReader(t)
  BY <1>0, <1>3, <1>5, Zenon DEF CloseReader, WakeThen, RecordType
<1>6. CASE SetCapacity(t)
  BY <1>0, <1>3, <1>6, Zenon DEF SetCapacity, WakeThen, RecordType
<1>7. CASE \E p \in Procs : Fork(t, p)
  BY <1>0, <1>3, <1>7, Zenon DEF Fork, RecordType
<1> QED
  BY <1>1, <1>2, <1>4, <1>5, <1>6, <1>7, Zenon DEF Begin

LEMMA NextRecord == RecordInv /\ [Next]_vars => RecordInv'
<1> SUFFICES ASSUME RecordInv, [Next]_vars PROVE RecordInv'
  BY Zenon
<1>1. CASE \E t \in Threads : Advance(t) \/ Begin(t)
  BY <1>1, AdvanceRecord, BeginRecord, Zenon
<1>2. CASE UNCHANGED <<pc, call, pipe, hist>>
  BY <1>2, Zenon DEF RecordInv, RecordType, Numbered, Arms, Fresh, Atomic, call, args, pipe, hist
<1>3. CASE \E p \in Killable : Kill(p)
  BY <1>2, <1>3, Zenon DEF Kill
<1> QED
  BY <1>1, <1>2, <1>3, Zenon DEF Next, vars

-----------------------------------------------------------------------------
(* Every step of the pipe is a step of the channel, or a stutter.           *)

\* A prefix leaves the ring, or nothing does.
LEMMA DropTakes ==
    ASSUME buf \in Seq(Nat), NEW n \in 0..Len(buf),
           buf' = SubSeq(buf, n + 1, Len(buf)), UNCHANGED <<cap, sizes, stream>>
    PROVE  Channel!ChNext \/ UNCHANGED Channel!chVars
<1>1. CASE n = 0
  BY <1>1 DEF Channel!chVars
<1>2. CASE n > 0
  <2>1. Channel!TakeBytes(n) /\ n \in 1..Len(buf)
    BY <1>2 DEF Channel!TakeBytes
  <2> QED
    BY <2>1, Zenon DEF Channel!ChNext
<1> QED
  BY <1>1, <1>2

\* A deposit is one PutBytes of the call's number.
LEMMA PutPuts ==
    ASSUME RecordInv, NEW t \in Threads, NEW n \in Nat, n > 0, Len(buf) + n <= cap,
           Put(t, n), pc[t] \in {"deposit", "put"}, pc[t] = "deposit" => n = len[t],
           UNCHANGED <<cap, sizes>>
    PROVE  Channel!ChNext
<1>1. /\ id[t] \in 1..Len(sizes) /\ sizes[id[t]] = len[t] /\ cap \in Nat /\ Len(buf) \in Nat
      /\ pc[t] = "put" => ~(len[t] <= PipeBuf)
      /\ pc[t] = "deposit" => \A i \in 1..Len(stream) : stream[i] # id[t]
  <2>1. /\ side[t] = "W" /\ (pc[t] = "put" => ~(len[t] <= PipeBuf))
        /\ pc[t] = "deposit" => len[t] <= PipeBuf
    BY Zenon DEF RecordInv, Arms, Writing, Atomic
  <2>2. id[t] \in 1..Len(sizes) /\ sizes[id[t]] = len[t]
    BY <2>1, Zenon DEF RecordInv, Numbered
  <2>3. pc[t] = "deposit" => \A i \in 1..Len(stream) : stream[i] # id[t]
    BY <2>1, Zenon DEF RecordInv, Fresh, Done, Atomic
  <2>4. cap \in Nat /\ Len(buf) \in Nat
    BY PipeAssumption DEF RecordInv, RecordType
  <2> QED
    BY <2>1, <2>2, <2>3, <2>4, Zenon
<1>2. n \in 1..cap
  BY <1>1
<1>3. Channel!PutBytes(id[t], n)
  BY <1>1, Zenon DEF Channel!PutBytes, Put
<1> QED
  BY <1>1, <1>2, <1>3, Zenon DEF Channel!ChNext

LEMMA AdvanceRefines ==
    ASSUME RecordInv, NEW t \in Threads, Advance(t)
    PROVE  Channel!ChNext \/ UNCHANGED Channel!chVars
<1>0. RecordType /\ buf \in Seq(Nat) /\ cap \in Nat /\ len[t] \in Nat /\ room[t] \in Int
  BY PipeAssumption, Zenon DEF RecordInv, RecordType
<1>q. CASE UNCHANGED <<buf, cap, sizes, stream>>
  BY <1>q, Zenon DEF Channel!chVars
<1>1. CASE PipeRead(t)
  <2> DEFINE n == Min2(len[t], Len(buf))
  <2>1. n \in 0..Len(buf)
    BY <1>0 DEF Min2
  <2>2. /\ UNCHANGED <<cap, sizes, stream>>
        /\ buf' = buf \/ buf' = SubSeq(buf, n + 1, Len(buf))
    BY <1>1, Zenon DEF PipeRead, hist
  <2> HIDE DEF n
  <2> QED
    BY <1>0, <1>q, <2>1, <2>2, DropTakes, Zenon
<1>2. CASE WriteDrainConsole(t)
  <2> DEFINE n == IF exists THEN Min2(PipeBuf, Len(buf)) ELSE 0
  <2>1. n \in 0..Len(buf)
    BY <1>0, PipeAssumption DEF Min2
  <2>2. UNCHANGED <<cap, sizes, stream>> /\ buf' = SubSeq(buf, n + 1, Len(buf))
    BY <1>2, Zenon DEF WriteDrainConsole, hist
  <2> HIDE DEF n
  <2> QED
    BY <1>0, <2>1, <2>2, DropTakes, Zenon
<1>3. CASE WriteAtomic(t)
  <2>1. CASE UNCHANGED <<buf, stream>>
    BY <1>3, <1>q, <2>1, Zenon DEF WriteAtomic
  <2>2. CASE Space >= len[t] /\ Put(t, len[t])
    <3>1. /\ Len(buf) + len[t] <= cap /\ pc[t] = "deposit" /\ UNCHANGED <<cap, sizes>>
      BY <1>0, <1>3, <2>2 DEF WriteAtomic, Space
    <3>2. len[t] > 0
      <4>1. id[t] \in 1..Len(sizes) /\ sizes[id[t]] = len[t]
        BY <3>1, Zenon DEF RecordInv, Numbered, Arms, Writing
      <4>2. sizes[id[t]] \in WriteSizes
        BY <1>0, <4>1 DEF RecordType
      <4>3. WriteSizes \subseteq Nat \ {0}
        BY PipeAssumption, Zenon
      <4>4. len[t] \in Nat \ {0}
        BY <4>1, <4>2, <4>3, Zenon
      <4> QED
        BY <4>4
    <3> QED
      BY <1>0, <2>2, <3>1, <3>2, PutPuts, Zenon
  <2> QED
    BY <1>3, <2>1, <2>2, Zenon DEF WriteAtomic
<1>4. CASE WritePut(t)
  <2> DEFINE n == Min2(room[t], Space)
  <2>1. n \in Int /\ Len(buf) + n <= cap
    BY <1>0 DEF Min2, Space
  <2>2. /\ pc[t] = "put" /\ UNCHANGED <<cap, sizes>>
        /\ UNCHANGED <<buf, stream>> \/ (n > 0 /\ Put(t, n))
    BY <1>4, Zenon DEF WritePut
  <2> HIDE DEF n
  <2> QED
    BY <1>q, <2>1, <2>2, PutPuts
<1>5. CASE UNCHANGED <<pipe, hist>>
  BY <1>5, <1>q, Zenon DEF pipe, hist
<1> QED
  BY <1>1, <1>2, <1>3, <1>4, <1>5, Zenon
     DEF Advance, ReadEmpty, WriteCheckReader, WriteProbe, WriteFull, ParkCheck, ParkEnqueue,
         Resume, Cleanup, WakeDrain, WakeFlip, UserReturn

LEMMA NextRefines ==
    RecordInv /\ [Next]_vars => [Channel!ChNext]_(Channel!chVars)
<1> SUFFICES ASSUME RecordInv, [Next]_vars
             PROVE  Channel!ChNext \/ UNCHANGED Channel!chVars
  BY Zenon
<1>q. CASE UNCHANGED <<buf, cap, sizes, stream>>
  BY <1>q, Zenon DEF Channel!chVars
<1>1. CASE \E t \in Threads : Advance(t)
  BY <1>1, AdvanceRefines, Zenon
<1>2. ASSUME NEW t \in Threads, Begin(t)
      PROVE  Channel!ChNext \/ UNCHANGED Channel!chVars
  <2>1. CASE StartWrite(t)
    BY <2>1, StartWriteRecord, Zenon DEF Channel!ChNext
  <2>2. CASE SetCapacity(t)
    <3>1. Channel!Resize
      BY <2>2, Zenon DEF SetCapacity, Channel!Resize, hist
    <3> QED
      BY <3>1, Zenon DEF Channel!ChNext
  <2>3. CASE StartRead(t) \/ CloseWriter(t) \/ CloseReader(t) \/ \E p \in Procs : Fork(t, p)
    BY <1>q, <2>3, Zenon DEF StartRead, CloseWriter, CloseReader, Fork, pipe, hist
  <2> QED
    BY <1>2, <2>1, <2>2, <2>3, Zenon DEF Begin
<1>3. CASE (\E p \in Killable : Kill(p)) \/ UNCHANGED vars
  BY <1>q, <1>3, Zenon DEF Kill, vars, pipe, hist
<1> QED
  BY <1>1, <1>2, <1>3, Zenon DEF Next

\* The whole pipe code, run by any number of threads with all their probes, waits,
\* wake-ups, closes and resizes between, implements the atomic byte channel: bytes come
\* out in the order they went in, and a write of at most PIPE_BUF bytes is one deposit.
THEOREM PipeImplementsChannel == Spec => ImplementsChannel
<1>1. Init => Channel!ChInit
  BY Zenon DEF Init, Channel!ChInit
<1> QED
  BY <1>1, InitRecord, NextRecord, NextRefines, PTL DEF Spec, ImplementsChannel, Channel!ChSpec

-----------------------------------------------------------------------------
(* What write(2) reports is what it deposited.                              *)

\* The bytes of t's write that are in the stream.
Sent(t) == Cardinality(Positions(id[t]))

Reading == {"read", "empty"}

\* The result of a finished write: all n bytes of m, some, or an error and none.
Outcome(r, n, m) ==
    \/ r = "ok" /\ n = m
    \/ r = "short" /\ 0 < n /\ n < m
    \/ r \notin {"ok", "short"} /\ n = 0

\* A small write has deposited nothing before it is done, all or nothing after.
SmallReport(t) ==
    /\ total[t] = 0
    /\ pc[t] \notin Done => Sent(t) = 0
    /\ pc[t] \in Done => out[t] # "short" /\ Outcome(out[t], Sent(t), len[t])

\* A large one counts its bytes in total, is not over while some are missing, and
\* what its probe saw fits.
LargeReport(t) ==
    /\ Sent(t) = total[t] /\ total[t] <= len[t]
    /\ pc[t] \notin Done => total[t] < len[t]
    /\ pc[t] = "put" => room[t] <= len[t] - total[t]
    /\ pc[t] \in {"wake", "flip"} =>
          out[t] = "ok" /\ (IF then[t] = "ret" THEN total[t] = len[t] ELSE total[t] < len[t])
    /\ pc[t] = "ret" => Outcome(out[t], total[t], len[t])

ReportAt(t) ==
    IF side[t] = "W"
    THEN pc[t] \notin Reading /\ IF Atomic(t) THEN SmallReport(t) ELSE LargeReport(t)
    ELSE id[t] = 0 /\ total[t] = 0

ReportInv == RecordInv /\ out \in [Threads -> Results] /\ \A t \in Threads : ReportAt(t)

\* A step of t alone that leaves the stream alone.
LEMMA ReportFrame ==
    ASSUME ReportInv, NEW t \in Threads, RecordInv', stream' = stream,
           out' \in [Threads -> Results], ReportAt(t)',
           \A u \in Threads \ {t} :
              /\ side'[u] = side[u] /\ len'[u] = len[u] /\ id'[u] = id[u]
              /\ total'[u] = total[u] /\ room'[u] = room[u] /\ then'[u] = then[u]
              /\ out'[u] = out[u] /\ pc'[u] = pc[u]
    PROVE  ReportInv'
<1> SUFFICES ASSUME NEW u \in Threads \ {t} PROVE ReportAt(u)'
  BY Zenon DEF ReportInv
<1>1. Sent(u)' = Sent(u)
  BY Zenon DEF Sent, Positions
<1>2. ReportAt(u)
  BY Zenon DEF ReportInv
<1> QED
  BY <1>1, <1>2, Zenon DEF ReportAt, SmallReport, LargeReport, Atomic

\* The bytes of one call in the stream are finitely many.
LEMMA PositionsFinite ==
    ASSUME RecordInv, NEW w \in Nat
    PROVE  IsFiniteSet(Positions(w)) /\ Cardinality(Positions(w)) \in Nat
<1>1. Len(stream) \in Nat
  BY DEF RecordInv, RecordType
<1>2. IsFiniteSet(1..Len(stream))
  BY <1>1, FS_Interval
<1>3. Positions(w) \subseteq 1..Len(stream)
  BY Zenon DEF Positions
<1> QED
  BY <1>2, <1>3, FS_Subset, FS_CardinalityType, Zenon

\* Put(t, n) adds n to what t has sent and nothing to what another write has.
LEMMA PutSends ==
    ASSUME RecordInv, NEW t \in Threads, NEW n \in Nat, Put(t, n), UNCHANGED <<id, side>>,
           side[t] = "W"
    PROVE  /\ Sent(t)' = Sent(t) + n
           /\ \A u \in Threads \ {t} : side[u] = "W" => Sent(u)' = Sent(u)
<1>1. /\ stream \in Seq(Nat) /\ id[t] \in Nat /\ Len(stream) \in Nat
      /\ \A u \in Threads \ {t} : side[u] = "W" => id[u] # id[t]
  BY DEF RecordInv, RecordType, Numbered
<1> DEFINE L == Len(stream)
           more == (L + 1)..(L + n)
<1>2. /\ Len(stream') = L + n
      /\ \A i \in 1..(L + n) : stream'[i] = IF i <= L THEN stream[i] ELSE id[t]
  BY <1>1, MoreBytes DEF Put
<1>3. Positions(id[t])' = Positions(id[t]) \union more
  <2>1. Positions(id[t])' = {i \in 1..(L + n) : stream'[i] = id[t]}
    BY <1>2, Zenon DEF Positions
  <2>2. ASSUME NEW i PROVE i \in {j \in 1..(L + n) : stream'[j] = id[t]}
                           <=> i \in Positions(id[t]) \/ i \in more
    BY <1>1, <1>2 DEF Positions
  <2> QED
    BY <2>1, <2>2, Zenon
<1>4. IsFiniteSet(more) /\ Cardinality(more) = n
  <2>1. L + 1 \in Int /\ L + n \in Int
    BY <1>1
  <2>2. IsFiniteSet(more) /\ Cardinality(more) = IF L + 1 > L + n THEN 0 ELSE L + n - (L + 1) + 1
    BY <2>1, FS_Interval
  <2> QED
    BY <1>1, <2>2
<1>5. Positions(id[t]) \intersect more = {}
  BY <1>1 DEF Positions
<1>6. IsFiniteSet(Positions(id[t])) /\ Cardinality(Positions(id[t])) \in Nat
  BY <1>1, PositionsFinite, Zenon
<1> HIDE DEF more
<1>7. Cardinality(Positions(id[t]) \union more) = Cardinality(Positions(id[t])) + n
  <2>1. Cardinality(Positions(id[t]) \union more)
          = Cardinality(Positions(id[t])) + Cardinality(more)
              - Cardinality(Positions(id[t]) \intersect more)
    BY <1>4, <1>6, FS_Union, Zenon
  <2>2. Cardinality({}) = 0
    BY FS_EmptySet, Zenon
  <2>3. Cardinality(Positions(id[t]) \intersect more) = 0
    BY <1>5, <2>2, Zenon
  <2> QED
    BY <1>4, <1>6, <2>1, <2>3
<1>8. Sent(t)' = Sent(t) + n
  BY <1>3, <1>7, Zenon DEF Sent
<1>9. ASSUME NEW u \in Threads \ {t}, side[u] = "W" PROVE Sent(u)' = Sent(u)
  <2>1. Positions(id[u])' = {i \in 1..(L + n) : stream'[i] = id[u]}
    BY <1>2, Zenon DEF Positions
  <2>2. id[u] # id[t]
    BY <1>1, <1>9, Zenon
  <2>3. ASSUME NEW i PROVE i \in {j \in 1..(L + n) : stream'[j] = id[u]} <=> i \in Positions(id[u])
    BY <1>1, <1>2, <2>2 DEF Positions
  <2>4. Positions(id[u])' = Positions(id[u])
    BY <2>1, <2>3, Zenon
  <2> QED
    BY <2>4, Zenon DEF Sent
<1> QED
  BY <1>8, <1>9, Zenon


\* A deposit by t, which then goes to wake the readers.
LEMMA PutReport ==
    ASSUME ReportInv, NEW t \in Threads, NEW n \in Nat, RecordInv', Put(t, n),
           UNCHANGED <<side, len, id>>, side[t] = "W", out' = [out EXCEPT ![t] = "ok"],
           Sent(t)' = Sent(t) + n => ReportAt(t)',
           \A u \in Threads \ {t} :
              /\ total'[u] = total[u] /\ room'[u] = room[u] /\ then'[u] = then[u]
              /\ pc'[u] = pc[u]
    PROVE  ReportInv'
<1>0. RecordInv /\ out \in [Threads -> Results]
  BY Zenon DEF ReportInv
<1>1. /\ Sent(t)' = Sent(t) + n
      /\ \A u \in Threads \ {t} : side[u] = "W" => Sent(u)' = Sent(u)
  BY <1>0, PutSends, Zenon
<1>2. out' \in [Threads -> Results] /\ \A u \in Threads \ {t} : out'[u] = out[u]
  BY <1>0, Zenon DEF Results
<1>3. ASSUME NEW u \in Threads \ {t} PROVE ReportAt(u)'
  <2>1. ReportAt(u)
    BY Zenon DEF ReportInv
  <2> QED
    BY <1>1, <1>2, <2>1, Zenon DEF ReportAt, SmallReport, LargeReport, Atomic
<1> QED
  BY <1>1, <1>2, <1>3, Zenon DEF ReportInv

\* The steps that leave the call's arguments, its count and the stream alone: t
\* goes from one place before the end of its call to another (or a read goes anywhere).
LEMMA ReportMove ==
    ASSUME ReportInv, NEW t \in Threads, RecordInv', NEW l \in PCs,
           UNCHANGED <<side, len, id, total, then, out, stream>>,
           pc' = [pc EXCEPT ![t] = l],
           \A u \in Threads \ {t} : room'[u] = room[u],
           side[t] = "W" => /\ pc[t] \notin Done /\ l \notin Done \union Reading
                            /\ l = "put" => room'[t] <= len[t] - total[t]
    PROVE  ReportInv'
<1>0. RecordType /\ out \in [Threads -> Results] /\ ReportAt(t)
  BY Zenon DEF ReportInv, RecordInv
<1>1. Sent(t)' = Sent(t) /\ pc'[t] = l
  BY <1>0, Zenon DEF Sent, Positions, RecordType
<1>2. ReportAt(t)'
  BY <1>0, <1>1, Zenon DEF ReportAt, SmallReport, LargeReport, Atomic, Done
<1> QED
  BY <1>0, <1>2, ReportFrame, Zenon DEF RecordType

\* A call ends with an error, or with the partial count there is.
LEMMA ReportError ==
    ASSUME ReportInv, NEW t \in Threads, RecordInv', NEW e \in {"EBADF", "EPIPE", "EAGAIN", "EINTR"},
           ReturnErr(t, e) \/ (Return(t, e) /\ (side[t] = "W" => Atomic(t))),
           pc[t] \notin Done, stream' = stream
    PROVE  ReportInv'
<1>0. RecordType /\ out \in [Threads -> Results] /\ ReportAt(t)
  BY Zenon DEF ReportInv, RecordInv
<1>1. /\ UNCHANGED <<side, len, id, total, room, then>> /\ pc' = [pc EXCEPT ![t] = "ret"]
      /\ out' = [out EXCEPT ![t] = IF total[t] > 0 THEN "short" ELSE e]
  <2>1. side[t] # "W" \/ Atomic(t) => total[t] = 0
    BY <1>0, Zenon DEF ReportAt, SmallReport
  <2>2. total[t] \in Nat
    BY <1>0, Zenon DEF RecordType
  <2> QED
    BY <2>1, <2>2 DEF ReturnErr, Return, Goto, args
<1>2. Sent(t)' = Sent(t) /\ pc'[t] = "ret"
  BY <1>0, <1>1, Zenon DEF Sent, Positions, RecordType
<1>3. ReportAt(t)'
  <2>1. CASE side[t] = "W" /\ Atomic(t)
    BY <1>0, <1>1, <1>2, <2>1 DEF ReportAt, SmallReport, Atomic, Done, Outcome, Reading
  <2>2. CASE side[t] = "W" /\ ~Atomic(t)
    BY <1>0, <1>1, <1>2, <2>2 DEF ReportAt, LargeReport, Atomic, Done, Outcome, RecordType,
                                       Reading
  <2>3. CASE side[t] # "W"
    BY <1>0, <1>1, <2>3, Zenon DEF ReportAt
  <2> QED
    BY <2>1, <2>2, <2>3, Zenon
<1>4. out' \in [Threads -> Results]
  BY <1>0, <1>1, Zenon DEF Results
<1> QED
  BY <1>0, <1>1, <1>3, <1>4, ReportFrame, Zenon DEF RecordType

\* A read does nothing to what is reported.
LEMMA ReportRead ==
    ASSUME ReportInv, NEW t \in Threads, RecordInv', side[t] = "R", NEW l \in PCs, NEW r \in Results,
           UNCHANGED <<side, len, id, total, room, stream>>,
           then' = then \/ then' = [then EXCEPT ![t] = "ret"],
           out' = out \/ out' = [out EXCEPT ![t] = r],
           pc' = pc \/ pc' = [pc EXCEPT ![t] = l]
    PROVE  ReportInv'
<1>0. RecordType /\ out \in [Threads -> Results] /\ ReportAt(t)
  BY Zenon DEF ReportInv, RecordInv
<1>1. ReportAt(t)'
  BY <1>0, Zenon DEF ReportAt
<1>2. out' \in [Threads -> Results]
  BY <1>0, Zenon
<1> QED
  BY <1>0, <1>1, <1>2, ReportFrame, Zenon DEF RecordType

LEMMA InitReport == Init => ReportInv
<1> SUFFICES ASSUME Init PROVE ReportInv
  BY Zenon
<1>1. RecordInv
  BY InitRecord, Zenon
<1>2. out \in [Threads -> Results] /\ \A t \in Threads : ReportAt(t)
  BY Zenon DEF Init, Results, ReportAt
<1> QED
  BY <1>1, <1>2, Zenon DEF ReportInv

LEMMA AdvanceReport ==
    ASSUME ReportInv, NEW t \in Threads, Advance(t)
    PROVE  ReportInv'
<1>0. RecordInv /\ RecordType /\ Arms /\ out \in [Threads -> Results] /\ ReportAt(t)
  BY Zenon DEF ReportInv, RecordInv
<1>r. RecordInv'
  BY <1>0, AdvanceRecord, Zenon
<1>s. side[t] = "R" \/ side[t] = "W"
  BY <1>0, Zenon DEF RecordType, Queues
<1> USE DEF Goto, call, args, pipe, hist, PCs, Writing, Done, Reading
<1>1. CASE PipeRead(t)
  <2>1. /\ pc[t] = "read" /\ UNCHANGED <<side, len, id, total, room, stream>>
        /\ \/ then' = then /\ out' = out /\ pc' = [pc EXCEPT ![t] = "empty"]
           \/ /\ then' = then \/ then' = [then EXCEPT ![t] = "ret"]
              /\ \E r \in {"ok", "EBADF"}, l \in {"ret", "wake"} :
                    out' = [out EXCEPT ![t] = r] /\ pc' = [pc EXCEPT ![t] = l]
    BY <1>1, Zenon DEF PipeRead, Return, WakeThen
  <2>2. side[t] = "R"
    BY <1>0, <1>s, <2>1, Zenon DEF ReportAt
  <2> QED
    BY <1>0, <1>r, <2>1, <2>2, ReportRead, Zenon DEF Results
<1>2. CASE ReadEmpty(t)
  <2>1. /\ pc[t] = "empty" /\ UNCHANGED <<side, len, id, total, room, stream, then>>
        /\ \E r \in {"eof", "EAGAIN", "EINTR"}, l \in {"ret", "park"} :
              (out' = out \/ out' = [out EXCEPT ![t] = r]) /\ pc' = [pc EXCEPT ![t] = l]
    BY <1>2, Zenon DEF ReadEmpty, Return
  <2>2. side[t] = "R"
    BY <1>0, <1>s, <2>1, Zenon DEF ReportAt
  <2> QED
    BY <1>0, <1>r, <2>1, <2>2, ReportRead, Zenon DEF Results
<1>e. ASSUME NEW e \in {"EBADF", "EPIPE", "EAGAIN", "EINTR"}, ReturnErr(t, e),
             pc[t] \in {"write", "put", "full", "park"}, stream' = stream
      PROVE  ReportInv'
  BY <1>0, <1>r, <1>e, ReportError, Zenon
<1>m. ASSUME NEW l \in {"write", "deposit", "probe", "full", "drain", "park", "enqueue", "parked", "cleanup"},
             pc' = [pc EXCEPT ![t] = l], pc[t] \notin Done,
             UNCHANGED <<side, len, id, total, then, out, stream>>,
             \A u \in Threads \ {t} : room'[u] = room[u]
      PROVE  ReportInv'
  BY <1>0, <1>r, <1>m, ReportMove, Zenon
<1>3. CASE WriteCheckReader(t)
  <2>1. pc[t] = "write" /\ UNCHANGED stream
    BY <1>3, Zenon DEF WriteCheckReader
  <2>2. CASE ReturnErr(t, "EPIPE")
    BY <1>e, <2>1, <2>2, Zenon
  <2>3. CASE Goto(t, IF Atomic(t) THEN "deposit" ELSE "probe") /\ UNCHANGED call
    BY <1>m, <2>1, <2>3, Zenon
  <2> QED
    BY <1>3, <2>2, <2>3, Zenon DEF WriteCheckReader
<1>4. CASE WriteAtomic(t)
  <2>1. /\ pc[t] = "deposit" /\ side[t] = "W" /\ Atomic(t) /\ len[t] \in Nat
        /\ Sent(t) = 0 /\ total[t] = 0
    BY <1>0, <1>4, Zenon DEF WriteAtomic, Arms, RecordType, ReportAt, SmallReport
  <2>2. CASE Put(t, len[t]) /\ WakeThen(t, "R", None, "ret", "ok")
    <3>1. ASSUME Sent(t)' = Sent(t) + len[t] PROVE ReportAt(t)'
      BY <1>0, <2>1, <2>2, <3>1
         DEF WakeThen, ReportAt, SmallReport, Atomic, Outcome, RecordType
    <3> QED
      BY <1>0, <1>r, <2>1, <2>2, <3>1, PutReport, Zenon DEF WakeThen, RecordType
  <2>3. CASE UNCHANGED stream /\ Return(t, "EBADF")
    BY <1>r, <2>1, <2>3, ReportError, Zenon
  <2>4. CASE UNCHANGED stream /\ Goto(t, "full") /\ UNCHANGED call
    BY <1>m, <2>1, <2>4, Zenon
  <2> QED
    BY <1>4, <2>2, <2>3, <2>4, Zenon DEF WriteAtomic
<1>5. CASE WriteProbe(t)
  <2> DEFINE n == IF exists THEN Min2(Space, len[t] - total[t]) ELSE 0
  <2>1. /\ room' = [room EXCEPT ![t] = n] /\ pc[t] = "probe"
        /\ UNCHANGED <<side, len, id, total, then, out, stream>>
        /\ pc' = [pc EXCEPT ![t] = IF n > 0 THEN "put" ELSE "full"]
    BY <1>5, Zenon DEF WriteProbe
  <2>2. n > 0 => n <= len[t] - total[t]
    BY <1>0, PipeAssumption DEF RecordType, Min2, Space
  <2> HIDE DEF n
  <2>3. CASE n > 0
    <3>1. room'[t] = n /\ \A u \in Threads \ {t} : room'[u] = room[u]
      BY <1>0, <2>1, Zenon DEF RecordType
    <3> QED
      BY <1>0, <1>r, <2>1, <2>2, <2>3, <3>1, ReportMove, Zenon
  <2>4. CASE ~(n > 0)
    BY <1>0, <1>m, <2>1, <2>4, Zenon DEF RecordType
  <2> QED
    BY <2>3, <2>4, Zenon
<1>6. CASE WritePut(t)
  <2> DEFINE n == Min2(room[t], Space)
  <2>1. /\ pc[t] = "put"
        /\ \/ n > 0 /\ Put(t, n) /\ Deposited(t, n)
           \/ UNCHANGED stream /\ (ReturnErr(t, "EBADF") \/ (Goto(t, "write") /\ UNCHANGED call))
    BY <1>6, Zenon DEF WritePut
  <2>2. n \in Int /\ n <= room[t]
    BY <1>0, PipeAssumption DEF RecordType, Min2, Space
  <2> HIDE DEF n
  <2>3. CASE n > 0 /\ Put(t, n) /\ Deposited(t, n)
    <3>1. /\ side[t] = "W" /\ ~Atomic(t) /\ n \in Nat /\ len[t] \in Nat /\ total[t] \in Nat
          /\ Sent(t) = total[t] /\ room[t] \in Int /\ room[t] <= len[t] - total[t]
      BY <1>0, <2>1, <2>2, <2>3 DEF Arms, RecordType, ReportAt, LargeReport
    <3>2. /\ total'[t] = total[t] + n /\ out'[t] = "ok" /\ pc'[t] = "wake"
          /\ then'[t] = IF total[t] + n >= len[t] THEN "ret" ELSE "write"
          /\ UNCHANGED <<side, len, id>>
      BY <1>0, <2>3, <3>1, Zenon DEF Deposited, RecordType
    <3>3. ASSUME Sent(t)' = Sent(t) + n PROVE ReportAt(t)'
      BY <2>2, <2>3, <3>1, <3>2, <3>3 DEF ReportAt, LargeReport, Atomic, Outcome
    <3> QED
      BY <1>0, <1>r, <2>3, <3>1, <3>2, <3>3, PutReport, Zenon DEF Deposited, RecordType
  <2>4. CASE UNCHANGED stream /\ ReturnErr(t, "EBADF")
    BY <1>e, <2>1, <2>4, Zenon
  <2>5. CASE UNCHANGED stream /\ Goto(t, "write") /\ UNCHANGED call
    BY <1>m, <2>1, <2>5, Zenon
  <2> QED
    BY <2>1, <2>3, <2>4, <2>5, Zenon
<1>7. CASE WriteFull(t)
  BY <1>7, <1>e, <1>m, Zenon DEF WriteFull
<1>8. CASE WriteDrainConsole(t)
  <2>1. /\ pc[t] = "drain" /\ UNCHANGED <<side, len, id, total, then, out, stream>>
        /\ \E l \in {"drain", "write", "park"} : pc' = [pc EXCEPT ![t] = l]
        /\ \A u \in Threads \ {t} : room'[u] = room[u]
    BY <1>0, <1>8, Zenon DEF WriteDrainConsole, RecordType
  <2> QED
    BY <1>m, <2>1, Zenon
<1>9. CASE ParkCheck(t)
  <2>1. pc[t] = "park" /\ UNCHANGED stream
    BY <1>9, Zenon DEF ParkCheck
  <2>2. CASE ReturnErr(t, "EBADF")
    BY <1>e, <2>1, <2>2, Zenon
  <2>3. CASE /\ UNCHANGED call
             /\ \E l \in {"write", "enqueue"} : pc' = [pc EXCEPT ![t] = l]
    BY <1>m, <2>1, <2>3, Zenon
  <2>4. CASE side[t] = "R" /\ UNCHANGED call /\ pc' = [pc EXCEPT ![t] = "read"]
    BY <1>r, <2>1, <2>4, ReportMove, Zenon
  <2> QED
    BY <1>9, <2>2, <2>3, <2>4, Zenon DEF ParkCheck
<1>10. CASE ParkEnqueue(t)
  BY <1>10, <1>m, Zenon DEF ParkEnqueue
<1>11. CASE Resume(t)
  BY <1>11, <1>m, Zenon DEF Resume
<1>12. CASE Cleanup(t)
  <2>1. /\ pc[t] = "cleanup" /\ UNCHANGED <<call, stream>>
        /\ pc' = [pc EXCEPT ![t] = IF side[t] = "R" THEN "read" ELSE "write"]
    BY <1>12, Zenon DEF Cleanup
  <2>2. CASE side[t] = "R"
    BY <1>r, <2>1, <2>2, ReportMove, Zenon
  <2>3. CASE side[t] # "R"
    BY <1>m, <2>1, <2>3, Zenon
  <2> QED
    BY <2>2, <2>3, Zenon
<1>13. CASE WakeDrain(t) \/ WakeFlip(t)
  <2>1. /\ pc[t] \in {"wake", "flip"} /\ UNCHANGED <<call, stream>>
        /\ \/ pc[t] = "wake" /\ pc' = [pc EXCEPT ![t] = "flip"]
           \/ pc[t] = "flip" /\ pc' = [pc EXCEPT ![t] = "wake"]
           \/ pc[t] = "flip" /\ pc' = [pc EXCEPT ![t] = then[t]]
    BY <1>13, Zenon DEF WakeDrain, WakeFlip
  <2>2. /\ Sent(t)' = Sent(t) /\ then[t] \in {"ret", "write"}
        /\ then[t] = "write" => side[t] = "W" /\ ~Atomic(t)
        /\ pc'[t] \in {"flip", "wake", then[t]}
    BY <1>0, <2>1, Zenon DEF Sent, Positions, RecordType, Arms
  <2>3. CASE side[t] = "W" /\ Atomic(t)
    <3>1. ReportAt(t)'
      BY <1>0, <2>1, <2>2, <2>3, Zenon DEF ReportAt, SmallReport, Atomic, RecordType
    <3> QED
      BY <1>0, <1>r, <2>1, <3>1, ReportFrame, Zenon DEF RecordType
  <2>4. CASE side[t] = "W" /\ ~Atomic(t)
    <3>1. ReportAt(t)'
      BY <1>0, <2>1, <2>2, <2>4, Zenon DEF ReportAt, LargeReport, Atomic, Outcome, RecordType
    <3> QED
      BY <1>0, <1>r, <2>1, <3>1, ReportFrame, Zenon DEF RecordType
  <2>5. CASE side[t] # "W"
    <3>1. ReportAt(t)'
      BY <1>0, <2>1, <2>5, Zenon DEF ReportAt
    <3> QED
      BY <1>0, <1>r, <2>1, <3>1, ReportFrame, Zenon DEF RecordType
  <2> QED
    BY <2>3, <2>4, <2>5, Zenon
<1>14. CASE UserReturn(t)
  <2>1. ReportAt(t)' /\ out' \in [Threads -> Results]
    BY <1>0, <1>14, Zenon DEF UserReturn, ReportAt, RecordType, Results
  <2> QED
    BY <1>0, <1>r, <1>14, <2>1, ReportFrame, Zenon DEF UserReturn, RecordType
<1> QED
  BY <1>1, <1>2, <1>3, <1>4, <1>5, <1>6, <1>7, <1>8, <1>9, <1>10, <1>11, <1>12, <1>13, <1>14, Zenon
     DEF Advance

LEMMA NextReport == ReportInv /\ [Next]_vars => ReportInv'
<1> SUFFICES ASSUME ReportInv, [Next]_vars PROVE ReportInv'
  BY Zenon
<1>0. RecordInv /\ RecordType /\ Arms /\ Numbered /\ out \in [Threads -> Results]
  BY Zenon DEF ReportInv, RecordInv
<1>r. RecordInv'
  BY <1>0, NextRecord, Zenon
<1> USE DEF Goto, call, args, pipe, hist, PCs, Reading, Done
<1>1. ASSUME NEW t \in Threads, Begin(t) PROVE ReportInv'
  <2>0. ReportAt(t)
    BY Zenon DEF ReportInv
  <2>1. CASE StartRead(t)
    <3>1. ReportAt(t)'
      BY <1>0, <2>0, <2>1, Zenon DEF StartRead, Enter, ReportAt, RecordType, Arms
    <3> QED
      BY <1>0, <1>r, <2>1, <3>1, ReportFrame DEF StartRead, Enter, RecordType
  <2>2. CASE StartWrite(t)
    <3>1. PICK n \in WriteSizes, b \in NbFlags : Enter(t, "W", n, b, Len(sizes) + 1)
      BY <2>2, Zenon DEF StartWrite
    <3>2. /\ pc[t] = "idle" /\ side'[t] = "W" /\ id'[t] = Len(sizes) + 1 /\ pc'[t] = "write"
          /\ len'[t] = n /\ n \in Nat \ {0} /\ UNCHANGED <<total, out, stream>> /\ total[t] = 0
      <4>1. pc[t] = "idle" /\ pc' = [pc EXCEPT ![t] = "write"] /\ UNCHANGED stream
        BY <2>2, Zenon DEF StartWrite
      <4>2. n \in Nat \ {0}
        BY PipeAssumption, Zenon
      <4> QED
        BY <1>0, <2>0, <3>1, <4>1, <4>2, Zenon DEF Enter, ReportAt, Arms, RecordType
    <3>3. Sent(t)' = 0
      <4>1. \A i \in 1..Len(stream) : stream[i] # Len(sizes) + 1
        BY <1>0 DEF Numbered, RecordType
      <4>2. Positions(id[t])' = {}
        BY <3>2, <4>1, Zenon DEF Positions
      <4> QED
        BY <4>2, FS_EmptySet, Zenon DEF Sent
    <3>4. ReportAt(t)'
      <4>1. total'[t] = 0 /\ total'[t] <= len'[t] /\ total'[t] < len'[t]
        BY <3>2
      <4>2. /\ pc'[t] \notin Reading /\ pc'[t] \notin Done
            /\ pc'[t] \notin {"put", "wake", "flip", "ret"}
        BY <3>2 DEF Reading, Done
      <4> QED
        BY <3>2, <3>3, <4>1, <4>2, Zenon DEF ReportAt, SmallReport, LargeReport
    <3> QED
      BY <1>0, <1>r, <2>2, <3>1, <3>2, <3>4, ReportFrame, Zenon DEF StartWrite, Enter, RecordType
  <2>3. CASE CloseWriter(t) \/ CloseReader(t) \/ SetCapacity(t) \/ \E p \in Procs : Fork(t, p)
    <3>1. /\ pc[t] = "idle" /\ UNCHANGED <<side, len, id, total, room, stream>>
          /\ \/ UNCHANGED <<then, out, pc>>
             \/ /\ then' = [then EXCEPT ![t] = "ret"] /\ out' = [out EXCEPT ![t] = "ok"]
                /\ pc' = [pc EXCEPT ![t] = "wake"]
      BY <2>3, Zenon DEF CloseWriter, CloseReader, SetCapacity, Fork, WakeThen
    <3>2. side[t] = "R"
      BY <1>0, <3>1, Zenon DEF Arms
    <3> QED
      BY <1>r, <3>1, <3>2, ReportRead, Zenon DEF Results
  <2> QED
    BY <1>1, <2>1, <2>2, <2>3, Zenon DEF Begin
<1>2. CASE UNCHANGED <<pc, call, stream>>
  <2>1. ASSUME NEW u \in Threads PROVE ReportAt(u)'
    <3>1. ReportAt(u) /\ Sent(u)' = Sent(u)
      BY <1>2, Zenon DEF ReportInv, Sent, Positions
    <3> QED
      BY <1>2, <3>1, Zenon DEF ReportAt, SmallReport, LargeReport, Atomic
  <2> QED
    BY <1>0, <1>r, <1>2, <2>1, Zenon DEF ReportInv
<1>3. CASE (\E p \in Killable : Kill(p)) \/ UNCHANGED vars
  BY <1>2, <1>3, Zenon DEF Kill, vars
<1> QED
  BY <1>1, <1>3, AdvanceReport, Zenon DEF Next

\* write(2) tells the truth about what it deposited, for any number of writers with
\* probes, deposits, resizes, drains and closes of the others between its steps: "ok"
\* when every byte is in, a short count only above PIPE_BUF, an error when none is
\* (pipe_write_blocking, pipe_write_atomic).
THEOREM WriteTellsTruth == Spec => []WriteReports
<1>1. ReportInv => WriteReports
  <2> SUFFICES ASSUME ReportInv, NEW t \in Threads, id[t] # 0, pc[t] = "ret"
               PROVE  CASE out[t] = "ok" -> Sent(t) = len[t]
                        [] out[t] = "short" -> 0 < Sent(t) /\ Sent(t) < len[t] /\ ~Atomic(t)
                        [] OTHER -> Sent(t) = 0
    BY Zenon DEF WriteReports, Sent
  <2>1. ReportAt(t)
    BY Zenon DEF ReportInv
  <2> QED
    BY <2>1, Zenon DEF ReportAt, SmallReport, LargeReport, Outcome, Done
<1> QED
  BY <1>1, InitReport, NextReport, PTL DEF Spec

=============================================================================
