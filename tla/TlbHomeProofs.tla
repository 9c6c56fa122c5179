--------------------------- MODULE TlbHomeProofs ---------------------------
(***************************************************************************)
(* The proof that a frame has one home: no two of the page tables, the     *)
(* quarantine, the allocator and the calls under way hold it together.     *)
(***************************************************************************)
EXTENDS TlbProofs, FiniteSetTheorems

\* The frames a call has in its hands.
TlbHand(r) == {f \in TlbFrames : \/ r.op \in {"write", "read"} /\ r.new = f
                                 \/ r.op = "unmap" /\ f \in r.frames}

TlbHands == [c \in TlbCpus |-> TlbHand(tlbReg[c])]

\* The frames of X are nowhere.
TlbOutside(X, pte, ring, free, hands) ==
  /\ \A s \in TlbSpaces, p \in TlbPages : pte[s][p].f \notin X
  /\ \A e \in ring : e.f \notin X
  /\ \A c \in TlbCpus : hands[c] \cap X = {}
  /\ free \cap X = {}

\* No frame is in two places.
TlbHomes(pte, ring, free, hands) ==
  /\ \A s, t \in TlbSpaces, p, q \in TlbPages :
       pte[s][p].f = pte[t][q].f /\ pte[s][p].f # 0 => s = t /\ p = q
  /\ \A s \in TlbSpaces, p \in TlbPages : pte[s][p].f # 0 =>
       /\ pte[s][p].f \notin free
       /\ \A e \in ring : e.f # pte[s][p].f
       /\ \A c \in TlbCpus : pte[s][p].f \notin hands[c]
  /\ \A e \in ring : e.f \notin free /\ \A c \in TlbCpus : e.f \notin hands[c]
  /\ \A d, e \in ring : d.f = e.f => d = e
  /\ \A c \in TlbCpus : hands[c] \cap free = {}
  /\ \A c, d \in TlbCpus : c # d => hands[c] \cap hands[d] = {}

\* A frame may leave its place.
LEMMA HomesShrink ==
  ASSUME NEW pte, NEW ring, NEW free, NEW hands, NEW pte2, NEW ring2, NEW free2, NEW hands2,
         TlbHomes(pte, ring, free, hands),
         \A s \in TlbSpaces, p \in TlbPages : pte2[s][p].f \in {0, pte[s][p].f},
         ring2 \subseteq ring, free2 \subseteq free,
         \A c \in TlbCpus : hands2[c] \subseteq hands[c]
  PROVE  TlbHomes(pte2, ring2, free2, hands2)
<1>1. \A s, t \in TlbSpaces, p, q \in TlbPages :
        pte2[s][p].f = pte2[t][q].f /\ pte2[s][p].f # 0 => s = t /\ p = q
  BY DEF TlbHomes
<1>2. \A s \in TlbSpaces, p \in TlbPages : pte2[s][p].f # 0 =>
       /\ pte2[s][p].f \notin free2
       /\ \A e \in ring2 : e.f # pte2[s][p].f
       /\ \A c \in TlbCpus : pte2[s][p].f \notin hands2[c]
  BY DEF TlbHomes
<1>3. /\ \A e \in ring2 : e.f \notin free2 /\ \A c \in TlbCpus : e.f \notin hands2[c]
      /\ \A d, e \in ring2 : d.f = e.f => d = e
      /\ \A c \in TlbCpus : hands2[c] \cap free2 = {}
      /\ \A c, d \in TlbCpus : c # d => hands2[c] \cap hands2[d] = {}
  BY Zenon DEF TlbHomes
<1> QED BY <1>1, <1>2, <1>3, Zenon DEF TlbHomes

LEMMA HomesClear ==
  ASSUME NEW pte, NEW ring, NEW free, NEW hands, NEW pte2, TlbHomes(pte, ring, free, hands),
         \A s \in TlbSpaces, p \in TlbPages : pte2[s][p].f \in {0, pte[s][p].f}
  PROVE  TlbHomes(pte2, ring, free, hands)
<1>1. ring \subseteq ring /\ free \subseteq free /\ \A c \in TlbCpus : hands[c] \subseteq hands[c]
  BY Zenon
<1> QED BY <1>1, HomesShrink, Zenon

\* Frames that are nowhere may go to the allocator, to the quarantine, to a call,
\* or one of them to an entry.
LEMMA HomesFree ==
  ASSUME NEW pte, NEW ring, NEW free, NEW hands, NEW X \in SUBSET TlbFrames,
         TlbHomes(pte, ring, free, hands), TlbOutside(X, pte, ring, free, hands)
  PROVE  TlbHomes(pte, ring, free \cup X, hands)
BY Zenon DEF TlbHomes, TlbOutside

LEMMA HomesRing ==
  ASSUME NEW pte, NEW ring, NEW free, NEW hands, NEW X \in SUBSET TlbFrames, NEW new,
         TlbHomes(pte, ring, free, hands), TlbOutside(X, pte, ring, free, hands),
         \A e \in new : e.f \in X, \A d, e \in new : d.f = e.f => d = e
  PROVE  TlbHomes(pte, ring \cup new, free, hands)
<1>1. \A d, e \in ring \cup new : d.f = e.f => d = e
  BY Zenon DEF TlbHomes, TlbOutside
<1>2. \A s \in TlbSpaces, p \in TlbPages : pte[s][p].f # 0 =>
        \A e \in ring \cup new : e.f # pte[s][p].f
  BY Zenon DEF TlbHomes, TlbOutside
<1>3. \A e \in ring \cup new : e.f \notin free /\ \A c \in TlbCpus : e.f \notin hands[c]
  BY Zenon DEF TlbHomes, TlbOutside
<1> QED BY <1>1, <1>2, <1>3, Zenon DEF TlbHomes

LEMMA HomesHand ==
  ASSUME NEW pte, NEW ring, NEW free, NEW hands, NEW hands2, NEW X \in SUBSET TlbFrames,
         NEW c \in TlbCpus,
         TlbHomes(pte, ring, free, hands), TlbOutside(X, pte, ring, free, hands),
         hands2[c] \subseteq hands[c] \cup X, \A d \in TlbCpus \ {c} : hands2[d] = hands[d]
  PROVE  TlbHomes(pte, ring, free, hands2)
<1>1. \A s \in TlbSpaces, p \in TlbPages : pte[s][p].f # 0 =>
        \A d \in TlbCpus : pte[s][p].f \notin hands2[d]
  BY DEF TlbHomes, TlbOutside
<1>2. \A e \in ring : \A d \in TlbCpus : e.f \notin hands2[d]
  BY Zenon DEF TlbHomes, TlbOutside
<1>3. \A d \in TlbCpus : hands2[d] \cap free = {}
  BY Zenon DEF TlbHomes, TlbOutside
<1>4. \A d, e \in TlbCpus : d # e => hands2[d] \cap hands2[e] = {}
  BY Zenon DEF TlbHomes, TlbOutside
<1> QED BY <1>1, <1>2, <1>3, <1>4, Zenon DEF TlbHomes

LEMMA HomesPte ==
  ASSUME NEW pte, NEW pte2, NEW ring, NEW free, NEW hands, NEW x \in TlbFrames,
         NEW s \in TlbSpaces, NEW p \in TlbPages,
         TlbHomes(pte, ring, free, hands), TlbOutside({x}, pte, ring, free, hands),
         pte2[s][p].f = x,
         \A t \in TlbSpaces, q \in TlbPages : t # s \/ q # p => pte2[t][q] = pte[t][q]
  PROVE  TlbHomes(pte2, ring, free, hands)
<1>1. \A t, u \in TlbSpaces, q, r \in TlbPages :
        pte2[t][q].f = pte2[u][r].f /\ pte2[t][q].f # 0 => t = u /\ q = r
  BY DEF TlbHomes, TlbOutside
<1>2. \A t \in TlbSpaces, q \in TlbPages : pte2[t][q].f # 0 =>
       /\ pte2[t][q].f \notin free
       /\ \A e \in ring : e.f # pte2[t][q].f
       /\ \A c \in TlbCpus : pte2[t][q].f \notin hands[c]
  BY DEF TlbHomes, TlbOutside
<1> QED BY <1>1, <1>2, Zenon DEF TlbHomes

TlbHomed == TlbHomes(tlbPte, tlbRing, tlbFree, TlbHands)

LEMMA HandEmpty ==
  ASSUME NEW r, r.new = 0, r.frames = {}
  PROVE  TlbHand(r) = {}
BY TlbAssumption, Zenon DEF TlbHand

LEMMA HandsStep ==
  ASSUME TlbShape, NEW c \in TlbCpus, NEW r, tlbReg' = [tlbReg EXCEPT ![c] = r]
  PROVE  /\ TlbHands'[c] = TlbHand(r) /\ TlbHands[c] = TlbHand(tlbReg[c])
         /\ \A d \in TlbCpus \ {c} : TlbHands'[d] = TlbHands[d]
<1>1. tlbReg'[c] = r /\ \A d \in TlbCpus \ {c} : tlbReg'[d] = tlbReg[d]
  BY Zenon DEF TlbShape
<1> QED BY <1>1 DEF TlbHands

\* A call lets go of frames, or entries are cleared.
LEMMA DropHome ==
  ASSUME TlbShape, TlbHomed, NEW c \in TlbCpus, NEW r, tlbReg' = [tlbReg EXCEPT ![c] = r],
         TlbHand(r) \subseteq TlbHand(tlbReg[c]),
         \A s \in TlbSpaces, p \in TlbPages : tlbPte'[s][p].f \in {0, tlbPte[s][p].f},
         UNCHANGED <<tlbRing, tlbFree>>
  PROVE  TlbHomed'
<1>1. \A d \in TlbCpus : TlbHands'[d] \subseteq TlbHands[d]
  <2>1. /\ TlbHands'[c] = TlbHand(r) /\ TlbHands[c] = TlbHand(tlbReg[c])
        /\ \A d \in TlbCpus \ {c} : TlbHands'[d] = TlbHands[d]
    BY HandsStep, Zenon
  <2> QED BY <2>1, Zenon
<1>2. tlbRing' \subseteq tlbRing /\ tlbFree' \subseteq tlbFree
  BY Zenon
<1>3. TlbHomes(tlbPte, tlbRing, tlbFree, TlbHands)
  BY Zenon DEF TlbHomed
<1>4. TlbHomes(tlbPte', tlbRing', tlbFree', TlbHands')
  BY <1>1, <1>2, <1>3, HomesShrink, Zenon
<1> QED BY <1>4, Zenon DEF TlbHomed

\* The frames of X, now nowhere, go back to the allocator or into quarantine.
LEMMA DisposeHome ==
  ASSUME NEW c \in TlbCpus, NEW X \in SUBSET TlbFrames, TlbDispose(c, X), NEW pte, NEW hands,
         TlbHomes(pte, tlbRing, tlbFree, hands), TlbOutside(X, pte, tlbRing, tlbFree, hands)
  PROVE  TlbHomes(pte, tlbRing', tlbFree', hands)
<1>1. CASE tlbReg[c].clean
  <2>1. tlbFree' = tlbFree \cup X /\ tlbRing' = tlbRing
    BY <1>1, Zenon DEF TlbDispose
  <2>2. TlbHomes(pte, tlbRing, tlbFree \cup X, hands)
    BY HomesFree, Zenon
  <2> QED BY <2>1, <2>2, Zenon
<1>2. CASE ~tlbReg[c].clean
  <2>1. PICK Q \in SUBSET X : /\ tlbRing' = tlbRing \cup {[f |-> f, tick |-> tlbTick] : f \in Q}
                              /\ tlbFree' = tlbFree \cup (X \ Q)
    BY <1>2, Zenon DEF TlbDispose
  <2> DEFINE new == {[f |-> f, tick |-> tlbTick] : f \in Q}
             ring == tlbRing \cup new
             Y == X \ Q
  <2>2. TlbOutside(Q, pte, tlbRing, tlbFree, hands) /\ TlbOutside(Y, pte, tlbRing, tlbFree, hands)
    BY Zenon DEF TlbOutside
  <2>3. \A e \in new : e.f \in Q /\ e.f \notin Y /\ e = [f |-> e.f, tick |-> tlbTick]
    OBVIOUS
  <2> HIDE DEF new, Y
  <2>4. TlbHomes(pte, ring, tlbFree, hands)
    <3>1. \A d, e \in new : d.f = e.f => d = e
      BY <2>3, Zenon
    <3> QED BY <2>2, <2>3, <3>1, HomesRing, Zenon
  <2>5. TlbOutside(Y, pte, ring, tlbFree, hands)
    BY <2>2, <2>3, Zenon DEF TlbOutside
  <2> HIDE DEF ring
  <2>6. Y \in SUBSET TlbFrames
    BY Zenon DEF Y
  <2>7. TlbHomes(pte, ring, tlbFree \cup Y, hands)
    BY <2>4, <2>5, <2>6, HomesFree, Zenon
  <2> QED BY <2>1, <2>7, Zenon DEF ring, new, Y
<1> QED BY <1>1, <1>2, Zenon

\* Steps that move no frame.
TlbStays(c) ==
  \/ TlbSnapshot(c) \/ TlbPublish(c) \/ TlbSend(c) \/ TlbPoll(c) \/ TlbTimeout(c)
  \/ TlbPostForce(c) \/ TlbServe(c) \/ TlbIpi(c) \/ TlbDrain(c)
  \/ TlbForkTable(c) \/ TlbForked(c) \/ TlbSwUnload(c) \/ TlbSwRead(c) \/ TlbSwLoad(c)
  \/ TlbSwMov(c) \/ TlbExUnload(c) \/ TlbExTake(c) \/ TlbExSem(c) \/ TlbBegin(c)
  \/ \E p \in TlbPages : TlbFill(c, p)

\* The call of c may let go of frames, and takes none.
TlbLetsGo(c) ==
  \E r : tlbReg' = [tlbReg EXCEPT ![c] = r] /\ TlbHand(r) \subseteq TlbHand(tlbReg[c])

\* What a step that moves no frame may do to the registers of the call of c.
TlbRegMove(c) ==
  \/ UNCHANGED tlbReg
  \/ \E T : tlbReg' = [tlbReg EXCEPT ![c].targets = T]
  \/ \E T, b : tlbReg' = [tlbReg EXCEPT ![c].targets = T, ![c].clean = b]
  \/ \E T, b : tlbReg' = [tlbReg EXCEPT ![c].clean = b, ![c].targets = T]
  \/ tlbReg' = [tlbReg EXCEPT ![c] = NoRegs]
  \/ \E op, s, R : tlbReg' = [tlbReg EXCEPT ![c] =
                               [NoRegs EXCEPT !.op = op, !.space = s, !.range = R]]
  \/ \E op, s, n : tlbReg' = [tlbReg EXCEPT ![c] =
                               [NoRegs EXCEPT !.op = op, !.space = s, !.next = n]]

LEMMA LetsGo ==
  ASSUME TlbShape, NEW c \in TlbCpus, TlbRegMove(c)
  PROVE  TlbLetsGo(c)
<1>0. tlbReg \in [TlbCpus -> TlbRegRec] /\ tlbReg[c] \in TlbRegRec
  BY Zenon DEF TlbShape
<1>1. CASE UNCHANGED tlbReg
  <2>1. tlbReg' = [tlbReg EXCEPT ![c] = tlbReg[c]]
    BY <1>0, <1>1, Zenon
  <2> QED BY <2>1, Zenon DEF TlbLetsGo
<1>2. ASSUME NEW T, NEW b,
             \/ tlbReg' = [tlbReg EXCEPT ![c].targets = T]
             \/ tlbReg' = [tlbReg EXCEPT ![c].targets = T, ![c].clean = b]
             \/ tlbReg' = [tlbReg EXCEPT ![c].clean = b, ![c].targets = T]
      PROVE  TlbLetsGo(c)
  <2> DEFINE q == [tlbReg[c] EXCEPT !.targets = T]
             r == [tlbReg[c] EXCEPT !.targets = T, !.clean = b]
             u == [tlbReg[c] EXCEPT !.clean = b, !.targets = T]
  <2>1. \/ tlbReg' = [tlbReg EXCEPT ![c] = q]
        \/ tlbReg' = [tlbReg EXCEPT ![c] = r]
        \/ tlbReg' = [tlbReg EXCEPT ![c] = u]
    BY <1>0, <1>2, Zenon
  <2>2. /\ q.op = tlbReg[c].op /\ q.new = tlbReg[c].new /\ q.frames = tlbReg[c].frames
        /\ r.op = tlbReg[c].op /\ r.new = tlbReg[c].new /\ r.frames = tlbReg[c].frames
        /\ u.op = tlbReg[c].op /\ u.new = tlbReg[c].new /\ u.frames = tlbReg[c].frames
    BY <1>0, Zenon DEF TlbRegRec
  <2> HIDE DEF q, r, u
  <2>3. /\ TlbHand(q) = TlbHand(tlbReg[c]) /\ TlbHand(r) = TlbHand(tlbReg[c])
        /\ TlbHand(u) = TlbHand(tlbReg[c])
    BY <2>2, Zenon DEF TlbHand
  <2> QED BY <2>1, <2>3, Zenon DEF TlbLetsGo
<1>3. ASSUME NEW r, r.new = 0, r.frames = {}, tlbReg' = [tlbReg EXCEPT ![c] = r]
      PROVE  TlbLetsGo(c)
  <2>1. TlbHand(r) = {}
    BY <1>3, HandEmpty, Zenon
  <2> QED BY <1>3, <2>1, Zenon DEF TlbLetsGo
<1>4. CASE tlbReg' = [tlbReg EXCEPT ![c] = NoRegs]
  BY <1>3, <1>4, Zenon DEF NoRegs
<1>5. ASSUME NEW op, NEW s, NEW R, tlbReg' = [tlbReg EXCEPT ![c] =
                                     [NoRegs EXCEPT !.op = op, !.space = s, !.range = R]]
      PROVE  TlbLetsGo(c)
  <2> DEFINE r == [NoRegs EXCEPT !.op = op, !.space = s, !.range = R]
  <2>1. r.new = 0 /\ r.frames = {} /\ tlbReg' = [tlbReg EXCEPT ![c] = r]
    BY <1>5, Zenon DEF NoRegs
  <2> HIDE DEF r
  <2> QED BY <1>3, <2>1, Zenon
<1>6. ASSUME NEW op, NEW s, NEW n, tlbReg' = [tlbReg EXCEPT ![c] =
                                     [NoRegs EXCEPT !.op = op, !.space = s, !.next = n]]
      PROVE  TlbLetsGo(c)
  <2> DEFINE r == [NoRegs EXCEPT !.op = op, !.space = s, !.next = n]
  <2>1. r.new = 0 /\ r.frames = {} /\ tlbReg' = [tlbReg EXCEPT ![c] = r]
    BY <1>6, Zenon DEF NoRegs
  <2> HIDE DEF r
  <2> QED BY <1>3, <2>1, Zenon
<1>7. CASE \E T : tlbReg' = [tlbReg EXCEPT ![c].targets = T]
  BY <1>2, <1>7, Zenon
<1>8. CASE \/ \E T, b : tlbReg' = [tlbReg EXCEPT ![c].targets = T, ![c].clean = b]
           \/ \E T, b : tlbReg' = [tlbReg EXCEPT ![c].clean = b, ![c].targets = T]
  BY <1>2, <1>8, Zenon
<1>9. CASE \E op, s, R : tlbReg' = [tlbReg EXCEPT ![c] =
                                    [NoRegs EXCEPT !.op = op, !.space = s, !.range = R]]
  BY <1>5, <1>9, Zenon
<1>10. CASE \E op, s, n : tlbReg' = [tlbReg EXCEPT ![c] =
                                    [NoRegs EXCEPT !.op = op, !.space = s, !.next = n]]
  BY <1>6, <1>10, Zenon
<1> QED BY <1>1, <1>4, <1>7, <1>8, <1>9, <1>10, Zenon DEF TlbRegMove

LEMMA StayHome ==
  ASSUME TlbShape, TlbHomed, NEW c \in TlbCpus, TlbStays(c)
  PROVE  TlbHomed'
<1>1. UNCHANGED <<tlbPte, tlbRing, tlbFree>>
  <2>1. CASE TlbSnapshot(c) \/ TlbPublish(c) \/ TlbSend(c) \/ TlbPoll(c) \/ TlbTimeout(c)
             \/ TlbPostForce(c) \/ TlbServe(c) \/ TlbIpi(c) \/ TlbDrain(c)
    BY <2>1, Zenon DEF TlbSnapshot, TlbPublish, TlbSend, TlbPoll, TlbTimeout, TlbPostForce, TlbServe,
       TlbIpi, TlbDrain, tlbMem
  <2>2. CASE TlbForkTable(c) \/ TlbForked(c) \/ TlbSwUnload(c) \/ TlbSwRead(c) \/ TlbSwLoad(c)
             \/ TlbSwMov(c) \/ TlbExUnload(c) \/ TlbExTake(c) \/ TlbExSem(c)
    BY <2>2, Zenon DEF TlbForkTable, TlbForked, TlbSwUnload, TlbSwRead, TlbSwLoad, TlbSwMov, TlbExUnload,
       TlbExTake, TlbExSem, tlbMem
  <2>3. CASE TlbBegin(c) \/ \E p \in TlbPages : TlbFill(c, p)
    BY <2>3, Zenon DEF TlbBegin, TlbUnmap, TlbWriteFault, TlbReadFault, TlbSwitch, TlbFork, TlbIdle, TlbExit,
       TlbEnter, TlbLeave, TlbFill, tlbMem
  <2> QED BY <2>1, <2>2, <2>3, Zenon DEF TlbStays
<1>2. TlbLetsGo(c)
  <2>1. CASE TlbSnapshot(c)
    BY <2>1, LetsGo, Zenon DEF TlbRegMove, TlbSnapshot
  <2>2. CASE TlbPoll(c)
    <3>1. PICK T : tlbReg' = [tlbReg EXCEPT ![c].targets = T]
      BY <2>2, Zenon DEF TlbPoll
    <3> QED BY <3>1, LetsGo, Zenon DEF TlbRegMove
  <2>3. CASE TlbPostForce(c)
    BY <2>3, LetsGo, Zenon DEF TlbRegMove, TlbPostForce
  <2>4. CASE TlbPublish(c) \/ TlbSend(c) \/ TlbTimeout(c) \/ TlbServe(c) \/ TlbIpi(c) \/ TlbDrain(c)
    BY <2>4, LetsGo, Zenon DEF TlbRegMove, TlbPublish, TlbSend, TlbTimeout, TlbServe, TlbIpi, TlbDrain
  <2>5. CASE TlbForkTable(c) \/ TlbSwUnload(c) \/ TlbSwLoad(c) \/ TlbExUnload(c) \/ TlbExTake(c)
             \/ TlbExSem(c) \/ \E p \in TlbPages : TlbFill(c, p)
    BY <2>5, LetsGo, Zenon DEF TlbRegMove, TlbForkTable, TlbSwUnload, TlbSwLoad, TlbExUnload, TlbExTake, TlbExSem, TlbFill
  <2>6. CASE TlbForked(c) \/ TlbSwRead(c) \/ TlbSwMov(c)
    BY <2>6, LetsGo, Zenon DEF TlbRegMove, TlbForked, TlbSwRead, TlbSwMov, TlbReturn
  <2>7. CASE TlbBegin(c)
    <3>1. ASSUME NEW call, NEW l, NEW range, TlbEnter(c, call, l, range) PROVE TlbLetsGo(c)
      BY <3>1, LetsGo, Zenon DEF TlbRegMove, TlbEnter
    <3>2. ASSUME NEW call, NEW next, TlbLeave(c, call, next) PROVE TlbLetsGo(c)
      BY <3>2, LetsGo, Zenon DEF TlbRegMove, TlbLeave
    <3> QED BY <2>7, <3>1, <3>2, Zenon DEF TlbBegin, TlbUnmap, TlbWriteFault, TlbReadFault,
               TlbSwitch, TlbFork, TlbIdle, TlbExit
  <2> QED BY <2>1, <2>2, <2>3, <2>4, <2>5, <2>6, <2>7, Zenon DEF TlbStays
<1>3. \A s \in TlbSpaces, p \in TlbPages : tlbPte'[s][p].f \in {0, tlbPte[s][p].f}
  BY <1>1, Zenon
<1> QED BY <1>1, <1>2, <1>3, DropHome, Zenon DEF TlbLetsGo

\* Pass 1 of an unmap takes the frames out of the entries it clears.
LEMMA ClearHome ==
  ASSUME TlbIInv, TlbHomed, NEW c \in TlbCpus, TlbClear(c)
  PROVE  TlbHomed'
<1>0. TlbShape /\ TlbControl
  BY Zenon DEF TlbIInv
<1> DEFINE s == tlbReg[c].space
           R == tlbReg[c].range
           X == {tlbPte[s][p].f : p \in {q \in R : tlbPte[s][q].w}}
           r == [tlbReg[c] EXCEPT !.frames = X]
<1>1. s \in TlbSpaces /\ R \in SUBSET TlbPages /\ tlbReg[c].op = "unmap" /\ tlbReg[c] \in TlbRegRec
  BY <1>0, Zenon DEF TlbClear, TlbRuns, TlbShape, TlbControl, TlbAt, TlbSwitching, TlbRegRec
<1>2. /\ UNCHANGED <<tlbRing, tlbFree>> /\ tlbReg' = [tlbReg EXCEPT ![c].frames = X]
      /\ tlbPte' = [tlbPte EXCEPT ![s] = [p \in TlbPages |-> IF p \in R THEN NoEntry ELSE @[p]]]
  BY Zenon DEF TlbClear
<1>3. tlbReg' = [tlbReg EXCEPT ![c] = r]
  BY <1>0, <1>2, Zenon DEF TlbShape
<1>4. \A t \in TlbSpaces, p \in TlbPages :
        tlbPte'[t][p] = IF t = s /\ p \in R THEN NoEntry ELSE tlbPte[t][p]
  BY <1>0, <1>1, <1>2, Zenon DEF TlbShape
<1>5. \A f \in X : \E p \in R : tlbPte[s][p].f = f /\ f \in TlbFrames
  <2>1. \A p \in R : tlbPte[s][p] \in TlbEntry
    BY <1>0, <1>1, Zenon DEF TlbShape
  <2> QED BY <2>1, TlbAssumption, Zenon DEF TlbEntry
<1> HIDE DEF X, s, R
<1>6. TlbHand(r) \subseteq X
  <2>1. r.frames = X /\ r.op = "unmap"
    BY <1>1, Zenon DEF TlbRegRec
  <2> HIDE DEF r
  <2> QED BY <2>1, Zenon DEF TlbHand
<1> HIDE DEF r
<1>7. /\ TlbHands'[c] = TlbHand(r) /\ TlbHands[c] = TlbHand(tlbReg[c])
      /\ \A d \in TlbCpus \ {c} : TlbHands'[d] = TlbHands[d]
  BY <1>0, <1>3, HandsStep, Zenon
<1>8. TlbHomes(tlbPte, tlbRing, tlbFree, TlbHands)
  BY Zenon DEF TlbHomed
<1>9. TlbHomes(tlbPte', tlbRing, tlbFree, TlbHands)
  <2>1. \A t \in TlbSpaces, p \in TlbPages : tlbPte'[t][p].f \in {0, tlbPte[t][p].f}
    BY <1>4, ConstantFacts, Zenon
  <2> QED BY <1>8, <2>1, HomesClear, Zenon
<1>10. TlbOutside(X, tlbPte', tlbRing, tlbFree, TlbHands)
  <2>1. \A t \in TlbSpaces, p \in TlbPages : tlbPte'[t][p].f \notin X
    BY <1>1, <1>4, <1>5, <1>8, ConstantFacts DEF TlbHomes
  <2>2. /\ \A e \in tlbRing : e.f \notin X
        /\ \A d \in TlbCpus : TlbHands[d] \cap X = {}
        /\ tlbFree \cap X = {}
    BY <1>1, <1>5, <1>8, ConstantFacts DEF TlbHomes
  <2> QED BY <2>1, <2>2, Zenon DEF TlbOutside
<1>11. TlbHomes(tlbPte', tlbRing, tlbFree, TlbHands')
  <2>1. X \in SUBSET TlbFrames /\ TlbHands'[c] \subseteq TlbHands[c] \cup X
    BY <1>5, <1>6, <1>7, Zenon
  <2> QED BY <1>7, <1>9, <1>10, <2>1, HomesHand, Zenon
<1> QED BY <1>2, <1>11, Zenon DEF TlbHomed

\* fork keeps every frame where it is.
LEMMA ProtectHome ==
  ASSUME TlbIInv, TlbHomed, NEW c \in TlbCpus, TlbProtect(c)
  PROVE  TlbHomed'
<1>0. TlbShape /\ TlbControl
  BY Zenon DEF TlbIInv
<1> DEFINE s == tlbReg[c].space
<1>1. s \in TlbSpaces
  BY <1>0, Zenon DEF TlbProtect, TlbRuns, TlbControl, TlbAt, TlbSwitching
<1>2. \A t \in TlbSpaces, p \in TlbPages : tlbPte'[t][p].f = tlbPte[t][p].f
  <2>1. \A p \in TlbPages : tlbPte[s][p] \in TlbEntry
    BY <1>0, <1>1, Zenon DEF TlbShape
  <2>2. \A p \in TlbPages : [tlbPte[s][p] EXCEPT !.w = FALSE].f = tlbPte[s][p].f
    BY <2>1, Zenon DEF TlbEntry
  <2>3. tlbPte' = [tlbPte EXCEPT ![s] = [p \in TlbPages |-> [@[p] EXCEPT !.w = FALSE]]]
    BY Zenon DEF TlbProtect
  <2> QED BY <1>0, <1>1, <2>2, <2>3, Zenon DEF TlbShape
<1>3. UNCHANGED <<tlbReg, tlbRing, tlbFree>>
  BY Zenon DEF TlbProtect
<1>4. tlbReg' = [tlbReg EXCEPT ![c] = tlbReg[c]]
  BY <1>0, <1>3, Zenon DEF TlbShape
<1> QED BY <1>0, <1>2, <1>3, <1>4, DropHome, Zenon

\* A fault takes a frame from the allocator, or returns.
LEMMA FaultTableHome ==
  ASSUME TlbIInv, TlbHomed, NEW c \in TlbCpus, TlbFaultTable(c)
  PROVE  TlbHomed'
<1>0. TlbShape
  BY Zenon DEF TlbIInv
<1>1. UNCHANGED <<tlbPte, tlbRing>> /\ tlbReg[c] \in TlbRegRec
  BY <1>0, Zenon DEF TlbFaultTable, TlbShape
<1>2. ASSUME NEW f \in tlbFree, NEW F, tlbFree' = tlbFree \ {f},
             tlbReg' = [tlbReg EXCEPT ![c].new = f, ![c].frames = F],
             tlbReg[c].op \in {"read", "write"}
      PROVE  TlbHomed'
  <2> DEFINE r == [tlbReg[c] EXCEPT !.new = f, !.frames = F]
             free == tlbFree \ {f}
  <2>1. tlbReg' = [tlbReg EXCEPT ![c] = r]
    BY <1>0, <1>2, Zenon DEF TlbShape
  <2>2. TlbHand(r) \subseteq {f}
    <3>1. r.op \in {"read", "write"} /\ r.new = f
      BY <1>1, <1>2, Zenon DEF TlbRegRec
    <3> HIDE DEF r
    <3> QED BY <3>1, Zenon DEF TlbHand
  <2> HIDE DEF r
  <2>3. /\ TlbHands'[c] = TlbHand(r) /\ TlbHands[c] = TlbHand(tlbReg[c])
        /\ \A d \in TlbCpus \ {c} : TlbHands'[d] = TlbHands[d]
    BY <1>0, <2>1, HandsStep, Zenon
  <2>4. TlbHomes(tlbPte, tlbRing, tlbFree, TlbHands) /\ f \in TlbFrames /\ 0 \notin TlbFrames
    BY <1>0, <1>2, TlbAssumption, Zenon DEF TlbHomed, TlbShape
  <2>5. TlbHomes(tlbPte, tlbRing, free, TlbHands) /\ TlbOutside({f}, tlbPte, tlbRing, free, TlbHands)
    BY <2>4 DEF TlbHomes, TlbOutside
  <2> HIDE DEF free
  <2>6. {f} \in SUBSET TlbFrames /\ TlbHands'[c] \subseteq TlbHands[c] \cup {f}
    BY <2>2, <2>3, <2>4, Zenon
  <2>7. TlbHomes(tlbPte, tlbRing, free, TlbHands')
    BY <2>3, <2>5, <2>6, HomesHand, Zenon
  <2> QED BY <1>1, <1>2, <2>7, Zenon DEF TlbHomed, free
<1>3. tlbReg[c].op \in {"read", "write"}
  BY Zenon DEF TlbFaultTable, TlbRuns, TlbIInv, TlbControl, TlbAt
<1>4. CASE TlbReturn(c) /\ UNCHANGED tlbFree
  <2>1. TlbLetsGo(c)
    BY <1>0, <1>4, LetsGo, Zenon DEF TlbReturn, TlbRegMove
  <2>2. \A s \in TlbSpaces, p \in TlbPages : tlbPte'[s][p].f \in {0, tlbPte[s][p].f}
    BY <1>1, Zenon
  <2> QED BY <1>0, <1>1, <1>4, <2>1, <2>2, DropHome, Zenon DEF TlbLetsGo
<1> QED BY <1>2, <1>3, <1>4, Zenon DEF TlbFaultTable

\* A call returns, and the frames X that it held go to the allocator, through
\* quarantine or not, or one of them to an entry.
LEMMA ReturnHome ==
  ASSUME TlbShape, TlbHomed, NEW c \in TlbCpus, TlbReturn(c), NEW X, X \subseteq TlbHand(tlbReg[c])
  PROVE  /\ X \in SUBSET TlbFrames
         /\ TlbHomes(tlbPte, tlbRing, tlbFree, TlbHands')
         /\ TlbOutside(X, tlbPte, tlbRing, tlbFree, TlbHands')
<1>1. TlbHand(NoRegs) = {}
  BY HandEmpty, Zenon DEF NoRegs
<1>2. tlbReg' = [tlbReg EXCEPT ![c] = NoRegs]
  BY Zenon DEF TlbReturn
<1>3. /\ TlbHands'[c] = {} /\ TlbHands[c] = TlbHand(tlbReg[c])
      /\ \A d \in TlbCpus \ {c} : TlbHands'[d] = TlbHands[d]
  BY <1>1, <1>2, HandsStep, Zenon
<1>4. TlbHomes(tlbPte, tlbRing, tlbFree, TlbHands) /\ X \subseteq TlbFrames /\ 0 \notin TlbFrames
  BY TlbAssumption, Zenon DEF TlbHomed, TlbHand
<1>5. TlbHomes(tlbPte, tlbRing, tlbFree, TlbHands')
  <2>1. \A d \in TlbCpus : TlbHands'[d] \subseteq TlbHands[d]
    BY <1>3, Zenon
  <2>2. \A s \in TlbSpaces, p \in TlbPages : tlbPte[s][p].f \in {0, tlbPte[s][p].f}
    BY Zenon
  <2>3. tlbRing \subseteq tlbRing /\ tlbFree \subseteq tlbFree
    BY Zenon
  <2> QED BY <1>4, <2>1, <2>2, <2>3, HomesShrink, Zenon
<1>6. TlbOutside(X, tlbPte, tlbRing, tlbFree, TlbHands')
  <2>1. X \subseteq TlbHands[c]
    BY <1>3, Zenon
  <2>2. \A s \in TlbSpaces, p \in TlbPages : tlbPte[s][p].f \notin X
    BY <1>4, <2>1 DEF TlbHomes
  <2>3. (\A e \in tlbRing : e.f \notin X) /\ tlbFree \cap X = {}
    BY <1>4, <2>1, Zenon DEF TlbHomes
  <2>4. \A d \in TlbCpus : TlbHands'[d] \cap X = {}
    BY <1>3, <1>4, <2>1, Zenon DEF TlbHomes
  <2> QED BY <2>2, <2>3, <2>4, Zenon DEF TlbOutside
<1> QED BY <1>4, <1>5, <1>6, Zenon

LEMMA UnmappedHome ==
  ASSUME TlbIInv, TlbHomed, NEW c \in TlbCpus, TlbUnmapped(c)
  PROVE  TlbHomed'
<1>0. TlbShape /\ tlbReg[c] \in TlbRegRec
  BY Zenon DEF TlbIInv, TlbShape
<1> DEFINE X == tlbReg[c].frames
<1>1. TlbDispose(c, X) /\ TlbReturn(c) /\ UNCHANGED tlbPte /\ tlbReg[c].op = "unmap"
  BY Zenon DEF TlbUnmapped
<1>2. X \subseteq TlbHand(tlbReg[c])
  BY <1>0, <1>1, Zenon DEF TlbHand, TlbRegRec
<1> HIDE DEF X
<1>3. /\ X \in SUBSET TlbFrames
      /\ TlbHomes(tlbPte, tlbRing, tlbFree, TlbHands')
      /\ TlbOutside(X, tlbPte, tlbRing, tlbFree, TlbHands')
  BY <1>0, <1>1, <1>2, ReturnHome, Zenon
<1>4. TlbHomes(tlbPte, tlbRing', tlbFree', TlbHands')
  BY <1>1, <1>3, DisposeHome, Zenon
<1> QED BY <1>1, <1>4, Zenon DEF TlbHomed

\* The frame of a fault that lost goes back to the allocator.
LEMMA LoserHome ==
  ASSUME TlbShape, TlbHomed, NEW c \in TlbCpus, TlbReturn(c),
         tlbReg[c].op \in {"read", "write"}, tlbReg[c].new \in TlbFrames,
         tlbFree' = tlbFree \cup {tlbReg[c].new}, UNCHANGED <<tlbPte, tlbRing>>
  PROVE  TlbHomed'
<1> DEFINE X == {tlbReg[c].new}
<1>1. X \subseteq TlbHand(tlbReg[c]) /\ tlbFree' = tlbFree \cup X
  BY Zenon DEF TlbHand
<1> HIDE DEF X
<1>2. /\ X \in SUBSET TlbFrames
      /\ TlbHomes(tlbPte, tlbRing, tlbFree, TlbHands')
      /\ TlbOutside(X, tlbPte, tlbRing, tlbFree, TlbHands')
  BY <1>1, ReturnHome, Zenon
<1>3. TlbHomes(tlbPte, tlbRing, tlbFree \cup X, TlbHands')
  BY <1>2, HomesFree, Zenon
<1> QED BY <1>1, <1>3, Zenon DEF TlbHomed

\* The frame of a fault that won goes to the entry.
LEMMA WinnerHome ==
  ASSUME TlbShape, TlbHomed, NEW c \in TlbCpus, TlbReturn(c),
         tlbReg[c].op \in {"read", "write"}, tlbReg[c].new \in TlbFrames,
         NEW s \in TlbSpaces, NEW p \in TlbPages, tlbPte'[s][p].f = tlbReg[c].new,
         \A t \in TlbSpaces, q \in TlbPages : t # s \/ q # p => tlbPte'[t][q] = tlbPte[t][q],
         UNCHANGED <<tlbFree, tlbRing>>
  PROVE  TlbHomed'
<1> DEFINE x == tlbReg[c].new
<1>1. {x} \subseteq TlbHand(tlbReg[c])
  BY Zenon DEF TlbHand
<1>2. x \in TlbFrames /\ tlbPte'[s][p].f = x
  BY Zenon
<1> HIDE DEF x
<1>3. /\ TlbHomes(tlbPte, tlbRing, tlbFree, TlbHands')
      /\ TlbOutside({x}, tlbPte, tlbRing, tlbFree, TlbHands')
  BY <1>1, ReturnHome, Zenon
<1>4. TlbHomes(tlbPte', tlbRing, tlbFree, TlbHands')
  BY <1>2, <1>3, HomesPte
<1> QED BY <1>4, Zenon DEF TlbHomed

LEMMA BreakHome ==
  ASSUME TlbIInv, TlbHomed, NEW c \in TlbCpus, TlbBreak(c)
  PROVE  TlbHomed'
<1>0. TlbShape /\ TlbControl
  BY Zenon DEF TlbIInv
<1> DEFINE s == tlbReg[c].space
<1>1. s \in TlbSpaces /\ tlbReg[c].op = "write" /\ tlbReg[c].new \in TlbFrames
  BY <1>0, Zenon DEF TlbBreak, TlbRuns, TlbControl, TlbAt, TlbSwitching
<1>2. PICK p \in TlbPages : (CHOOSE q \in TlbPages : q \in tlbReg[c].range) = p
  BY <1>0, <1>1, FaultPage, Zenon
<1>3. UNCHANGED tlbRing
  BY Zenon DEF TlbBreak
<1>4. CASE tlbPte' = [tlbPte EXCEPT ![s][p] = NoEntry] /\ UNCHANGED <<tlbFree, tlbReg>>
  <2>1. \A t \in TlbSpaces, q \in TlbPages : tlbPte'[t][q].f \in {0, tlbPte[t][q].f}
    <3>1. \A t \in TlbSpaces, q \in TlbPages :
            tlbPte'[t][q] = IF t = s /\ q = p THEN NoEntry ELSE tlbPte[t][q]
      BY <1>0, <1>1, <1>4, Zenon DEF TlbShape
    <3> QED BY <3>1, ConstantFacts, Zenon
  <2>2. TlbLetsGo(c)
    BY <1>0, <1>4, LetsGo, Zenon DEF TlbRegMove
  <2> QED BY <1>0, <1>3, <1>4, <2>1, <2>2, DropHome, Zenon DEF TlbLetsGo
<1>5. CASE tlbFree' = tlbFree \cup {tlbReg[c].new} /\ TlbReturn(c) /\ UNCHANGED tlbPte
  BY <1>0, <1>1, <1>3, <1>5, LoserHome, Zenon
<1> QED BY <1>2, <1>4, <1>5, Zenon DEF TlbBreak

LEMMA MakeHome ==
  ASSUME TlbIInv, TlbHomed, NEW c \in TlbCpus, TlbMake(c)
  PROVE  TlbHomed'
<1>0. TlbShape /\ TlbControl
  BY Zenon DEF TlbIInv
<1> DEFINE s == tlbReg[c].space
           new == [f |-> tlbReg[c].new, w |-> TRUE]
<1>1. /\ s \in TlbSpaces /\ tlbReg[c].op = "write" /\ tlbReg[c].new \in TlbFrames
      /\ TlbReturn(c) /\ UNCHANGED <<tlbFree, tlbRing>>
  BY <1>0, Zenon DEF TlbMake, TlbRuns, TlbControl, TlbAt, TlbSwitching
<1>2. PICK p \in TlbPages : tlbReg[c].range = {p}
  BY <1>0, <1>1, FaultPage, Zenon
<1>3. tlbPte' = [tlbPte EXCEPT ![s] = [q \in TlbPages |-> IF q \in {p} THEN new ELSE @[q]]]
  BY <1>2, Zenon DEF TlbMake
<1>4. new.f = tlbReg[c].new
  BY Zenon
<1> HIDE DEF new, s
<1>5. /\ tlbPte'[s][p] = new
      /\ \A t \in TlbSpaces, q \in TlbPages : t # s \/ q # p => tlbPte'[t][q] = tlbPte[t][q]
  BY <1>0, <1>1, <1>3, Zenon DEF TlbShape
<1>6. tlbPte'[s][p].f = tlbReg[c].new
  BY <1>4, <1>5, Zenon
<1> QED BY <1>0, <1>1, <1>5, <1>6, WinnerHome, Zenon

LEMMA InstallHome ==
  ASSUME TlbIInv, TlbHomed, NEW c \in TlbCpus, TlbInstall(c)
  PROVE  TlbHomed'
<1>0. TlbShape /\ TlbControl
  BY Zenon DEF TlbIInv
<1> DEFINE s == tlbReg[c].space
           new == [f |-> tlbReg[c].new, w |-> TRUE]
<1>1. /\ s \in TlbSpaces /\ tlbReg[c].op = "read" /\ tlbReg[c].new \in TlbFrames
      /\ TlbReturn(c) /\ UNCHANGED tlbRing
  BY <1>0, Zenon DEF TlbInstall, TlbRuns, TlbControl, TlbAt, TlbSwitching
<1>2. PICK p \in TlbPages : (CHOOSE q \in TlbPages : q \in tlbReg[c].range) = p
  BY <1>0, <1>1, FaultPage, Zenon
<1>3. CASE tlbPte' = [tlbPte EXCEPT ![s][p] = new] /\ UNCHANGED tlbFree
  <2>1. new.f = tlbReg[c].new
    BY Zenon
  <2> HIDE DEF new, s
  <2>2. /\ tlbPte'[s][p] = new
        /\ \A t \in TlbSpaces, q \in TlbPages : t # s \/ q # p => tlbPte'[t][q] = tlbPte[t][q]
    BY <1>0, <1>1, <1>3, Zenon DEF TlbShape
  <2>3. tlbPte'[s][p].f = tlbReg[c].new
    BY <2>1, <2>2, Zenon
  <2> QED BY <1>0, <1>1, <1>3, <2>2, <2>3, WinnerHome, Zenon
<1>4. CASE tlbFree' = tlbFree \cup {tlbReg[c].new} /\ UNCHANGED tlbPte
  BY <1>0, <1>1, <1>4, LoserHome, Zenon
<1> QED BY <1>2, <1>3, <1>4, Zenon DEF TlbInstall

LEMMA ExFreeHome ==
  ASSUME TlbIInv, TlbHomed, NEW c \in TlbCpus, TlbExFree(c)
  PROVE  TlbHomed'
<1>0. TlbShape /\ TlbControl
  BY Zenon DEF TlbIInv
<1> DEFINE s == tlbReg[c].space
           X == {tlbPte[s][p].f : p \in {q \in TlbPages : tlbPte[s][q].w}}
<1>1. /\ s \in TlbSpaces /\ TlbDispose(c, X) /\ TlbReturn(c)
      /\ tlbPte' = [tlbPte EXCEPT ![s] = [p \in TlbPages |-> NoEntry]]
  BY <1>0, Zenon DEF TlbExFree, TlbRuns, TlbControl, TlbAt, TlbSwitching
<1>2. \A f \in X : f \in TlbFrames /\ \E p \in TlbPages : tlbPte[s][p].f = f
  <2>1. \A p \in TlbPages : tlbPte[s][p] \in TlbEntry
    BY <1>0, <1>1, Zenon DEF TlbShape
  <2> QED BY <2>1, TlbAssumption, Zenon DEF TlbEntry
<1> HIDE DEF X, s
<1>3. \A t \in TlbSpaces, p \in TlbPages :
        tlbPte'[t][p] = IF t = s THEN NoEntry ELSE tlbPte[t][p]
  BY <1>0, <1>1, Zenon DEF TlbShape
<1>4. TlbHomes(tlbPte, tlbRing, tlbFree, TlbHands')
  <2>1. {} \subseteq TlbHand(tlbReg[c])
    BY Zenon
  <2> QED BY <1>0, <1>1, <2>1, ReturnHome, Zenon
<1>5. TlbHomes(tlbPte', tlbRing, tlbFree, TlbHands')
  <2>1. \A t \in TlbSpaces, p \in TlbPages : tlbPte'[t][p].f \in {0, tlbPte[t][p].f}
    BY <1>3, ConstantFacts, Zenon
  <2> QED BY <1>4, <2>1, HomesClear, Zenon
<1>6. TlbOutside(X, tlbPte', tlbRing, tlbFree, TlbHands')
  <2>1. \A t \in TlbSpaces, p \in TlbPages : tlbPte'[t][p].f \notin X
    BY <1>1, <1>2, <1>3, <1>4, ConstantFacts DEF TlbHomes
  <2>2. /\ \A e \in tlbRing : e.f \notin X
        /\ \A d \in TlbCpus : TlbHands'[d] \cap X = {}
        /\ tlbFree \cap X = {}
    BY <1>1, <1>2, <1>4, ConstantFacts DEF TlbHomes
  <2> QED BY <2>1, <2>2, Zenon DEF TlbOutside
<1>7. TlbHomes(tlbPte', tlbRing', tlbFree', TlbHands')
  <2>1. X \in SUBSET TlbFrames
    BY <1>2, Zenon
  <2> QED BY <1>1, <1>5, <1>6, <2>1, DisposeHome, Zenon
<1> QED BY <1>7, Zenon DEF TlbHomed

\* The timer ISR takes frames out of quarantine.
LEMMA TickHome ==
  ASSUME TlbIInv, TlbHomed, NEW c \in TlbCpus, TlbTickIsr(c)
  PROVE  TlbHomed'
<1>0. TlbShape
  BY Zenon DEF TlbIInv
<1>1. PICK due \in SUBSET tlbRing : tlbRing' = tlbRing \ due /\ tlbFree' = tlbFree \cup {e.f : e \in due}
  <2> DEFINE D == {e \in tlbRing : e.tick < Min({tlbCpu'[d].last : d \in TlbCpus})}
  <2>1. D \in SUBSET tlbRing
    BY Zenon
  <2>2. tlbRing' = tlbRing \ D /\ tlbFree' = tlbFree \cup {e.f : e \in D}
    BY Zenon DEF TlbTickIsr
  <2> HIDE DEF D
  <2> QED BY <2>1, <2>2, Zenon
<1>2. UNCHANGED <<tlbPte, tlbReg>>
  BY Zenon DEF TlbTickIsr
<1> DEFINE X == {e.f : e \in due}
           ring == tlbRing \ due
<1>3. (\A f \in X : \E e \in due : e.f = f) /\ X \in SUBSET TlbFrames
  BY <1>0 DEF TlbShape
<1>4. TlbHomes(tlbPte, tlbRing, tlbFree, TlbHands) /\ 0 \notin TlbFrames
  BY TlbAssumption, Zenon DEF TlbHomed
<1> HIDE DEF X
<1>5. TlbHomes(tlbPte, ring, tlbFree, TlbHands)
  BY <1>4, Zenon DEF TlbHomes
<1>6. TlbOutside(X, tlbPte, ring, tlbFree, TlbHands)
  <2>1. \A s \in TlbSpaces, p \in TlbPages : tlbPte[s][p].f \notin X
    BY <1>3, <1>4 DEF TlbHomes
  <2>2. \A e \in ring : e.f \notin X
    BY <1>3, <1>4 DEF TlbHomes
  <2>3. (\A d \in TlbCpus : TlbHands[d] \cap X = {}) /\ tlbFree \cap X = {}
    BY <1>3, <1>4 DEF TlbHomes
  <2> QED BY <2>1, <2>2, <2>3, Zenon DEF TlbOutside
<1> HIDE DEF ring
<1>7. TlbHomes(tlbPte, ring, tlbFree \cup X, TlbHands)
  BY <1>3, <1>5, <1>6, HomesFree, Zenon
<1>8. TlbHands' = TlbHands
  BY <1>2, Zenon DEF TlbHands
<1> QED BY <1>1, <1>2, <1>7, <1>8, Zenon DEF TlbHomed, X, ring

LEMMA InitHome ==
  ASSUME TlbInit PROVE TlbHomed
<1>0. /\ TlbMap \in [TlbSpaces -> [TlbPages -> TlbFrames \cup {0}]]
      /\ \A s, t \in TlbSpaces : \A p, q \in TlbPages :
           TlbMap[s][p] = TlbMap[t][q] /\ TlbMap[s][p] # 0 => s = t /\ p = q
  BY TlbAssumption, Zenon
<1>1. ASSUME NEW s \in TlbSpaces, NEW p \in TlbPages PROVE tlbPte[s][p].f = TlbMap[s][p]
  <2>1. CASE TlbMap[s][p] = 0
    <3>1. tlbPte[s][p] = NoEntry
      BY <2>1, Zenon DEF TlbInit
    <3> QED BY <2>1, <3>1, ConstantFacts, Zenon
  <2>2. CASE TlbMap[s][p] # 0
    <3>1. tlbPte[s][p] = [f |-> TlbMap[s][p], w |-> TRUE]
      BY <2>2, Zenon DEF TlbInit
    <3> QED BY <3>1
  <2> QED BY <2>1, <2>2, Zenon
<1>2. \A c \in TlbCpus : TlbHands[c] = {}
  <2>1. TlbHand(NoRegs) = {}
    BY HandEmpty, Zenon DEF NoRegs
  <2>2. \A c \in TlbCpus : tlbReg[c] = NoRegs
    BY Zenon DEF TlbInit
  <2> QED BY <2>1, <2>2, Zenon DEF TlbHands
<1>3. \A s \in TlbSpaces, p \in TlbPages : TlbMap[s][p] \notin tlbFree
  <2>1. \A s \in TlbSpaces, p \in TlbPages : TlbMap[s][p] \in Range(TlbMap[s])
    BY <1>0, Zenon DEF Range
  <2> QED BY <2>1, Zenon DEF TlbInit
<1>4. tlbRing = {}
  BY Zenon DEF TlbInit
<1> QED BY <1>0, <1>1, <1>2, <1>3, <1>4 DEF TlbHomed, TlbHomes

LEMMA NextHome ==
  ASSUME TlbIInv, TlbHomed, [TlbNext]_tlbVars PROVE TlbHomed'
<1>1. CASE UNCHANGED tlbVars
  <2>1. TlbHands' = TlbHands
    BY <1>1, Zenon DEF TlbHands, tlbVars
  <2> QED BY <1>1, <2>1, Zenon DEF TlbHomed, tlbVars
<1>2. CASE TlbNext
  <2>0. TlbShape
    BY Zenon DEF TlbIInv
  <2>1. PICK c \in TlbCpus : \/ TlbStep(c) \/ TlbBegin(c) \/ TlbTimeout(c) \/ TlbTickIsr(c)
                             \/ \E p \in TlbPages : TlbFill(c, p)
    BY <1>2, Zenon DEF TlbNext
  <2>2. CASE TlbStays(c)
    BY <2>0, <2>2, StayHome, Zenon
  <2>3. CASE TlbClear(c) \/ TlbUnmapped(c) \/ TlbProtect(c) \/ TlbFaultTable(c) \/ TlbBreak(c)
             \/ TlbMake(c) \/ TlbInstall(c) \/ TlbExFree(c) \/ TlbTickIsr(c)
    BY Zenon, <2>3, ClearHome, UnmappedHome, ProtectHome, FaultTableHome, BreakHome, MakeHome, InstallHome,
       ExFreeHome, TickHome
  <2> QED BY <2>1, <2>2, <2>3, Zenon DEF TlbStep, TlbStays
<1> QED BY <1>1, <1>2, Zenon

LEMMA AtMostOne ==
  ASSUME NEW S, \A x, y \in S : x = y
  PROVE  (S = {} /\ Cardinality(S) = 0) \/ (S # {} /\ Cardinality(S) = 1)
<1>1. CASE S = {}
  BY <1>1, FS_EmptySet, Zenon
<1>2. ASSUME NEW x \in S PROVE S # {} /\ Cardinality(S) = 1
  <2>1. S = {x}
    BY Zenon
  <2> QED BY <2>1, FS_Singleton, Zenon
<1> QED BY <1>1, <1>2, Zenon

\* No frame is in two places at once (the three passes of unmap, the frame swap
\* of the copy-on-write arm, the loser of an install, the quarantine and its
\* drain by the timer ISR, the teardown of an address space): for any number of
\* CPUs, address spaces, pages and frames and any size of the quarantine ring,
\* whether or not shootdowns meet in a slot or spins time out.
THEOREM FrameHasOneHome == TlbSpec => []TlbOneHome
<1>1. TlbHomed => TlbOneHome
  <2> SUFFICES ASSUME TlbHomed, NEW f \in TlbFrames
      PROVE  Cardinality({sp \in TlbSpaces \X TlbPages : tlbPte[sp[1]][sp[2]].f = f})
             + Cardinality({e \in tlbRing : e.f = f})
             + Cardinality({c \in TlbCpus : \/ tlbReg[c].op \in {"write", "read"} /\ tlbReg[c].new = f
                                            \/ tlbReg[c].op = "unmap" /\ f \in tlbReg[c].frames})
             + (IF f \in tlbFree THEN 1 ELSE 0) <= 1
    BY Zenon DEF TlbOneHome
  <2> DEFINE M == {sp \in TlbSpaces \X TlbPages : tlbPte[sp[1]][sp[2]].f = f}
             Q == {e \in tlbRing : e.f = f}
             C == {c \in TlbCpus : \/ tlbReg[c].op \in {"write", "read"} /\ tlbReg[c].new = f
                                   \/ tlbReg[c].op = "unmap" /\ f \in tlbReg[c].frames}
  <2>0. TlbHomes(tlbPte, tlbRing, tlbFree, TlbHands) /\ f # 0
    BY TlbAssumption, Zenon DEF TlbHomed
  <2>1. \A c \in C : c \in TlbCpus /\ f \in TlbHands[c]
    BY Zenon DEF TlbHands, TlbHand
  <2>2. \A sp \in M : /\ sp[1] \in TlbSpaces /\ sp[2] \in TlbPages /\ sp = <<sp[1], sp[2]>>
                     /\ tlbPte[sp[1]][sp[2]].f = f
    OBVIOUS
  <2>3. \A e \in Q : e \in tlbRing /\ e.f = f
    BY Zenon
  <2> HIDE DEF M, Q, C
  <2>4. \A x, y \in M : x = y
    BY <2>0, <2>2 DEF TlbHomes
  <2>5. \A x, y \in Q : x = y
    BY <2>0, <2>3 DEF TlbHomes
  <2>6. \A x, y \in C : x = y
    BY <2>0, <2>1, Zenon DEF TlbHomes
  <2>7. M # {} => Q = {} /\ C = {} /\ f \notin tlbFree
    BY <2>0, <2>1, <2>2, <2>3 DEF TlbHomes
  <2>8. (Q # {} => C = {} /\ f \notin tlbFree) /\ (C # {} => f \notin tlbFree)
    BY <2>0, <2>1, <2>3 DEF TlbHomes
  <2>9. Cardinality(M) + Cardinality(Q) + Cardinality(C) + (IF f \in tlbFree THEN 1 ELSE 0) <= 1
    <3>1. (M = {} /\ Cardinality(M) = 0) \/ (M # {} /\ Cardinality(M) = 1)
      BY <2>4, AtMostOne, Zenon
    <3>2. (Q = {} /\ Cardinality(Q) = 0) \/ (Q # {} /\ Cardinality(Q) = 1)
      BY <2>5, AtMostOne, Zenon
    <3>3. (C = {} /\ Cardinality(C) = 0) \/ (C # {} /\ Cardinality(C) = 1)
      BY <2>6, AtMostOne, Zenon
    <3> QED BY <2>7, <2>8, <3>1, <3>2, <3>3
  <2> QED BY <2>9, Zenon DEF M, Q, C
<1> QED BY <1>1, InitIInv, NextIInv, InitHome, NextHome, PTL DEF TlbSpec

=============================================================================
