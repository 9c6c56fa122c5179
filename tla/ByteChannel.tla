---------------------------- MODULE ByteChannel ----------------------------
(***************************************************************************)
(* What a pipe promises, without threads, locks or wait lists: a bounded   *)
(* first-in first-out queue of bytes, into which a write of at most        *)
(* PIPE_BUF bytes goes whole or not at all.  A byte is the number of the   *)
(* write call it came from.                                                *)
(***************************************************************************)
EXTENDS Naturals, Sequences

CONSTANTS PipeBuf,  \* PIPE_BUF
          Sizes,    \* byte counts of write calls
          Rooms,    \* capacities the queue can be given
          InitRoom  \* the capacity of a new queue

VARIABLES queue,  \* the bytes written and not yet read, oldest first
          room,   \* the capacity
          calls,  \* calls[w]: the byte count of write call w
          sent    \* every byte ever put in the queue

chVars == <<queue, room, calls, sent>>

ChInit == queue = <<>> /\ room = InitRoom /\ calls = <<>> /\ sent = <<>>

\* A write of n bytes is called.
Call(n) ==
    /\ calls' = Append(calls, n)
    /\ UNCHANGED <<queue, room, sent>>

\* Write call w puts n of its bytes: all of them, at once, when they are few.
PutBytes(w, n) ==
    /\ n > 0 /\ Len(queue) + n <= room
    /\ calls[w] <= PipeBuf => n = calls[w] /\ \A i \in 1..Len(sent) : sent[i] # w
    /\ queue' = queue \o [i \in 1..n |-> w]
    /\ sent' = sent \o [i \in 1..n |-> w]
    /\ UNCHANGED <<room, calls>>

\* A reader, or the console backstop, takes the n oldest bytes.
TakeBytes(n) ==
    /\ n > 0
    /\ queue' = SubSeq(queue, n + 1, Len(queue))
    /\ UNCHANGED <<room, calls, sent>>

\* F_SETPIPE_SZ: the new capacity holds what is in the queue.
Resize ==
    /\ room' \in Rooms
    /\ Len(queue) <= room'
    /\ UNCHANGED <<queue, calls, sent>>

ChNext ==
    \/ \E n \in Sizes : Call(n)
    \/ \E w \in 1..Len(calls), n \in 1..room : PutBytes(w, n)
    \/ \E n \in 1..Len(queue) : TakeBytes(n)
    \/ Resize

ChSpec == ChInit /\ [][ChNext]_chVars
=============================================================================
