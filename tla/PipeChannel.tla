---------------------------- MODULE PipeChannel ----------------------------
(* The pipe of Pipe.tla implements the channel of ByteChannel.tla.          *)
EXTENDS Pipe

\* The ring is the queue and its capacity the room; the write calls and the bytes
\* deposited are the histories Pipe keeps.
Channel == INSTANCE ByteChannel
    WITH Sizes <- WriteSizes, Rooms <- Caps, InitRoom <- InitCap,
         queue <- buf, room <- cap, calls <- sizes, sent <- stream

\* Whatever the threads do, each step of the pipe is a step of the channel or
\* leaves it unchanged: bytes leave in the order they came, never more than the
\* capacity, and a write of at most PIPE_BUF bytes goes in at once or not at all
\* (pipe_write_atomic, pipe_write, pipe_read, pipe_drain_console, pipe_set_capacity).
ImplementsChannel == Channel!ChSpec
=============================================================================
