------------------------------- MODULE MCPipe -------------------------------
(* Small instances of Pipe: the threads a, b, c in two processes.           *)
EXTENDS PipeChannel, TLC

CONSTANTS a, b, c, parent, child

\* a runs in parent, which calls pipe(2); b and c share the fds of child.
MCProcOf == [t \in Threads |-> IF t = a THEN parent ELSE child]

\* The threads of one process are interchangeable.
MCSymmetry == Permutations(Threads \ {a})
=============================================================================
