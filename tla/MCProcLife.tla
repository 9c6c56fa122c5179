----------------------------- MODULE MCProcLife -----------------------------
(* Small instances of ProcLife: PID 1 with threads i and j, process 2 with  *)
(* threads a and b, process 3 with thread c.                                *)
EXTENDS ProcLife

CONSTANTS ti, tj, ta, tb, tc

MCProcOf == [t \in Tids |-> IF t \in {ti, tj} THEN 1 ELSE IF t \in {ta, tb} THEN 2 ELSE 3]
MCMain == [p \in Pids |-> IF p = 1 THEN ti ELSE IF p = 2 THEN ta ELSE tc]
MCParentOf == [p \in Initial |-> IF p = 1 THEN None ELSE 1]
=============================================================================
