----------------------------- MODULE MCRtKernel -----------------------------
(* Two threads of the highest priority, and idle.                           *)
EXTENDS RtKernel, TLC
CONSTANTS a, b, idle
MCThread == {a, b, idle}
MCPrio == (a :> 0) @@ (b :> 0) @@ (idle :> 1)
MCSlice == [t \in MCThread |-> IF t = a THEN 2 ELSE 1]
=============================================================================
