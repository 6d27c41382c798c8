--------------------------- MODULE MCProcManager ---------------------------
(* ProcManager for TLC: the two callers are an apply and the shutdown. *)
EXTENDS ProcManager

CONSTANTS c1, c2

TwoCallers == {c1, c2}
============================================================================
