------------------------------ MODULE MCOutbox ------------------------------
(* Small instances of Outbox: one API process with a request thread, and a *)
(* second one with a retry thread; the first has a retry thread as well.   *)
EXTENDS Outbox

CONSTANTS e1, e2, p1, p2, a1, b1, b2

MCProcOf == [t \in Threads |-> IF t = b2 THEN p2 ELSE p1]
=============================================================================
