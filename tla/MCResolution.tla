----------------------------- MODULE MCResolution -----------------------------
(* Two events of one incident, two workers and two chunks.                 *)
EXTENDS Resolution

CONSTANTS w1, w2, e1, e2

MCContexts == {{}, {1}, {1, 2}}

MCAnswers == {[cites |-> {2}, duplicates |-> FALSE], [cites |-> {1}, duplicates |-> TRUE]}
=============================================================================
