----------------------------- MODULE MCPlatform -----------------------------
(* Small instances of Platform: two workers, two incidents and a message   *)
(* that does not deserialize.                                              *)
EXTENDS Platform

CONSTANTS w1, w2, e1, e2, junk
=============================================================================
