-------------------------- MODULE MCAgentExecution --------------------------
(* Small instances of AgentExecution: two workers, two runbook queries,    *)
(* and the tools by name.                                                  *)
EXTENDS AgentExecution

CONSTANTS w1, w2, r1, r2, incident, runbookA, runbookB, other
=============================================================================
