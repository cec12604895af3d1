---------------------------- MODULE MCIngestion ----------------------------
(* Small instances of Ingestion: a runbook in two texts, the first of      *)
(* which may be cut in two ways.                                           *)
EXTENDS Ingestion

CONSTANTS i1, i2, old, recut, new, oldText, newText

MCContent == [v \in Versions |-> IF v = new THEN newText ELSE oldText]
MCSize == [v \in Versions |-> IF v = old THEN 2 ELSE 1]
=============================================================================
