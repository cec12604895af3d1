----------------------------- MODULE Settlement -----------------------------
(***************************************************************************)
(* What a workflow promises to the worker that hands it the events of an   *)
(* incident: the incident is settled once, as completed or as failed; an   *)
(* event is marked with that outcome, once and only then; and its offset   *)
(* is passed over only when it is marked.  The promise holds until the     *)
(* assumption it rests on is broken, and is void from then on.             *)
(***************************************************************************)
CONSTANT Events

VARIABLES
    outcome,    \* "open", "completed" or "failed"
    marker,     \* "none", "completed" or "failed" for every event
    passed,     \* the events whose offset is committed
    void        \* two workers may be about the same thing

vars == <<outcome, marker, passed, void>>

Init ==
    /\ outcome = "open"
    /\ marker = [e \in Events |-> "none"]
    /\ passed = {}
    /\ void = FALSE

Settle ==
    /\ outcome = "open"
    /\ outcome' \in {"completed", "failed"}
    /\ UNCHANGED <<marker, passed>>

Mark(e) ==
    /\ outcome # "open"
    /\ marker[e] = "none"
    /\ marker' = [marker EXCEPT ![e] = outcome]
    /\ UNCHANGED <<outcome, passed>>

Pass(e) ==
    /\ marker[e] # "none"
    /\ passed' = passed \cup {e}
    /\ UNCHANGED <<outcome, marker>>

Keep ==
    /\ Settle \/ \E e \in Events : Mark(e) \/ Pass(e)
    /\ void = FALSE
    /\ void' = FALSE

Break == void' = TRUE

Next == Keep \/ Break

Spec == Init /\ [][Next]_vars
=============================================================================
