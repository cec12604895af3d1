------------------------------ MODULE Delivery ------------------------------
(***************************************************************************)
(* What the outbox promises to the rest of the platform, and nothing of    *)
(* how: an event exists once its incident is committed, the topic receives *)
(* copies of committed events only, and an event is called published only  *)
(* when the topic holds a copy.  Several copies are allowed, before and    *)
(* after the event is published: delivery is at least once.                *)
(***************************************************************************)
EXTENDS Naturals

CONSTANTS
    Events,         \* incident.created events
    Deliverable     \* the events whose stored payload is still valid

VARIABLES
    status,         \* "absent", "pending" or "published" for every event
    copies          \* how many copies of the event the topic holds

vars == <<status, copies>>

Init ==
    /\ status = [e \in Events |-> "absent"]
    /\ copies = [e \in Events |-> 0]

Accept(e) ==
    /\ status[e] = "absent"
    /\ status' = [status EXCEPT ![e] = "pending"]
    /\ UNCHANGED copies

Append(e) ==
    /\ status[e] # "absent"
    /\ copies' = [copies EXCEPT ![e] = @ + 1]
    /\ UNCHANGED status

Confirm(e) ==
    /\ status[e] = "pending"
    /\ copies[e] > 0
    /\ status' = [status EXCEPT ![e] = "published"]
    /\ UNCHANGED copies

Next == \E e \in Events : Accept(e) \/ Append(e) \/ Confirm(e)

Spec == Init /\ [][Next]_vars
=============================================================================
