------------------------------ MODULE EndToEnd ------------------------------
(***************************************************************************)
(* What the platform promises to whoever reports an incident: an incident  *)
(* that is accepted is processed, once, and nothing else is.               *)
(***************************************************************************)
CONSTANT Incidents

VARIABLE stage      \* "absent", "accepted" or "processed" for every incident

Init == stage = [i \in Incidents |-> "absent"]

Accept(i) ==
    /\ stage[i] = "absent"
    /\ stage' = [stage EXCEPT ![i] = "accepted"]

Process(i) ==
    /\ stage[i] = "accepted"
    /\ stage' = [stage EXCEPT ![i] = "processed"]

Next == \E i \in Incidents : Accept(i) \/ Process(i)

Spec == Init /\ [][Next]_stage

LiveSpec == Spec /\ \A i \in Incidents : WF_stage(Process(i))
=============================================================================
