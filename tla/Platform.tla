------------------------------ MODULE Platform ------------------------------
(***************************************************************************)
(* The platform from the request to the processed event.  Delivery stands  *)
(* for intake, dispatcher and producer (Outbox implements it), Consumer    *)
(* for the workers; they share the topic: a copy that Delivery appends is  *)
(* a message of the log.  What the workers cannot deserialize comes from   *)
(* elsewhere.                                                              *)
(***************************************************************************)
EXTENDS Consumer, FiniteSets

CONSTANT MaxExtra   \* bound on what the topic holds beyond a first copy of
                    \* every event: second copies and foreign messages

VARIABLES
    status,         \* of the outbox rows, as in Delivery
    copies          \* of every event in the topic, as in Delivery

ASSUME PlatformAssumption ==
    /\ MaxExtra \in Nat

Incidents == Events \ Malformed

AtLeastOnce == INSTANCE Delivery WITH Events <- Incidents, Deliverable <- Incidents

outboxVars == <<status, copies>>
allVars == <<vars, outboxVars>>

-----------------------------------------------------------------------------
PlatformInit == Init /\ AtLeastOnce!Init

(* The transaction of the request, and of the dispatcher *)
Accept(e) == AtLeastOnce!Accept(e) /\ UNCHANGED vars

Confirm(e) == AtLeastOnce!Confirm(e) /\ UNCHANGED vars

FirstCopies == {e \in Incidents : copies[e] > 0}

RoomForExtra == Len(log) < Cardinality(FirstCopies) + MaxExtra

(* Faulty variant: the event is produced before its incident is committed. *)
TransferEarly(e) ==
    /\ copies[e] = 0 \/ RoomForExtra
    /\ copies' = [copies EXCEPT ![e] = @ + 1]
    /\ Publish(e)
    /\ UNCHANGED status

(* A copy of the event reaches the topic *)
Transfer(e) ==
    /\ copies[e] = 0 \/ RoomForExtra
    /\ AtLeastOnce!Append(e)
    /\ Publish(e)

(* Another client puts something into the topic. *)
Disturb(m) ==
    /\ RoomForExtra
    /\ Publish(m)
    /\ UNCHANGED outboxVars

WorkerStep ==
    /\ \E w \in Workers : Assign(w) \/ Work(w) \/ Crash(w)
    /\ UNCHANGED outboxVars

PlatformNext ==
    \/ \E e \in Incidents : Accept(e) \/ Transfer(e) \/ Confirm(e)
    \/ \E m \in Malformed : Disturb(m)
    \/ WorkerStep

PlatformSpec == PlatformInit /\ [][PlatformNext]_allVars

(* The fairness of Delivery, which Outbox implements, and of Consumer. *)
PlatformFairness ==
    /\ \A e \in Incidents : WF_allVars(copies[e] = 0 /\ Transfer(e))
    /\ \A e \in Incidents : WF_allVars(Confirm(e))
    /\ Fairness

PlatformLiveSpec == PlatformSpec /\ PlatformFairness

-----------------------------------------------------------------------------
(* Properties *)

stage ==
    [e \in Incidents |->
        IF e \in processed THEN "processed"
        ELSE IF status[e] # "absent" THEN "accepted"
        ELSE "absent"]

Promise == INSTANCE EndToEnd

(* An event is processed only after its incident was accepted, and only    *)
(* once, however many copies of it the topic holds and however often one   *)
(* of them is delivered (incidents.py:22-55, processor.py:52-148).         *)
ImplementsEndToEnd == Promise!Spec

(* The marker of an event is final and the group does not pass over one    *)
(* without it: an event that is called published is processed already, or  *)
(* a copy of it is still before the group, or in its hands                 *)
(* (dispatcher.py:114-139, runner.py:221-260).                             *)
PublishedIsPursued ==
    \A e \in Incidents : status[e] = "published" =>
        \/ e \in processed
        \/ \E o \in (committed + 1)..Len(log) : log[o] = e

(* Every accepted incident is processed in the end, through deferrals,     *)
(* duplicates, crashes and hand-overs (README "Delivery and failure        *)
(* semantics").                                                            *)
ImplementsLiveEndToEnd == Promise!LiveSpec
=============================================================================
