------------------------------ MODULE Resolution ------------------------------
(***************************************************************************)
(* IncidentResolutionWorkflow, the single-shot predecessor of the agent:   *)
(* the events of one incident, the workers that resolve it for them, and   *)
(* the row of ai_resolutions they share.  What keeps two runs apart is not *)
(* a lock but the row: another event leaves a run alone until stale_after  *)
(* has passed since it was claimed.  The same event does not: if it is     *)
(* handed to a second worker, that one takes the run over at once.         *)
(*                                                                         *)
(* Only the claim locks the row.  Completing and failing load it and write *)
(* it later, and of what they write only what differs from what they have  *)
(* loaded.                                                                 *)
(***************************************************************************)
EXTENDS Naturals, FiniteSets, Provider

CONSTANTS
    Workers,
    Events,        \* the events of the incident
    Contexts,      \* what a retrieval may return, {} included
    Answers,       \* what the model may propose
    MaxAttempts,   \* max_attempts
    MaxFaults,     \* bound on crashes, outages and database errors
    MaxHandOns     \* bound on the hand-overs of an event from a busy worker

NoEvent == "no event"

ASSUME ResolutionAssumption ==
    /\ MaxAttempts \in Nat \ {0}
    /\ MaxFaults \in Nat
    /\ MaxHandOns \in Nat
    /\ NoEvent \notin Events

VARIABLES
    status,     \* ai_resolutions.status, "none" without a row
    eventId,    \* ai_resolutions.event_id
    attempts,   \* ai_resolutions.attempt_count
    fresh,      \* processing_started_at is less than stale_after ago
    cited,      \* ai_resolutions.cited_sources
    context,    \* ai_resolutions.retrieved_context
    marker,     \* processed_events, by event
    pc,
    event,      \* the event each worker handles
    attempt,    \* the attempt each worker has claimed
    found,      \* the context each worker has retrieved
    draft,      \* the citations of the resolution each worker completes
    loaded,     \* the row as each worker has loaded it to write it
    outcome,    \* what resolve() returned
    answered,   \* the provider has answered something unusable
    outlived,   \* a run has taken longer than stale_after
    handOns,    \* how often an event was handed on while its worker was about it
    faults

rowVars    == <<status, eventId, attempts, fresh, cited, context>>
workVars   == <<pc, event, attempt, found, draft, loaded, outcome>>
pastVars   == <<answered, outlived, handOns>>
vars == <<rowVars, marker, workVars, pastVars, faults>>

Settled == {"completed", "failed"}

Storing == {"store_completed", "store_failed", "store_retryable"}

Running(w) ==
    pc[w] \in {"retrieve", "generate", "complete", "fail_transient", "fail_invalid"}
              \cup Storing

(* What the workers rely on, since nothing enforces it. *)
Disturbed == outlived \/ handOns > 0

Row == [status |-> status, cited |-> cited, context |-> context]

NoRow == [status |-> "none", cited |-> {}, context |-> {}]

GoTo(w, l) == pc' = [pc EXCEPT ![w] = l]

Leave(w) ==
    /\ GoTo(w, "idle")
    /\ event' = [event EXCEPT ![w] = NoEvent]
    /\ attempt' = [attempt EXCEPT ![w] = 0]
    /\ found' = [found EXCEPT ![w] = {}]
    /\ draft' = [draft EXCEPT ![w] = {}]
    /\ loaded' = [loaded EXCEPT ![w] = NoRow]
    /\ outcome' = [outcome EXCEPT ![w] = "none"]

(* resolve() returns; only the outcome and the event are kept. *)
Return(w, result) ==
    /\ GoTo(w, "mark")
    /\ outcome' = [outcome EXCEPT ![w] = result]
    /\ attempt' = [attempt EXCEPT ![w] = 0]
    /\ found' = [found EXCEPT ![w] = {}]
    /\ draft' = [draft EXCEPT ![w] = {}]
    /\ loaded' = [loaded EXCEPT ![w] = NoRow]
    /\ UNCHANGED event

Fault == faults < MaxFaults /\ faults' = faults + 1

-----------------------------------------------------------------------------
Init ==
    /\ status = "none"
    /\ eventId = NoEvent
    /\ attempts = 0
    /\ fresh = FALSE
    /\ cited = {}
    /\ context = {}
    /\ marker = [e \in Events |-> "none"]
    /\ pc = [w \in Workers |-> "idle"]
    /\ event = [w \in Workers |-> NoEvent]
    /\ attempt = [w \in Workers |-> 0]
    /\ found = [w \in Workers |-> {}]
    /\ draft = [w \in Workers |-> {}]
    /\ loaded = [w \in Workers |-> NoRow]
    /\ outcome = [w \in Workers |-> "none"]
    /\ answered = FALSE
    /\ outlived = FALSE
    /\ handOns = 0
    /\ faults = 0

Take(w, e) ==
    /\ pc[w] = "idle"
    /\ marker[e] = "none"
    /\ GoTo(w, "claim")
    /\ event' = [event EXCEPT ![w] = e]
    /\ UNCHANGED <<rowVars, marker, attempt, found, draft, loaded, outcome, answered,
                   outlived, faults>>

With(e) == {v \in Workers : event[v] = e}

Deliver(w, e) ==
    /\ With(e) = {}
    /\ Take(w, e)
    /\ UNCHANGED handOns

(* The partition goes to another worker while this one is still busy.      *)
HandOn(w, e) ==
    /\ With(e) # {}
    /\ handOns < MaxHandOns
    /\ Take(w, e)
    /\ handOns' = handOns + 1

(* The primary key keeps the first marker. *)
Mark(w) ==
    /\ pc[w] = "mark"
    /\ marker' = [marker EXCEPT ![event[w]] = IF @ = "none" THEN outcome[w] ELSE @]
    /\ Leave(w)
    /\ UNCHANGED <<rowVars, pastVars, faults>>

-----------------------------------------------------------------------------
(* _claim *)

(* Faulty variant: any event takes the run over. *)
BusyNever(e) == status = "processing" /\ e \notin Events

(* Another event is being resolved, and not for too long. *)
Busy(e) == status = "processing" /\ eventId # e /\ fresh

(* Faulty variant: a failed resolution is tried again. *)
ClosedWhenCompleted == status = "completed"

Closed == status \in Settled

(* Faulty variant: a new claim does not count. *)
FirstCounts(n) == IF n = 0 THEN 1 ELSE n

Counted(n) == n + 1

Own(w) ==
    /\ status' = "processing"
    /\ eventId' = event[w]
    /\ attempts' = Counted(attempts)
    /\ fresh' = TRUE
    /\ attempt' = [attempt EXCEPT ![w] = Counted(attempts)]
    /\ GoTo(w, "retrieve")
    /\ UNCHANGED <<cited, context, marker, event, found, draft, loaded, outcome, pastVars, faults>>

FindSettled(w) ==
    /\ pc[w] = "claim"
    /\ Closed
    /\ GoTo(w, "settled")
    /\ UNCHANGED <<rowVars, marker, event, attempt, found, draft, loaded, outcome, pastVars, faults>>

(* The status is read again, in another session. *)
ReportSettled(w) ==
    /\ pc[w] = "settled"
    /\ Return(w, IF status = "completed" THEN "completed" ELSE "failed")
    /\ UNCHANGED <<rowVars, marker, pastVars, faults>>

(* RetryableResolutionError; the event is delivered again. *)
Yield(w) ==
    /\ pc[w] = "claim"
    /\ Busy(event[w])
    /\ Leave(w)
    /\ UNCHANGED <<rowVars, marker, pastVars, faults>>

(* The row is locked, so that claiming it is one step. *)
Claim(w) ==
    /\ pc[w] = "claim"
    /\ status # "none"
    /\ ~ Closed
    /\ ~ Busy(event[w])
    /\ Own(w)

(* Without a row there is nothing to lock. *)
ClaimFirst(w) ==
    /\ pc[w] = "claim"
    /\ status = "none"
    /\ GoTo(w, "insert")
    /\ UNCHANGED <<rowVars, marker, event, attempt, found, draft, loaded, outcome, pastVars, faults>>

Insert(w) ==
    /\ pc[w] = "insert"
    /\ status = "none"
    /\ Own(w)

(* incident_id is unique. *)
InsertConflict(w) ==
    /\ pc[w] = "insert"
    /\ status # "none"
    /\ Leave(w)
    /\ UNCHANGED <<rowVars, marker, pastVars, faults>>

-----------------------------------------------------------------------------
(* resolve *)

Unavailable(w) == Fault /\ GoTo(w, "fail_transient") /\ UNCHANGED answered

Unusable(w) == GoTo(w, "fail_invalid") /\ answered' = TRUE /\ UNCHANGED faults

(* The query is embedded and searched for; nothing found counts as an      *)
(* outage, and so does a database error.                                   *)
Retrieve(w) ==
    /\ pc[w] = "retrieve"
    /\ \/ \E reply \in EmbeddingReplies :
            CASE EmbeddingOutcome(reply) = "unavailable" -> Unavailable(w) /\ UNCHANGED found
              [] EmbeddingOutcome(reply) = "response_error" -> Unusable(w) /\ UNCHANGED found
              [] OTHER -> \E c \in Contexts \ {{}} :
                            /\ found' = [found EXCEPT ![w] = c]
                            /\ GoTo(w, "generate")
                            /\ UNCHANGED <<answered, faults>>
       \/ {} \in Contexts /\ Unavailable(w) /\ UNCHANGED found
    /\ UNCHANGED <<rowVars, marker, event, attempt, draft, loaded, outcome, outlived,
                   handOns>>

(* Faulty variant: the citations are not looked up in the context. *)
ValidUnmatched(a, c) == ~ a.duplicates

(* validate_citations *)
Valid(a, c) == a.cites \subseteq c /\ ~ a.duplicates

Generate(w) ==
    /\ pc[w] = "generate"
    /\ \E reply \in ChatReplies :
         CASE ChatOutcome(reply) = "unavailable" -> Unavailable(w) /\ UNCHANGED draft
           [] ChatOutcome(reply) = "response_error" -> Unusable(w) /\ UNCHANGED draft
           [] OTHER -> \/ Unusable(w) /\ UNCHANGED draft
                       \/ \E a \in Answers :
                            IF Valid(a, found[w])
                            THEN /\ draft' = [draft EXCEPT ![w] = a.cites]
                                 /\ GoTo(w, "complete")
                                 /\ UNCHANGED <<answered, faults>>
                            ELSE Unusable(w) /\ UNCHANGED draft
    /\ UNCHANGED <<rowVars, marker, event, attempt, found, loaded, outcome, outlived,
                   handOns>>

(* Faulty variant: an outage may be terminal. *)
TerminalAlways(w) == attempt[w] >= MaxAttempts

Terminal(w) == pc[w] = "fail_invalid" /\ attempt[w] >= MaxAttempts

(* The row is loaded without a lock, and nobody looks at its status.       *)
Load(w) ==
    /\ pc[w] \in {"complete", "fail_transient", "fail_invalid"}
    /\ loaded' = [loaded EXCEPT ![w] = Row]
    /\ GoTo(w, IF pc[w] = "complete" THEN "store_completed"
               ELSE IF Terminal(w) THEN "store_failed" ELSE "store_retryable")
    /\ UNCHANGED <<rowVars, marker, event, attempt, found, draft, outcome, pastVars, faults>>

(* The session leaves out what equals the value it has loaded, whatever    *)
(* the row holds by now.                                                   *)
Updated(current, old, new) == IF new = old THEN current ELSE new

Complete(w) ==
    /\ pc[w] = "store_completed"
    /\ status' = Updated(status, loaded[w].status, "completed")
    /\ cited' = Updated(cited, loaded[w].cited, draft[w])
    /\ context' = Updated(context, loaded[w].context, found[w])
    /\ Return(w, "completed")
    /\ UNCHANGED <<eventId, attempts, fresh, marker, pastVars, faults>>

StoreFailure(w) ==
    /\ status' = Updated(status, loaded[w].status,
                         IF pc[w] = "store_failed" THEN "failed" ELSE "retryable")
    /\ context' = IF found[w] # {} THEN Updated(context, loaded[w].context, found[w])
                  ELSE context
    /\ UNCHANGED <<eventId, attempts, fresh, cited, marker, pastVars, faults>>

(* Faulty variant: an attempt that may be repeated is reported as failed.  *)
FailAndReport(w) ==
    /\ pc[w] \in {"store_failed", "store_retryable"}
    /\ StoreFailure(w)
    /\ Return(w, "failed")

(* _record_failure: terminal, or delivered again. *)
RecordFailure(w) ==
    /\ pc[w] \in {"store_failed", "store_retryable"}
    /\ StoreFailure(w)
    /\ IF pc[w] = "store_failed" THEN Return(w, "failed") ELSE Leave(w)

-----------------------------------------------------------------------------
(* The process dies, or a database error outside resolve's handlers leaves *)
(* the handler.                                                            *)
Crash(w) ==
    /\ pc[w] # "idle"
    /\ Fault
    /\ Leave(w)
    /\ UNCHANGED <<rowVars, marker, pastVars>>

(* stale_after passes since the claim. *)
Age ==
    /\ fresh
    /\ fresh' = FALSE
    /\ outlived' = (outlived \/ \E w \in Workers : Running(w))
    /\ UNCHANGED <<status, eventId, attempts, cited, context, marker, workVars,
                   answered, handOns, faults>>

Work(w) ==
    \/ FindSettled(w) \/ ReportSettled(w) \/ Yield(w) \/ Claim(w)
    \/ ClaimFirst(w) \/ Insert(w) \/ InsertConflict(w)
    \/ Retrieve(w) \/ Generate(w) \/ Load(w) \/ Complete(w) \/ RecordFailure(w) \/ Mark(w)

Next ==
    \/ \E w \in Workers : Work(w) \/ Crash(w)
    \/ \E w \in Workers, e \in Events : Deliver(w, e) \/ HandOn(w, e)
    \/ Age

Spec == Init /\ [][Next]_vars

(* A worker keeps running, the consumer group keeps delivering every event *)
(* that has no marker yet, and time passes.  No event has to be handed on. *)
Fairness ==
    /\ WF_vars(Age)
    /\ \A w \in Workers : WF_vars(Work(w))
    /\ \A e \in Events : SF_vars(\E w \in Workers : Deliver(w, e))

LiveSpec == Spec /\ Fairness

-----------------------------------------------------------------------------
Chunk == UNION (Contexts \cup {a.cites : a \in Answers})

(* Every variable stays in its domain; the status is one the check         *)
(* constraint allows (db/models.py:221).                                   *)
TypeOK ==
    /\ status \in {"none", "processing", "retryable"} \cup Settled
    /\ eventId \in Events \cup {NoEvent}
    /\ attempts \in Nat
    /\ fresh \in BOOLEAN
    /\ cited \subseteq Chunk
    /\ context \subseteq Chunk
    /\ marker \in [Events -> {"none"} \cup Settled]
    /\ pc \in [Workers -> {"idle", "claim", "insert", "settled", "retrieve", "generate",
                           "complete", "fail_transient", "fail_invalid", "mark"}
                          \cup Storing]
    /\ event \in [Workers -> Events \cup {NoEvent}]
    /\ attempt \in [Workers -> Nat]
    /\ found \in [Workers -> SUBSET Chunk]
    /\ draft \in [Workers -> SUBSET Chunk]
    /\ loaded \in [Workers ->
            [status  : {"none", "processing", "retryable"} \cup Settled,
             cited   : SUBSET Chunk,
             context : SUBSET Chunk]]
    /\ outcome \in [Workers -> {"none"} \cup Settled]
    /\ answered \in BOOLEAN
    /\ outlived \in BOOLEAN
    /\ handOns \in 0..MaxHandOns
    /\ faults \in 0..MaxFaults

(* As long as no run takes longer than stale_seconds, and no event is      *)
(* handed on while its worker is about it, two events of the incident are  *)
(* never resolved at the same time, first claims and restarts included     *)
(* (workflow.py:160-171).                                                  *)
OneRun ==
    ~ Disturbed => \A v, w \in Workers : Running(v) /\ Running(w) => v = w

(* Until then, the incident is settled once, and its events are marked     *)
(* with that outcome, whichever of them it was that settled it and however *)
(* often they were delivered (tests/test_ai_workflow.py:126).              *)
Handler == INSTANCE Settlement WITH
    outcome <- IF status \in Settled THEN status ELSE "open",
    passed <- {},
    void <- Disturbed

ImplementsSettlement == Handler!Spec

(* Outages never end an incident: it fails only in its last attempt, and   *)
(* over an answer that could not be used, also when one run takes over     *)
(* from another that is still there (workflow.py:87-99, 206).              *)
FailedByAnswers == status = "failed" => attempts >= MaxAttempts /\ answered

(* Until then, a completed resolution cites chunks of the context stored   *)
(* with it, although failures of other attempts store theirs as well and a *)
(* session does not write what it believes to be there already             *)
(* (prompting.py:48-60, workflow.py:105-128, 223).                         *)
CitationsMatchContext == ~ Disturbed /\ status = "completed" => cited \subseteq context

(* Until then, a settled resolution is not touched again, although neither *)
(* completing nor failing looks at the status it overwrites                *)
(* (workflow.py:101, 213).                                                 *)
SettledStays ==
    [][~ Disturbed /\ status \in Settled => UNCHANGED <<status, cited, context>>]_vars

(* Once the outages are over all events are marked, also the ones that     *)
(* meet the run of another one or have been handed on.                     *)
EventuallyMarked == <>(\A e \in Events : marker[e] # "none")
=============================================================================
