--------------------------- MODULE AgentExecution ---------------------------
(***************************************************************************)
(* One incident.created event in the worker: the idempotency marker        *)
(* (IncidentEventProcessor), the durable agent execution                   *)
(* (ControlledAgentWorkflow) and the human review of its result.  The rows *)
(* of the database are the state every worker and reviewer shares; what a  *)
(* worker keeps in memory between two transactions is its own.             *)
(*                                                                         *)
(* A step is one database transaction or one call of the model or of a     *)
(* tool.  Kafka gives the event to one worker at a time, except that a     *)
(* worker that loses its partition while it is still busy (an expired      *)
(* session or max.poll.interval.ms) keeps running: MaxEvictions bounds how *)
(* often the event is handed to another worker too early.                  *)
(***************************************************************************)
EXTENDS Naturals, FiniteSets, Sequences

CONSTANTS
    Workers,
    Reviewers,          \* review requests
    IncidentCalls,      \* signatures of get_incident
    RetrievalCalls,     \* signatures of retrieve_runbooks
    OtherCalls,         \* signatures of every other tool
    MaxSteps,           \* agent_max_steps
    MaxToolCalls,       \* agent_max_tool_calls
    MaxRepeated,        \* agent_max_repeated_tool_calls
    ModelRetries,       \* agent_model_retries
    RepairAttempts,     \* agent_repair_attempts
    StrictProvider,     \* the provider enforces the schema it is asked for
    MaxEvictions,       \* bound on early hand-overs of the event
    MaxCrashes          \* bound on worker crashes

Calls == IncidentCalls \cup RetrievalCalls \cup OtherCalls

NoCall == "no call"

NoWorker == "no worker"

ASSUME AgentAssumption ==
    /\ MaxSteps \in Nat \ {0}
    /\ MaxToolCalls \in Nat \ {0}
    /\ MaxToolCalls < MaxSteps
    /\ MaxRepeated \in Nat \ {0}
    /\ ModelRetries \in Nat \ {0}
    /\ RepairAttempts \in Nat
    /\ StrictProvider \in BOOLEAN
    /\ MaxEvictions \in Nat
    /\ MaxCrashes \in Nat
    /\ IncidentCalls \cap RetrievalCalls = {}
    /\ NoCall \notin Calls
    /\ NoWorker \notin Workers

VARIABLES
    execStatus,     \* agent_executions.status, "none" before the first claim
    retryCount,     \* agent_executions.retry_count, saturating at ModelRetries
    stepCount,      \* agent_executions.step_count
    toolCallCount,  \* agent_executions.tool_call_count
    steps,          \* agent_steps, by step number
    resStatus,      \* ai_resolutions.status, "none" before the first claim
    answer,         \* the number of the final step the resolution holds, or 0
    processedAs,    \* the processed_events row: "none", "completed", "failed"
    owner,          \* the worker Kafka assigns the partition to
    committed,      \* the Kafka offset of the event is committed
    expired,        \* max_duration_seconds have passed since the first claim
    pc,             \* where each worker is
    known,          \* the step records each worker has in memory
    repair,         \* repair_count of each worker
    call,           \* the tool call each worker is about
    outcome,        \* what resolve() returned to the processor
    review,         \* where each review request is
    evictions,
    crashes

execVars   == <<execStatus, retryCount, stepCount, toolCallCount, steps>>
resVars    == <<resStatus, answer>>
doneVars   == <<processedAs, committed, owner>>
workVars   == <<pc, known, repair, call, outcome>>
faultVars  == <<evictions, crashes>>
vars == <<execVars, resVars, doneVars, expired, workVars, review, faultVars>>

Step == [kind : {"tool", "rejected", "final"}, call : Calls \cup {NoCall}]

Reviewable == {"awaiting_review", "approved", "rejected"}

-----------------------------------------------------------------------------
(* Helpers on step records *)

ToolSteps(s) == {i \in DOMAIN s : s[i].kind = "tool"}

Succeeded(s) == {s[i].call : i \in ToolSteps(s)}

HasIncident(s) == Succeeded(s) \cap IncidentCalls # {}

HasRetrieval(s) == Succeeded(s) \cap RetrievalCalls # {}

Evidence(s) == HasIncident(s) /\ HasRetrieval(s)

(* What the schema lets the planner ask for: the first required tool that  *)
(* has not succeeded yet, and anything once the evidence is complete.      *)
Plannable(s) ==
    IF ~ StrictProvider \/ Evidence(s) THEN Calls
    ELSE IF ~ HasIncident(s) THEN IncidentCalls
    ELSE RetrievalCalls

MayFinish(s) == Evidence(s) \/ ~ StrictProvider

CallSteps(s, c) == {i \in ToolSteps(s) : s[i].call = c}

(* Faulty variant: only the same call again counts as a repetition. *)
RepeatsCallOnly(s, c) == Cardinality(CallSteps(s, c)) >= MaxRepeated

(* The loop guardrail: the same call again, or a second runbook search. *)
Repeats(s, c) ==
    \/ Cardinality(CallSteps(s, c)) >= MaxRepeated
    \/ c \in RetrievalCalls /\ HasRetrieval(s)

NextNumber(w) == Len(known[w]) + 1

(* Faulty variant: no unique constraint. *)
AnyNumberIsFree(n) == n \in Nat

(* (execution_id, step_number) is unique. *)
Free(n) == n \notin DOMAIN steps

InsertStep(n, record) ==
    steps' = [i \in DOMAIN steps \cup {n} |-> IF i = n THEN record ELSE steps[i]]

GoTo(w, l) == pc' = [pc EXCEPT ![w] = l]

(* The handler of the worker returns and the worker keeps nothing. *)
Leave(w) ==
    /\ GoTo(w, "idle")
    /\ known' = [known EXCEPT ![w] = <<>>]
    /\ repair' = [repair EXCEPT ![w] = 0]
    /\ call' = [call EXCEPT ![w] = NoCall]
    /\ outcome' = [outcome EXCEPT ![w] = "none"]

(* resolve() returns an outcome; only that outcome is kept. *)
Return(w, result) ==
    /\ GoTo(w, "mark")
    /\ outcome' = [outcome EXCEPT ![w] = result]
    /\ known' = [known EXCEPT ![w] = <<>>]
    /\ repair' = [repair EXCEPT ![w] = 0]
    /\ call' = [call EXCEPT ![w] = NoCall]

-----------------------------------------------------------------------------
Init ==
    /\ execStatus = "none"
    /\ retryCount = 0
    /\ stepCount = 0
    /\ toolCallCount = 0
    /\ steps = <<>>
    /\ resStatus = "none"
    /\ answer = 0
    /\ processedAs = "none"
    /\ committed = FALSE
    /\ owner = NoWorker
    /\ expired = FALSE
    /\ pc = [w \in Workers |-> "idle"]
    /\ known = [w \in Workers |-> <<>>]
    /\ repair = [w \in Workers |-> 0]
    /\ call = [w \in Workers |-> NoCall]
    /\ outcome = [w \in Workers |-> "none"]
    /\ review = [r \in Reviewers |-> "idle"]
    /\ evictions = 0
    /\ crashes = 0

-----------------------------------------------------------------------------
(* Delivery and the idempotency marker: KafkaIncidentWorker.run around     *)
(* IncidentEventProcessor.process                                          *)

(* poll() returns the event and the processor looks for its marker: a      *)
(* duplicate goes straight to the offset commit.                           *)
Deliver(w) ==
    /\ pc[w] = "idle"
    /\ ~ committed
    /\ \/ owner \in {w, NoWorker} /\ UNCHANGED evictions
       \/ owner \in Workers \ {w} /\ pc[owner] = "idle" /\ UNCHANGED evictions
       \/ /\ owner \in Workers \ {w} /\ pc[owner] # "idle"
          /\ evictions < MaxEvictions
          /\ evictions' = evictions + 1
    /\ owner' = w
    /\ GoTo(w, IF processedAs = "none" THEN "claim" ELSE "commit")
    /\ UNCHANGED <<execVars, resVars, processedAs, committed, expired,
                   known, repair, call, outcome, review, crashes>>

(* The marker is inserted once resolve() has returned; a marker that is    *)
(* already there makes this delivery a duplicate.                          *)
Mark(w) ==
    /\ pc[w] = "mark"
    /\ processedAs' = IF processedAs = "none" THEN outcome[w] ELSE processedAs
    /\ GoTo(w, "commit")
    /\ UNCHANGED <<execVars, resVars, committed, owner, expired,
                   known, repair, call, outcome, review, faultVars>>

CommitOffset(w) ==
    /\ pc[w] = "commit"
    /\ owner = w
    /\ committed' = TRUE
    /\ Leave(w)
    /\ UNCHANGED <<execVars, resVars, processedAs, owner, expired, review, faultVars>>

(* KafkaException: the broker does not answer, or the partition has gone   *)
(* to another worker; the message is delivered again.                      *)
LoseCommit(w) ==
    /\ pc[w] = "commit"
    /\ Leave(w)
    /\ UNCHANGED <<execVars, resVars, doneVars, expired, review, faultVars>>

-----------------------------------------------------------------------------
(* _claim, _load_steps and the budgets at the head of the loop *)

(* A settled execution answers without running. *)
ClaimSettled(w) ==
    /\ pc[w] = "claim"
    /\ execStatus \in Reviewable \cup {"failed"}
    /\ Return(w, IF execStatus = "failed" THEN "failed" ELSE "completed")
    /\ UNCHANGED <<execVars, resVars, doneVars, expired, review, faultVars>>

(* Faulty variants: an execution that awaits its review, or has been       *)
(* reviewed, is run again.                                                 *)
ClaimUnreviewed(w) ==
    /\ pc[w] = "claim"
    /\ execStatus \notin {"approved", "rejected", "failed"}
    /\ execStatus' = "running"
    /\ resStatus' = "processing"
    /\ GoTo(w, "load")
    /\ UNCHANGED <<retryCount, stepCount, toolCallCount, steps, answer, doneVars,
                   expired, known, repair, call, outcome, review, faultVars>>

ClaimReviewed(w) ==
    /\ pc[w] = "claim"
    /\ execStatus \notin {"awaiting_review", "failed"}
    /\ execStatus' = "running"
    /\ resStatus' = "processing"
    /\ GoTo(w, "load")
    /\ UNCHANGED <<retryCount, stepCount, toolCallCount, steps, answer, doneVars,
                   expired, known, repair, call, outcome, review, faultVars>>

(* No row yet: it is inserted at the end of the transaction, which locks   *)
(* nothing until then.                                                     *)
ClaimFirst(w) ==
    /\ pc[w] = "claim"
    /\ execStatus = "none"
    /\ GoTo(w, "insert")
    /\ UNCHANGED <<execVars, resVars, doneVars, expired,
                   known, repair, call, outcome, review, faultVars>>

(* Faulty variant: incident_id is not unique, and the row read from then   *)
(* on is the last one inserted.                                            *)
InsertAnother(w) ==
    /\ pc[w] = "insert"
    /\ execStatus' = "running"
    /\ resStatus' = "processing"
    /\ retryCount' = 0
    /\ stepCount' = 0
    /\ toolCallCount' = 0
    /\ GoTo(w, "load")
    /\ UNCHANGED <<steps, answer, doneVars, expired,
                   known, repair, call, outcome, review, faultVars>>

InsertExecution(w) ==
    /\ pc[w] = "insert"
    /\ execStatus = "none"
    /\ execStatus' = "running"
    /\ resStatus' = "processing"
    /\ GoTo(w, "load")
    /\ UNCHANGED <<retryCount, stepCount, toolCallCount, steps, answer, doneVars,
                   expired, known, repair, call, outcome, review, faultVars>>

(* incident_id is unique: the second of two first claims fails and its     *)
(* message is delivered again.                                             *)
InsertConflict(w) ==
    /\ pc[w] = "insert"
    /\ execStatus # "none"
    /\ Leave(w)
    /\ UNCHANGED <<execVars, resVars, doneVars, expired, review, faultVars>>

(* An unsettled execution is taken over whoever may hold it. *)
ClaimRun(w) ==
    /\ pc[w] = "claim"
    /\ execStatus \notin Reviewable \cup {"none", "failed"}
    /\ execStatus' = "running"
    /\ retryCount' = IF retryCount < ModelRetries THEN retryCount + 1 ELSE retryCount
    /\ resStatus' = "processing"
    /\ GoTo(w, "load")
    /\ UNCHANGED <<stepCount, toolCallCount, steps, answer, doneVars, expired,
                   known, repair, call, outcome, review, faultVars>>

LoadSteps(w) ==
    /\ pc[w] = "load"
    /\ known' = [known EXCEPT ![w] = steps]
    /\ GoTo(w, "check")
    /\ UNCHANGED <<execVars, resVars, doneVars, expired,
                   repair, call, outcome, review, faultVars>>

(* Faulty variant: the duration since the first claim is not looked at. *)
BudgetWithoutDuration(w) ==
    \/ Len(known[w]) >= MaxSteps
    \/ toolCallCount >= MaxToolCalls /\ ~ Evidence(steps)

BudgetExceeded(w) ==
    \/ Len(known[w]) >= MaxSteps
    \/ toolCallCount >= MaxToolCalls /\ ~ Evidence(steps)
    \/ expired

CheckBudgets(w) ==
    /\ pc[w] = "check"
    /\ GoTo(w, IF BudgetExceeded(w) THEN "terminal" ELSE "plan")
    /\ UNCHANGED <<execVars, resVars, doneVars, expired,
                   known, repair, call, outcome, review, faultVars>>

-----------------------------------------------------------------------------
(* _plan and what the loop does with the decision *)

(* A decision for a tool: refused by the guardrail, or to be executed. *)
DecideTool(w, c) ==
    /\ GoTo(w, IF Repeats(known[w], c) THEN "reject" ELSE "wait")
    /\ call' = [call EXCEPT ![w] = c]
    /\ UNCHANGED <<execVars, resVars, doneVars, expired,
                   known, repair, outcome, review, faultVars>>

PlanTool(w, c) ==
    /\ pc[w] = "plan"
    /\ c \in Plannable(known[w])
    /\ DecideTool(w, c)

(* Faulty variant: a final decision is taken whatever the evidence. *)
DecideUnchecked(w) ==
    /\ GoTo(w, "resolve")
    /\ UNCHANGED <<execVars, resVars, doneVars, expired,
                   known, repair, call, outcome, review, faultVars>>

(* A decision to answer: refused without the evidence, or taken. *)
DecideFinal(w) ==
    /\ GoTo(w, IF Evidence(known[w]) THEN "resolve" ELSE "reject")
    /\ UNCHANGED <<execVars, resVars, doneVars, expired,
                   known, repair, call, outcome, review, faultVars>>

PlanFinal(w) ==
    /\ pc[w] = "plan"
    /\ MayFinish(known[w])
    /\ DecideFinal(w)

(* ProviderResponseError: asked again while repairs last; then output that *)
(* only failed its schema becomes the deterministic final decision when    *)
(* the evidence is complete, and anything else fails the run.              *)
DecideInvalid(w, schemaError) ==
    /\ GoTo(w, IF repair[w] < RepairAttempts THEN "check"
               ELSE IF schemaError /\ Evidence(known[w]) THEN "resolve"
               ELSE "fail_validation")
    /\ repair' = [repair EXCEPT ![w] = @ + 1]
    /\ UNCHANGED <<execVars, resVars, doneVars, expired,
                   known, call, outcome, review, faultVars>>

PlanInvalid(w) ==
    /\ pc[w] = "plan"
    /\ \E schemaError \in BOOLEAN : DecideInvalid(w, schemaError)

-----------------------------------------------------------------------------
(* Tool calls *)

(* Faulty variant: the status of the agent is written to the resolution,   *)
(* whose check constraint does not know it.                                *)
SetBothWaiting(w) ==
    /\ pc[w] = "wait"
    /\ execStatus' = "waiting_for_tool"
    /\ resStatus' = "waiting_for_tool"
    /\ GoTo(w, "execute")
    /\ UNCHANGED <<retryCount, stepCount, toolCallCount, steps, answer, doneVars,
                   expired, known, repair, call, outcome, review, faultVars>>

SetWaiting(w) ==
    /\ pc[w] = "wait"
    /\ execStatus' = "waiting_for_tool"
    /\ GoTo(w, "execute")
    /\ UNCHANGED <<retryCount, stepCount, toolCallCount, steps, resVars, doneVars,
                   expired, known, repair, call, outcome, review, faultVars>>

(* Faulty variant: no tool budget. *)
ExecuteUnbudgeted(w) ==
    /\ pc[w] = "execute"
    /\ \E l \in {"persist_tool", "reject_tool"} : GoTo(w, l)
    /\ UNCHANGED <<execVars, resVars, doneVars, expired,
                   known, repair, call, outcome, review, faultVars>>

(* ToolExecutor.execute: over budget, or run with either outcome. *)
ExecuteTool(w) ==
    /\ pc[w] = "execute"
    /\ IF Cardinality(ToolSteps(known[w])) >= MaxToolCalls
       THEN GoTo(w, "terminal")
       ELSE \E l \in {"persist_tool", "reject_tool"} : GoTo(w, l)
    /\ UNCHANGED <<execVars, resVars, doneVars, expired,
                   known, repair, call, outcome, review, faultVars>>

PersistToolStep(w) ==
    LET record == [kind |-> "tool", call |-> call[w]] IN
    /\ pc[w] = "persist_tool"
    /\ Free(NextNumber(w))
    /\ InsertStep(NextNumber(w), record)
    /\ execStatus' = "running"
    /\ stepCount' = NextNumber(w)
    /\ toolCallCount' = toolCallCount + 1
    /\ known' = [known EXCEPT ![w] = Append(@, record)]
    /\ repair' = [repair EXCEPT ![w] = 0]
    /\ call' = [call EXCEPT ![w] = NoCall]
    /\ GoTo(w, "check")
    /\ UNCHANGED <<retryCount, resVars, doneVars, expired, outcome, review, faultVars>>

(* A refused decision is recorded as a step and costs one repair.  After a *)
(* refused tool request the status is set back in a transaction of its own.*)
PersistRejectedStep(w) ==
    LET record == [kind |-> "rejected", call |-> NoCall] IN
    /\ pc[w] \in {"reject", "reject_tool"}
    /\ Free(NextNumber(w))
    /\ InsertStep(NextNumber(w), record)
    /\ execStatus' = "running"
    /\ stepCount' = NextNumber(w)
    /\ known' = [known EXCEPT ![w] = Append(@, record)]
    /\ repair' = [repair EXCEPT ![w] = @ + 1]
    /\ call' = [call EXCEPT ![w] = NoCall]
    /\ GoTo(w, IF repair[w] >= RepairAttempts THEN "fail_validation"
               ELSE IF pc[w] = "reject" THEN "check" ELSE "resume")
    /\ UNCHANGED <<retryCount, toolCallCount, resVars, doneVars, expired,
                   outcome, review, faultVars>>

Resume(w) ==
    /\ pc[w] = "resume"
    /\ execStatus' = "running"
    /\ GoTo(w, "check")
    /\ UNCHANGED <<retryCount, stepCount, toolCallCount, steps, resVars, doneVars,
                   expired, known, repair, call, outcome, review, faultVars>>

-----------------------------------------------------------------------------
(* The final answer *)

(* _generate_final: a valid answer within its own repairs, or none. *)
GenerateFinal(w) ==
    /\ pc[w] = "resolve"
    /\ \E l \in {"persist_final", "fail_validation"} : GoTo(w, l)
    /\ UNCHANGED <<execVars, resVars, doneVars, expired,
                   known, repair, call, outcome, review, faultVars>>

(* Faulty variant: the status of the execution is left to a later commit. *)
PersistAnswerOnly(w) ==
    /\ pc[w] = "persist_final"
    /\ Free(NextNumber(w))
    /\ InsertStep(NextNumber(w), [kind |-> "final", call |-> NoCall])
    /\ resStatus' = "completed"
    /\ answer' = NextNumber(w)
    /\ stepCount' = NextNumber(w)
    /\ Return(w, "completed")
    /\ UNCHANGED <<execStatus, retryCount, toolCallCount, doneVars, expired, review,
                   faultVars>>

PersistFinal(w) ==
    /\ pc[w] = "persist_final"
    /\ Free(NextNumber(w))
    /\ InsertStep(NextNumber(w), [kind |-> "final", call |-> NoCall])
    /\ resStatus' = "completed"
    /\ answer' = NextNumber(w)
    /\ execStatus' = "awaiting_review"
    /\ stepCount' = NextNumber(w)
    /\ Return(w, "completed")
    /\ UNCHANGED <<retryCount, toolCallCount, doneVars, expired, review, faultVars>>

-----------------------------------------------------------------------------
(* Failures *)

InTry == {"load", "check", "plan", "wait", "execute", "persist_tool",
          "reject", "reject_tool", "resume", "resolve", "persist_final"}

Inserting == {"persist_tool", "reject", "reject_tool", "persist_final"}

(* ProviderUnavailableError, ToolTimeoutError or SQLAlchemyError. *)
Interrupt(w) ==
    /\ pc[w] \in InTry
    /\ GoTo(w, "fail_transient")
    /\ UNCHANGED <<execVars, resVars, doneVars, expired,
                   known, repair, call, outcome, review, faultVars>>

(* The step number is taken: IntegrityError, a SQLAlchemyError as well. *)
StepConflict(w) ==
    /\ pc[w] \in Inserting
    /\ ~ Free(NextNumber(w))
    /\ GoTo(w, "fail_transient")
    /\ UNCHANGED <<execVars, resVars, doneVars, expired,
                   known, repair, call, outcome, review, faultVars>>

(* Faulty variants: only the execution is updated; the event is not        *)
(* delivered again but marked failed.                                      *)
RecordOnExecution(w) ==
    /\ pc[w] = "fail_transient"
    /\ execStatus' = "retryable"
    /\ Leave(w)
    /\ UNCHANGED <<retryCount, stepCount, toolCallCount, steps, resVars, doneVars,
                   expired, review, faultVars>>

RecordAndMark(w) ==
    /\ pc[w] = "fail_transient"
    /\ execStatus' = "retryable"
    /\ resStatus' = "retryable"
    /\ Return(w, "failed")
    /\ UNCHANGED <<retryCount, stepCount, toolCallCount, steps, answer, doneVars,
                   expired, review, faultVars>>

(* _record_failure(retryable=True): both rows become retryable and the     *)
(* message is delivered again.                                             *)
RecordTransient(w) ==
    /\ pc[w] = "fail_transient"
    /\ execStatus' = "retryable"
    /\ resStatus' = "retryable"
    /\ Leave(w)
    /\ UNCHANGED <<retryCount, stepCount, toolCallCount, steps, answer, doneVars,
                   expired, review, faultVars>>

(* _record_failure(retryable=False): terminal once the retries are used. *)
RecordValidation(w) ==
    LET terminal == retryCount + 1 >= ModelRetries
        status   == IF terminal THEN "failed" ELSE "retryable"
    IN
    /\ pc[w] = "fail_validation"
    /\ execStatus' = status
    /\ resStatus' = status
    /\ IF terminal THEN Return(w, "failed") ELSE Leave(w)
    /\ UNCHANGED <<retryCount, stepCount, toolCallCount, steps, answer, doneVars,
                   expired, review, faultVars>>

(* _record_terminal_failure: the first of its two transactions uses up the *)
(* retries, the second is RecordValidation.                                *)
ExhaustRetries(w) ==
    /\ pc[w] = "terminal"
    /\ retryCount' = IF retryCount < ModelRetries - 1 THEN ModelRetries - 1
                     ELSE retryCount
    /\ GoTo(w, "fail_validation")
    /\ UNCHANGED <<execStatus, stepCount, toolCallCount, steps, resVars, doneVars,
                   expired, known, repair, call, outcome, review, faultVars>>

(* A database error outside the loop's handlers, or an exception of the    *)
(* planner that none of them names, leaves the handler; the runner seeks   *)
(* back to the message.                                                    *)
Abandon(w) ==
    /\ pc[w] \in {"claim", "insert", "plan", "terminal", "fail_transient",
                  "fail_validation", "mark"}
    /\ Leave(w)
    /\ UNCHANGED <<execVars, resVars, doneVars, expired, review, faultVars>>

Crash(w) ==
    /\ pc[w] # "idle"
    /\ crashes < MaxCrashes
    /\ crashes' = crashes + 1
    /\ Leave(w)
    /\ UNCHANGED <<execVars, resVars, doneVars, expired, review, evictions>>

(* max_duration_seconds pass since the execution was created. *)
Expire ==
    /\ execStatus # "none"
    /\ ~ expired
    /\ expired' = TRUE
    /\ UNCHANGED <<execVars, resVars, doneVars, workVars, review, faultVars>>

-----------------------------------------------------------------------------
(* Human review: _record_feedback *)

(* The status is read without a lock; only awaiting_review is accepted. *)
OpenReview(r, decision) ==
    /\ review[r] = "idle"
    /\ review' = [review EXCEPT ![r] = IF execStatus = "awaiting_review"
                                       THEN decision ELSE "conflict"]
    /\ UNCHANGED <<execVars, resVars, doneVars, expired, workVars, faultVars>>

(* add_feedback writes whatever the status has become meanwhile. *)
SubmitReview(r) ==
    /\ review[r] \in {"approving", "rejecting"}
    /\ execStatus' = IF review[r] = "approving" THEN "approved" ELSE "rejected"
    /\ review' = [review EXCEPT ![r] = IF @ = "approving" THEN "approved"
                                       ELSE "rejected"]
    /\ UNCHANGED <<retryCount, stepCount, toolCallCount, steps, resVars, doneVars,
                   expired, workVars, faultVars>>

-----------------------------------------------------------------------------
Run(w) ==
    \/ ClaimSettled(w) \/ ClaimFirst(w) \/ InsertExecution(w) \/ InsertConflict(w)
    \/ ClaimRun(w) \/ LoadSteps(w) \/ CheckBudgets(w)
    \/ \E c \in Calls : PlanTool(w, c)
    \/ PlanFinal(w) \/ PlanInvalid(w)
    \/ SetWaiting(w) \/ ExecuteTool(w) \/ PersistToolStep(w)
    \/ PersistRejectedStep(w) \/ Resume(w)
    \/ GenerateFinal(w) \/ PersistFinal(w) \/ StepConflict(w)
    \/ RecordTransient(w) \/ RecordValidation(w) \/ ExhaustRetries(w)
    \/ Mark(w) \/ CommitOffset(w)

Next ==
    \/ \E w \in Workers : Deliver(w) \/ Run(w)
    \/ \E w \in Workers : Interrupt(w) \/ LoseCommit(w) \/ Abandon(w) \/ Crash(w)
    \/ Expire
    \/ \E r \in Reviewers, d \in {"approving", "rejecting"} : OpenReview(r, d)
    \/ \E r \in Reviewers : SubmitReview(r)

Spec == Init /\ [][Next]_vars

(* A worker keeps running; a transaction that the database refuses now and *)
(* then goes through in the end, and so does an offset commit; the         *)
(* duration budget runs out.  Nothing is asked of the provider, which may  *)
(* fail every call, nor of the reviewers.                                  *)
Fairness ==
    /\ WF_vars(Expire)
    /\ WF_vars(\E w \in Workers : Deliver(w))
    /\ \A w \in Workers :
        /\ WF_vars(Run(w) \/ Interrupt(w))
        /\ SF_vars(ClaimSettled(w) \/ ClaimFirst(w) \/ ClaimRun(w))
        /\ SF_vars(InsertExecution(w) \/ InsertConflict(w))
        /\ SF_vars(LoadSteps(w))
        /\ SF_vars(CheckBudgets(w))
        /\ SF_vars(ExhaustRetries(w))
        /\ SF_vars(RecordValidation(w))
        /\ SF_vars(Mark(w))
        /\ SF_vars(CommitOffset(w))

LiveSpec == Spec /\ Fairness

-----------------------------------------------------------------------------
(* Properties that hold however often the event is handed over too early   *)

Pcs == InTry \cup {"idle", "claim", "insert", "fail_transient",
                   "fail_validation", "terminal", "mark", "commit"}

(* Every variable stays in its domain: the statuses are those the check    *)
(* constraints of db/models.py:221 and 290 allow, and the step records of  *)
(* an execution are numbered 1, 2, ... without a gap.                      *)
TypeOK ==
    /\ execStatus \in {"none", "running", "waiting_for_tool", "retryable",
                       "failed"} \cup Reviewable
    /\ retryCount \in 0..ModelRetries
    /\ stepCount \in Nat
    /\ toolCallCount \in Nat
    /\ steps \in Seq(Step)
    /\ resStatus \in {"none", "processing", "retryable", "completed", "failed"}
    /\ answer \in Nat
    /\ processedAs \in {"none", "completed", "failed"}
    /\ committed \in BOOLEAN
    /\ owner \in Workers \cup {NoWorker}
    /\ expired \in BOOLEAN
    /\ pc \in [Workers -> Pcs]
    /\ known \in [Workers -> Seq(Step)]
    /\ repair \in [Workers -> Nat]
    /\ call \in [Workers -> Calls \cup {NoCall}]
    /\ outcome \in [Workers -> {"none", "completed", "failed"}]
    /\ review \in [Reviewers -> {"idle", "approving", "rejecting", "approved",
                                 "rejected", "conflict"}]
    /\ evictions \in 0..MaxEvictions
    /\ crashes \in 0..MaxCrashes

(* The counters a reader of the execution sees are the ones its audit      *)
(* trail has, although two workers may both read and write them: the       *)
(* unique step number makes every such transaction but one fail            *)
(* (workflow.py:918-1012, db/models.py:374).                               *)
CountersExact ==
    /\ stepCount = Len(steps)
    /\ toolCallCount = Cardinality(ToolSteps(steps))

(* The step and tool budgets hold for the execution as a whole, over all   *)
(* its retries, restarts and workers (workflow.py:1215, tools.py:501).     *)
WithinBudgets ==
    /\ Len(steps) <= MaxSteps
    /\ Cardinality(ToolSteps(steps)) <= MaxToolCalls

(* No call succeeds more often than the loop guardrail allows, and the     *)
(* runbooks are searched once (workflow.py:264-290).                       *)
NoRepeatedCall ==
    /\ \A c \in Calls : Cardinality(CallSteps(steps, c)) <= MaxRepeated
    /\ \A i, j \in ToolSteps(steps) :
          steps[i].call \in RetrievalCalls /\ steps[j].call \in RetrievalCalls
            => i = j

(* Every final answer follows a successful incident lookup and a           *)
(* successful runbook search, whatever the planner asked for               *)
(* (workflow.py:356-379, README "Agent controls").                         *)
FinalIsGrounded ==
    \A i \in DOMAIN steps : steps[i].kind = "final" =>
        /\ \E j \in ToolSteps(steps) : j < i /\ steps[j].call \in IncidentCalls
        /\ \E j \in ToolSteps(steps) : j < i /\ steps[j].call \in RetrievalCalls

-----------------------------------------------------------------------------
(* Properties that need one worker at a time (evictions = 0)               *)

(* The execution and the resolution tell the same story after every        *)
(* transaction, although only some of the transactions write both.         *)
StatusesAgree ==
    resStatus = CASE execStatus = "none" -> "none"
                  [] execStatus \in {"running", "waiting_for_tool"} -> "processing"
                  [] execStatus \in Reviewable -> "completed"
                  [] OTHER -> execStatus

(* One durable answer: a final step is the last step, the resolution holds *)
(* it, and the execution is reviewable exactly when there is one.          *)
OneAnswer ==
    /\ \A i \in DOMAIN steps : steps[i].kind = "final" => i = Len(steps)
    /\ answer = (IF \E i \in DOMAIN steps : steps[i].kind = "final"
                 THEN Len(steps) ELSE 0)
    /\ execStatus \in Reviewable <=> answer # 0

(* Until the event is handed over too early, the execution is settled      *)
(* once, the marker is written after the outcome it records, and the       *)
(* offset is committed after the marker: whatever crash or redelivery      *)
(* comes in between, no event is passed over (README "Delivery and failure *)
(* semantics", processor.py:108-126, runner.py:226-228).                   *)
Handler == INSTANCE Settlement WITH
    Events <- {"event"},
    outcome <- IF execStatus \in Reviewable THEN "completed"
               ELSE IF execStatus = "failed" THEN "failed" ELSE "open",
    marker <- [e \in {"event"} |-> processedAs],
    passed <- IF committed THEN {"event"} ELSE {},
    void <- evictions > 0

ImplementsSettlement == Handler!Spec

(* A completed answer waits in awaiting_review until it is approved or     *)
(* rejected (README.md:148-150).                                           *)
ReviewWaits ==
    [][execStatus = "awaiting_review" =>
        execStatus' \in Reviewable]_vars

(* An approval or a rejection stands (api/routes/incidents.py:286-294).    *)
DecisionStands ==
    [][(execStatus \in {"approved", "rejected"}) => UNCHANGED execStatus]_vars

(* At most one review request is told that it decided                      *)
(* (tests/test_agent_api.py:95).                                           *)
OneDecision ==
    \A r, s \in Reviewers :
        review[r] \in {"approved", "rejected"} /\ review[s] \in {"approved", "rejected"}
            => r = s

(* Every event is settled: processed, and its offset committed, even with  *)
(* a provider that never answers (the duration budget of                   *)
(* workflow.py:1236-1243 ends the retries).                                *)
EventuallySettled == <>(committed /\ processedAs # "none")
=============================================================================
