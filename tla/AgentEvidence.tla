---------------------------- MODULE AgentEvidence ----------------------------
(***************************************************************************)
(* AgentExecution with the evidence the agent works on: the replies of the *)
(* provider and the decisions they become, the tools and what they find,   *)
(* the results a worker holds in memory and those the audit trail keeps,   *)
(* and the answer that is validated against them.                          *)
(*                                                                         *)
(* Where AgentExecution leaves a decision, a tool call or an answer open,  *)
(* this module derives it.  Its behaviours are behaviours of               *)
(* AgentExecution (ImplementsAgentExecution), whose properties therefore   *)
(* hold here as well.                                                      *)
(***************************************************************************)
EXTENDS AgentExecution, Provider, Planner, Tools

CONSTANTS
    Request,        \* what the executor sees of each call
    CallOf,         \* the call a tool name and its arguments make
    Payloads,       \* planner payloads a reply may hold
    Candidates,     \* answers the resolver may propose
    Knowledge,      \* versions of the indexed chunks, by release
    MaxReleases     \* bound on the releases

ASSUME EvidenceAssumption ==
    /\ DOMAIN Request = Calls
    /\ DOMAIN CallOf = Names \X ArgumentValues
    /\ \A x \in Names \X ArgumentValues : CallOf[x] \in Calls /\ Request[CallOf[x]].tool = x[1]
    /\ IncidentCalls = {c \in Calls : Request[c].tool = "get_incident"}
    /\ RetrievalCalls = {c \in Calls : Request[c].tool = "retrieve_runbooks"}
    /\ Payloads \subseteq Payload
    /\ StrictProvider
    /\ MaxReleases \in Nat
    /\ DOMAIN Knowledge = 0..MaxReleases

VARIABLES
    held,       \* previous_results of each worker, by step number
    output,     \* the result of the tool call each worker is about
    draft,      \* the validated answer each worker is about to persist
    tries,      \* resolver calls of each worker since it decided to answer
    modelCalls, \* replies each worker waited for since its claim
    stored,     \* agent_steps.result_summary of the tool steps, by number
    published,  \* content of the resolution
    release,    \* the release of the knowledge that is indexed
    answered    \* a reply of the provider was not an outage

memoryVars == <<held, output, draft, tries, modelCalls>>
trailVars  == <<stored, published>>
evidenceVars == <<memoryVars, trailVars, release, answered>>
allVars == <<vars, evidenceVars>>

NoResult == [tool |-> "none", refs |-> {}, parts |-> {}]

NoAnswer == [cites |-> {}, tools |-> {}, confident |-> FALSE, escalated |-> FALSE,
             context |-> {}]

Nothing == [n \in {} |-> NoResult]

EvidenceInit ==
    /\ Init
    /\ held = [w \in Workers |-> Nothing]
    /\ output = [w \in Workers |-> NoResult]
    /\ draft = [w \in Workers |-> NoAnswer]
    /\ tries = [w \in Workers |-> 0]
    /\ modelCalls = [w \in Workers |-> 0]
    /\ stored = Nothing
    /\ published = NoAnswer
    /\ release = 0
    /\ answered = FALSE

-----------------------------------------------------------------------------
(* What the workflow derives from the results it holds *)

(* _evidence_references *)
References(results) == UNION {results[n].refs : n \in DOMAIN results}

(* The citations the answer may use. *)
Citable(results) == ChunksOf(References(results))

(* _retrieved_context: the chunks whose records can still be read. *)
Context(results) ==
    UNION {ChunksOf(results[n].refs) : n \in {m \in DOMAIN results : "chunks" \in results[m].parts}}

(* actual_tools *)
ToolsRun(s) == {Request[c].tool : c \in Succeeded(s)}

(* The first required tool that has not succeeded. *)
RequiredTool(s) ==
    IF ~ HasIncident(s) THEN "get_incident"
    ELSE IF ~ HasRetrieval(s) THEN "retrieve_runbooks"
    ELSE NoTool

-----------------------------------------------------------------------------
(* Steps of AgentExecution that leave the evidence alone, except that a    *)
(* worker that returns keeps nothing.                                      *)

Forget(w) ==
    /\ held' = [held EXCEPT ![w] = Nothing]
    /\ output' = [output EXCEPT ![w] = NoResult]
    /\ draft' = [draft EXCEPT ![w] = NoAnswer]
    /\ tries' = [tries EXCEPT ![w] = 0]
    /\ modelCalls' = [modelCalls EXCEPT ![w] = 0]

Returned(w) == IF pc'[w] \in {"idle", "mark"} THEN Forget(w) ELSE UNCHANGED memoryVars

Other(w) ==
    /\ \/ Deliver(w) \/ ClaimSettled(w) \/ ClaimFirst(w) \/ InsertExecution(w)
       \/ InsertConflict(w) \/ ClaimRun(w) \/ CheckBudgets(w) \/ SetWaiting(w)
       \/ PersistRejectedStep(w) \/ Resume(w) \/ StepConflict(w)
       \/ RecordTransient(w) \/ RecordValidation(w) \/ ExhaustRetries(w)
       \/ Mark(w) \/ CommitOffset(w)
       \/ Interrupt(w) \/ LoseCommit(w) \/ (Abandon(w) /\ pc[w] # "plan") \/ Crash(w)
    /\ Returned(w)
    /\ UNCHANGED <<trailVars, release, answered>>

-----------------------------------------------------------------------------
(* Faulty variant: a worker that takes over starts with an empty memory. *)
RestoreNothing(w) ==
    /\ LoadSteps(w)
    /\ UNCHANGED evidenceVars

(* _load_steps, _restore_results *)
Restore(w) ==
    /\ LoadSteps(w)
    /\ held' = [held EXCEPT ![w] = stored]
    /\ UNCHANGED <<output, draft, tries, modelCalls, trailVars, release, answered>>

-----------------------------------------------------------------------------
(* _plan: the reply of the provider, parsed for the state of the run *)

(* _model_call counts every reply, an outage included. *)
Called(w) == modelCalls' = [modelCalls EXCEPT ![w] = @ + 1]

Decide(w, decision) ==
    CASE decision.kind = "tool" ->
            DecideTool(w, CallOf[<<decision.tool, decision.arguments>>])
      [] decision.kind = "final" -> DecideFinal(w)
      [] OTHER -> DecideInvalid(w, TRUE)

Plan(w) ==
    /\ pc[w] = "plan"
    /\ \E reply \in ChatReplies :
        /\ CASE ChatOutcome(reply) = "unavailable" -> Interrupt(w)
             [] ChatOutcome(reply) = "response_error" -> DecideInvalid(w, FALSE)
             [] OTHER -> \E p \in Payloads :
                            /\ ~ Raises(p, RequiredTool(known[w]))
                            /\ Decide(w, Parse(p, RequiredTool(known[w])))
        /\ answered' = (answered \/ reply \notin Outages)
    /\ Called(w)
    /\ UNCHANGED <<held, output, draft, tries, trailVars, release>>

(* The TypeError of the parser passes every handler of the run: nothing is *)
(* recorded, and the message is delivered again.  The content that raises  *)
(* it is a reply like any other.                                           *)
PlanRaises(w) ==
    /\ pc[w] = "plan"
    /\ {p \in Payloads : Raises(p, RequiredTool(known[w]))} # {}
    /\ Abandon(w)
    /\ Forget(w)
    /\ answered' = TRUE
    /\ UNCHANGED <<trailVars, release>>

-----------------------------------------------------------------------------
(* ToolExecutor.execute *)

Refuse(w) == GoTo(w, "reject_tool") /\ UNCHANGED output

(* A result with too many references does not validate. *)
Deliverable(refs) == Cardinality(refs) <= MaxReferences

Succeed(w, q) ==
    LET refs == Found(q, Knowledge[release], published.context, held[w]) IN
    IF Deliverable(refs)
    THEN /\ GoTo(w, "persist_tool")
         /\ output' = [output EXCEPT ![w] = Result(q.tool, refs)]
    ELSE Refuse(w)

(* A search needs the embedding of its query first.  Any tool may fail, or *)
(* return more than the size limit allows; an outage is an Interrupt.      *)
RunTool(w) ==
    LET q == Request[call[w]] IN
    /\ pc[w] = "execute"
    /\ IF Cardinality(DOMAIN held[w]) >= MaxToolCalls
       THEN GoTo(w, "terminal") /\ UNCHANGED output
       ELSE IF ~ Authorized(q) THEN Refuse(w)
       ELSE \/ Refuse(w)
            \/ /\ q.tool = "retrieve_runbooks"
               /\ \E reply \in EmbeddingReplies :
                    CASE EmbeddingOutcome(reply) = "vectors" -> Succeed(w, q)
                      [] EmbeddingOutcome(reply) = "response_error" -> Refuse(w)
                      [] OTHER -> GoTo(w, "fail_transient") /\ UNCHANGED output
            \/ q.tool # "retrieve_runbooks" /\ Succeed(w, q)
    /\ UNCHANGED <<execVars, resVars, doneVars, expired, known, repair, call, outcome,
                   review, faultVars, held, draft, tries, modelCalls, trailVars, release,
                   answered>>

(* Faulty variant: the number of the step before. *)
PersistUnderLast(w) ==
    LET n == Len(known[w]) IN
    /\ PersistToolStep(w)
    /\ stored' = [i \in DOMAIN stored \cup {n} |->
                    IF i = n THEN Stored(output[w]) ELSE stored[i]]
    /\ held' = [held EXCEPT ![w] = [i \in DOMAIN held[w] \cup {n} |->
                    IF i = n THEN output[w] ELSE held[w][i]]]
    /\ output' = [output EXCEPT ![w] = NoResult]
    /\ UNCHANGED <<draft, tries, modelCalls, published, release, answered>>

(* The result goes into the trail, sanitized once more, and stays in the   *)
(* memory of the worker as it is.                                          *)
PersistResult(w) ==
    LET n == NextNumber(w) IN
    /\ PersistToolStep(w)
    /\ stored' = [i \in DOMAIN stored \cup {n} |->
                    IF i = n THEN Stored(output[w]) ELSE stored[i]]
    /\ held' = [held EXCEPT ![w] = [i \in DOMAIN held[w] \cup {n} |->
                    IF i = n THEN output[w] ELSE held[w][i]]]
    /\ output' = [output EXCEPT ![w] = NoResult]
    /\ UNCHANGED <<draft, tries, modelCalls, published, release, answered>>

-----------------------------------------------------------------------------
(* _generate_final, _validate_final *)

(* Faulty variant: citations are not compared with the evidence. *)
AcceptableUnmatched(a, results, tools) ==
    /\ ~ a.duplicates
    /\ a.tools \subseteq tools
    /\ Citable(results) # {} => a.cites # {}
    /\ ~ a.dangerous

Acceptable(a, results, tools) ==
    /\ ~ a.duplicates
    /\ a.tools \subseteq tools
    /\ a.cites \subseteq Citable(results)
    /\ Citable(results) # {} => a.cites # {}
    /\ ~ a.dangerous

(* Faulty variants: an answer without evidence is taken as it is; the      *)
(* tools it claims are kept.                                               *)
AdjustedToolsOnly(a, results, tools) ==
    [cites     |-> a.cites,
     tools     |-> tools,
     confident |-> a.confident,
     escalated |-> a.escalated,
     context   |-> Context(results)]

AdjustedWithoutTools(a, results, tools) ==
    [cites     |-> a.cites,
     tools     |-> a.tools,
     confident |-> a.confident /\ Citable(results) # {},
     escalated |-> a.escalated \/ Citable(results) = {},
     context   |-> Context(results)]

(* The tools that ran replace those the answer claims, and without citable *)
(* evidence its confidence is capped and it must be escalated.             *)
Adjusted(a, results, tools) ==
    [cites     |-> a.cites,
     tools     |-> tools,
     confident |-> a.confident /\ Citable(results) # {},
     escalated |-> a.escalated \/ Citable(results) = {},
     context   |-> Context(results)]

(* Faulty variant: the repairs of the answer are not counted. *)
RejectUncounted(w) == UNCHANGED <<pc, draft, tries>>

(* An invalid answer is asked for again while repairs last. *)
RejectAnswer(w) ==
    IF tries[w] < RepairAttempts
    THEN tries' = [tries EXCEPT ![w] = @ + 1] /\ UNCHANGED <<pc, draft>>
    ELSE /\ GoTo(w, "fail_validation")
         /\ UNCHANGED <<tries, draft>>

JudgeAnswer(w, a) ==
    IF Acceptable(a, held[w], ToolsRun(known[w]))
    THEN /\ draft' = [draft EXCEPT ![w] = Adjusted(a, held[w], ToolsRun(known[w]))]
         /\ GoTo(w, "persist_final")
         /\ UNCHANGED tries
    ELSE RejectAnswer(w)

Answer(w) ==
    /\ pc[w] = "resolve"
    /\ \E reply \in ChatReplies :
        /\ CASE ChatOutcome(reply) = "unavailable" ->
                    GoTo(w, "fail_transient") /\ UNCHANGED <<tries, draft>>
             [] ChatOutcome(reply) = "response_error" -> RejectAnswer(w)
             [] OTHER -> RejectAnswer(w) \/ \E a \in Candidates : JudgeAnswer(w, a)
        /\ answered' = (answered \/ reply \notin Outages)
    /\ Called(w)
    /\ UNCHANGED <<execVars, resVars, doneVars, expired, known, repair, call, outcome,
                   review, faultVars, held, output, trailVars, release>>

PersistAnswer(w) ==
    /\ PersistFinal(w)
    /\ published' = draft[w]
    /\ Forget(w)
    /\ UNCHANGED <<stored, release, answered>>

-----------------------------------------------------------------------------
(* The knowledge is ingested again: its chunks get new ids. *)
Release ==
    /\ release < MaxReleases
    /\ release' = release + 1
    /\ UNCHANGED <<vars, memoryVars, trailVars, answered>>

Environment ==
    /\ \/ Expire
       \/ \E r \in Reviewers, d \in {"approving", "rejecting"} : OpenReview(r, d)
       \/ \E r \in Reviewers : SubmitReview(r)
    /\ UNCHANGED evidenceVars

EvidenceNext ==
    \/ \E w \in Workers : \/ Other(w) \/ Restore(w) \/ Plan(w) \/ PlanRaises(w)
                          \/ RunTool(w) \/ PersistResult(w) \/ Answer(w) \/ PersistAnswer(w)
    \/ Release
    \/ Environment

EvidenceSpec == EvidenceInit /\ [][EvidenceNext]_allVars

-----------------------------------------------------------------------------
(* Properties *)

(* Every variable stays in its domain; in particular every stored result   *)
(* is the one of a tool step (agent/models.py:87-98).                      *)
EvidenceTypeOK ==
    /\ DOMAIN held = Workers /\ DOMAIN output = Workers /\ DOMAIN draft = Workers
    /\ tries \in [Workers -> 0..RepairAttempts]
    /\ modelCalls \in [Workers -> Nat]
    /\ release \in 0..MaxReleases
    /\ answered \in BOOLEAN
    /\ DOMAIN stored = ToolSteps(steps)
    /\ \A n \in DOMAIN stored : stored[n].tool = Request[steps[n].call].tool

(* The results a worker answers from are those of the tool steps it knows, *)
(* whether it ran the tool itself or took the execution over after a       *)
(* crash: the same references under the same step numbers, and nothing     *)
(* that could be read before is lost but what the depth limit takes        *)
(* (workflow.py:222-223, 344-346, 555-564).                                *)
MemoryMatchesTrail ==
    \A w \in Workers : pc[w] \in InTry \ {"load"} =>
        /\ DOMAIN held[w] = ToolSteps(known[w])
        /\ \A n \in DOMAIN held[w] \cap DOMAIN stored :
              /\ stored[n].tool = held[w][n].tool
              /\ stored[n].refs = held[w][n].refs
              /\ stored[n].parts \subseteq held[w][n].parts

Excepted(tool) ==
    IF tool = "get_previous_resolutions" THEN {"actions", "citations"} ELSE {}

(* Everything but the actions and citations of earlier resolutions stays   *)
(* readable, also after a restart, although a stored result lies one level *)
(* deeper below the same depth limit (sanitization.py:35, workflow.py:927).*)
ResultsReadable ==
    \A w \in Workers : \A n \in DOMAIN held[w] :
        Parts(held[w][n].tool) \ Excepted(held[w][n].tool) \subseteq held[w][n].parts

(* get_previous_resolutions offers "summaries, actions, and citations"     *)
(* (tools.py:261).                                                         *)
ResolutionsReadable ==
    \A w \in Workers : \A n \in DOMAIN held[w] :
        held[w][n].tool = "get_previous_resolutions"
            => held[w][n].parts = Parts(held[w][n].tool)

(* The citations of the published answer are runbook chunks that a stored  *)
(* tool step of this execution found, and their text is in its context,    *)
(* whatever was ingested, restarted or proposed in between (README "Agent  *)
(* controls": citations must match retrieved evidence).                    *)
CitationsAreEvidence ==
    answer # 0 =>
        /\ published.cites \subseteq Citable(stored)
        /\ published.cites \subseteq published.context

(* Missing citable evidence caps the confidence and requires escalation,   *)
(* and an answer with citable evidence cites some of it (README "Agent     *)
(* controls", workflow.py:779-803).                                        *)
UncitedIsEscalated ==
    answer # 0 /\ published.cites = {} =>
        /\ published.escalated /\ ~ published.confident
        /\ Citable([n \in {m \in DOMAIN stored : m < answer} |-> stored[n]]) = {}

(* The tools an answer names are those whose steps succeeded before it     *)
(* (workflow.py:754-760, 792).                                             *)
ToolsUsedSucceeded ==
    answer # 0 => published.tools = {stored[n].tool : n \in {m \in DOMAIN stored : m < answer}}

(* An outage of the provider, a rate limit included, never counts as an    *)
(* invalid answer: an execution fails only after its time is up or the     *)
(* provider said something (ollama.py:77-91, workflow.py:402-411).         *)
FailedOnlyAfterReply == execStatus = "failed" => expired \/ answered

(* One attempt asks the model no more often than the tool budget and the   *)
(* repairs allow, whatever it replies: every tool step, the decision to    *)
(* answer and the answer itself may each be repaired RepairAttempts times  *)
(* (workflow.py:256-272, 346-350, 724).                                    *)
ModelCallsBounded ==
    \A w \in Workers : modelCalls[w] <= (MaxToolCalls + 2) * (RepairAttempts + 1)

(* What is derived here never goes beyond what AgentExecution leaves open. *)
ImplementsAgentExecution == Spec
=============================================================================
