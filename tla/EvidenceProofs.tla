---------------------------- MODULE EvidenceProofs ----------------------------
(***************************************************************************)
(* AgentEvidence implements AgentExecution, and what is published is       *)
(* grounded in the stored evidence, for any number of workers that run the *)
(* execution at once, any tools, payloads and answers; outages never end   *)
(* an execution, and an attempt asks the model a bounded number of times.  *)
(***************************************************************************)
EXTENDS AgentEvidence, AgentProofs

(* A worker that has restored its memory. *)
Restored(w) == pc[w] \in InTry \ {"load"}

MemoryDomains ==
    /\ DOMAIN held = Workers
    /\ DOMAIN output = Workers
    /\ DOMAIN draft = Workers
    /\ DOMAIN stored = ToolSteps(steps)
    /\ \A w \in Workers : Restored(w) => DOMAIN held[w] = ToolSteps(known[w])

-----------------------------------------------------------------------------
(* Every step is a step of AgentExecution *)

(* Whatever the payload, parsing it ends in a decision; while a tool is    *)
(* required it is a decision for that tool or none.                        *)
LEMMA ParseDecides ==
  ASSUME NEW p \in Payload, NEW required
  PROVE  Parse(p, required) \in Decisions
<1>1. ParseFree(p) \in Decisions
  <2>. DEFINE q == Normalize(p)
  <2>1. ASSUME q.tool_name \in Names, q.tool_arguments \in ArgumentValues
        PROVE  [kind |-> "tool", tool |-> q.tool_name, arguments |-> q.tool_arguments]
                  \in Decisions
    BY <2>1 DEF Decisions
  <2>2. FinalDecision \in Decisions /\ SchemaError \in Decisions
    BY DEF Decisions, FinalDecision, SchemaError
  <2>. HIDE DEF q
  <2>3. ParseFree(p) \in
          {SchemaError, FinalDecision,
           [kind |-> "tool", tool |-> q.tool_name, arguments |-> q.tool_arguments]}
        /\ (ParseFree(p) \notin {SchemaError, FinalDecision}
               => q.tool_name \in Names /\ q.tool_arguments \in ArgumentValues)
    BY DEF ParseFree, q
  <2>. QED
    BY <2>1, <2>2, <2>3
<1>2. ParseRequired(p, required) \in Decisions
  <2>. DEFINE q == FillRequired(p, required)
  <2>1. SchemaError \in Decisions
    BY DEF Decisions, SchemaError
  <2>2. ASSUME <<required, q.tool_arguments>> \in Fitting
        PROVE  [kind |-> "tool", tool |-> required, arguments |-> q.tool_arguments]
                  \in Decisions
    <3>1. required \in Names /\ q.tool_arguments \in Arguments
      BY <2>2, PlannerAssumption
    <3>. QED
      BY <3>1 DEF Decisions, ArgumentValues
  <2>. HIDE DEF q
  <2>. QED
    BY <2>1, <2>2 DEF ParseRequired, q
<1>. QED
  BY <1>1, <1>2 DEF Parse

LEMMA PlanRefines ==
  ASSUME NEW w \in Workers, Plan(w)
  PROVE  [Next]_vars
<1>1. pc[w] = "plan"
  BY DEF Plan
<1>2. PICK reply \in ChatReplies :
        CASE ChatOutcome(reply) = "unavailable" -> Interrupt(w)
          [] ChatOutcome(reply) = "response_error" -> DecideInvalid(w, FALSE)
          [] OTHER -> \E p \in Payloads : /\ ~ Raises(p, RequiredTool(known[w]))
                                         /\ Decide(w, Parse(p, RequiredTool(known[w])))
  BY DEF Plan
<1>3. CASE Interrupt(w)
  BY <1>3 DEF Next
<1>4. ASSUME NEW b \in BOOLEAN, DecideInvalid(w, b) PROVE Next
  <2>1. PlanInvalid(w)
    BY <1>1, <1>4 DEF PlanInvalid
  <2>. QED
    BY <2>1 DEF Next, Run
<1>5. ASSUME NEW p \in Payloads, Decide(w, Parse(p, RequiredTool(known[w]))) PROVE Next
  <2>. DEFINE required == RequiredTool(known[w])
              decision == Parse(p, required)
  <2>0. p \in Payload /\ StrictProvider
    BY EvidenceAssumption
  <2>1. decision \in Decisions
    BY <2>0, ParseDecides
  <2>2. CASE decision.kind = "tool"
    <3>1. DecideTool(w, CallOf[<<decision.tool, decision.arguments>>])
      BY <1>5, <2>2 DEF Decide
    <3>. DEFINE c == CallOf[<<decision.tool, decision.arguments>>]
    <3>2. c \in Plannable(known[w])
      <4>1. PICK n \in Names, a \in ArgumentValues :
               decision = [kind |-> "tool", tool |-> n, arguments |-> a]
        BY <2>1, <2>2 DEF Decisions
      <4>2. c \in Calls /\ Request[c].tool = n
        <5>0. decision.tool = n /\ decision.arguments = a
          BY <4>1
        <5>1. c = CallOf[<<n, a>>] /\ <<n, a>> \in Names \X ArgumentValues
          BY <5>0
        <5>2. /\ CallOf[<<n, a>>] \in Calls
              /\ Request[CallOf[<<n, a>>]].tool = <<n, a>>[1]
          BY <5>1, EvidenceAssumption
        <5>. QED
          BY <5>1, <5>2
      <4>3. required # NoTool => n = required
        BY <4>1 DEF Parse, ParseRequired, SchemaError
      <4>4. CASE Evidence(known[w])
        BY <4>2, <4>4 DEF Plannable
      <4>5. CASE ~ HasIncident(known[w])
        <5>1. n = "get_incident"
          BY <4>3, <4>5 DEF RequiredTool, NoTool
        <5>2. c \in IncidentCalls
          BY <4>2, <5>1, EvidenceAssumption
        <5>. QED
          BY <5>2, <4>5 DEF Plannable, Evidence, Calls
      <4>6. CASE HasIncident(known[w]) /\ ~ HasRetrieval(known[w])
        <5>1. n = "retrieve_runbooks"
          BY <4>3, <4>6 DEF RequiredTool, NoTool
        <5>2. c \in RetrievalCalls
          BY <4>2, <5>1, EvidenceAssumption
        <5>. QED
          BY <5>2, <4>6 DEF Plannable, Evidence, Calls
      <4>. QED
        BY <4>4, <4>5, <4>6 DEF Evidence
    <3>3. c \in Calls
      BY <3>2 DEF Plannable, Calls
    <3>4. PlanTool(w, c)
      BY <1>1, <3>1, <3>2 DEF PlanTool
    <3>. QED
      BY <3>3, <3>4 DEF Next, Run
  <2>3. CASE decision.kind = "final"
    <3>1. DecideFinal(w)
      BY <1>5, <2>3 DEF Decide
    <3>2. MayFinish(known[w])
      <4>1. required = NoTool
        BY <2>3 DEF Parse, ParseRequired, SchemaError
      <4>. QED
        BY <4>1 DEF RequiredTool, NoTool, MayFinish, Evidence
    <3>3. PlanFinal(w)
      BY <1>1, <3>1, <3>2 DEF PlanFinal
    <3>. QED
      BY <3>3 DEF Next, Run
  <2>4. CASE decision.kind \notin {"tool", "final"}
    <3>1. DecideInvalid(w, TRUE)
      BY <1>5, <2>4 DEF Decide
    <3>. QED
      BY <3>1, <1>4
  <2>. QED
    BY <2>2, <2>3, <2>4
<1>. QED
  BY <1>2, <1>3, <1>4, <1>5

LEMMA RunToolRefines ==
  ASSUME NEW w \in Workers, RunTool(w), MemoryDomains
  PROVE  ExecuteTool(w) \/ Interrupt(w)
<1>1. pc[w] = "execute" /\ DOMAIN held[w] = ToolSteps(known[w])
  BY DEF RunTool, MemoryDomains, Restored, InTry
<1>2. CASE Cardinality(DOMAIN held[w]) >= MaxToolCalls
  BY <1>1, <1>2 DEF RunTool, ExecuteTool
<1>3. CASE ~ (Cardinality(DOMAIN held[w]) >= MaxToolCalls)
  <2>1. \/ GoTo(w, "persist_tool") \/ GoTo(w, "reject_tool") \/ GoTo(w, "fail_transient")
    BY <1>3 DEF RunTool, Refuse, Succeed
  <2>. QED
    BY <1>1, <1>3, <2>1 DEF RunTool, ExecuteTool, Interrupt, InTry
<1>. QED
  BY <1>2, <1>3

LEMMA AnswerRefines ==
  ASSUME NEW w \in Workers, Answer(w)
  PROVE  GenerateFinal(w) \/ Interrupt(w) \/ UNCHANGED vars
<1>1. \/ GoTo(w, "persist_final") \/ GoTo(w, "fail_validation")
      \/ GoTo(w, "fail_transient") \/ UNCHANGED pc
  BY DEF Answer, RejectAnswer, JudgeAnswer
<1>. QED
  BY <1>1 DEF Answer, GenerateFinal, Interrupt, InTry, vars, workVars

LEMMA StepRefines ==
  ASSUME MemoryDomains, [EvidenceNext]_allVars
  PROVE  [Next]_vars
<1>1. ASSUME NEW w \in Workers, Other(w) PROVE Next
  BY <1>1 DEF Other, Next, Run
<1>2. ASSUME NEW w \in Workers, Restore(w) PROVE Next
  BY <1>2 DEF Restore, Next, Run
<1>3. ASSUME NEW w \in Workers, RunTool(w) PROVE Next
  BY <1>3, RunToolRefines DEF Next, Run
<1>4. ASSUME NEW w \in Workers, PersistResult(w) PROVE Next
  BY <1>4 DEF PersistResult, Next, Run
<1>5. ASSUME NEW w \in Workers, Answer(w) PROVE [Next]_vars
  BY <1>5, AnswerRefines DEF Next, Run
<1>6. ASSUME NEW w \in Workers, PersistAnswer(w) PROVE Next
  BY <1>6 DEF PersistAnswer, Next, Run
<1>7. CASE Release
  BY <1>7 DEF Release
<1>8. CASE Environment
  BY <1>8 DEF Environment, Next
<1>9. CASE UNCHANGED allVars
  BY <1>9 DEF allVars
<1>10. ASSUME NEW w \in Workers, PlanRaises(w) PROVE Next
  BY <1>10 DEF PlanRaises, Next
<1>. QED
  BY <1>1, <1>2, <1>3, <1>4, <1>5, <1>6, <1>7, <1>8, <1>9, <1>10, PlanRefines
  DEF EvidenceNext

-----------------------------------------------------------------------------
(* Frames: what a step leaves of the memories, the trail and the answer *)

(* Another worker's step. *)
Apart(v) ==
    /\ pc'[v] = pc[v] /\ known'[v] = known[v] /\ call'[v] = call[v]
    /\ held'[v] = held[v] /\ output'[v] = output[v] /\ draft'[v] = draft[v]

(* The trail of tool steps is the same; other steps may have been added. *)
SameTrail ==
    /\ stored' = stored
    /\ ToolSteps(steps') = ToolSteps(steps)
    /\ Len(steps) <= Len(steps')
    /\ \A i \in DOMAIN steps : steps'[i] = steps[i]

SameDomains ==
    /\ DOMAIN held' = DOMAIN held
    /\ DOMAIN output' = DOMAIN output
    /\ DOMAIN draft' = DOMAIN draft

(* What the worker itself may do without touching its results. *)
KeepsResults(w) ==
    /\ held'[w] \in {held[w], Nothing}
    /\ Restored(w)' =>
        /\ Restored(w)
        /\ held'[w] = held[w]
        /\ ToolSteps(known'[w]) = ToolSteps(known[w])
        /\ pc'[w] \notin {"persist_tool", "persist_final"}

Quiet(w) ==
    /\ SameTrail
    /\ SameDomains
    /\ UNCHANGED <<answer, published>>
    /\ \A v \in Workers \ {w} : Apart(v)
    /\ KeepsResults(w)

LEMMA OtherIsQuiet ==
  ASSUME TypeOK, KnownIsPrefix, MemoryDomains, NEW w \in Workers, Other(w) \/ PlanRaises(w)
  PROVE  Quiet(w)
<1>0. /\ DOMAIN pc = Workers /\ DOMAIN known = Workers /\ DOMAIN call = Workers
      /\ DOMAIN held = Workers /\ DOMAIN output = Workers /\ DOMAIN draft = Workers
      /\ steps \in Seq(Step) /\ Len(steps) \in Nat
  BY DEF TypeOK, MemoryDomains
<1>. DEFINE Moved == \A v \in Workers \ {w} : pc'[v] = pc[v] /\ known'[v] = known[v]
                                               /\ call'[v] = call[v]
            Stays == pc'[w] \in InTry \ {"load"} =>
                        /\ pc[w] \in InTry \ {"load"}
                        /\ ToolSteps(known'[w]) = ToolSteps(known[w])
                        /\ pc'[w] \notin {"persist_tool", "persist_final"}
            Grows == /\ ToolSteps(steps') = ToolSteps(steps)
                     /\ Len(steps) <= Len(steps')
                     /\ \A i \in DOMAIN steps : steps'[i] = steps[i]
<1>1. ASSUME PersistRejectedStep(w)
      PROVE  Moved /\ Stays /\ Grows /\ answer' = answer
  <2>. DEFINE record == [kind |-> "rejected", call |-> NoCall]
  <2>1. record \in Step
    BY DEF Step
  <2>2. steps' = Append(steps, record) /\ known[w] = steps
    BY <1>1, <2>1, InsertIsAppend DEF PersistRejectedStep
  <2>3. ToolSteps(Append(steps, record)) = ToolSteps(steps)
    BY <1>0, <2>1, ToolStepsAppend
  <2>4. known'[w] = Append(known[w], record)
    BY <1>0, <1>1 DEF PersistRejectedStep
  <2>5. Grows
    BY <1>0, <2>1, <2>2, <2>3, AppendProperties
  <2>6. Moved /\ answer' = answer
    BY <1>0, <1>1 DEF PersistRejectedStep, GoTo, resVars
  <2>7. Stays
    BY <1>0, <1>1, <2>2, <2>3, <2>4 DEF PersistRejectedStep, GoTo, InTry
  <2>. QED
    BY <2>5, <2>6, <2>7
<1>2. ASSUME steps' = steps /\ known' = known /\ answer' = answer
      PROVE  Grows
  BY <1>0, <1>2
<1>3. ASSUME Deliver(w) \/ ClaimSettled(w) \/ ClaimFirst(w) \/ InsertExecution(w)
           \/ InsertConflict(w) \/ ClaimRun(w)
      PROVE  Moved /\ Stays /\ Grows /\ answer' = answer
  BY <1>0, <1>3 DEF Deliver, ClaimSettled, ClaimFirst, InsertExecution, InsertConflict,
     ClaimRun, Leave, Return, GoTo, InTry, execVars, resVars
<1>4. ASSUME CheckBudgets(w) \/ SetWaiting(w) \/ Resume(w) \/ StepConflict(w)
      PROVE  Moved /\ Stays /\ Grows /\ answer' = answer
  BY <1>0, <1>4 DEF CheckBudgets, SetWaiting, Resume, StepConflict, GoTo, InTry,
     Inserting, execVars, resVars
<1>5. ASSUME RecordTransient(w) \/ RecordValidation(w) \/ ExhaustRetries(w)
      PROVE  Moved /\ Stays /\ Grows /\ answer' = answer
  BY <1>0, <1>5 DEF RecordTransient, RecordValidation, ExhaustRetries, Leave, Return,
     GoTo, InTry, execVars, resVars
<1>6. ASSUME Mark(w) \/ CommitOffset(w) \/ LoseCommit(w)
      PROVE  Moved /\ Stays /\ Grows /\ answer' = answer
  BY <1>0, <1>6 DEF Mark, CommitOffset, LoseCommit, Leave, GoTo, InTry, execVars, resVars
<1>7. ASSUME Interrupt(w) \/ Abandon(w) \/ Crash(w)
      PROVE  Moved /\ Stays /\ Grows /\ answer' = answer
  BY <1>0, <1>7 DEF Interrupt, Abandon, Crash, Leave, GoTo, InTry, execVars, resVars
<1>8. Moved /\ Stays /\ Grows /\ answer' = answer
  BY <1>1, <1>3, <1>4, <1>5, <1>6, <1>7 DEF Other, PlanRaises
<1>9. /\ UNCHANGED trailVars
      /\ SameDomains
      /\ \A v \in Workers \ {w} : held'[v] = held[v] /\ output'[v] = output[v]
                                   /\ draft'[v] = draft[v]
      /\ pc'[w] \notin {"idle", "mark"} => held'[w] = held[w]
      /\ held'[w] \in {held[w], Nothing}
  <2>1. PlanRaises(w) => pc'[w] = "idle" /\ Forget(w)
    BY <1>0 DEF PlanRaises, Abandon, Leave, GoTo
  <2>2. Returned(w) /\ UNCHANGED trailVars
    BY <2>1 DEF Other, PlanRaises, Returned
  <2>. QED
    BY <1>0, <2>2 DEF Returned, Forget, memoryVars, SameDomains
<1>. QED
  BY <1>8, <1>9 DEF Quiet, SameTrail, Apart, KeepsResults, Restored, trailVars, InTry
-----------------------------------------------------------------------------
(* Facts about results *)

(* What the depth limit leaves of a result, fresh and stored. *)
LEMMA ReadableParts ==
  ASSUME NEW tool \in Registered
  PROVE  /\ Parts(tool) \ Excepted(tool) \subseteq Readable(tool, 0) \cap Readable(tool, 1)
         /\ tool \in {"retrieve_runbooks", "get_incident_resolution_context"} =>
               "chunks" \in Readable(tool, 0) \cap Readable(tool, 1)
<1>. USE DEF Excepted
<1>1. CASE tool = "get_incident"
  BY <1>1 DEF Readable, Parts, Nesting, MaxDepth
<1>2. CASE tool = "retrieve_runbooks"
  BY <1>2 DEF Readable, Parts, Nesting, MaxDepth
<1>3. CASE tool = "search_similar_incidents"
  BY <1>3 DEF Readable, Parts, Nesting, MaxDepth
<1>4. CASE tool = "get_incident_resolution_context"
  BY <1>4 DEF Readable, Parts, Nesting, MaxDepth
<1>5. CASE tool = "summarize_evidence"
  BY <1>5 DEF Readable, Parts, Nesting, MaxDepth
<1>6. CASE tool = "get_previous_resolutions"
  BY <1>6 DEF Readable, Parts, Nesting, MaxDepth
<1>. QED
  BY <1>1, <1>2, <1>3, <1>4, <1>5, <1>6 DEF Registered, ScopedTools, ListTools

(* A tool without readable chunks refers to no chunk that the results it   *)
(* was given do not refer to.                                              *)
LEMMA FoundCites ==
  ASSUME NEW q, NEW rows, NEW context, NEW results, q.tool \in Registered
  PROVE  \/ "chunks" \in Readable(q.tool, 0) \cap Readable(q.tool, 1)
         \/ ChunksOf(Found(q, rows, context, results)) \subseteq Citable(results)
<1>1. CASE q.tool \in {"retrieve_runbooks", "get_incident_resolution_context"}
  BY <1>1, ReadableParts
<1>2. CASE q.tool = "get_incident"
  BY <1>2 DEF Found, ChunksOf, Ref
<1>3. CASE q.tool = "search_similar_incidents"
  BY <1>3 DEF Found, ChunksOf, Refs, Ref
<1>4. CASE q.tool = "get_previous_resolutions"
  BY <1>4 DEF Found, ChunksOf, Refs, Ref
<1>5. CASE q.tool = "summarize_evidence"
  <2>1. Found(q, rows, context, results)
          = UNION {results[n].refs : n \in q.steps \cap DOMAIN results}
    BY <1>5 DEF Found
  <2>2. Found(q, rows, context, results) \subseteq References(results)
    BY <2>1 DEF References
  <2>. QED
    BY <2>2 DEF Citable, ChunksOf
<1>. QED
  BY <1>1, <1>2, <1>3, <1>4, <1>5 DEF Registered, ScopedTools, ListTools

(* Every citable chunk can be read. *)
Covered(results) == Citable(results) \subseteq Context(results)

Intact(results) ==
    \A n \in DOMAIN results :
        Parts(results[n].tool) \ Excepted(results[n].tool) \subseteq results[n].parts

With(results, n, r) == [i \in DOMAIN results \cup {n} |-> IF i = n THEN r ELSE results[i]]

LEMMA WithCitable ==
  ASSUME NEW results, NEW n, NEW r, n \notin DOMAIN results
  PROVE  Citable(With(results, n, r)) = Citable(results) \cup ChunksOf(r.refs)
<1>. DEFINE more == With(results, n, r)
<1>1. /\ DOMAIN more = DOMAIN results \cup {n}
      /\ more[n] = r
      /\ \A i \in DOMAIN results : more[i] = results[i]
  BY DEF With
<1>. HIDE DEF more
<1>2. References(more) = References(results) \cup r.refs
  BY <1>1 DEF References
<1>3. Citable(more) = Citable(results) \cup ChunksOf(r.refs)
  BY <1>2 DEF Citable, ChunksOf
<1>. QED
  BY <1>3 DEF more

LEMMA WithContext ==
  ASSUME NEW results, NEW n, NEW r, n \notin DOMAIN results
  PROVE  /\ Context(results) \subseteq Context(With(results, n, r))
         /\ "chunks" \in r.parts =>
               ChunksOf(r.refs) \subseteq Context(With(results, n, r))
<1>. DEFINE more == With(results, n, r)
<1>1. /\ DOMAIN more = DOMAIN results \cup {n}
      /\ more[n] = r
      /\ \A i \in DOMAIN results : more[i] = results[i]
  BY DEF With
<1>. HIDE DEF more
<1>2. /\ Context(results) \subseteq Context(more)
      /\ "chunks" \in r.parts => ChunksOf(r.refs) \subseteq Context(more)
  BY <1>1 DEF Context
<1>. QED
  BY <1>2 DEF more

LEMMA WithCovered ==
  ASSUME NEW results, NEW n, NEW r, n \notin DOMAIN results, Covered(results),
         "chunks" \in r.parts \/ ChunksOf(r.refs) \subseteq Citable(results)
  PROVE  Covered(With(results, n, r))
BY WithCitable, WithContext DEF Covered

-----------------------------------------------------------------------------
(* The inductive invariant, part by part *)

(* What a worker remembers is in the trail. *)
Matches(results) ==
    \A n \in DOMAIN results :
        /\ n \in DOMAIN stored
        /\ stored[n].tool = results[n].tool
        /\ stored[n].refs = results[n].refs
        /\ stored[n].parts \subseteq results[n].parts

(* The result a worker is about to persist is one of the call it made.     *)
OutputFits(w) ==
    /\ output[w] = Result(Request[call[w]].tool, output[w].refs)
    /\ output[w].tool \in Registered
    /\ \/ "chunks" \in Readable(output[w].tool, 0) \cap Readable(output[w].tool, 1)
       \/ ChunksOf(output[w].refs) \subseteq Citable(held[w])

Grounded(a, results, tools) ==
    /\ a.cites \subseteq Citable(results)
    /\ a.context = Context(results)
    /\ a.tools = tools
    /\ a.cites = {} => a.escalated /\ ~ a.confident /\ Citable(results) = {}

WorkerFits(w) ==
    /\ Intact(held[w])
    /\ Restored(w) => Matches(held[w]) /\ Covered(held[w])
    /\ pc[w] = "persist_tool" => OutputFits(w)
    /\ pc[w] = "persist_final" => Grounded(draft[w], held[w], ToolsRun(known[w]))

(* The results stored before the answer. *)
Before(n) == [i \in {j \in DOMAIN stored : j < n} |-> stored[i]]

PublishedFits ==
    answer # 0 =>
        /\ answer <= Len(steps)
        /\ published.cites \subseteq Citable(stored)
        /\ published.cites \subseteq published.context
        /\ published.tools = {stored[n].tool : n \in {m \in DOMAIN stored : m < answer}}
        /\ published.cites = {} =>
              published.escalated /\ ~ published.confident /\ Citable(Before(answer)) = {}

TrailFits ==
    /\ Intact(stored)
    /\ Covered(stored)
    /\ \A n \in DOMAIN stored : stored[n].tool = Request[steps[n].call].tool
    /\ PublishedFits

Fits ==
    /\ MemoryDomains
    /\ TrailFits
    /\ \A w \in Workers : WorkerFits(w)

EvidenceInv == TrailInv /\ Fits

(* A trail that only grows keeps what it says about another worker.        *)
LEMMA ApartKeeps ==
  ASSUME NEW v, WorkerFits(v), Apart(v), DOMAIN stored \subseteq DOMAIN stored',
         \A n \in DOMAIN stored : stored'[n] = stored[n]
  PROVE  WorkerFits(v)'
<1>1. Restored(v)' => Restored(v)
  BY DEF Apart, Restored
<1>2. Matches(held[v]) => Matches(held[v])'
  BY DEF Apart, Matches
<1>3. Intact(held[v])' /\ (Covered(held[v]) => Covered(held[v])')
  BY DEF Apart, WorkerFits, Intact, Covered, Citable, Context, References
<1>4. pc'[v] = "persist_tool" => OutputFits(v)'
  BY DEF Apart, WorkerFits, OutputFits, Citable, References
<1>5. pc'[v] = "persist_final" => Grounded(draft[v], held[v], ToolsRun(known[v]))'
  BY DEF Apart, WorkerFits, Grounded, Citable, References, Context, ToolsRun, Succeeded,
     ToolSteps
<1>. QED
  BY <1>1, <1>2, <1>3, <1>4, <1>5 DEF WorkerFits

LEMMA SameTrailKeeps ==
  ASSUME TypeOK, MemoryDomains, TrailFits, SameTrail, UNCHANGED <<answer, published>>,
         TypeOK'
  PROVE  TrailFits'
<1>1. steps \in Seq(Step) /\ Len(steps) \in Nat /\ Len(steps') \in Nat /\ answer \in Nat
  BY SMTT(30) DEF TypeOK
<1>2. \A n \in DOMAIN stored : n \in DOMAIN steps
  BY DEF MemoryDomains, ToolSteps
<1>3. Intact(stored)' /\ Covered(stored)'
  BY DEF SameTrail, TrailFits, Intact, Covered, Citable, Context, References
<1>4. \A n \in DOMAIN stored' : stored'[n].tool = Request[steps'[n].call].tool
  BY <1>2 DEF SameTrail, TrailFits
<1>5. Citable(stored)' = Citable(stored) /\ Citable(Before(answer))' = Citable(Before(answer))
  BY DEF SameTrail, Citable, References, Before
<1>6. PublishedFits'
  BY <1>1, <1>5 DEF SameTrail, TrailFits, PublishedFits
<1>. QED
  BY <1>3, <1>4, <1>6 DEF TrailFits

-----------------------------------------------------------------------------
(* Every step keeps it *)

(* A step that leaves every worker's results alone.                        *)
LEMMA NobodyMoves ==
  ASSUME TypeOK, TypeOK', Fits, SameTrail, SameDomains, UNCHANGED <<answer, published>>,
         \A v \in Workers : Apart(v)
  PROVE  Fits'
<1>1. MemoryDomains'
  BY DEF Fits, MemoryDomains, SameTrail, SameDomains, Apart, Restored
<1>2. TrailFits'
  BY SameTrailKeeps DEF Fits
<1>3. ASSUME NEW v \in Workers PROVE WorkerFits(v)'
  BY <1>3, ApartKeeps DEF Fits, SameTrail
<1>. QED
  BY <1>1, <1>2, <1>3 DEF Fits

(* A step of one worker that adds no result.                               *)
LEMMA OneMoves ==
  ASSUME TypeOK, TypeOK', Fits, SameTrail, SameDomains, UNCHANGED <<answer, published>>,
         NEW w \in Workers, \A v \in Workers \ {w} : Apart(v),
         WorkerFits(w)', Restored(w)' => DOMAIN held'[w] = ToolSteps(known'[w])
  PROVE  Fits'
<1>1. MemoryDomains'
  BY DEF Fits, MemoryDomains, SameTrail, SameDomains, Apart, Restored
<1>2. TrailFits'
  BY SameTrailKeeps DEF Fits
<1>3. ASSUME NEW v \in Workers PROVE WorkerFits(v)'
  BY <1>3, ApartKeeps DEF Fits, SameTrail
<1>. QED
  BY <1>1, <1>2, <1>3 DEF Fits

LEMMA NothingFits == Intact(Nothing)
BY DEF Intact, Nothing

LEMMA QuietKeeps ==
  ASSUME TypeOK, TypeOK', Fits, NEW w \in Workers, Quiet(w)
  PROVE  Fits'
<1>1. WorkerFits(w)
  BY DEF Fits
<1>2. Intact(held[w])'
  <2>1. CASE held'[w] = held[w]
    BY <1>1, <2>1 DEF WorkerFits, Intact
  <2>2. CASE held'[w] = Nothing
    <3>1. Intact(held'[w])
      BY <2>2, NothingFits
    <3>. QED
      BY <3>1 DEF Intact
  <2>. QED
    BY <2>1, <2>2 DEF Quiet, KeepsResults
<1>3. Restored(w)' => Matches(held[w])' /\ Covered(held[w])'
  BY <1>1 DEF Quiet, KeepsResults, SameTrail, WorkerFits, Matches, Covered, Citable,
     Context, References
<1>4. pc'[w] \notin {"persist_tool", "persist_final"}
  BY DEF Quiet, KeepsResults, Restored, InTry
<1>5. WorkerFits(w)'
  BY <1>2, <1>3, <1>4 DEF WorkerFits
<1>6. Restored(w)' => DOMAIN held'[w] = ToolSteps(known'[w])
  BY DEF Quiet, KeepsResults, Fits, MemoryDomains
<1>. QED
  BY <1>5, <1>6, OneMoves DEF Quiet

LEMMA PlanKeeps ==
  ASSUME TypeOK, TypeOK', Fits, NEW w \in Workers, Plan(w)
  PROVE  Fits'
<1>1. /\ DOMAIN pc = Workers /\ DOMAIN call = Workers
      /\ steps \in Seq(Step) /\ Len(steps) \in Nat
  BY DEF TypeOK
<1>. DEFINE Decided ==
         /\ steps' = steps /\ known' = known /\ answer' = answer
         /\ \A v \in Workers \ {w} : pc'[v] = pc[v] /\ call'[v] = call[v]
         /\ pc'[w] \in {"check", "resolve", "reject", "wait", "fail_validation",
                        "fail_transient"}
<1>2. Decided
  <2>1. ASSUME Interrupt(w) PROVE Decided
    BY <1>1, <2>1 DEF Interrupt, GoTo, execVars, resVars
  <2>2. ASSUME NEW b, DecideInvalid(w, b) PROVE Decided
    BY <1>1, <2>2 DEF DecideInvalid, GoTo, execVars, resVars
  <2>3. ASSUME NEW c, DecideTool(w, c) PROVE Decided
    BY <1>1, <2>3 DEF DecideTool, GoTo, execVars, resVars
  <2>4. ASSUME DecideFinal(w) PROVE Decided
    BY <1>1, <2>4 DEF DecideFinal, GoTo, execVars, resVars
  <2>. QED
    BY <2>1, <2>2, <2>3, <2>4 DEF Plan, Decide
<1>3. UNCHANGED <<held, output, draft, stored, published>> /\ Restored(w)
  BY DEF Plan, trailVars, Restored, InTry
<1>4. Quiet(w)
  BY <1>1, <1>2, <1>3 DEF Quiet, SameTrail, SameDomains, Apart, KeepsResults
<1>. QED
  BY <1>4, QuietKeeps

LEMMA RestoreKeeps ==
  ASSUME TypeOK, TypeOK', Fits, NEW w \in Workers, Restore(w)
  PROVE  Fits'
<1>1. /\ DOMAIN pc = Workers /\ DOMAIN call = Workers /\ DOMAIN known = Workers
      /\ DOMAIN held = Workers
      /\ steps \in Seq(Step) /\ Len(steps) \in Nat
  BY DEF TypeOK, Fits, MemoryDomains
<1>2. /\ UNCHANGED <<steps, answer, call, output, draft, stored, published>>
      /\ pc' = [pc EXCEPT ![w] = "check"]
      /\ known' = [known EXCEPT ![w] = steps]
      /\ held' = [held EXCEPT ![w] = stored]
  BY DEF Restore, LoadSteps, GoTo, execVars, resVars, trailVars
<1>3. /\ SameTrail /\ SameDomains /\ UNCHANGED <<answer, published>>
      /\ \A v \in Workers \ {w} : Apart(v)
      /\ held'[w] = stored /\ known'[w] = steps /\ pc'[w] = "check" /\ stored' = stored
  BY <1>1, <1>2 DEF SameTrail, SameDomains, Apart
<1>. HIDE DEF SameTrail, SameDomains, Apart
<1>4. WorkerFits(w)'
  <2>1. Intact(held[w])'
    BY <1>3 DEF Fits, TrailFits, Intact
  <2>2. Covered(held[w])'
    BY <1>3 DEF Fits, TrailFits, Covered, Citable, Context, References
  <2>3. Matches(held[w])'
    BY <1>3 DEF Matches
  <2>. QED
    BY <1>3, <2>1, <2>2, <2>3 DEF WorkerFits
<1>5. DOMAIN held'[w] = ToolSteps(known'[w])
  BY <1>3 DEF Fits, MemoryDomains
<1>. QED
  BY <1>3, <1>4, <1>5, OneMoves

LEMMA RunToolKeeps ==
  ASSUME TypeOK, TypeOK', Fits, NEW w \in Workers, RunTool(w)
  PROVE  Fits'
<1>1. /\ DOMAIN pc = Workers /\ DOMAIN output = Workers
      /\ steps \in Seq(Step) /\ Len(steps) \in Nat
  BY DEF TypeOK, Fits, MemoryDomains
<1>2. pc[w] = "execute" /\ Restored(w)
  BY DEF RunTool, Restored, InTry
<1>3. UNCHANGED <<steps, answer, known, call, held, draft, stored, published>>
  BY DEF RunTool, execVars, resVars, trailVars
<1>. DEFINE q == Request[call[w]]
            refs == Found(q, Knowledge[release], published.context, held[w])
            Done == /\ q.tool \in Registered
                    /\ pc' = [pc EXCEPT ![w] = "persist_tool"]
                    /\ output' = [output EXCEPT ![w] = Result(q.tool, refs)]
            Stopped == \E l \in {"terminal", "reject_tool", "fail_transient"} :
                          pc' = [pc EXCEPT ![w] = l] /\ output' = output
<1>4. Done \/ Stopped
  <2>1. ASSUME Succeed(w, q), Authorized(q) PROVE Done \/ Stopped
    BY <2>1 DEF Succeed, Refuse, GoTo, Authorized
  <2>2. ASSUME Refuse(w) PROVE Stopped
    BY <2>2 DEF Refuse, GoTo
  <2>3. ASSUME NEW l \in {"terminal", "fail_transient"}, GoTo(w, l), UNCHANGED output
        PROVE  Stopped
    BY <2>3 DEF GoTo
  <2>. HIDE DEF Done, Stopped
  <2>. QED
    BY <2>1, <2>2, <2>3 DEF RunTool
<1>5. /\ SameTrail /\ SameDomains /\ UNCHANGED <<answer, published>>
      /\ \A v \in Workers \ {w} : Apart(v)
  BY <1>1, <1>3, <1>4 DEF SameTrail, SameDomains, Apart
<1>6. /\ Intact(held[w])'
      /\ Matches(held[w])' /\ Covered(held[w])'
      /\ DOMAIN held'[w] = ToolSteps(known'[w])
  BY <1>2, <1>3 DEF Fits, WorkerFits, MemoryDomains, Intact, Matches, Covered, Citable,
     Context, References
<1>7. pc'[w] \notin {"persist_final"} /\ (pc'[w] = "persist_tool" => Done)
  BY <1>1, <1>4
<1>8. ASSUME Done PROVE OutputFits(w)'
  <2>1. output'[w] = Result(q.tool, refs)
    BY <1>1, <1>8
  <2>2. output'[w].tool = q.tool /\ output'[w].refs = refs
    BY <2>1 DEF Result
  <2>3. \/ "chunks" \in Readable(q.tool, 0) \cap Readable(q.tool, 1)
        \/ ChunksOf(refs) \subseteq Citable(held[w])
    BY <1>8, FoundCites
  <2>. HIDE DEF refs
  <2>. QED
    BY <1>3, <1>8, <2>1, <2>2, <2>3 DEF OutputFits, Citable, References
<1>9. WorkerFits(w)'
  BY <1>6, <1>7, <1>8 DEF WorkerFits
<1>. QED
  BY <1>5, <1>6, <1>9, OneMoves

LEMMA AnswerKeeps ==
  ASSUME TypeOK, TypeOK', Fits, NEW w \in Workers, Answer(w)
  PROVE  Fits'
<1>1. /\ DOMAIN pc = Workers /\ DOMAIN draft = Workers
      /\ steps \in Seq(Step) /\ Len(steps) \in Nat
  BY DEF TypeOK, Fits, MemoryDomains
<1>2. pc[w] = "resolve" /\ Restored(w)
  BY DEF Answer, Restored, InTry
<1>3. UNCHANGED <<steps, answer, known, call, held, output, stored, published>>
  BY DEF Answer, execVars, resVars, trailVars
<1>. DEFINE tools == ToolsRun(known[w])
            Accepted == \E a \in Candidates :
                /\ Acceptable(a, held[w], tools)
                /\ pc' = [pc EXCEPT ![w] = "persist_final"]
                /\ draft' = [draft EXCEPT ![w] = Adjusted(a, held[w], tools)]
            Stopped == \E l \in {"resolve", "fail_validation", "fail_transient"} :
                          pc' = [pc EXCEPT ![w] = l] /\ draft' = draft
<1>4. Accepted \/ Stopped
  <2>0. pc = [pc EXCEPT ![w] = "resolve"]
    BY <1>2 DEF TypeOK
  <2>1. ASSUME RejectAnswer(w) PROVE Stopped
    BY <2>0, <2>1 DEF RejectAnswer, GoTo
  <2>2. ASSUME NEW a \in Candidates, JudgeAnswer(w, a) PROVE Accepted \/ Stopped
    BY <2>1, <2>2 DEF JudgeAnswer, GoTo
  <2>3. ASSUME GoTo(w, "fail_transient"), UNCHANGED draft PROVE Stopped
    BY <2>3 DEF GoTo
  <2>. HIDE DEF Accepted, Stopped
  <2>. QED
    BY <2>1, <2>2, <2>3 DEF Answer
<1>5. /\ SameTrail /\ SameDomains /\ UNCHANGED <<answer, published>>
      /\ \A v \in Workers \ {w} : Apart(v)
  BY <1>1, <1>3, <1>4 DEF SameTrail, SameDomains, Apart
<1>6. /\ Intact(held[w])'
      /\ Matches(held[w])' /\ Covered(held[w])'
      /\ DOMAIN held'[w] = ToolSteps(known'[w])
  BY <1>2, <1>3 DEF Fits, WorkerFits, MemoryDomains, Intact, Matches, Covered, Citable,
     Context, References
<1>7. pc'[w] \notin {"persist_tool"} /\ (pc'[w] = "persist_final" => Accepted)
  BY <1>1, <1>4
<1>8. ASSUME Accepted PROVE Grounded(draft[w], held[w], ToolsRun(known[w]))'
  <2>1. PICK a \in Candidates : /\ Acceptable(a, held[w], tools)
                                /\ draft'[w] = Adjusted(a, held[w], tools)
    BY <1>1, <1>8
  <2>2. Grounded(Adjusted(a, held[w], tools), held[w], tools)
    BY <2>1 DEF Grounded, Adjusted, Acceptable
  <2>. QED
    BY <1>3, <2>1, <2>2 DEF Grounded
<1>9. WorkerFits(w)'
  BY <1>6, <1>7, <1>8 DEF WorkerFits
<1>. QED
  BY <1>5, <1>6, <1>9, OneMoves

LEMMA EnvironmentKeeps ==
  ASSUME TypeOK, TypeOK', Fits, Environment \/ Release \/ UNCHANGED allVars
  PROVE  Fits'
<1>0. Len(steps) \in Nat
  BY DEF TypeOK
<1>1. UNCHANGED <<steps, answer, pc, known, call, held, output, draft, stored, published>>
  BY DEF Environment, Release, Expire, OpenReview, SubmitReview, allVars, vars,
     evidenceVars, memoryVars, trailVars, execVars, resVars, workVars
<1>. QED
  BY <1>0, <1>1, NobodyMoves DEF SameTrail, SameDomains, Apart

LEMMA PersistResultKeeps ==
  ASSUME TypeOK, TypeOK', KnownIsPrefix, Checked, Fits, NEW w \in Workers, PersistResult(w)
  PROVE  Fits'
<1>. DEFINE n == Len(steps) + 1
            record == [kind |-> "tool", call |-> call[w]]
<1>0. /\ DOMAIN pc = Workers /\ DOMAIN call = Workers /\ DOMAIN known = Workers
      /\ DOMAIN held = Workers /\ DOMAIN output = Workers
      /\ steps \in Seq(Step) /\ Len(steps) \in Nat
      /\ DOMAIN stored = ToolSteps(steps) /\ answer \in Nat
  BY DEF TypeOK, Fits, MemoryDomains
<1>1. pc[w] = "persist_tool" /\ Restored(w) /\ OutputFits(w) /\ WorkerFits(w)
  BY DEF PersistResult, PersistToolStep, Restored, InTry, Fits, WorkerFits
<1>2. record \in Step
  BY <1>1 DEF Checked, Step
<1>3. steps' = Append(steps, record) /\ known[w] = steps /\ NextNumber(w) = n
  BY <1>2, InsertIsAppend DEF PersistResult, PersistToolStep
<1>4. /\ known' = [known EXCEPT ![w] = Append(known[w], record)]
      /\ pc' = [pc EXCEPT ![w] = "check"]
      /\ call' = [call EXCEPT ![w] = NoCall]
      /\ UNCHANGED <<answer, draft, published>>
  BY DEF PersistResult, PersistToolStep, GoTo, resVars
<1>5. /\ stored' = With(stored, n, Stored(output[w]))
      /\ held' = [held EXCEPT ![w] = With(held[w], n, output[w])]
      /\ output' = [output EXCEPT ![w] = NoResult]
  BY <1>3 DEF PersistResult, With
<1>6. /\ ToolSteps(steps') = ToolSteps(steps) \cup {n}
      /\ n \notin ToolSteps(steps)
      /\ Len(steps') = n
      /\ steps'[n] = record
      /\ \A i \in DOMAIN steps : steps'[i] = steps[i]
      /\ known'[w] = steps'
  BY <1>0, <1>2, <1>3, <1>4, ToolStepsAppend, AppendProperties
<1>7. /\ n \notin DOMAIN stored /\ n \notin DOMAIN held[w]
      /\ DOMAIN held[w] = DOMAIN stored
  BY <1>0, <1>1, <1>3, <1>6 DEF Fits, MemoryDomains
<1>8. /\ DOMAIN stored' = DOMAIN stored \cup {n}
      /\ stored'[n] = Stored(output[w])
      /\ \A i \in DOMAIN stored : stored'[i] = stored[i]
      /\ DOMAIN held'[w] = DOMAIN held[w] \cup {n}
      /\ held'[w][n] = output[w]
      /\ \A i \in DOMAIN held[w] : held'[w][i] = held[w][i]
  <2>1. held'[w] = With(held[w], n, output[w])
    BY <1>0, <1>5
  <2>2. /\ DOMAIN With(held[w], n, output[w]) = DOMAIN held[w] \cup {n}
        /\ With(held[w], n, output[w])[n] = output[w]
        /\ \A i \in DOMAIN held[w] : With(held[w], n, output[w])[i] = held[w][i]
    BY <1>7 DEF With
  <2>3. /\ DOMAIN With(stored, n, Stored(output[w])) = DOMAIN stored \cup {n}
        /\ With(stored, n, Stored(output[w]))[n] = Stored(output[w])
        /\ \A i \in DOMAIN stored : With(stored, n, Stored(output[w]))[i] = stored[i]
    BY <1>7 DEF With
  <2>. QED
    BY ONLY <1>5, <2>1, <2>2, <2>3
<1>9. \A v \in Workers \ {w} : Apart(v)
  BY <1>0, <1>4, <1>5 DEF Apart
<1>10. MemoryDomains'
  <2>1. DOMAIN held' = Workers /\ DOMAIN output' = Workers /\ DOMAIN draft' = Workers
    BY <1>0, <1>4, <1>5 DEF Fits, MemoryDomains
  <2>2. DOMAIN stored' = ToolSteps(steps')
    BY <1>0, <1>6, <1>8
  <2>3. DOMAIN held'[w] = ToolSteps(known'[w])
    BY <1>0, <1>6, <1>7, <1>8
  <2>4. \A v \in Workers : Restored(v)' => DOMAIN held'[v] = ToolSteps(known'[v])
    BY <1>9, <2>3 DEF Fits, MemoryDomains, Apart, Restored
  <2>. QED
    BY <2>1, <2>2, <2>4 DEF MemoryDomains
<1>11. /\ output[w].tool = Request[call[w]].tool
       /\ output[w].parts = Readable(output[w].tool, 0)
       /\ Stored(output[w]).tool = output[w].tool
       /\ Stored(output[w]).refs = output[w].refs
       /\ Stored(output[w]).parts = output[w].parts \cap Readable(output[w].tool, 1)
  BY <1>1 DEF OutputFits, Result, Stored
<1>12. Citable(held[w]) = Citable(stored)
  <2>1. \A i \in DOMAIN stored : stored[i].refs = held[w][i].refs
    BY <1>1, <1>7 DEF WorkerFits, Matches
  <2>2. References(held[w]) = References(stored)
    BY <1>7, <2>1 DEF References
  <2>. QED
    BY <2>2 DEF Citable
<1>13. Covered(stored)' /\ Covered(held[w])'
  <2>1. \/ "chunks" \in output[w].parts /\ "chunks" \in Stored(output[w]).parts
        \/ ChunksOf(output[w].refs) \subseteq Citable(held[w])
    BY <1>1, <1>11 DEF OutputFits
  <2>2. Covered(stored) /\ Covered(held[w])
    BY <1>1 DEF Fits, TrailFits, WorkerFits
  <2>3. Covered(With(stored, n, Stored(output[w])))
    BY <1>7, <1>11, <1>12, <2>1, <2>2, WithCovered
  <2>4. Covered(With(held[w], n, output[w]))
    BY <1>7, <2>1, <2>2, WithCovered
  <2>5. held'[w] = With(held[w], n, output[w])
    BY <1>0, <1>5
  <2>. QED
    BY <1>5, <2>3, <2>4, <2>5 DEF Covered, Citable, Context, References
<1>14. Intact(stored)' /\ Intact(held[w])'
  <2>1. Parts(output[w].tool) \ Excepted(output[w].tool)
          \subseteq output[w].parts \cap Stored(output[w]).parts
    BY <1>1, <1>11, ReadableParts DEF OutputFits
  <2>2. Intact(stored) /\ Intact(held[w])
    BY <1>1 DEF Fits, TrailFits, WorkerFits
  <2>. QED
    BY <1>8, <1>11, <2>1, <2>2 DEF Intact
<1>15. Matches(held[w])'
  <2>1. Matches(held[w])
    BY <1>1 DEF WorkerFits
  <2>. QED
    BY <1>7, <1>8, <1>11, <2>1 DEF Matches
<1>16. WorkerFits(w)'
  BY <1>0, <1>4, <1>13, <1>14, <1>15 DEF WorkerFits
<1>17. \A v \in Workers : WorkerFits(v)'
  <2>. SUFFICES ASSUME NEW v \in Workers PROVE WorkerFits(v)'
    OBVIOUS
  <2>. QED
    BY <1>8, <1>9, <1>16, ApartKeeps DEF Fits
<1>18. \A i \in DOMAIN stored' : stored'[i].tool = Request[steps'[i].call].tool
  <2>1. stored'[n].tool = Request[steps'[n].call].tool
    BY <1>1, <1>6, <1>8, <1>11 DEF OutputFits
  <2>2. \A i \in DOMAIN stored : i \in DOMAIN steps
    BY <1>0 DEF ToolSteps
  <2>. QED
    BY <1>6, <1>8, <2>1, <2>2 DEF Fits, TrailFits
<1>19. PublishedFits'
  <2>. SUFFICES ASSUME answer # 0 PROVE PublishedFits'
    BY <1>4 DEF PublishedFits
  <2>1. PublishedFits
    BY DEF Fits, TrailFits
  <2>2. answer <= Len(steps) /\ ~ (n < answer) /\ answer <= Len(steps')
    BY <1>0, <1>6, <2>1 DEF PublishedFits
  <2>3. {m \in DOMAIN stored' : m < answer} = {m \in DOMAIN stored : m < answer}
    BY <1>8, <2>2
  <2>4. {stored'[m].tool : m \in {j \in DOMAIN stored' : j < answer}}
          = {stored[m].tool : m \in {j \in DOMAIN stored : j < answer}}
    BY <1>8, <2>3
  <2>5. Before(answer)' = Before(answer)
    BY <1>4, <1>8, <2>3 DEF Before
  <2>6. Citable(Before(answer))' = Citable(Before(answer))
    BY <2>5 DEF Citable, References
  <2>7. Citable(stored) \subseteq Citable(stored)'
    <3>1. Citable(stored) \subseteq Citable(With(stored, n, Stored(output[w])))
      BY <1>7, WithCitable
    <3>. DEFINE more == With(stored, n, Stored(output[w]))
    <3>2. stored' = more
      BY <1>5
    <3>. HIDE DEF more
    <3>3. Citable(stored)' = Citable(more)
      BY <3>2 DEF Citable, References
    <3>. QED
      BY <3>1, <3>3 DEF more
  <2>. QED
    BY <1>4, <2>1, <2>2, <2>4, <2>6, <2>7 DEF PublishedFits
<1>. QED
  BY <1>10, <1>13, <1>14, <1>17, <1>18, <1>19 DEF Fits, TrailFits

LEMMA PersistAnswerKeeps ==
  ASSUME TypeOK, TypeOK', KnownIsPrefix, Fits, NEW w \in Workers, PersistAnswer(w)
  PROVE  Fits'
<1>. DEFINE n == Len(steps) + 1
            record == [kind |-> "final", call |-> NoCall]
<1>0. /\ DOMAIN pc = Workers /\ DOMAIN call = Workers /\ DOMAIN known = Workers
      /\ DOMAIN held = Workers /\ DOMAIN output = Workers /\ DOMAIN draft = Workers
      /\ steps \in Seq(Step) /\ Len(steps) \in Nat
      /\ DOMAIN stored = ToolSteps(steps)
  BY DEF TypeOK, Fits, MemoryDomains
<1>1. /\ Restored(w) /\ WorkerFits(w)
      /\ Grounded(draft[w], held[w], ToolsRun(known[w]))
  BY DEF PersistAnswer, PersistFinal, Restored, InTry, Fits, WorkerFits
<1>2. record \in Step
  BY DEF Step
<1>3. steps' = Append(steps, record) /\ known[w] = steps /\ answer' = n
  BY <1>2, InsertIsAppend DEF PersistAnswer, PersistFinal
<1>4. /\ ToolSteps(steps') = ToolSteps(steps)
      /\ Len(steps') = n
      /\ \A i \in DOMAIN steps : steps'[i] = steps[i]
  BY <1>0, <1>2, <1>3, ToolStepsAppend, AppendProperties
<1>5. /\ stored' = stored /\ published' = draft[w]
      /\ pc'[w] = "mark" /\ held'[w] = Nothing
      /\ DOMAIN held' = Workers /\ DOMAIN output' = Workers /\ DOMAIN draft' = Workers
      /\ \A v \in Workers \ {w} : Apart(v)
  BY <1>0 DEF PersistAnswer, PersistFinal, Return, Forget, GoTo, Apart
<1>6. MemoryDomains'
  BY <1>0, <1>4, <1>5 DEF MemoryDomains, Fits, Apart, Restored, InTry
<1>7. WorkerFits(w)'
  <2>1. Intact(held'[w])
    BY <1>5, NothingFits
  <2>2. Intact(held[w])'
    BY <2>1 DEF Intact
  <2>. QED
    BY <1>5, <2>2 DEF WorkerFits, Restored, InTry
<1>8. \A v \in Workers : WorkerFits(v)'
  <2>. SUFFICES ASSUME NEW v \in Workers PROVE WorkerFits(v)'
    OBVIOUS
  <2>. QED
    BY <1>5, <1>7, ApartKeeps DEF Fits
<1>9. /\ Intact(stored)' /\ Covered(stored)'
      /\ \A i \in DOMAIN stored' : stored'[i].tool = Request[steps'[i].call].tool
  <2>1. \A i \in DOMAIN stored : i \in DOMAIN steps
    BY <1>0 DEF ToolSteps
  <2>. QED
    BY <1>4, <1>5, <2>1 DEF Fits, TrailFits, Intact, Covered, Citable, Context, References
<1>10. PublishedFits'
  <2>. DEFINE a == draft[w]
  <2>1. /\ DOMAIN held[w] = DOMAIN stored
        /\ \A i \in DOMAIN stored : /\ stored[i].refs = held[w][i].refs
                                    /\ stored[i].tool = held[w][i].tool
    BY <1>0, <1>1, <1>3 DEF Fits, MemoryDomains, WorkerFits, Matches
  <2>2. Citable(stored) = Citable(held[w])
    BY <2>1 DEF Citable, References
  <2>3. Covered(held[w])
    BY <1>1 DEF WorkerFits
  <2>4. {m \in DOMAIN stored : m < n} = DOMAIN stored
    <3>1. \A m \in DOMAIN stored : m \in 1..Len(steps)
      BY <1>0 DEF ToolSteps
    <3>. QED
      BY <1>0, <3>1
  <2>5. ToolsRun(known[w]) = {stored[m].tool : m \in {j \in DOMAIN stored : j < n}}
    <3>1. ToolsRun(steps) = {Request[steps[i].call].tool : i \in ToolSteps(steps)}
      BY DEF ToolsRun, Succeeded
    <3>2. \A i \in DOMAIN stored : stored[i].tool = Request[steps[i].call].tool
      BY DEF Fits, TrailFits
    <3>3. ToolsRun(steps) = {stored[m].tool : m \in DOMAIN stored}
      BY <1>0, <3>1, <3>2
    <3>4. {stored[m].tool : m \in {j \in DOMAIN stored : j < n}}
            = {stored[m].tool : m \in DOMAIN stored}
      BY <2>4
    <3>. QED
      BY <1>3, <3>3, <3>4
  <2>6. Citable([i \in {j \in DOMAIN stored : j < n} |-> stored[i]]) = Citable(stored)
    <3>. DEFINE past == [i \in {j \in DOMAIN stored : j < n} |-> stored[i]]
    <3>1. DOMAIN past = DOMAIN stored /\ \A i \in DOMAIN stored : past[i] = stored[i]
      BY <2>4
    <3>. HIDE DEF past
    <3>2. References(past) = References(stored)
      BY <3>1 DEF References
    <3>3. Citable(past) = Citable(stored)
      BY <3>2 DEF Citable
    <3>. QED
      BY <3>3 DEF past
  <2>7. Citable(Before(answer))' = Citable(stored)
    BY <1>3, <1>5, <2>6 DEF Before, Citable, References
  <2>8. Citable(stored)' = Citable(stored)
    BY <1>5 DEF Citable, References
  <2>9. /\ a.cites \subseteq Citable(stored)
        /\ a.cites \subseteq a.context
        /\ a.tools = ToolsRun(known[w])
        /\ a.cites = {} => a.escalated /\ ~ a.confident /\ Citable(stored) = {}
    BY <1>1, <2>2, <2>3 DEF Grounded, Covered
  <2>10. answer' = n /\ n <= Len(steps') /\ published' = a /\ stored' = stored
    BY <1>0, <1>3, <1>4, <1>5
  <2>. QED
    BY <2>5, <2>7, <2>8, <2>9, <2>10 DEF PublishedFits
<1>. QED
  BY <1>6, <1>8, <1>9, <1>10 DEF Fits, TrailFits

-----------------------------------------------------------------------------
(* The theorems *)

LEMMA InitFits == EvidenceInit => EvidenceInv
<1>. SUFFICES ASSUME EvidenceInit PROVE EvidenceInv
  OBVIOUS
<1>1. TrailInv
  BY InitTrailInv DEF EvidenceInit
<1>2. /\ steps = <<>> /\ answer = 0 /\ stored = Nothing /\ DOMAIN stored = {}
      /\ \A w \in Workers : pc[w] = "idle" /\ held[w] = Nothing
  BY DEF EvidenceInit, Init, Nothing
<1>3. MemoryDomains
  BY <1>2 DEF EvidenceInit, MemoryDomains, ToolSteps, Restored, InTry
<1>4. TrailFits
  BY <1>2, NothingFits DEF TrailFits, PublishedFits, Covered, Citable, ChunksOf, References
<1>5. \A w \in Workers : WorkerFits(w)
  BY <1>2, NothingFits DEF WorkerFits, Restored, InTry
<1>. QED
  BY <1>1, <1>3, <1>4, <1>5 DEF EvidenceInv, Fits

LEMMA EvidenceInvStep == EvidenceInv /\ [EvidenceNext]_allVars => EvidenceInv'
<1>. SUFFICES ASSUME EvidenceInv, [EvidenceNext]_allVars PROVE EvidenceInv'
  OBVIOUS
<1>1. TrailInv /\ Fits /\ MemoryDomains
  BY DEF EvidenceInv, Fits
<1>2. TrailInv'
  BY <1>1, StepRefines, TrailInvStep
<1>3. TypeOK /\ TypeOK' /\ KnownIsPrefix /\ Checked
  BY <1>1, <1>2 DEF TrailInv
<1>4. ASSUME NEW w \in Workers, Other(w) \/ PlanRaises(w) PROVE Fits'
  BY <1>1, <1>3, <1>4, OtherIsQuiet, QuietKeeps
<1>5. ASSUME NEW w \in Workers, Restore(w) PROVE Fits'
  BY <1>1, <1>3, <1>5, RestoreKeeps
<1>6. ASSUME NEW w \in Workers, Plan(w) PROVE Fits'
  BY <1>1, <1>3, <1>6, PlanKeeps
<1>7. ASSUME NEW w \in Workers, RunTool(w) PROVE Fits'
  BY <1>1, <1>3, <1>7, RunToolKeeps
<1>8. ASSUME NEW w \in Workers, PersistResult(w) PROVE Fits'
  BY <1>1, <1>3, <1>8, PersistResultKeeps
<1>9. ASSUME NEW w \in Workers, Answer(w) PROVE Fits'
  BY <1>1, <1>3, <1>9, AnswerKeeps
<1>10. ASSUME NEW w \in Workers, PersistAnswer(w) PROVE Fits'
  BY <1>1, <1>3, <1>10, PersistAnswerKeeps
<1>11. ASSUME Environment \/ Release \/ UNCHANGED allVars PROVE Fits'
  BY <1>1, <1>3, <1>11, EnvironmentKeeps
<1>12. Fits'
  BY <1>4, <1>5, <1>6, <1>7, <1>8, <1>9, <1>10, <1>11 DEF EvidenceNext
<1>. QED
  BY <1>2, <1>12 DEF EvidenceInv

LEMMA EvidenceInvHolds == EvidenceSpec => []EvidenceInv
BY InitFits, EvidenceInvStep, PTL DEF EvidenceSpec

(* Whatever the provider replies and the tools find, the workflow does     *)
(* nothing that AgentExecution does not allow, so that its theorems        *)
(* (AgentProofs) hold of it as well.                                       *)
THEOREM EvidenceImplementsExecution == EvidenceSpec => ImplementsAgentExecution
<1>1. EvidenceInit => Init
  BY DEF EvidenceInit
<1>2. EvidenceInv /\ [EvidenceNext]_allVars => [Next]_vars
  BY StepRefines DEF EvidenceInv, Fits
<1>. QED
  BY <1>1, <1>2, EvidenceInvHolds, PTL DEF EvidenceSpec, Spec, ImplementsAgentExecution

(* So the agent with its planner, tools and evidence settles an event once *)
(* and reports what it settled, until the event is handed over too early.  *)
THEOREM EvidenceImplementsSettlement == EvidenceSpec => ImplementsSettlement
BY EvidenceImplementsExecution, AgentImplementsSettlement DEF ImplementsAgentExecution

(* The results any worker reasons from are those of the stored tool steps  *)
(* it knows, also when it took the execution over.                         *)
THEOREM MemoryMatchesTrailHolds == EvidenceSpec => []MemoryMatchesTrail
<1>1. EvidenceInv => MemoryMatchesTrail
  BY DEF EvidenceInv, Fits, MemoryDomains, WorkerFits, Matches, Restored,
     MemoryMatchesTrail
<1>. QED
  BY <1>1, EvidenceInvHolds, PTL

(* A restored result loses nothing to the depth limit, unless it quotes    *)
(* earlier resolutions.                                                    *)
THEOREM ResultsReadableHolds == EvidenceSpec => []ResultsReadable
<1>1. EvidenceInv => ResultsReadable
  BY DEF EvidenceInv, Fits, WorkerFits, Intact, ResultsReadable
<1>. QED
  BY <1>1, EvidenceInvHolds, PTL

(* Every published citation is a chunk that a stored tool step found, and  *)
(* its text is in the published context.                                   *)
THEOREM CitationsAreEvidenceHolds == EvidenceSpec => []CitationsAreEvidence
<1>1. EvidenceInv => CitationsAreEvidence
  BY DEF EvidenceInv, Fits, TrailFits, PublishedFits, CitationsAreEvidence
<1>. QED
  BY <1>1, EvidenceInvHolds, PTL

(* An answer without citations is escalated, of capped confidence, and was *)
(* given without any citable evidence.                                     *)
THEOREM UncitedIsEscalatedHolds == EvidenceSpec => []UncitedIsEscalated
<1>1. EvidenceInv => UncitedIsEscalated
  BY DEF EvidenceInv, Fits, TrailFits, PublishedFits, Before, UncitedIsEscalated
<1>. QED
  BY <1>1, EvidenceInvHolds, PTL

(* An answer names exactly the tools that succeeded before it.             *)
THEOREM ToolsUsedSucceededHolds == EvidenceSpec => []ToolsUsedSucceeded
<1>1. EvidenceInv => ToolsUsedSucceeded
  BY DEF EvidenceInv, Fits, TrailFits, PublishedFits, ToolsUsedSucceeded
<1>. QED
  BY <1>1, EvidenceInvHolds, PTL

-----------------------------------------------------------------------------
(* Failures and outages *)

(* Where a worker can only be after a reply it could use. *)
AfterReply == InTry \ {"load", "check", "plan"}

(* A step, a decision and a failure all cost the provider a reply, unless  *)
(* the time was up.                                                        *)
RepliesPaid ==
    /\ FailedOnlyAfterReply
    /\ steps # <<>> => answered
    /\ \A w \in Workers :
          /\ pc[w] \in AfterReply => answered
          /\ pc[w] \in {"fail_validation", "terminal"} => expired \/ answered

LEMMA ExceededCosts ==
  ASSUME TrailInv, NEW w \in Workers, BudgetExceeded(w)
  PROVE  expired \/ steps # <<>>
<1>. SUFFICES ASSUME steps = <<>> PROVE expired
  OBVIOUS
<1>1. Len(steps) = 0 /\ ToolSteps(steps) = {}
  BY DEF ToolSteps
<1>2. Cardinality(ToolSteps(steps)) = 0
  BY <1>1, FS_EmptySet
<1>3. toolCallCount = 0 /\ Len(known[w]) = 0
  BY <1>1, <1>2, LenProperties DEF TrailInv, CountersExact, KnownIsPrefix, TypeOK
<1>. QED
  BY <1>3, AgentAssumption DEF BudgetExceeded

LEMMA RepliesPaidStep ==
  ASSUME TrailInv, RepliesPaid, [EvidenceNext]_allVars
  PROVE  RepliesPaid'
<1>0. DOMAIN pc = Workers
  BY DEF TrailInv, TypeOK
<1>. DEFINE Kept(w) == \A v \in Workers \ {w} : pc'[v] = pc[v]
            Held == (answered => answered') /\ (expired => expired')
<1>1. ASSUME NEW w \in Workers, Kept(w), Held, execStatus' # "failed" \/ execStatus' = execStatus,
             steps' # <<>> => steps # <<>> \/ answered',
             pc'[w] \in AfterReply => pc[w] \in AfterReply \/ answered',
             pc'[w] \in {"fail_validation", "terminal"} =>
                 \/ expired \/ steps # <<>> \/ answered'
                 \/ pc[w] \in AfterReply \cup {"fail_validation", "terminal"}
      PROVE  RepliesPaid'
  BY <1>1 DEF RepliesPaid, FailedOnlyAfterReply
<1>. DEFINE Paid(w) ==
              /\ Kept(w)
              /\ execStatus' # "failed" \/ execStatus' = execStatus
              /\ steps' # <<>> => steps # <<>> \/ pc[w] \in AfterReply
              /\ pc'[w] \in AfterReply => pc[w] \in AfterReply
              /\ pc'[w] \in {"fail_validation", "terminal"} =>
                    \/ expired \/ steps # <<>>
                    \/ pc[w] \in AfterReply \cup {"fail_validation", "terminal"}
<1>2. ASSUME NEW w \in Workers, Paid(w), UNCHANGED answered, UNCHANGED expired PROVE RepliesPaid'
  BY <1>1, <1>2 DEF RepliesPaid
<1>. HIDE DEF Paid
<1>3. ASSUME NEW w \in Workers, Other(w) PROVE RepliesPaid'
  <2>. USE <1>0 DEF Paid, GoTo, Leave, Return, AfterReply, InTry, execVars, resVars
  <2>1. UNCHANGED answered
    BY <1>3 DEF Other
  <2>2. CASE CheckBudgets(w)
    <3>1. Paid(w) /\ UNCHANGED expired
      BY <2>2, ExceededCosts DEF CheckBudgets
    <3>. QED
      BY <1>2, <2>1, <3>1
  <2>3. CASE Deliver(w) \/ ClaimSettled(w) \/ ClaimFirst(w) \/ InsertExecution(w)
             \/ InsertConflict(w) \/ ClaimRun(w)
    <3>1. Paid(w) /\ UNCHANGED expired
      BY <2>3 DEF Deliver, ClaimSettled, ClaimFirst, InsertExecution, InsertConflict, ClaimRun
    <3>. QED
      BY <1>2, <2>1, <3>1
  <2>4. CASE SetWaiting(w) \/ PersistRejectedStep(w) \/ Resume(w) \/ StepConflict(w)
             \/ RecordTransient(w) \/ ExhaustRetries(w)
    <3>1. Paid(w) /\ UNCHANGED expired
      BY <2>4 DEF SetWaiting, PersistRejectedStep, Resume, StepConflict, Inserting,
                  RecordTransient, ExhaustRetries
    <3>. QED
      BY <1>2, <2>1, <3>1
  <2>5. CASE RecordValidation(w)
    <3>1. /\ Kept(w) /\ UNCHANGED <<expired, steps>>
          /\ pc[w] = "fail_validation" /\ pc'[w] \in {"idle", "mark"}
      BY <2>5 DEF RecordValidation
    <3>2. expired \/ answered
      BY <3>1 DEF RepliesPaid
    <3>. QED
      BY <2>1, <3>1, <3>2 DEF RepliesPaid, FailedOnlyAfterReply
  <2>6. CASE Mark(w) \/ CommitOffset(w) \/ Interrupt(w) \/ LoseCommit(w) \/ Abandon(w) \/ Crash(w)
    <3>1. Paid(w) /\ UNCHANGED expired
      BY <2>6 DEF Mark, CommitOffset, Interrupt, LoseCommit, Abandon, Crash
    <3>. QED
      BY <1>2, <2>1, <3>1
  <2>. QED
    BY <1>3, <2>2, <2>3, <2>4, <2>5, <2>6 DEF Other
<1>4. ASSUME NEW w \in Workers, Restore(w) PROVE RepliesPaid'
  <2>1. Paid(w) /\ UNCHANGED <<answered, expired>>
    BY <1>0, <1>4 DEF Paid, Restore, LoadSteps, GoTo, AfterReply, InTry, execVars
  <2>. QED
    BY <1>2, <2>1
<1>5. ASSUME NEW w \in Workers, Plan(w) PROVE RepliesPaid'
  <2>1. PICK reply \in ChatReplies :
          /\ CASE ChatOutcome(reply) = "unavailable" -> Interrupt(w)
               [] ChatOutcome(reply) = "response_error" -> DecideInvalid(w, FALSE)
               [] OTHER -> \E p \in Payloads :
                              /\ ~ Raises(p, RequiredTool(known[w]))
                              /\ Decide(w, Parse(p, RequiredTool(known[w])))
          /\ answered' = (answered \/ reply \notin Outages)
    BY <1>5 DEF Plan
  <2>2. /\ Kept(w) /\ UNCHANGED <<expired, steps, execStatus>>
        /\ reply \in Outages => pc'[w] = "fail_transient"
    <3>1. reply \in Outages => ChatOutcome(reply) = "unavailable"
      BY DEF ChatOutcome, Transport
    <3>2. CASE Interrupt(w)
      BY <1>0, <3>2 DEF Interrupt, GoTo, execVars
    <3>3. ASSUME NEW b \in BOOLEAN, DecideInvalid(w, b)
          PROVE  Kept(w) /\ UNCHANGED <<expired, steps, execStatus>>
      BY <1>0, <3>3 DEF DecideInvalid, GoTo, execVars
    <3>4. ASSUME NEW p \in Payloads, Decide(w, Parse(p, RequiredTool(known[w])))
          PROVE  Kept(w) /\ UNCHANGED <<expired, steps, execStatus>>
      BY <1>0, <3>3, <3>4 DEF Decide, DecideTool, DecideFinal, GoTo, execVars
    <3>5. \/ Interrupt(w) \/ DecideInvalid(w, FALSE)
          \/ \E p \in Payloads : Decide(w, Parse(p, RequiredTool(known[w])))
      BY <2>1
    <3>6. reply \in Outages => pc'[w] = "fail_transient"
      BY <1>0, <2>1, <3>1 DEF Interrupt, GoTo
    <3>. QED
      BY <3>2, <3>3, <3>4, <3>5, <3>6
  <2>. QED
    BY <1>1, <2>1, <2>2 DEF AfterReply, InTry
<1>6. ASSUME NEW w \in Workers, RunTool(w) PROVE RepliesPaid'
  <2>1. Paid(w) /\ UNCHANGED <<answered, expired>>
    <3>1. /\ pc[w] = "execute" /\ UNCHANGED <<answered, expired, execVars>>
          /\ \E l \in {"terminal", "reject_tool", "persist_tool", "fail_transient"} : GoTo(w, l)
      BY <1>6 DEF RunTool, Refuse, Succeed
    <3>. QED
      BY <1>0, <3>1 DEF Paid, GoTo, AfterReply, InTry, execVars
  <2>. QED
    BY <1>2, <2>1
<1>7. ASSUME NEW w \in Workers, PersistResult(w) PROVE RepliesPaid'
  <2>1. Paid(w) /\ UNCHANGED <<answered, expired>>
    BY <1>0, <1>7 DEF Paid, PersistResult, PersistToolStep, GoTo, AfterReply, InTry
  <2>. QED
    BY <1>2, <2>1
<1>8. ASSUME NEW w \in Workers, Answer(w) PROVE RepliesPaid'
  <2>1. /\ pc[w] = "resolve" /\ UNCHANGED <<expired, execVars>>
        /\ Kept(w)
        /\ answered => answered'
    BY <1>0, <1>8 DEF Answer, RejectAnswer, JudgeAnswer, GoTo
  <2>. QED
    BY <1>1, <2>1 DEF AfterReply, InTry, execVars
<1>9. ASSUME NEW w \in Workers, PersistAnswer(w) PROVE RepliesPaid'
  <2>1. Paid(w) /\ UNCHANGED <<answered, expired>>
    BY <1>0, <1>9 DEF Paid, PersistAnswer, PersistFinal, Return, GoTo, AfterReply, InTry
  <2>. QED
    BY <1>2, <2>1
<1>10. CASE Release \/ Environment \/ UNCHANGED allVars
  <2>1. UNCHANGED <<answered, pc, steps>> /\ (expired => expired')
        /\ (execStatus' # "failed" \/ execStatus' = execStatus)
    BY <1>10 DEF Release, Environment, Expire, OpenReview, SubmitReview, allVars, evidenceVars,
                 vars, execVars, workVars
  <2>. QED
    BY <2>1 DEF RepliesPaid, FailedOnlyAfterReply
<1>11. ASSUME NEW w \in Workers, PlanRaises(w) PROVE RepliesPaid'
  <2>1. /\ answered' /\ UNCHANGED <<expired, execVars>>
        /\ Kept(w) /\ pc'[w] = "idle"
    BY <1>0, <1>11 DEF PlanRaises, Abandon, Leave, GoTo
  <2>. QED
    BY <1>1, <2>1 DEF AfterReply, InTry, execVars
<1>. QED
  BY <1>3, <1>4, <1>5, <1>6, <1>7, <1>8, <1>9, <1>10, <1>11 DEF EvidenceNext

(* An execution fails only if its time is up or the provider said          *)
(* something: outages alone never end an incident, whatever the number of  *)
(* workers, retries and crashes.                                           *)
THEOREM FailedOnlyAfterReplyHolds == EvidenceSpec => []FailedOnlyAfterReply
<1>1. EvidenceInit => RepliesPaid
  BY DEF EvidenceInit, Init, RepliesPaid, FailedOnlyAfterReply, AfterReply, InTry
<1>2. (EvidenceInv /\ RepliesPaid) /\ [EvidenceNext]_allVars => RepliesPaid'
  BY RepliesPaidStep DEF EvidenceInv
<1>3. RepliesPaid => FailedOnlyAfterReply
  BY DEF RepliesPaid
<1>. QED
  BY <1>1, <1>2, <1>3, EvidenceInvHolds, PTL DEF EvidenceSpec

-----------------------------------------------------------------------------
(* Model calls of an attempt *)

Used(w) == Cardinality(ToolSteps(known[w]))

(* What n tool steps may cost. *)
Allowance(n) == n * (RepairAttempts + 1)

Outside == {"idle", "claim", "insert", "load", "mark", "commit"}
Looping == {"check", "plan", "resume"}
Pending == {"wait", "execute", "persist_tool", "reject", "reject_tool"}

(* Every call but the one whose decision is under way has become a tool    *)
(* step, with the repairs before it, or a repair since the last one; the   *)
(* decision to answer starts an account of its own.                        *)
Balanced(l, calls, repairs, proposals, used) ==
    /\ l \in Outside => calls = 0 /\ repairs = 0 /\ proposals = 0
    /\ l \in Looping \cup Pending => repairs <= RepairAttempts /\ proposals = 0
    /\ l \in Looping => calls <= Allowance(used) + repairs
    /\ l \in Pending => calls <= Allowance(used) + repairs + 1
    /\ l = "resolve" => calls <= Allowance(used + 1) + proposals

Account(l, calls, repairs, proposals, used) ==
    /\ Balanced(l, calls, repairs, proposals, used)
    /\ calls <= Allowance(MaxToolCalls + 2)

WithinCalls(w) == Account(pc[w], modelCalls[w], repair[w], tries[w], Used(w))

Counted ==
    /\ tries \in [Workers -> 0..RepairAttempts]
    /\ modelCalls \in [Workers -> Nat]
    /\ release \in 0..MaxReleases
    /\ answered \in BOOLEAN

CallsInv == Counted /\ \A w \in Workers : WithinCalls(w)

LEMMA Allowances ==
  ASSUME NEW n \in Nat
  PROVE  /\ Allowance(n) \in Nat
         /\ Allowance(n + 1) = Allowance(n) + RepairAttempts + 1
         /\ \A m \in Nat : m <= n => Allowance(m) <= Allowance(n)
<1>. DEFINE R == RepairAttempts + 1
<1>1. R \in Nat
  BY AgentAssumption
<1>2. n * R \in Nat /\ (n + 1) * R = n * R + R
  BY <1>1
<1>3. ASSUME NEW m \in Nat, m <= n PROVE m * R <= n * R
  BY <1>1, <1>3
<1>. QED
  BY <1>2, <1>3, AgentAssumption DEF Allowance

(* A worker knows no more tool steps than the budget of the execution. *)
LEMMA UsedWithinBudget ==
  ASSUME TrailInv, NEW w \in Workers
  PROVE  Used(w) \in Nat /\ Used(w) <= MaxToolCalls
<1>1. steps \in Seq(Step) /\ known[w] \in Seq(Step)
  BY DEF TrailInv, TypeOK
<1>2. DOMAIN known[w] = 1..Len(known[w]) /\ DOMAIN steps = 1..Len(steps)
      /\ Len(known[w]) \in Nat /\ Len(steps) \in Nat
  BY <1>1, LenProperties
<1>3. ToolSteps(known[w]) \subseteq ToolSteps(steps)
  BY <1>2 DEF TrailInv, KnownIsPrefix, ToolSteps
<1>4. IsFiniteSet(ToolSteps(steps)) /\ Used(w) \in Nat
  BY <1>1, ToolStepsFinite DEF Used
<1>5. Used(w) <= Cardinality(ToolSteps(steps)) /\ Cardinality(ToolSteps(steps)) \in Nat
  BY <1>1, <1>3, <1>4, FS_Subset, ToolStepsFinite DEF Used
<1>. QED
  BY <1>4, <1>5, AgentAssumption DEF TrailInv, WithinBudgets

(* Whoever is in the loop has spent less than what the budgets allow. *)
LEMMA Total ==
  ASSUME NEW l \in Outside \cup Looping \cup Pending \cup {"resolve"},
         NEW calls \in Nat, NEW repairs \in Nat, NEW proposals \in 0..RepairAttempts,
         NEW used \in 0..MaxToolCalls, Balanced(l, calls, repairs, proposals, used)
  PROVE  Account(l, calls, repairs, proposals, used)
<1>1. /\ used \in Nat /\ used <= MaxToolCalls /\ RepairAttempts \in Nat
      /\ MaxToolCalls \in Nat /\ MaxToolCalls + 1 \in Nat /\ MaxToolCalls + 2 \in Nat
      /\ used + 1 \in Nat /\ MaxToolCalls + 2 = (MaxToolCalls + 1) + 1
  BY AgentAssumption
<1>2. /\ Allowance(used) \in Nat /\ Allowance(MaxToolCalls) \in Nat
      /\ Allowance(used) <= Allowance(MaxToolCalls)
      /\ Allowance(used + 1) = Allowance(used) + RepairAttempts + 1
      /\ Allowance(MaxToolCalls + 1) = Allowance(MaxToolCalls) + RepairAttempts + 1
      /\ Allowance(MaxToolCalls + 2) = Allowance(MaxToolCalls + 1) + RepairAttempts + 1
  BY <1>1, Allowances
<1>3. calls <= Allowance(used + 1) + RepairAttempts
  BY <1>1, <1>2 DEF Balanced
<1>. QED
  BY <1>1, <1>2, <1>3 DEF Account

-----------------------------------------------------------------------------
(* A step of one worker keeps the accounts if it keeps its own. *)
LEMMA OneCounts ==
  ASSUME TrailInv', CallsInv, Counted', NEW w \in Workers,
         \/ /\ pc'[w] \in Outside \cup Looping \cup Pending \cup {"resolve"}
            /\ Used(w)' \in 0..MaxToolCalls
            /\ Balanced(pc'[w], modelCalls'[w], repair'[w], tries'[w], Used(w)')
         \/ /\ pc'[w] \notin Outside \cup Looping \cup Pending \cup {"resolve"}
            /\ modelCalls'[w] <= Allowance(MaxToolCalls + 2),
         \A v \in Workers \ {w} : /\ pc'[v] = pc[v] /\ known'[v] = known[v]
                                  /\ repair'[v] = repair[v] /\ tries'[v] = tries[v]
                                  /\ modelCalls'[v] = modelCalls[v]
  PROVE  CallsInv'
<1>1. ASSUME NEW v \in Workers \ {w} PROVE WithinCalls(v)'
  BY <1>1 DEF CallsInv, WithinCalls, Used
<1>2. /\ modelCalls'[w] \in Nat /\ repair'[w] \in Nat /\ tries'[w] \in 0..RepairAttempts
  BY DEF Counted, TrailInv, TypeOK
<1>3. WithinCalls(w)'
  <2>1. CASE pc'[w] \in Outside \cup Looping \cup Pending \cup {"resolve"}
    BY <1>2, <2>1, Total DEF WithinCalls
  <2>2. CASE pc'[w] \notin Outside \cup Looping \cup Pending \cup {"resolve"}
    BY <2>2 DEF WithinCalls, Account, Balanced
  <2>. QED
    BY <2>1, <2>2
<1>. QED
  BY <1>1, <1>3 DEF CallsInv

(* What the account of a worker says now. *)
LEMMA Books ==
  ASSUME TrailInv, CallsInv, NEW w \in Workers
  PROVE  /\ RepairAttempts \in Nat /\ MaxToolCalls \in Nat
         /\ repair[w] \in Nat /\ modelCalls[w] \in Nat /\ tries[w] \in 0..RepairAttempts
         /\ Used(w) \in 0..MaxToolCalls
         /\ Allowance(Used(w)) \in Nat
         /\ Allowance(Used(w) + 1) = Allowance(Used(w)) + RepairAttempts + 1
         /\ Balanced(pc[w], modelCalls[w], repair[w], tries[w], Used(w))
         /\ modelCalls[w] <= Allowance(MaxToolCalls + 2)
         /\ DOMAIN pc = Workers /\ DOMAIN known = Workers /\ DOMAIN repair = Workers
         /\ DOMAIN tries = Workers /\ DOMAIN modelCalls = Workers
<1>1. Used(w) \in Nat /\ Used(w) <= MaxToolCalls
  BY UsedWithinBudget
<1>2. /\ Allowance(Used(w)) \in Nat
      /\ Allowance(Used(w) + 1) = Allowance(Used(w)) + RepairAttempts + 1
  BY <1>1, Allowances
<1>. QED
  BY <1>1, <1>2, AgentAssumption
  DEF TrailInv, TypeOK, CallsInv, Counted, WithinCalls, Account

LEMMA OtherCounts ==
  ASSUME TrailInv, TrailInv', CallsInv, NEW w \in Workers, Other(w) \/ PlanRaises(w)
  PROVE  CallsInv'
<1>0. /\ DOMAIN pc = Workers /\ DOMAIN known = Workers /\ DOMAIN repair = Workers
      /\ RepairAttempts \in Nat /\ repair[w] \in Nat /\ modelCalls[w] \in Nat
      /\ tries[w] \in 0..RepairAttempts /\ Used(w) \in 0..MaxToolCalls
      /\ Allowance(Used(w)) \in Nat
      /\ Balanced(pc[w], modelCalls[w], repair[w], tries[w], Used(w))
      /\ modelCalls[w] <= Allowance(MaxToolCalls + 2)
  BY Books
<1>1. /\ IF pc'[w] \in {"idle", "mark"} THEN tries'[w] = 0 /\ modelCalls'[w] = 0
         ELSE tries'[w] = tries[w] /\ modelCalls'[w] = modelCalls[w]
      /\ \A v \in Workers \ {w} : tries'[v] = tries[v] /\ modelCalls'[v] = modelCalls[v]
      /\ Counted'
  <2>1. PlanRaises(w) => pc'[w] = "idle" /\ Forget(w)
    BY <1>0 DEF PlanRaises, Abandon, Leave, GoTo
  <2>2. Returned(w) /\ UNCHANGED release /\ answered' \in {answered, TRUE}
    BY <2>1 DEF Other, PlanRaises, Returned
  <2>. QED
    <3>1. /\ tries \in [Workers -> 0..RepairAttempts] /\ modelCalls \in [Workers -> Nat]
          /\ release \in 0..MaxReleases /\ answered \in BOOLEAN
          /\ 0 \in 0..RepairAttempts
      BY Books, AgentAssumption DEF CallsInv, Counted
    <3>2. \/ Forget(w) /\ pc'[w] \in {"idle", "mark"}
          \/ UNCHANGED <<tries, modelCalls>> /\ pc'[w] \notin {"idle", "mark"}
      BY <2>2 DEF Returned, memoryVars
    <3>3. /\ tries' \in [Workers -> 0..RepairAttempts] /\ modelCalls' \in [Workers -> Nat]
          /\ \A v \in Workers \ {w} : tries'[v] = tries[v] /\ modelCalls'[v] = modelCalls[v]
      BY <3>1, <3>2 DEF Forget
    <3>4. IF pc'[w] \in {"idle", "mark"} THEN tries'[w] = 0 /\ modelCalls'[w] = 0
          ELSE tries'[w] = tries[w] /\ modelCalls'[w] = modelCalls[w]
      BY <3>1, <3>2 DEF Forget
    <3>5. release' \in 0..MaxReleases /\ answered' \in BOOLEAN
      BY <2>2, <3>1
    <3>. QED
      BY <3>3, <3>4, <3>5 DEF Counted
<1>. DEFINE Moved == \A v \in Workers \ {w} : pc'[v] = pc[v] /\ known'[v] = known[v]
                                               /\ repair'[v] = repair[v]
            Same == Used(w)' = Used(w) /\ repair'[w] = repair[w]
            Goes == \/ pc[w] \in Outside /\ pc'[w] \in Outside /\ Same
                    \/ /\ pc'[w] \in {"idle", "mark"} /\ repair'[w] = 0
                       /\ Used(w)' \in 0..MaxToolCalls
                    \/ pc[w] \in Looping /\ pc'[w] \in Looping /\ Same
                    \/ pc[w] \in Pending /\ pc'[w] \in Pending /\ Same
                    \/ /\ pc[w] \in Pending /\ pc'[w] \in Looping /\ Used(w)' = Used(w)
                       /\ repair[w] < RepairAttempts /\ repair'[w] = repair[w] + 1
                    \/ pc'[w] \in {"terminal", "fail_validation", "fail_transient"}
<1>2. ASSUME Goes, Moved PROVE CallsInv'
  <2>1. pc'[w] \in Outside \cup Looping \cup Pending \cup {"resolve"}
          => /\ Used(w)' \in 0..MaxToolCalls
             /\ Balanced(pc'[w], modelCalls'[w], repair'[w], tries'[w], Used(w)')
    BY <1>0, <1>1, <1>2 DEF Balanced, Outside, Looping, Pending
  <2>2. pc'[w] \notin Outside \cup Looping \cup Pending \cup {"resolve"}
          => modelCalls'[w] <= Allowance(MaxToolCalls + 2)
    BY <1>0, <1>1, <1>2 DEF Outside
  <2>. QED
    BY <1>1, <1>2, <2>1, <2>2, OneCounts
<1>3. known'[w] = known[w] => Used(w)' = Used(w)
  BY DEF Used
<1>4. known'[w] = <<>> => Used(w)' \in 0..MaxToolCalls
  BY FS_EmptySet, AgentAssumption DEF Used, ToolSteps
<1>5. CASE PersistRejectedStep(w)
  <2>. DEFINE record == [kind |-> "rejected", call |-> NoCall]
  <2>1. record \in Step /\ record.kind # "tool" /\ known[w] \in Seq(Step)
    BY DEF Step, TrailInv, TypeOK
  <2>2. known'[w] = Append(known[w], record)
    BY <1>0, <1>5 DEF PersistRejectedStep
  <2>3. Used(w)' = Used(w)
    BY <2>1, <2>2, ToolStepsAppend DEF Used
  <2>4. Goes /\ Moved
    BY <1>0, <1>5, <2>3 DEF PersistRejectedStep, GoTo, Pending, Looping
  <2>. QED
    BY <1>2, <2>4
<1>6. CASE Deliver(w) \/ ClaimFirst(w) \/ InsertExecution(w) \/ ClaimRun(w) \/ Mark(w)
  <2>1. Goes /\ Moved
    BY <1>0, <1>3, <1>6 DEF Outside, Deliver, ClaimFirst, InsertExecution, ClaimRun,
       Mark, GoTo
  <2>. QED
    BY <1>2, <2>1
<1>7. CASE CheckBudgets(w) \/ SetWaiting(w) \/ Resume(w) \/ StepConflict(w)
           \/ Interrupt(w) \/ ExhaustRetries(w)
  <2>1. Goes /\ Moved
    BY <1>0, <1>3, <1>7 DEF Looping, Pending, CheckBudgets, SetWaiting, Resume,
       StepConflict, Interrupt, ExhaustRetries, GoTo
  <2>. QED
    BY <1>2, <2>1
<1>8. CASE \/ ClaimSettled(w) \/ InsertConflict(w) \/ RecordTransient(w)
           \/ RecordValidation(w) \/ CommitOffset(w) \/ LoseCommit(w) \/ Abandon(w)
           \/ Crash(w)
  <2>1. /\ Moved /\ pc'[w] \in {"idle", "mark"} /\ repair'[w] = 0 /\ known'[w] = <<>>
    BY <1>0, <1>8 DEF ClaimSettled, InsertConflict, RecordTransient, RecordValidation,
       CommitOffset, LoseCommit, Abandon, Crash, Leave, Return, GoTo
  <2>. QED
    BY <1>2, <1>4, <2>1
<1>. QED
  BY <1>5, <1>6, <1>7, <1>8 DEF Other, PlanRaises

LEMMA PlanCounts ==
  ASSUME TrailInv, TrailInv', CallsInv, NEW w \in Workers, Plan(w)
  PROVE  CallsInv'
<1>1. /\ pc[w] = "plan" /\ UNCHANGED <<tries, release>>
      /\ modelCalls' = [modelCalls EXCEPT ![w] = @ + 1]
      /\ answered' \in BOOLEAN
  BY DEF Plan, Called, CallsInv, Counted
<1>2. /\ repair[w] <= RepairAttempts /\ tries[w] = 0
      /\ modelCalls[w] <= Allowance(Used(w)) + repair[w]
  BY <1>1, Books DEF Balanced, Looping
<1>3. Counted'
  BY <1>1 DEF CallsInv, Counted
<1>4. /\ \/ pc'[w] \in {"wait", "reject"} /\ repair' = repair
         \/ pc'[w] = "resolve" /\ repair' = repair
         \/ pc'[w] \in {"check", "resolve"} /\ repair'[w] = repair[w] + 1
            /\ (repair[w] < RepairAttempts <=> pc'[w] = "check")
         \/ pc'[w] \in {"fail_validation", "fail_transient"}
      /\ \A v \in Workers \ {w} : pc'[v] = pc[v] /\ repair'[v] = repair[v]
      /\ known' = known
  <2>. DEFINE Outcome ==
                /\ \/ pc'[w] \in {"wait", "reject"} /\ repair' = repair
                   \/ pc'[w] = "resolve" /\ repair' = repair
                   \/ pc'[w] \in {"check", "resolve"} /\ repair'[w] = repair[w] + 1
                      /\ (repair[w] < RepairAttempts <=> pc'[w] = "check")
                   \/ pc'[w] \in {"fail_validation", "fail_transient"}
                /\ \A v \in Workers \ {w} : pc'[v] = pc[v] /\ repair'[v] = repair[v]
                /\ known' = known
  <2>1. CASE Interrupt(w)
    BY <2>1, Books DEF Interrupt, GoTo
  <2>2. ASSUME NEW b \in BOOLEAN, DecideInvalid(w, b) PROVE Outcome
    BY <2>2, Books DEF DecideInvalid, GoTo
  <2>3. ASSUME NEW p \in Payloads, Decide(w, Parse(p, RequiredTool(known[w]))) PROVE Outcome
    BY <2>2, <2>3, Books DEF Decide, DecideTool, DecideFinal, GoTo
  <2>4. \/ Interrupt(w) \/ DecideInvalid(w, FALSE)
        \/ \E p \in Payloads : Decide(w, Parse(p, RequiredTool(known[w])))
    BY DEF Plan
  <2>. QED
    BY <2>1, <2>2, <2>3, <2>4
<1>5. Used(w)' = Used(w)
  BY <1>4 DEF Used
<1>6. /\ Used(w) \in 0..MaxToolCalls /\ Allowance(Used(w)) \in Nat
      /\ Allowance(Used(w) + 1) = Allowance(Used(w)) + RepairAttempts + 1
      /\ RepairAttempts \in Nat /\ repair[w] \in Nat /\ modelCalls[w] \in Nat
      /\ DOMAIN modelCalls = Workers
  BY Books
<1>7. modelCalls'[w] = modelCalls[w] + 1 /\ tries'[w] = 0
      /\ \A v \in Workers \ {w} : modelCalls'[v] = modelCalls[v] /\ tries'[v] = tries[v]
  BY <1>1, <1>2, <1>6
<1>8. Balanced(pc'[w], modelCalls'[w], repair'[w], tries'[w], Used(w)')
  BY <1>2, <1>4, <1>5, <1>6, <1>7 DEF Balanced, Outside, Looping, Pending
<1>9. modelCalls'[w] <= Allowance(MaxToolCalls + 2)
  <2>1. modelCalls[w] <= Allowance(Used(w)) + RepairAttempts
    BY <1>2, <1>6
  <2>2. Allowance(Used(w) + 1) \in Nat /\ modelCalls'[w] \in Nat
    BY <1>6, <1>7
  <2>3. modelCalls'[w] <= Allowance(Used(w) + 1) + 0
    BY <1>6, <1>7, <2>1, <2>2
  <2>4. Balanced("resolve", modelCalls'[w], 0, 0, Used(w))
    BY <2>3 DEF Balanced, Outside, Looping, Pending
  <2>5. Account("resolve", modelCalls'[w], 0, 0, Used(w))
    <3>1. 0 \in Nat /\ 0 \in 0..RepairAttempts /\ Used(w) \in 0..MaxToolCalls
      BY <1>6
    <3>2. "resolve" \in Outside \cup Looping \cup Pending \cup {"resolve"}
      OBVIOUS
    <3>3. modelCalls'[w] \in Nat
      BY <2>2
    <3>. QED
      BY <2>4, <3>1, <3>2, <3>3, Total
  <2>. QED
    BY <2>5 DEF Account
<1>. QED
  BY <1>3, <1>4, <1>5, <1>6, <1>7, <1>8, <1>9, OneCounts

LEMMA RestoreCounts ==
  ASSUME TrailInv, TrailInv', CallsInv, NEW w \in Workers, Restore(w)
  PROVE  CallsInv'
<1>1. /\ pc[w] = "load" /\ pc'[w] = "check" /\ known'[w] = steps
      /\ UNCHANGED <<repair, tries, modelCalls, release, answered>>
      /\ \A v \in Workers \ {w} : pc'[v] = pc[v] /\ known'[v] = known[v]
  BY Books DEF Restore, LoadSteps, GoTo
<1>2. Counted'
  BY <1>1 DEF CallsInv, Counted
<1>3. repair[w] = 0 /\ tries[w] = 0 /\ modelCalls[w] = 0
  BY <1>1, Books DEF Balanced, Outside
<1>4. Used(w)' \in 0..MaxToolCalls
  <2>1. Cardinality(ToolSteps(steps)) \in Nat
    BY ToolStepsFinite DEF TrailInv, TypeOK
  <2>. QED
    BY <1>1, <2>1, AgentAssumption DEF Used, TrailInv, WithinBudgets
<1>5. Allowance(Used(w)') \in Nat
  BY <1>4, Allowances
<1>6. Balanced(pc'[w], modelCalls'[w], repair'[w], tries'[w], Used(w)')
  BY <1>1, <1>3, <1>5, AgentAssumption DEF Balanced, Outside, Looping, Pending
<1>. QED
  BY <1>1, <1>2, <1>4, <1>6, OneCounts DEF Looping

LEMMA RunToolCounts ==
  ASSUME TrailInv, TrailInv', CallsInv, NEW w \in Workers, RunTool(w)
  PROVE  CallsInv'
<1>1. /\ pc[w] = "execute"
      /\ UNCHANGED <<known, repair, tries, modelCalls, release, answered>>
      /\ \E l \in {"terminal", "reject_tool", "persist_tool", "fail_transient"} : GoTo(w, l)
  BY DEF RunTool, Refuse, Succeed
<1>2. /\ pc'[w] \in {"terminal", "reject_tool", "persist_tool", "fail_transient"}
      /\ \A v \in Workers \ {w} : pc'[v] = pc[v]
  BY <1>1, Books DEF GoTo
<1>3. Counted' /\ Used(w)' = Used(w)
  BY <1>1 DEF CallsInv, Counted, Used
<1>4. Used(w) \in 0..MaxToolCalls /\ modelCalls[w] <= Allowance(MaxToolCalls + 2)
  BY Books
<1>5. pc'[w] \in Pending =>
        Balanced(pc'[w], modelCalls'[w], repair'[w], tries'[w], Used(w)')
  BY <1>1, <1>3, Books DEF Balanced, Outside, Looping, Pending
<1>6. pc'[w] \in Pending \/ pc'[w] \notin Outside \cup Looping \cup Pending \cup {"resolve"}
  BY <1>2 DEF Outside, Looping, Pending
<1>. QED
  BY <1>1, <1>2, <1>3, <1>4, <1>5, <1>6, OneCounts

LEMMA PersistResultCounts ==
  ASSUME TrailInv, TrailInv', CallsInv, NEW w \in Workers, PersistResult(w)
  PROVE  CallsInv'
<1>. DEFINE record == [kind |-> "tool", call |-> call[w]]
<1>1. /\ pc[w] = "persist_tool" /\ pc'[w] = "check" /\ repair'[w] = 0
      /\ known'[w] = Append(known[w], record)
      /\ UNCHANGED <<tries, modelCalls, release, answered>>
      /\ \A v \in Workers \ {w} : pc'[v] = pc[v] /\ known'[v] = known[v]
                                   /\ repair'[v] = repair[v]
  BY Books DEF PersistResult, PersistToolStep, GoTo
<1>2. Counted'
  BY <1>1 DEF CallsInv, Counted
<1>3. /\ repair[w] <= RepairAttempts /\ tries[w] = 0
      /\ modelCalls[w] <= Allowance(Used(w)) + repair[w] + 1
  BY <1>1, Books DEF Balanced, Pending
<1>4. Used(w) < MaxToolCalls
  BY <1>1 DEF TrailInv, Checked, Used
<1>5. Used(w)' = Used(w) + 1
  <2>1. known[w] \in Seq(Step) /\ record \in Step /\ record.kind = "tool"
    BY DEF Step, TrailInv, TypeOK
  <2>2. /\ ToolSteps(known'[w]) = ToolSteps(known[w]) \cup {Len(known[w]) + 1}
        /\ Len(known[w]) + 1 \notin ToolSteps(known[w])
        /\ IsFiniteSet(ToolSteps(known[w]))
    BY <1>1, <2>1, ToolStepsAppend, ToolStepsFinite
  <2>. QED
    BY <2>2, FS_AddElement DEF Used
<1>6. /\ Used(w) \in 0..MaxToolCalls /\ Allowance(Used(w)) \in Nat
      /\ Allowance(Used(w) + 1) = Allowance(Used(w)) + RepairAttempts + 1
      /\ RepairAttempts \in Nat /\ MaxToolCalls \in Nat
      /\ repair[w] \in Nat /\ modelCalls[w] \in Nat
  BY Books
<1>7. Balanced(pc'[w], modelCalls'[w], repair'[w], tries'[w], Used(w)')
  BY <1>1, <1>3, <1>5, <1>6 DEF Balanced, Outside, Looping, Pending
<1>. QED
  BY <1>1, <1>2, <1>4, <1>5, <1>6, <1>7, OneCounts, SMTT(30) DEF Looping

LEMMA AnswerCounts ==
  ASSUME TrailInv, TrailInv', CallsInv, NEW w \in Workers, Answer(w)
  PROVE  CallsInv'
<1>1. /\ pc[w] = "resolve" /\ UNCHANGED <<known, repair, release>>
      /\ modelCalls' = [modelCalls EXCEPT ![w] = @ + 1]
      /\ answered' \in BOOLEAN
  BY DEF Answer, Called, CallsInv, Counted
<1>2. \/ /\ tries[w] < RepairAttempts /\ tries' = [tries EXCEPT ![w] = @ + 1]
         /\ UNCHANGED pc
      \/ /\ UNCHANGED tries
         /\ \E l \in {"persist_final", "fail_validation", "fail_transient"} : GoTo(w, l)
  BY DEF Answer, RejectAnswer, JudgeAnswer
<1>3. /\ Used(w) \in 0..MaxToolCalls /\ Allowance(Used(w)) \in Nat
      /\ Allowance(Used(w) + 1) = Allowance(Used(w)) + RepairAttempts + 1
      /\ RepairAttempts \in Nat /\ MaxToolCalls \in Nat /\ tries[w] \in 0..RepairAttempts
      /\ modelCalls[w] \in Nat
      /\ DOMAIN modelCalls = Workers /\ DOMAIN tries = Workers /\ DOMAIN pc = Workers
  BY Books
<1>4. modelCalls[w] <= Allowance(Used(w) + 1) + tries[w]
  BY <1>1, Books DEF Balanced
<1>5. /\ modelCalls'[w] = modelCalls[w] + 1 /\ Used(w)' = Used(w)
      /\ \A v \in Workers \ {w} : /\ modelCalls'[v] = modelCalls[v]
                                   /\ tries'[v] = tries[v] /\ pc'[v] = pc[v]
  BY <1>1, <1>2, <1>3 DEF GoTo, Used
<1>6. Counted'
  BY <1>1, <1>2, <1>3 DEF CallsInv, Counted
<1>7. CASE pc' = pc /\ tries[w] < RepairAttempts /\ tries' = [tries EXCEPT ![w] = @ + 1]
  <2>1. Balanced(pc'[w], modelCalls'[w], repair'[w], tries'[w], Used(w)')
    BY <1>1, <1>3, <1>4, <1>5, <1>7 DEF Balanced, Outside, Looping, Pending
  <2>. QED
    BY <1>1, <1>3, <1>5, <1>6, <1>7, <2>1, OneCounts
<1>8. CASE pc'[w] \in {"persist_final", "fail_validation", "fail_transient"}
  <2>1. modelCalls'[w] <= Allowance(MaxToolCalls + 2)
    <3>1. MaxToolCalls + 1 \in Nat /\ Used(w) + 1 <= MaxToolCalls + 1 /\ Used(w) + 1 \in Nat
      BY <1>3
    <3>2. /\ Allowance(Used(w) + 1) <= Allowance(MaxToolCalls + 1)
          /\ Allowance(MaxToolCalls + 1) \in Nat
          /\ Allowance((MaxToolCalls + 1) + 1) = Allowance(MaxToolCalls + 1) + RepairAttempts + 1
      BY <3>1, Allowances
    <3>3. (MaxToolCalls + 1) + 1 = MaxToolCalls + 2
      BY <1>3
    <3>. QED
      BY <1>3, <1>4, <1>5, <3>2, <3>3
  <2>2. pc'[w] \notin Outside \cup Looping \cup Pending \cup {"resolve"}
    BY <1>8 DEF Outside, Looping, Pending
  <2>. QED
    BY <1>1, <1>5, <1>6, <2>1, <2>2, OneCounts
<1>. QED
  BY <1>2, <1>3, <1>7, <1>8 DEF GoTo

LEMMA PersistAnswerCounts ==
  ASSUME TrailInv, TrailInv', CallsInv, NEW w \in Workers, PersistAnswer(w)
  PROVE  CallsInv'
<1>1. /\ pc'[w] = "mark" /\ repair'[w] = 0 /\ known'[w] = <<>>
      /\ tries'[w] = 0 /\ modelCalls'[w] = 0
      /\ \A v \in Workers \ {w} : /\ pc'[v] = pc[v] /\ known'[v] = known[v]
                                   /\ repair'[v] = repair[v] /\ tries'[v] = tries[v]
                                   /\ modelCalls'[v] = modelCalls[v]
  BY Books DEF PersistAnswer, PersistFinal, Forget, Return, GoTo
<1>2. Counted'
  BY AgentAssumption, Books DEF PersistAnswer, Forget, CallsInv, Counted
<1>3. Used(w)' \in 0..MaxToolCalls
  BY <1>1, FS_EmptySet, AgentAssumption DEF Used, ToolSteps
<1>4. Balanced(pc'[w], modelCalls'[w], repair'[w], tries'[w], Used(w)')
  BY <1>1 DEF Balanced, Outside, Looping, Pending
<1>. QED
  BY <1>1, <1>2, <1>3, <1>4, OneCounts DEF Outside

LEMMA CallsStep ==
  ASSUME TrailInv, TrailInv', CallsInv, [EvidenceNext]_allVars
  PROVE  CallsInv'
<1>1. CASE Release \/ Environment \/ UNCHANGED allVars
  <2>1. UNCHANGED <<pc, known, repair, tries, modelCalls, answered>>
        /\ release' \in {release, release + 1} /\ (release' # release => release < MaxReleases)
    BY <1>1 DEF Release, Environment, Expire, OpenReview, SubmitReview, allVars, evidenceVars,
                memoryVars, vars, workVars
  <2>2. Counted'
    BY <2>1, EvidenceAssumption DEF CallsInv, Counted
  <2>. QED
    BY <2>1, <2>2 DEF CallsInv, WithinCalls, Used
<1>. QED
  BY <1>1, OtherCounts, PlanCounts, RestoreCounts, RunToolCounts, PersistResultCounts,
     AnswerCounts, PersistAnswerCounts
  DEF EvidenceNext

LEMMA CallsInvHolds == EvidenceSpec => [](EvidenceInv /\ CallsInv)
<1>1. EvidenceInit => CallsInv
  <2>. SUFFICES ASSUME EvidenceInit PROVE CallsInv
    OBVIOUS
  <2>0. 0 \in 0..MaxReleases /\ 0 \in 0..RepairAttempts
    BY EvidenceAssumption, AgentAssumption
  <2>1. Counted
    BY <2>0 DEF EvidenceInit, Counted
  <2>2. \A w \in Workers : pc[w] = "idle" /\ repair[w] = 0 /\ known[w] = <<>>
                            /\ tries[w] = 0 /\ modelCalls[w] = 0
    BY DEF EvidenceInit, Init
  <2>3. Allowance(MaxToolCalls + 2) \in Nat
    BY Allowances, AgentAssumption
  <2>4. \A w \in Workers : WithinCalls(w)
    BY <2>2, <2>3 DEF WithinCalls, Account, Balanced, Outside, Looping, Pending
  <2>. QED
    BY <2>1, <2>4 DEF CallsInv
<1>2. (EvidenceInv /\ CallsInv) /\ EvidenceInv' /\ [EvidenceNext]_allVars => CallsInv'
  BY CallsStep DEF EvidenceInv
<1>. QED
  BY <1>1, <1>2, EvidenceInvHolds, PTL DEF EvidenceSpec

(* Every variable stays in its domain, and every stored result is the one  *)
(* of a tool step, for any replies, tools and crashes.                     *)
THEOREM EvidenceTypeCorrect == EvidenceSpec => []EvidenceTypeOK
<1>1. EvidenceInv /\ CallsInv => EvidenceTypeOK
  BY DEF EvidenceInv, Fits, TrailFits, MemoryDomains, CallsInv, Counted, EvidenceTypeOK
<1>. QED
  BY <1>1, CallsInvHolds, PTL

(* An attempt asks the model at most as often as the tool budget and the   *)
(* repairs allow, also one that takes over another attempt's steps.        *)
THEOREM ModelCallsBoundedHolds == EvidenceSpec => []ModelCallsBounded
<1>1. EvidenceInv /\ CallsInv => ModelCallsBounded
  BY DEF CallsInv, WithinCalls, Account, Allowance, ModelCallsBounded
<1>. QED
  BY <1>1, CallsInvHolds, PTL
=============================================================================
