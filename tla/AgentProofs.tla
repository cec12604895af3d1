---------------------------- MODULE AgentProofs -----------------------------
(***************************************************************************)
(* Proofs about AgentExecution for any number of workers and reviewers,    *)
(* any calls and budgets, and however often the event is handed to another *)
(* worker while the first one is still busy: the type invariant, and what  *)
(* the audit trail of an execution (agent_steps) guarantees.               *)
(***************************************************************************)
EXTENDS AgentExecution, FiniteSetTheorems, SequenceTheorems, TLAPS

-----------------------------------------------------------------------------
(* The inductive invariant, part by part *)

(* What a worker has in memory is how the audit trail began: it may have   *)
(* been overtaken by another worker, but never diverges.                   *)
KnownIsPrefix ==
    \A w \in Workers :
        /\ Len(known[w]) <= Len(steps)
        /\ \A i \in 1..Len(known[w]) : known[w][i] = steps[i]

InLoop == {"plan", "wait", "execute", "persist_tool", "reject", "reject_tool",
           "resolve", "persist_final"}

(* What the checks of the loop established still holds, for what the       *)
(* worker knows, when it commits the step they were made for.              *)
Checked ==
    \A w \in Workers :
        /\ pc[w] \in InLoop => Len(known[w]) < MaxSteps
        /\ pc[w] \in {"wait", "execute", "persist_tool"} =>
              call[w] \in Calls /\ ~ Repeats(known[w], call[w])
        /\ pc[w] = "persist_tool" =>
              Cardinality(ToolSteps(known[w])) < MaxToolCalls
        /\ pc[w] \in {"resolve", "persist_final"} => Evidence(known[w])

TrailInv ==
    /\ TypeOK
    /\ KnownIsPrefix
    /\ Checked
    /\ CountersExact
    /\ WithinBudgets
    /\ NoRepeatedCall
    /\ FinalIsGrounded

-----------------------------------------------------------------------------
(* Sequences of steps *)

LEMMA ToolStepsFinite ==
  ASSUME NEW s \in Seq(Step)
  PROVE  /\ IsFiniteSet(ToolSteps(s))
         /\ Cardinality(ToolSteps(s)) \in Nat
         /\ \A c : /\ IsFiniteSet(CallSteps(s, c))
                   /\ Cardinality(CallSteps(s, c)) \in Nat
<1>1. DOMAIN s = 1..Len(s) /\ Len(s) \in Nat
  BY LenProperties
<1>2. IsFiniteSet(DOMAIN s)
  BY <1>1, FS_Interval
<1>3. IsFiniteSet(ToolSteps(s))
  BY <1>2, FS_Subset DEF ToolSteps
<1>4. ASSUME NEW c PROVE IsFiniteSet(CallSteps(s, c))
  BY <1>3, FS_Subset DEF CallSteps
<1>. QED
  BY <1>3, <1>4, FS_CardinalityType

LEMMA ToolStepsAppend ==
  ASSUME NEW s \in Seq(Step), NEW r \in Step
  PROVE  /\ r.kind = "tool" => ToolSteps(Append(s, r)) = ToolSteps(s) \cup {Len(s) + 1}
         /\ r.kind # "tool" => ToolSteps(Append(s, r)) = ToolSteps(s)
         /\ Len(s) + 1 \notin ToolSteps(s)
<1>1. /\ DOMAIN s = 1..Len(s) /\ Len(s) \in Nat
      /\ DOMAIN Append(s, r) = 1..(Len(s) + 1)
      /\ \A i \in 1..Len(s) : Append(s, r)[i] = s[i]
      /\ Append(s, r)[Len(s) + 1] = r
  BY LenProperties, AppendProperties
<1>. QED
  BY <1>1 DEF ToolSteps

(* The step number is free only for a worker that knows the whole trail.   *)
LEMMA InsertIsAppend ==
  ASSUME TypeOK, KnownIsPrefix, NEW w \in Workers, NEW r \in Step,
         Free(NextNumber(w)), InsertStep(NextNumber(w), r)
  PROVE  /\ steps' = Append(steps, r)
         /\ known[w] = steps
         /\ NextNumber(w) = Len(steps) + 1
<1>1. /\ steps \in Seq(Step) /\ known[w] \in Seq(Step)
      /\ DOMAIN steps = 1..Len(steps)
      /\ Len(steps) \in Nat /\ Len(known[w]) \in Nat
  BY LenProperties DEF TypeOK
<1>2. Len(known[w]) = Len(steps)
  BY <1>1 DEF Free, NextNumber, KnownIsPrefix
<1>3. known[w] = steps
  BY <1>1, <1>2, SeqEqual DEF KnownIsPrefix
<1>4. steps' = [i \in 1..(Len(steps) + 1) |->
                  IF i = Len(steps) + 1 THEN r ELSE steps[i]]
  BY <1>1, <1>2 DEF InsertStep, NextNumber
<1>5. Append(steps, r) = [i \in 1..(Len(steps) + 1) |->
                            IF i = Len(steps) + 1 THEN r ELSE steps[i]]
  <2>. DEFINE longer == Append(steps, r)
  <2>1. /\ longer \in Seq(Step) /\ Len(longer) = Len(steps) + 1
        /\ \A i \in 1..Len(steps) : longer[i] = steps[i]
        /\ longer[Len(steps) + 1] = r
    BY <1>1, AppendProperties
  <2>. HIDE DEF longer
  <2>2. longer \in [1..(Len(steps) + 1) -> Step]
    BY <2>1, LenProperties
  <2>3. \A i \in 1..(Len(steps) + 1) :
          longer[i] = IF i = Len(steps) + 1 THEN r ELSE steps[i]
    BY <1>1, <2>1
  <2>4. longer = [i \in 1..(Len(steps) + 1) |->
                    IF i = Len(steps) + 1 THEN r ELSE steps[i]]
    BY <2>2, <2>3
  <2>. QED
    BY <2>4 DEF longer
<1>. QED
  BY <1>2, <1>3, <1>4, <1>5 DEF NextNumber

-----------------------------------------------------------------------------
(* Types *)

LEMMA InitTypes == Init => TypeOK
<1>. SUFFICES ASSUME Init PROVE TypeOK
  OBVIOUS
<1>1. steps \in Seq(Step) /\ known \in [Workers -> Seq(Step)]
  BY EmptySeq DEF Init
<1>2. /\ pc \in [Workers -> Pcs]
      /\ retryCount \in 0..ModelRetries
      /\ evictions \in 0..MaxEvictions
      /\ crashes \in 0..MaxCrashes
  BY AgentAssumption DEF Init, Pcs
<1>. QED
  BY <1>1, <1>2 DEF Init, TypeOK

LEMMA TypeStep ==
  ASSUME TypeOK, KnownIsPrefix, [Next]_vars
  PROVE  TypeOK'
<1>. USE AgentAssumption DEF Pcs, InTry, Reviewable, execVars, resVars, doneVars, workVars, faultVars
<1>1. ASSUME NEW w \in Workers, Deliver(w) PROVE TypeOK'
  BY <1>1 DEF Deliver, GoTo, TypeOK
<1>2. ASSUME NEW w \in Workers, ClaimSettled(w) PROVE TypeOK'
  BY <1>2 DEF ClaimSettled, Return, GoTo, TypeOK
<1>3. ASSUME NEW w \in Workers, ClaimRun(w) PROVE TypeOK'
  BY <1>3 DEF ClaimRun, GoTo, TypeOK
<1>4. ASSUME NEW w \in Workers, LoadSteps(w) PROVE TypeOK'
  BY <1>4 DEF LoadSteps, GoTo, TypeOK
<1>5. ASSUME NEW w \in Workers, CheckBudgets(w) PROVE TypeOK'
  BY <1>5 DEF CheckBudgets, GoTo, TypeOK
<1>6. ASSUME NEW w \in Workers, NEW c \in Calls, PlanTool(w, c) PROVE TypeOK'
  BY <1>6 DEF PlanTool, DecideTool, GoTo, TypeOK
<1>7. ASSUME NEW w \in Workers, PlanFinal(w) PROVE TypeOK'
  BY <1>7 DEF PlanFinal, DecideFinal, GoTo, TypeOK
<1>8. ASSUME NEW w \in Workers, PlanInvalid(w) PROVE TypeOK'
  BY <1>8 DEF PlanInvalid, DecideInvalid, GoTo, TypeOK
<1>9. ASSUME NEW w \in Workers, SetWaiting(w) PROVE TypeOK'
  BY <1>9 DEF SetWaiting, GoTo, TypeOK
<1>10. ASSUME NEW w \in Workers, ExecuteTool(w) PROVE TypeOK'
  <2>1. /\ \E l \in {"terminal", "persist_tool", "reject_tool"} : GoTo(w, l)
        /\ UNCHANGED <<execVars, resVars, doneVars, expired, known, repair, call,
                       outcome, review, faultVars>>
    BY <1>10 DEF ExecuteTool
  <2>. QED
    BY <2>1 DEF GoTo, TypeOK
<1>11. ASSUME NEW w \in Workers, PersistToolStep(w) PROVE TypeOK'
  <2>1. [kind |-> "tool", call |-> call[w]] \in Step
    BY DEF Step, TypeOK
  <2>2. /\ steps' = Append(steps, [kind |-> "tool", call |-> call[w]])
        /\ known[w] = steps /\ NextNumber(w) = Len(steps) + 1
    BY <1>11, <2>1, InsertIsAppend DEF PersistToolStep
  <2>3. steps' \in Seq(Step) /\ NextNumber(w) \in Nat
        /\ Append(known[w], [kind |-> "tool", call |-> call[w]]) \in Seq(Step)
    BY <2>1, <2>2, AppendProperties, LenProperties DEF TypeOK
  <2>. QED
    BY <1>11, <2>1, <2>3 DEF TypeOK, PersistToolStep, GoTo
<1>12. ASSUME NEW w \in Workers, PersistRejectedStep(w) PROVE TypeOK'
  <2>1. [kind |-> "rejected", call |-> NoCall] \in Step
    BY DEF Step, TypeOK
  <2>2. /\ steps' = Append(steps, [kind |-> "rejected", call |-> NoCall])
        /\ known[w] = steps /\ NextNumber(w) = Len(steps) + 1
    BY <1>12, <2>1, InsertIsAppend DEF PersistRejectedStep
  <2>3. steps' \in Seq(Step) /\ NextNumber(w) \in Nat
        /\ Append(known[w], [kind |-> "rejected", call |-> NoCall]) \in Seq(Step)
    BY <2>1, <2>2, AppendProperties, LenProperties DEF TypeOK
  <2>. QED
    BY <1>12, <2>1, <2>3 DEF TypeOK, PersistRejectedStep, GoTo
<1>13. ASSUME NEW w \in Workers, Resume(w) PROVE TypeOK'
  BY <1>13 DEF Resume, GoTo, TypeOK
<1>14. ASSUME NEW w \in Workers, GenerateFinal(w) PROVE TypeOK'
  BY <1>14 DEF GenerateFinal, GoTo, TypeOK
<1>15. ASSUME NEW w \in Workers, PersistFinal(w) PROVE TypeOK'
  <2>1. [kind |-> "final", call |-> NoCall] \in Step
    BY DEF Step, TypeOK
  <2>2. /\ steps' = Append(steps, [kind |-> "final", call |-> NoCall])
        /\ known[w] = steps /\ NextNumber(w) = Len(steps) + 1
    BY <1>15, <2>1, InsertIsAppend DEF PersistFinal
  <2>3. steps' \in Seq(Step) /\ NextNumber(w) \in Nat
    BY <2>1, <2>2, AppendProperties, LenProperties DEF TypeOK
  <2>. QED
    BY <1>15, <2>1, <2>3 DEF TypeOK, PersistFinal, GoTo, Return
<1>16. ASSUME NEW w \in Workers, StepConflict(w) PROVE TypeOK'
  BY <1>16 DEF StepConflict, GoTo, TypeOK
<1>17. ASSUME NEW w \in Workers, RecordTransient(w) PROVE TypeOK'
  BY <1>17 DEF RecordTransient, Leave, GoTo, TypeOK
<1>18. ASSUME NEW w \in Workers, RecordValidation(w) PROVE TypeOK'
  <2>1. /\ execStatus' \in {"failed", "retryable"}
        /\ resStatus' \in {"failed", "retryable"}
    BY <1>18 DEF RecordValidation
  <2>2. Return(w, "failed") \/ Leave(w)
    BY <1>18 DEF RecordValidation
  <2>3. UNCHANGED <<retryCount, stepCount, toolCallCount, steps, answer, doneVars,
                    expired, review, faultVars>>
    BY <1>18 DEF RecordValidation
  <2>4. CASE Return(w, "failed")
    BY <2>1, <2>3, <2>4 DEF Return, GoTo, TypeOK
  <2>5. CASE Leave(w)
    BY <2>1, <2>3, <2>5 DEF Leave, GoTo, TypeOK
  <2>. QED
    BY <2>2, <2>4, <2>5
<1>19. ASSUME NEW w \in Workers, ExhaustRetries(w) PROVE TypeOK'
  BY <1>19 DEF ExhaustRetries, GoTo, TypeOK
<1>20. ASSUME NEW w \in Workers, Mark(w) PROVE TypeOK'
  BY <1>20 DEF Mark, GoTo, TypeOK
<1>21. ASSUME NEW w \in Workers, CommitOffset(w) PROVE TypeOK'
  BY <1>21 DEF CommitOffset, Leave, GoTo, TypeOK
<1>22. ASSUME NEW w \in Workers, Interrupt(w) PROVE TypeOK'
  BY <1>22 DEF Interrupt, GoTo, TypeOK
<1>23. ASSUME NEW w \in Workers, LoseCommit(w) PROVE TypeOK'
  BY <1>23 DEF LoseCommit, Leave, GoTo, TypeOK
<1>24. ASSUME NEW w \in Workers, Abandon(w) PROVE TypeOK'
  BY <1>24 DEF Abandon, Leave, GoTo, TypeOK
<1>25. ASSUME NEW w \in Workers, Crash(w) PROVE TypeOK'
  BY <1>25 DEF Crash, Leave, GoTo, TypeOK
<1>26. CASE Expire
  BY <1>26 DEF Expire, TypeOK
<1>27. ASSUME NEW r \in Reviewers, NEW d \in {"approving", "rejecting"},
             OpenReview(r, d)
      PROVE  TypeOK'
  BY <1>27 DEF OpenReview, TypeOK
<1>28. ASSUME NEW r \in Reviewers, SubmitReview(r) PROVE TypeOK'
  BY <1>28 DEF SubmitReview, TypeOK
<1>29. CASE UNCHANGED vars
  BY <1>29 DEF vars, TypeOK
<1>30. ASSUME NEW w \in Workers, ClaimFirst(w) PROVE TypeOK'
  BY <1>30 DEF ClaimFirst, GoTo, TypeOK
<1>31. ASSUME NEW w \in Workers, InsertExecution(w) PROVE TypeOK'
  BY <1>31 DEF InsertExecution, GoTo, TypeOK
<1>32. ASSUME NEW w \in Workers, InsertConflict(w) PROVE TypeOK'
  BY <1>32 DEF InsertConflict, Leave, GoTo, TypeOK
<1>. QED
  BY <1>1, <1>2, <1>3, <1>4, <1>5, <1>6, <1>7, <1>8, <1>9, <1>10, <1>11, <1>12,
     <1>13, <1>14, <1>15, <1>16, <1>17, <1>18, <1>19, <1>20, <1>21, <1>22, <1>23,
     <1>24, <1>25, <1>26, <1>27, <1>28, <1>29, <1>30, <1>31, <1>32
  DEF Next, Run

-----------------------------------------------------------------------------
(* The audit trail *)

TrailGrows ==
    /\ steps' = steps \/ \E r \in Step : steps' = Append(steps, r)
    /\ \A w \in Workers : known'[w] \in {known[w], steps', <<>>}

(* Steps are only ever appended, and a worker's memory is the old one, the *)
(* whole trail, or nothing.                                                *)
LEMMA TrailStep ==
  ASSUME TypeOK, KnownIsPrefix, [Next]_vars
  PROVE  TrailGrows
<1>. USE DEF TrailGrows, execVars, resVars, doneVars, workVars, faultVars
<1>1. ASSUME NEW w \in Workers, Deliver(w) PROVE TrailGrows
  BY <1>1 DEF Deliver, GoTo
<1>2. ASSUME NEW w \in Workers, ClaimSettled(w) PROVE TrailGrows
  BY <1>2 DEF ClaimSettled, Return, GoTo, TypeOK
<1>3. ASSUME NEW w \in Workers, ClaimRun(w) PROVE TrailGrows
  BY <1>3 DEF ClaimRun, GoTo
<1>4. ASSUME NEW w \in Workers, LoadSteps(w) PROVE TrailGrows
  BY <1>4 DEF LoadSteps, GoTo, TypeOK
<1>5. ASSUME NEW w \in Workers, CheckBudgets(w) PROVE TrailGrows
  BY <1>5 DEF CheckBudgets, GoTo
<1>6. ASSUME NEW w \in Workers, NEW c \in Calls, PlanTool(w, c) PROVE TrailGrows
  BY <1>6 DEF PlanTool, DecideTool, GoTo
<1>7. ASSUME NEW w \in Workers, PlanFinal(w) PROVE TrailGrows
  BY <1>7 DEF PlanFinal, DecideFinal, GoTo
<1>8. ASSUME NEW w \in Workers, PlanInvalid(w) PROVE TrailGrows
  BY <1>8 DEF PlanInvalid, DecideInvalid, GoTo
<1>9. ASSUME NEW w \in Workers, SetWaiting(w) PROVE TrailGrows
  BY <1>9 DEF SetWaiting, GoTo
<1>10. ASSUME NEW w \in Workers, ExecuteTool(w) PROVE TrailGrows
  BY <1>10 DEF ExecuteTool, GoTo
<1>11. ASSUME NEW w \in Workers, PersistToolStep(w) PROVE TrailGrows
  <2>1. [kind |-> "tool", call |-> call[w]] \in Step
    BY DEF Step, TypeOK
  <2>2. steps' = Append(steps, [kind |-> "tool", call |-> call[w]]) /\ known[w] = steps
    BY <1>11, <2>1, InsertIsAppend DEF PersistToolStep
  <2>. QED
    BY <1>11, <2>1, <2>2 DEF PersistToolStep, TypeOK
<1>12. ASSUME NEW w \in Workers, PersistRejectedStep(w) PROVE TrailGrows
  <2>1. [kind |-> "rejected", call |-> NoCall] \in Step
    BY DEF Step, TypeOK
  <2>2. steps' = Append(steps, [kind |-> "rejected", call |-> NoCall]) /\ known[w] = steps
    BY <1>12, <2>1, InsertIsAppend DEF PersistRejectedStep
  <2>. QED
    BY <1>12, <2>1, <2>2 DEF PersistRejectedStep, TypeOK
<1>13. ASSUME NEW w \in Workers, Resume(w) PROVE TrailGrows
  BY <1>13 DEF Resume, GoTo
<1>14. ASSUME NEW w \in Workers, GenerateFinal(w) PROVE TrailGrows
  BY <1>14 DEF GenerateFinal, GoTo
<1>15. ASSUME NEW w \in Workers, PersistFinal(w) PROVE TrailGrows
  <2>1. [kind |-> "final", call |-> NoCall] \in Step
    BY DEF Step, TypeOK
  <2>2. steps' = Append(steps, [kind |-> "final", call |-> NoCall]) /\ known[w] = steps
    BY <1>15, <2>1, InsertIsAppend DEF PersistFinal
  <2>. QED
    BY <1>15, <2>1, <2>2 DEF PersistFinal, Return, TypeOK
<1>16. ASSUME NEW w \in Workers, StepConflict(w) PROVE TrailGrows
  BY <1>16 DEF StepConflict, GoTo
<1>17. ASSUME NEW w \in Workers, RecordTransient(w) PROVE TrailGrows
  BY <1>17 DEF RecordTransient, Leave, GoTo, TypeOK
<1>18. ASSUME NEW w \in Workers, RecordValidation(w) PROVE TrailGrows
  BY <1>18 DEF RecordValidation, Return, Leave, GoTo, TypeOK
<1>19. ASSUME NEW w \in Workers, ExhaustRetries(w) PROVE TrailGrows
  BY <1>19 DEF ExhaustRetries, GoTo
<1>20. ASSUME NEW w \in Workers, Mark(w) PROVE TrailGrows
  BY <1>20 DEF Mark, GoTo
<1>21. ASSUME NEW w \in Workers, CommitOffset(w) PROVE TrailGrows
  BY <1>21 DEF CommitOffset, Leave, GoTo, TypeOK
<1>22. ASSUME NEW w \in Workers, Interrupt(w) PROVE TrailGrows
  BY <1>22 DEF Interrupt, GoTo
<1>23. ASSUME NEW w \in Workers, LoseCommit(w) PROVE TrailGrows
  BY <1>23 DEF LoseCommit, Leave, GoTo, TypeOK
<1>24. ASSUME NEW w \in Workers, Abandon(w) PROVE TrailGrows
  BY <1>24 DEF Abandon, Leave, GoTo, TypeOK
<1>25. ASSUME NEW w \in Workers, Crash(w) PROVE TrailGrows
  BY <1>25 DEF Crash, Leave, GoTo, TypeOK
<1>26. CASE Expire
  BY <1>26 DEF Expire
<1>27. ASSUME NEW r \in Reviewers, NEW d \in {"approving", "rejecting"},
             OpenReview(r, d)
      PROVE  TrailGrows
  BY <1>27 DEF OpenReview
<1>28. ASSUME NEW r \in Reviewers, SubmitReview(r) PROVE TrailGrows
  BY <1>28 DEF SubmitReview
<1>29. CASE UNCHANGED vars
  BY <1>29 DEF vars
<1>30. ASSUME NEW w \in Workers, ClaimFirst(w) PROVE TrailGrows
  BY <1>30 DEF ClaimFirst, GoTo
<1>31. ASSUME NEW w \in Workers, InsertExecution(w) PROVE TrailGrows
  BY <1>31 DEF InsertExecution, GoTo
<1>32. ASSUME NEW w \in Workers, InsertConflict(w) PROVE TrailGrows
  BY <1>32 DEF InsertConflict, Leave, GoTo, TypeOK
<1>. QED
  BY <1>1, <1>2, <1>3, <1>4, <1>5, <1>6, <1>7, <1>8, <1>9, <1>10, <1>11, <1>12,
     <1>13, <1>14, <1>15, <1>16, <1>17, <1>18, <1>19, <1>20, <1>21, <1>22, <1>23,
     <1>24, <1>25, <1>26, <1>27, <1>28, <1>29, <1>30, <1>31, <1>32
  DEF Next, Run

LEMMA PrefixStep ==
  ASSUME TypeOK, KnownIsPrefix, TrailGrows
  PROVE  KnownIsPrefix'
<1>. SUFFICES ASSUME NEW w \in Workers
              PROVE  /\ Len(known'[w]) <= Len(steps')
                     /\ \A i \in 1..Len(known'[w]) : known'[w][i] = steps'[i]
  BY DEF KnownIsPrefix
<1>1. /\ steps \in Seq(Step) /\ known[w] \in Seq(Step)
      /\ Len(steps) \in Nat /\ Len(known[w]) \in Nat
  BY LenProperties DEF TypeOK
<1>2. /\ steps' \in Seq(Step)
      /\ Len(steps) <= Len(steps')
      /\ \A i \in 1..Len(steps) : steps'[i] = steps[i]
  <2>1. CASE steps' = steps
    BY <1>1, <2>1
  <2>2. ASSUME NEW r \in Step, steps' = Append(steps, r)
        PROVE  /\ steps' \in Seq(Step)
               /\ Len(steps) <= Len(steps')
               /\ \A i \in 1..Len(steps) : steps'[i] = steps[i]
    BY <1>1, <2>2, AppendProperties
  <2>. QED
    BY <2>1, <2>2 DEF TrailGrows
<1>3. CASE known'[w] = known[w]
  BY <1>1, <1>2, <1>3 DEF KnownIsPrefix
<1>4. CASE known'[w] = steps'
  BY <1>2, <1>4, LenProperties
<1>5. CASE known'[w] = <<>>
  BY <1>1, <1>2, <1>5, LenProperties
<1>. QED
  BY <1>3, <1>4, <1>5 DEF TrailGrows

-----------------------------------------------------------------------------
(* What the loop checked *)

LEMMA CheckedStep ==
  ASSUME TypeOK, Checked, [Next]_vars
  PROVE  Checked'
<1>0. /\ \A w \in Workers : Len(known[w]) \in Nat
      /\ \A w \in Workers : Cardinality(ToolSteps(known[w])) \in Nat
  BY LenProperties, ToolStepsFinite DEF TypeOK
<1>. USE <1>0, AgentAssumption DEF TypeOK, Checked, InLoop, execVars, resVars, doneVars, workVars, faultVars
<1>1. ASSUME NEW w \in Workers, Deliver(w) PROVE Checked'
  BY <1>1 DEF Deliver, GoTo
<1>2. ASSUME NEW w \in Workers, ClaimSettled(w) PROVE Checked'
  BY <1>2 DEF ClaimSettled, Return, GoTo
<1>3. ASSUME NEW w \in Workers, ClaimRun(w) PROVE Checked'
  BY <1>3 DEF ClaimRun, GoTo
<1>4. ASSUME NEW w \in Workers, LoadSteps(w) PROVE Checked'
  BY <1>4 DEF LoadSteps, GoTo
<1>5. ASSUME NEW w \in Workers, CheckBudgets(w) PROVE Checked'
  BY <1>5 DEF CheckBudgets, GoTo, BudgetExceeded
<1>6. ASSUME NEW w \in Workers, NEW c \in Calls, PlanTool(w, c) PROVE Checked'
  BY <1>6 DEF PlanTool, DecideTool, GoTo
<1>7. ASSUME NEW w \in Workers, PlanFinal(w) PROVE Checked'
  BY <1>7 DEF PlanFinal, DecideFinal, GoTo
<1>8. ASSUME NEW w \in Workers, PlanInvalid(w) PROVE Checked'
  BY <1>8 DEF PlanInvalid, DecideInvalid, GoTo
<1>9. ASSUME NEW w \in Workers, SetWaiting(w) PROVE Checked'
  BY <1>9 DEF SetWaiting, GoTo
<1>10. ASSUME NEW w \in Workers, ExecuteTool(w) PROVE Checked'
  BY <1>10 DEF ExecuteTool, GoTo
<1>11. ASSUME NEW w \in Workers, PersistToolStep(w) PROVE Checked'
  BY <1>11 DEF PersistToolStep, GoTo
<1>12. ASSUME NEW w \in Workers, PersistRejectedStep(w) PROVE Checked'
  BY <1>12 DEF PersistRejectedStep, GoTo
<1>13. ASSUME NEW w \in Workers, Resume(w) PROVE Checked'
  BY <1>13 DEF Resume, GoTo
<1>14. ASSUME NEW w \in Workers, GenerateFinal(w) PROVE Checked'
  BY <1>14 DEF GenerateFinal, GoTo
<1>15. ASSUME NEW w \in Workers, PersistFinal(w) PROVE Checked'
  BY <1>15 DEF PersistFinal, Return, GoTo
<1>16. ASSUME NEW w \in Workers, StepConflict(w) PROVE Checked'
  BY <1>16 DEF StepConflict, GoTo
<1>17. ASSUME NEW w \in Workers, RecordTransient(w) PROVE Checked'
  BY <1>17 DEF RecordTransient, Leave, GoTo
<1>18. ASSUME NEW w \in Workers, RecordValidation(w) PROVE Checked'
  BY <1>18, SMTT(30) DEF RecordValidation, Return, Leave, GoTo
<1>19. ASSUME NEW w \in Workers, ExhaustRetries(w) PROVE Checked'
  BY <1>19 DEF ExhaustRetries, GoTo
<1>20. ASSUME NEW w \in Workers, Mark(w) PROVE Checked'
  BY <1>20 DEF Mark, GoTo
<1>21. ASSUME NEW w \in Workers, CommitOffset(w) PROVE Checked'
  BY <1>21 DEF CommitOffset, Leave, GoTo
<1>22. ASSUME NEW w \in Workers, Interrupt(w) PROVE Checked'
  BY <1>22 DEF Interrupt, GoTo
<1>23. ASSUME NEW w \in Workers, LoseCommit(w) PROVE Checked'
  BY <1>23 DEF LoseCommit, Leave, GoTo
<1>24. ASSUME NEW w \in Workers, Abandon(w) PROVE Checked'
  BY <1>24 DEF Abandon, Leave, GoTo
<1>25. ASSUME NEW w \in Workers, Crash(w) PROVE Checked'
  BY <1>25 DEF Crash, Leave, GoTo
<1>26. CASE Expire
  BY <1>26 DEF Expire
<1>27. ASSUME NEW r \in Reviewers, NEW d \in {"approving", "rejecting"},
             OpenReview(r, d)
      PROVE  Checked'
  BY <1>27 DEF OpenReview
<1>28. ASSUME NEW r \in Reviewers, SubmitReview(r) PROVE Checked'
  BY <1>28 DEF SubmitReview
<1>29. CASE UNCHANGED vars
  BY <1>29 DEF vars
<1>30. ASSUME NEW w \in Workers, ClaimFirst(w) PROVE Checked'
  BY <1>30 DEF ClaimFirst, GoTo
<1>31. ASSUME NEW w \in Workers, InsertExecution(w) PROVE Checked'
  BY <1>31 DEF InsertExecution, GoTo
<1>32. ASSUME NEW w \in Workers, InsertConflict(w) PROVE Checked'
  BY <1>32 DEF InsertConflict, Leave, GoTo
<1>. QED
  BY <1>1, <1>2, <1>3, <1>4, <1>5, <1>6, <1>7, <1>8, <1>9, <1>10, <1>11, <1>12,
     <1>13, <1>14, <1>15, <1>16, <1>17, <1>18, <1>19, <1>20, <1>21, <1>22, <1>23,
     <1>24, <1>25, <1>26, <1>27, <1>28, <1>29, <1>30, <1>31, <1>32
  DEF Next, Run

-----------------------------------------------------------------------------
(* What the trail guarantees *)

(* How a step changes the trail and its counters: not at all, or by one    *)
(* record of a worker that knows the whole trail.                          *)
AddsTool(w) ==
    /\ pc[w] = "persist_tool"
    /\ known[w] = steps
    /\ steps' = Append(steps, [kind |-> "tool", call |-> call[w]])
    /\ stepCount' = Len(steps) + 1
    /\ toolCallCount' = toolCallCount + 1

AddsRejected(w) ==
    /\ pc[w] \in {"reject", "reject_tool"}
    /\ known[w] = steps
    /\ steps' = Append(steps, [kind |-> "rejected", call |-> NoCall])
    /\ stepCount' = Len(steps) + 1
    /\ toolCallCount' = toolCallCount

AddsFinal(w) ==
    /\ pc[w] = "persist_final"
    /\ known[w] = steps
    /\ steps' = Append(steps, [kind |-> "final", call |-> NoCall])
    /\ stepCount' = Len(steps) + 1
    /\ toolCallCount' = toolCallCount

LEMMA TrailCases ==
  ASSUME TypeOK, KnownIsPrefix, [Next]_vars
  PROVE  \/ UNCHANGED <<steps, stepCount, toolCallCount>>
         \/ \E w \in Workers : AddsTool(w) \/ AddsRejected(w) \/ AddsFinal(w)
<1>1. ASSUME NEW w \in Workers, PersistToolStep(w) PROVE AddsTool(w)
  <2>1. [kind |-> "tool", call |-> call[w]] \in Step
    BY DEF Step, TypeOK
  <2>. QED
    BY <1>1, <2>1, InsertIsAppend DEF PersistToolStep, AddsTool
<1>2. ASSUME NEW w \in Workers, PersistRejectedStep(w) PROVE AddsRejected(w)
  <2>1. [kind |-> "rejected", call |-> NoCall] \in Step
    BY DEF Step
  <2>. QED
    BY <1>2, <2>1, InsertIsAppend DEF PersistRejectedStep, AddsRejected
<1>3. ASSUME NEW w \in Workers, PersistFinal(w) PROVE AddsFinal(w)
  <2>1. [kind |-> "final", call |-> NoCall] \in Step
    BY DEF Step
  <2>. QED
    BY <1>3, <2>1, InsertIsAppend DEF PersistFinal, AddsFinal
<1>4. CASE UNCHANGED <<steps, stepCount, toolCallCount>>
  BY <1>4
<1>. QED
  BY <1>1, <1>2, <1>3, <1>4
  DEF Next, Run, vars, execVars, Deliver, ClaimSettled, ClaimFirst,
      InsertExecution, InsertConflict, Leave, ClaimRun, LoadSteps,
      CheckBudgets, PlanTool, DecideTool, PlanFinal, DecideFinal, PlanInvalid,
      DecideInvalid, SetWaiting, ExecuteTool,
      Resume, GenerateFinal, StepConflict, RecordTransient, RecordValidation,
      ExhaustRetries, Mark, CommitOffset, Interrupt, LoseCommit, Abandon,
      Crash, Expire, OpenReview, SubmitReview

LEMMA AddOne ==
  ASSUME NEW S, IsFiniteSet(S), NEW x, x \notin S
  PROVE  Cardinality(S \cup {x}) = Cardinality(S) + 1
BY FS_AddElement

(* Appending a record, seen by the sets the guarantees count.              *)
LEMMA TrailFacts ==
  ASSUME NEW s \in Seq(Step), NEW r \in Step
  PROVE  LET t == Append(s, r) IN
         /\ Len(s) \in Nat /\ Len(t) = Len(s) + 1
         /\ DOMAIN s = 1..Len(s) /\ DOMAIN t = 1..Len(t)
         /\ \A i \in 1..Len(s) : t[i] = s[i]
         /\ t[Len(s) + 1] = r
         /\ Cardinality(ToolSteps(s)) \in Nat
         /\ ToolSteps(t) = ToolSteps(s) \cup
                (IF r.kind = "tool" THEN {Len(s) + 1} ELSE {})
         /\ Cardinality(ToolSteps(t)) = Cardinality(ToolSteps(s)) +
                (IF r.kind = "tool" THEN 1 ELSE 0)
         /\ \A c \in Calls :
               /\ Cardinality(CallSteps(s, c)) \in Nat
               /\ Cardinality(CallSteps(t, c)) = Cardinality(CallSteps(s, c)) +
                     (IF r.kind = "tool" /\ r.call = c THEN 1 ELSE 0)
<1>. DEFINE t == Append(s, r)
<1>1. /\ Len(s) \in Nat /\ Len(t) = Len(s) + 1
      /\ t \in Seq(Step)
      /\ \A i \in 1..Len(s) : t[i] = s[i]
      /\ t[Len(s) + 1] = r
  BY AppendProperties, LenProperties
<1>2. ToolSteps(t) = ToolSteps(s) \cup (IF r.kind = "tool" THEN {Len(s) + 1} ELSE {})
  BY ToolStepsAppend
<1>3. Len(s) + 1 \notin ToolSteps(s)
  BY ToolStepsAppend
<1>. HIDE DEF t
<1>4. DOMAIN s = 1..Len(s) /\ DOMAIN t = 1..Len(t)
  BY <1>1, LenProperties
<1>5. /\ IsFiniteSet(ToolSteps(s)) /\ Cardinality(ToolSteps(s)) \in Nat
      /\ \A c : IsFiniteSet(CallSteps(s, c)) /\ Cardinality(CallSteps(s, c)) \in Nat
  BY ToolStepsFinite
<1>6. Cardinality(ToolSteps(t)) = Cardinality(ToolSteps(s)) +
         (IF r.kind = "tool" THEN 1 ELSE 0)
  <2>1. CASE r.kind = "tool"
    BY <1>2, <1>3, <1>5, <2>1, AddOne
  <2>2. CASE r.kind # "tool"
    BY <1>2, <1>5, <2>2
  <2>. QED
    BY <2>1, <2>2
<1>7. ASSUME NEW c \in Calls
      PROVE  Cardinality(CallSteps(t, c)) = Cardinality(CallSteps(s, c)) +
                (IF r.kind = "tool" /\ r.call = c THEN 1 ELSE 0)
  <2>1. CallSteps(t, c) = CallSteps(s, c) \cup
           (IF r.kind = "tool" /\ r.call = c THEN {Len(s) + 1} ELSE {})
    BY <1>1, <1>2, <1>3, <1>4 DEF CallSteps, ToolSteps
  <2>2. Len(s) + 1 \notin CallSteps(s, c)
    BY <1>3 DEF CallSteps
  <2>3. CASE r.kind = "tool" /\ r.call = c
    BY <1>5, <2>1, <2>2, <2>3, AddOne
  <2>4. CASE ~ (r.kind = "tool" /\ r.call = c)
    <3>1. CallSteps(t, c) = CallSteps(s, c)
      BY <2>1, <2>4
    <3>2. Cardinality(CallSteps(s, c)) \in Nat
      BY <1>5
    <3>. QED
      BY <2>4, <3>1, <3>2
  <2>. QED
    BY <2>3, <2>4
<1>. QED
  BY <1>1, <1>2, <1>4, <1>5, <1>6, <1>7 DEF t

Guarantees == CountersExact /\ WithinBudgets /\ NoRepeatedCall /\ FinalIsGrounded

LEMMA ToolKeepsGuarantees ==
  ASSUME TypeOK, Checked, Guarantees, NEW w \in Workers, AddsTool(w)
  PROVE  Guarantees'
<1>. DEFINE record == [kind |-> "tool", call |-> call[w]]
<1>1. record \in Step /\ steps \in Seq(Step) /\ steps' = Append(steps, record)
  BY DEF Step, TypeOK, AddsTool
<1>2. record.kind = "tool" /\ record.call = call[w]
  OBVIOUS
<1>. HIDE DEF record
<1>3. /\ Len(steps) \in Nat /\ Len(steps') = Len(steps) + 1
      /\ DOMAIN steps = 1..Len(steps) /\ DOMAIN steps' = 1..Len(steps')
      /\ \A i \in 1..Len(steps) : steps'[i] = steps[i]
      /\ steps'[Len(steps) + 1] = record
      /\ Cardinality(ToolSteps(steps)) \in Nat
      /\ ToolSteps(steps') = ToolSteps(steps) \cup {Len(steps) + 1}
      /\ Cardinality(ToolSteps(steps')) = Cardinality(ToolSteps(steps)) + 1
      /\ \A c \in Calls :
            /\ Cardinality(CallSteps(steps, c)) \in Nat
            /\ Cardinality(CallSteps(steps', c)) = Cardinality(CallSteps(steps, c))
                  + (IF call[w] = c THEN 1 ELSE 0)
  BY <1>1, <1>2, TrailFacts
<1>4. /\ Len(steps) < MaxSteps
      /\ Cardinality(ToolSteps(steps)) < MaxToolCalls
      /\ call[w] \in Calls /\ ~ Repeats(steps, call[w])
  BY DEF Checked, AddsTool, InLoop
<1>5. CountersExact'
  BY <1>3 DEF Guarantees, CountersExact, AddsTool
<1>6. WithinBudgets'
  BY <1>3, <1>4, AgentAssumption DEF WithinBudgets
<1>7. NoRepeatedCall'
  <2>1. \A c \in Calls : Cardinality(CallSteps(steps', c)) <= MaxRepeated
    BY <1>3, <1>4, AgentAssumption DEF Guarantees, NoRepeatedCall, Repeats
  <2>2. call[w] \in RetrievalCalls =>
           \A i \in ToolSteps(steps) : steps[i].call \notin RetrievalCalls
    BY <1>4 DEF Repeats, HasRetrieval, Succeeded
  <2>3. ToolSteps(steps) \subseteq 1..Len(steps)
    BY <1>3 DEF ToolSteps
  <2>4. ASSUME NEW i \in ToolSteps(steps'), NEW j \in ToolSteps(steps'),
               steps'[i].call \in RetrievalCalls, steps'[j].call \in RetrievalCalls
        PROVE  i = j
    BY <1>2, <1>3, <2>2, <2>3, <2>4 DEF Guarantees, NoRepeatedCall
  <2>. QED
    BY <2>1, <2>4 DEF NoRepeatedCall
<1>8. FinalIsGrounded'
  <2>. SUFFICES ASSUME NEW i \in DOMAIN steps', steps'[i].kind = "final"
                PROVE  /\ \E j \in ToolSteps(steps') :
                             j < i /\ steps'[j].call \in IncidentCalls
                       /\ \E j \in ToolSteps(steps') :
                             j < i /\ steps'[j].call \in RetrievalCalls
    BY DEF FinalIsGrounded
  <2>1. i \in DOMAIN steps /\ steps[i].kind = "final"
    BY <1>2, <1>3
  <2>2. \A j \in ToolSteps(steps) : j \in ToolSteps(steps') /\ steps'[j] = steps[j]
    BY <1>3 DEF ToolSteps
  <2>. QED
    BY <2>1, <2>2 DEF Guarantees, FinalIsGrounded
<1>. QED
  BY <1>5, <1>6, <1>7, <1>8 DEF Guarantees

LEMMA OtherKeepsGuarantees ==
  ASSUME TypeOK, Checked, Guarantees, NEW w \in Workers,
         AddsRejected(w) \/ AddsFinal(w)
  PROVE  Guarantees'
<1>1. PICK record \in Step :
        /\ steps' = Append(steps, record)
        /\ record.kind # "tool"
        /\ record.kind = "final" => Evidence(steps)
  <2>1. CASE AddsRejected(w)
    <3>1. [kind |-> "rejected", call |-> NoCall] \in Step
      BY DEF Step
    <3>. QED
      BY <2>1, <3>1 DEF AddsRejected
  <2>2. CASE AddsFinal(w)
    <3>1. [kind |-> "final", call |-> NoCall] \in Step
      BY DEF Step
    <3>2. Evidence(steps)
      BY <2>2 DEF AddsFinal, Checked
    <3>. QED
      BY <2>2, <3>1, <3>2 DEF AddsFinal
  <2>. QED
    BY <2>1, <2>2
<1>2. /\ Len(steps) \in Nat /\ Len(steps') = Len(steps) + 1
      /\ DOMAIN steps = 1..Len(steps) /\ DOMAIN steps' = 1..Len(steps')
      /\ \A i \in 1..Len(steps) : steps'[i] = steps[i]
      /\ steps'[Len(steps) + 1] = record
      /\ ToolSteps(steps') = ToolSteps(steps)
      /\ \A c \in Calls :
            Cardinality(CallSteps(steps', c)) = Cardinality(CallSteps(steps, c))
  <2>1. steps \in Seq(Step)
    BY DEF TypeOK
  <2>2. ASSUME NEW c \in Calls
        PROVE  Cardinality(CallSteps(steps', c)) = Cardinality(CallSteps(steps, c))
    <3>1. /\ Cardinality(CallSteps(steps, c)) \in Nat
          /\ Cardinality(CallSteps(Append(steps, record), c)) =
                Cardinality(CallSteps(steps, c)) +
                (IF record.kind = "tool" /\ record.call = c THEN 1 ELSE 0)
      BY <2>1, TrailFacts
    <3>. QED
      BY <1>1, <3>1
  <2>3. ToolSteps(steps') = ToolSteps(steps)
    BY <1>1, <2>1, ToolStepsAppend
  <2>4. /\ Len(steps) \in Nat /\ Len(steps') = Len(steps) + 1
        /\ DOMAIN steps = 1..Len(steps) /\ DOMAIN steps' = 1..Len(steps')
        /\ \A i \in 1..Len(steps) : steps'[i] = steps[i]
        /\ steps'[Len(steps) + 1] = record
    BY <1>1, <2>1, TrailFacts
  <2>. QED
    BY <2>2, <2>3, <2>4
<1>3. Len(steps) < MaxSteps
  BY DEF Checked, AddsRejected, AddsFinal, InLoop
<1>4. CountersExact'
  BY <1>2 DEF Guarantees, CountersExact, AddsRejected, AddsFinal
<1>5. WithinBudgets'
  BY <1>2, <1>3, AgentAssumption DEF Guarantees, WithinBudgets
<1>6. \A j \in ToolSteps(steps) : j \in 1..Len(steps) /\ steps'[j] = steps[j]
  BY <1>2 DEF ToolSteps
<1>7. NoRepeatedCall'
  BY <1>2, <1>6 DEF Guarantees, NoRepeatedCall
<1>8. FinalIsGrounded'
  <2>. SUFFICES ASSUME NEW i \in DOMAIN steps', steps'[i].kind = "final"
                PROVE  /\ \E j \in ToolSteps(steps') :
                             j < i /\ steps'[j].call \in IncidentCalls
                       /\ \E j \in ToolSteps(steps') :
                             j < i /\ steps'[j].call \in RetrievalCalls
    BY DEF FinalIsGrounded
  <2>1. CASE i \in 1..Len(steps)
    BY <1>2, <1>6, <2>1 DEF Guarantees, FinalIsGrounded
  <2>2. CASE i = Len(steps) + 1
    <3>1. Evidence(steps)
      BY <1>1, <1>2, <2>2
    <3>2. /\ \E j \in ToolSteps(steps) : steps[j].call \in IncidentCalls
          /\ \E j \in ToolSteps(steps) : steps[j].call \in RetrievalCalls
      BY <3>1 DEF Evidence, HasIncident, HasRetrieval, Succeeded
    <3>. QED
      BY <1>2, <1>6, <2>2, <3>2
  <2>. QED
    BY <1>2, <2>1, <2>2
<1>. QED
  BY <1>4, <1>5, <1>7, <1>8 DEF Guarantees

LEMMA GuaranteesStep ==
  ASSUME TypeOK, KnownIsPrefix, Checked, Guarantees, [Next]_vars
  PROVE  Guarantees'
<1>1. CASE UNCHANGED <<steps, stepCount, toolCallCount>>
  BY <1>1 DEF Guarantees, CountersExact, WithinBudgets, NoRepeatedCall,
              FinalIsGrounded, ToolSteps, CallSteps
<1>. QED
  BY <1>1, TrailCases, ToolKeepsGuarantees, OtherKeepsGuarantees

-----------------------------------------------------------------------------
(* The theorems *)

LEMMA InitTrailInv == Init => TrailInv
<1>. SUFFICES ASSUME Init PROVE TrailInv
  OBVIOUS
<1>1. Len(steps) = 0 /\ DOMAIN steps = {}
  BY EmptySeq DEF Init
<1>2. ToolSteps(steps) = {} /\ \A c : CallSteps(steps, c) = {}
  BY <1>1 DEF ToolSteps, CallSteps
<1>3. /\ Cardinality(ToolSteps(steps)) = 0
      /\ \A c : Cardinality(CallSteps(steps, c)) = 0
  BY <1>2, FS_EmptySet
<1>4. CountersExact
  BY <1>1, <1>3 DEF Init, CountersExact
<1>5. WithinBudgets
  BY <1>1, <1>3, AgentAssumption DEF WithinBudgets
<1>6. NoRepeatedCall
  BY <1>2, <1>3, AgentAssumption DEF NoRepeatedCall
<1>7. FinalIsGrounded
  BY <1>1 DEF FinalIsGrounded
<1>8. KnownIsPrefix /\ Checked
  BY <1>1 DEF Init, KnownIsPrefix, Checked, InLoop
<1>. QED
  BY <1>4, <1>5, <1>6, <1>7, <1>8, InitTypes DEF TrailInv

LEMMA TrailInvStep == TrailInv /\ [Next]_vars => TrailInv'
  BY TypeStep, TrailStep, PrefixStep, CheckedStep, GuaranteesStep
  DEF TrailInv, Guarantees

LEMMA TrailInvHolds == Spec => []TrailInv
  BY InitTrailInv, TrailInvStep, PTL DEF Spec

(* Every variable stays in its domain; the steps of an execution are       *)
(* numbered without a gap although workers number them from their memory.  *)
THEOREM TypeCorrect == Spec => []TypeOK
<1>1. TrailInv => TypeOK
  BY DEF TrailInv
<1>. QED
  BY <1>1, TrailInvHolds, PTL

(* step_count and tool_call_count agree with the audit trail.              *)
THEOREM CountersExactHolds == Spec => []CountersExact
<1>1. TrailInv => CountersExact
  BY DEF TrailInv
<1>. QED
  BY <1>1, TrailInvHolds, PTL

(* The step and tool budgets hold over all retries, restarts and workers.  *)
THEOREM WithinBudgetsHolds == Spec => []WithinBudgets
<1>1. TrailInv => WithinBudgets
  BY DEF TrailInv
<1>. QED
  BY <1>1, TrailInvHolds, PTL

(* The loop guardrail holds for the execution, not only for one worker.    *)
THEOREM NoRepeatedCallHolds == Spec => []NoRepeatedCall
<1>1. TrailInv => NoRepeatedCall
  BY DEF TrailInv
<1>. QED
  BY <1>1, TrailInvHolds, PTL

(* Every final answer follows a successful incident lookup and a           *)
(* successful runbook search.                                              *)
THEOREM FinalIsGroundedHolds == Spec => []FinalIsGrounded
<1>1. TrailInv => FinalIsGrounded
  BY DEF TrailInv
<1>. QED
  BY <1>1, TrailInvHolds, PTL

(* The audit trail is append-only: no retry, restart or second worker      *)
(* changes or removes a step that is stored.                               *)
THEOREM TrailIsAppendOnly ==
  Spec => [][steps' = steps \/ \E r \in Step : steps' = Append(steps, r)]_vars
<1>1. TrailInv /\ [Next]_vars
        => [steps' = steps \/ \E r \in Step : steps' = Append(steps, r)]_vars
  BY TrailStep DEF TrailInv, TrailGrows
<1>. QED
  BY <1>1, TrailInvHolds, PTL DEF Spec

-----------------------------------------------------------------------------
(* What is left of the promises if several workers run the execution       *)

(* The resolution holds the last final step of the trail. *)
LatestAnswer ==
    /\ answer \in 0..Len(steps)
    /\ answer # 0 => steps[answer].kind = "final"
    /\ \A i \in 1..Len(steps) : steps[i].kind = "final" => i <= answer

(* Nothing is called answered without an answer, and no offset is passed   *)
(* over without a marker.                                                  *)
Durable ==
    /\ execStatus \in Reviewable \/ resStatus = "completed" \/ processedAs = "completed"
          => answer # 0
    /\ committed => processedAs # "none"

(* What is under way towards it *)
UnderWay ==
    /\ \A w \in Workers : pc[w] = "mark" =>
          outcome[w] # "none" /\ (outcome[w] = "completed" => answer # 0)
    /\ \A w \in Workers : pc[w] = "commit" => processedAs # "none"
    /\ \A r \in Reviewers : review[r] \in {"approving", "rejecting"} => answer # 0

DurableInv == Durable /\ UnderWay

(* An answer comes with its final step, and nothing else writes either. *)
LEMMA AnswerMoves ==
  ASSUME TypeOK, KnownIsPrefix, [Next]_vars
  PROVE  \/ UNCHANGED <<answer, steps>>
         \/ \E r \in Step : /\ r.kind # "final" /\ steps' = Append(steps, r)
                            /\ UNCHANGED answer
         \/ \E r \in Step : /\ r.kind = "final" /\ steps' = Append(steps, r)
                            /\ answer' = Len(steps) + 1
<1>. DEFINE Moves ==
        \/ UNCHANGED <<answer, steps>>
        \/ \E r \in Step : r.kind # "final" /\ steps' = Append(steps, r) /\ UNCHANGED answer
        \/ \E r \in Step : /\ r.kind = "final" /\ steps' = Append(steps, r)
                           /\ answer' = Len(steps) + 1
<1>1. ASSUME NEW w \in Workers, PersistToolStep(w) PROVE Moves
  <2>1. [kind |-> "tool", call |-> call[w]] \in Step
    BY DEF Step, TypeOK
  <2>2. steps' = Append(steps, [kind |-> "tool", call |-> call[w]])
    BY <1>1, <2>1, InsertIsAppend DEF PersistToolStep
  <2>. QED
    BY <1>1, <2>1, <2>2 DEF PersistToolStep, resVars
<1>2. ASSUME NEW w \in Workers, PersistRejectedStep(w) PROVE Moves
  <2>1. [kind |-> "rejected", call |-> NoCall] \in Step
    BY DEF Step
  <2>2. steps' = Append(steps, [kind |-> "rejected", call |-> NoCall])
    BY <1>2, <2>1, InsertIsAppend DEF PersistRejectedStep
  <2>. QED
    BY <1>2, <2>1, <2>2 DEF PersistRejectedStep, resVars
<1>3. ASSUME NEW w \in Workers, PersistFinal(w) PROVE Moves
  <2>1. [kind |-> "final", call |-> NoCall] \in Step
    BY DEF Step
  <2>2. /\ steps' = Append(steps, [kind |-> "final", call |-> NoCall])
        /\ answer' = Len(steps) + 1
    BY <1>3, <2>1, InsertIsAppend DEF PersistFinal
  <2>. QED
    BY <2>1, <2>2
<1>4. ASSUME UNCHANGED <<answer, steps>> PROVE Moves
  BY <1>4
<1>. HIDE DEF Moves
<1>5. Moves
  BY <1>1, <1>2, <1>3, <1>4, ZenonT(60)
  DEF Next, Run, vars, execVars, resVars, Deliver, ClaimSettled, ClaimFirst,
      InsertExecution, InsertConflict, ClaimRun, LoadSteps, CheckBudgets, PlanTool,
      DecideTool, PlanFinal, DecideFinal, PlanInvalid, DecideInvalid, SetWaiting,
      ExecuteTool, Resume, GenerateFinal, StepConflict, RecordTransient, RecordValidation,
      ExhaustRetries, Mark, CommitOffset, Interrupt, LoseCommit, Abandon, Crash, Expire,
      OpenReview, SubmitReview
<1>. QED
  BY <1>5 DEF Moves

LEMMA LatestAnswerStep ==
  ASSUME TypeOK, KnownIsPrefix, LatestAnswer, [Next]_vars
  PROVE  LatestAnswer' /\ (answer # 0 => answer' # 0)
<1>1. steps \in Seq(Step) /\ Len(steps) \in Nat
  BY LenProperties DEF TypeOK
<1>2. ASSUME NEW r \in Step, steps' = Append(steps, r)
      PROVE  /\ Len(steps') = Len(steps) + 1
             /\ \A i \in 1..Len(steps) : steps'[i] = steps[i]
             /\ steps'[Len(steps) + 1] = r
  BY <1>1, <1>2, AppendProperties
<1>3. CASE UNCHANGED <<answer, steps>>
  BY <1>3 DEF LatestAnswer
<1>4. ASSUME NEW r \in Step, r.kind # "final", steps' = Append(steps, r), UNCHANGED answer
      PROVE  LatestAnswer' /\ (answer # 0 => answer' # 0)
  <2>1. answer' \in 0..Len(steps') /\ (answer' # 0 => steps'[answer'].kind = "final")
    BY <1>1, <1>2, <1>4 DEF LatestAnswer
  <2>2. ASSUME NEW i \in 1..Len(steps'), steps'[i].kind = "final" PROVE i <= answer'
    <3>1. i \in 1..Len(steps) /\ steps[i].kind = "final"
      BY <1>1, <1>2, <1>4, <2>2
    <3>. QED
      BY <1>4, <3>1 DEF LatestAnswer
  <2>. QED
    BY <1>4, <2>1, <2>2 DEF LatestAnswer
<1>5. ASSUME NEW r \in Step, r.kind = "final", steps' = Append(steps, r),
             answer' = Len(steps) + 1
      PROVE  LatestAnswer' /\ (answer # 0 => answer' # 0)
  BY <1>1, <1>2, <1>5 DEF LatestAnswer
<1>. QED
  BY <1>3, <1>4, <1>5, AnswerMoves

LEMMA DurableStep ==
  ASSUME TypeOK, KnownIsPrefix, LatestAnswer, DurableInv, [Next]_vars
  PROVE  DurableInv'
<1>0. answer # 0 => answer' # 0
  BY LatestAnswerStep
<1>. USE DEF TypeOK, DurableInv, Durable, UnderWay, Reviewable, execVars, resVars,
             doneVars, workVars, faultVars
<1>1. ASSUME NEW w \in Workers, Deliver(w) PROVE DurableInv'
  BY <1>0, <1>1 DEF Deliver, GoTo
<1>2. ASSUME NEW w \in Workers, ClaimSettled(w) PROVE DurableInv'
  BY <1>0, <1>2 DEF ClaimSettled, Return, GoTo
<1>3. ASSUME NEW w \in Workers, ClaimRun(w) PROVE DurableInv'
  BY <1>0, <1>3 DEF ClaimRun, GoTo
<1>4. ASSUME NEW w \in Workers, LoadSteps(w) PROVE DurableInv'
  BY <1>0, <1>4 DEF LoadSteps, GoTo
<1>5. ASSUME NEW w \in Workers, CheckBudgets(w) PROVE DurableInv'
  BY <1>0, <1>5 DEF CheckBudgets, GoTo
<1>6. ASSUME NEW w \in Workers, PlanFinal(w) PROVE DurableInv'
  BY <1>0, <1>6 DEF PlanFinal, DecideFinal, GoTo
<1>7. ASSUME NEW w \in Workers, PlanInvalid(w) PROVE DurableInv'
  BY <1>0, <1>7 DEF PlanInvalid, DecideInvalid, GoTo
<1>8. ASSUME NEW w \in Workers, SetWaiting(w) PROVE DurableInv'
  BY <1>0, <1>8 DEF SetWaiting, GoTo
<1>9. ASSUME NEW w \in Workers, ExecuteTool(w) PROVE DurableInv'
  BY <1>0, <1>9 DEF ExecuteTool, GoTo
<1>10. ASSUME NEW w \in Workers, PersistToolStep(w) PROVE DurableInv'
  BY <1>0, <1>10 DEF PersistToolStep, GoTo
<1>11. ASSUME NEW w \in Workers, PersistRejectedStep(w) PROVE DurableInv'
  BY <1>0, <1>11 DEF PersistRejectedStep, GoTo
<1>12. ASSUME NEW w \in Workers, Resume(w) PROVE DurableInv'
  BY <1>0, <1>12 DEF Resume, GoTo
<1>13. ASSUME NEW w \in Workers, GenerateFinal(w) PROVE DurableInv'
  BY <1>0, <1>13 DEF GenerateFinal, GoTo
<1>14. ASSUME NEW w \in Workers, StepConflict(w) PROVE DurableInv'
  BY <1>0, <1>14 DEF StepConflict, Inserting, GoTo
<1>15. ASSUME NEW w \in Workers, RecordTransient(w) PROVE DurableInv'
  BY <1>0, <1>15 DEF RecordTransient, Leave, GoTo
<1>16. ASSUME NEW w \in Workers, RecordValidation(w) PROVE DurableInv'
  <2>1. /\ execStatus' \notin Reviewable /\ resStatus' # "completed"
        /\ Return(w, "failed") \/ Leave(w)
        /\ UNCHANGED <<answer, doneVars, review>>
    BY <1>16 DEF RecordValidation
  <2>. QED
    BY <2>1 DEF Return, Leave, GoTo
<1>17. ASSUME NEW w \in Workers, ExhaustRetries(w) PROVE DurableInv'
  BY <1>0, <1>17 DEF ExhaustRetries, GoTo
<1>18. ASSUME NEW w \in Workers, Mark(w) PROVE DurableInv'
  BY <1>0, <1>18 DEF Mark, GoTo
<1>19. ASSUME NEW w \in Workers, CommitOffset(w) PROVE DurableInv'
  BY <1>0, <1>19 DEF CommitOffset, Leave, GoTo
<1>20. ASSUME NEW w \in Workers, Interrupt(w) PROVE DurableInv'
  BY <1>0, <1>20 DEF Interrupt, GoTo
<1>21. ASSUME NEW w \in Workers, LoseCommit(w) PROVE DurableInv'
  BY <1>0, <1>21 DEF LoseCommit, Leave, GoTo
<1>22. ASSUME NEW w \in Workers, Abandon(w) PROVE DurableInv'
  BY <1>0, <1>22 DEF Abandon, Leave, GoTo
<1>23. ASSUME NEW w \in Workers, Crash(w) PROVE DurableInv'
  BY <1>0, <1>23 DEF Crash, Leave, GoTo
<1>24. ASSUME NEW w \in Workers, ClaimFirst(w) PROVE DurableInv'
  BY <1>0, <1>24 DEF ClaimFirst, GoTo
<1>25. ASSUME NEW w \in Workers, InsertExecution(w) PROVE DurableInv'
  BY <1>0, <1>25 DEF InsertExecution, GoTo
<1>26. ASSUME NEW w \in Workers, InsertConflict(w) PROVE DurableInv'
  BY <1>0, <1>26 DEF InsertConflict, Leave, GoTo
<1>27. ASSUME NEW w \in Workers, NEW c \in Calls, PlanTool(w, c) PROVE DurableInv'
  BY <1>0, <1>27 DEF PlanTool, DecideTool, GoTo
<1>28. ASSUME NEW w \in Workers, PersistFinal(w) PROVE DurableInv'
  <2>1. NextNumber(w) # 0
    BY LenProperties DEF NextNumber
  <2>. QED
    BY <1>28, <2>1 DEF PersistFinal, Return, GoTo
<1>29. CASE Expire
  BY <1>29 DEF Expire
<1>30. ASSUME NEW r \in Reviewers, NEW d \in {"approving", "rejecting"},
             OpenReview(r, d)
      PROVE  DurableInv'
  BY <1>0, <1>30 DEF OpenReview
<1>31. ASSUME NEW r \in Reviewers, SubmitReview(r) PROVE DurableInv'
  BY <1>0, <1>31 DEF SubmitReview
<1>32. CASE UNCHANGED vars
  BY <1>32 DEF vars
<1>. HIDE DEF DurableInv
<1>. QED
  BY <1>1, <1>2, <1>3, <1>4, <1>5, <1>6, <1>7, <1>8, <1>9, <1>10, <1>11, <1>12, <1>13,
     <1>14, <1>15, <1>16, <1>17, <1>18, <1>19, <1>20, <1>21, <1>22, <1>23, <1>24,
     <1>25, <1>26, <1>27, <1>28, <1>29, <1>30, <1>31, <1>32
  DEF Next, Run

OverlapInv == TrailInv /\ LatestAnswer /\ DurableInv

LEMMA OverlapInvHolds == Spec => []OverlapInv
<1>1. Init => LatestAnswer /\ DurableInv
  <2>. SUFFICES ASSUME Init PROVE LatestAnswer /\ DurableInv
    OBVIOUS
  <2>1. Len(steps) = 0
    BY DEF Init
  <2>. QED
    BY <2>1 DEF Init, LatestAnswer, DurableInv, Durable, UnderWay, Reviewable
<1>2. OverlapInv /\ [Next]_vars => OverlapInv'
  BY TrailInvStep, LatestAnswerStep, DurableStep DEF OverlapInv, TrailInv
<1>. QED
  BY <1>1, <1>2, InitTrailInv, PTL DEF Spec, OverlapInv

(* However many workers run the execution at once, the resolution holds    *)
(* the last final step that is stored: a second answer (Agent_answers)     *)
(* replaces the first one, and never a later one.                          *)
THEOREM LatestAnswerHolds == Spec => []LatestAnswer
<1>1. OverlapInv => LatestAnswer
  BY DEF OverlapInv
<1>. QED
  BY <1>1, OverlapInvHolds, PTL

(* And even then an execution under review, a completed resolution and an  *)
(* event marked as completed have an answer, and the offset of an event    *)
(* without a marker is not committed.                                      *)
THEOREM DurableHolds == Spec => []Durable
<1>1. OverlapInv => Durable
  BY DEF OverlapInv, DurableInv
<1>. QED
  BY <1>1, OverlapInvHolds, PTL

-----------------------------------------------------------------------------
(* One worker at a time: what holds if the event is never handed over      *)
(* while its worker is busy                                                *)

InRun == InTry \cup {"terminal", "fail_transient", "fail_validation"}

Active == {"running", "waiting_for_tool"}

(* Whoever does something has the partition. *)
Alone == \A w \in Workers : pc[w] # "idle" => owner = w

(* A worker's position agrees with the rows: it runs an active execution,  *)
(* marks the outcome the execution has, and commits what is marked.        *)
Consistent(w) ==
    /\ pc[w] \in InRun => execStatus \in Active
    /\ pc[w] = "mark" => \/ outcome[w] = "completed" /\ execStatus \in Reviewable
                         \/ outcome[w] = "failed" /\ execStatus = "failed"
    /\ pc[w] = "commit" => processedAs # "none"

(* A review that was let in finds an answer when it is submitted.          *)
ReviewsAnswered ==
    \A r \in Reviewers : review[r] \in {"approving", "rejecting"} => execStatus \in Reviewable

(* A marker records the outcome, and only what is marked is committed.     *)
OutcomeBeforeMarker ==
    /\ processedAs = "completed" => execStatus \in Reviewable
    /\ processedAs = "failed" => execStatus = "failed"
    /\ committed => processedAs # "none"

AloneInv ==
    /\ Alone
    /\ \A w \in Workers : Consistent(w)
    /\ ReviewsAnswered
    /\ StatusesAgree
    /\ OneAnswer
    /\ OutcomeBeforeMarker

OthersIdle(w) == \A v \in Workers \ {w} : pc[v] = "idle"

LEMMA BusyAlone ==
  ASSUME TypeOK, Alone, NEW w \in Workers, pc[w] # "idle"
  PROVE  OthersIdle(w)
BY DEF Alone, OthersIdle

LEMMA DeliveredAlone ==
  ASSUME evictions' = 0, TypeOK, Alone, NEW w \in Workers, Deliver(w)
  PROVE  OthersIdle(w)
<1>1. evictions' # evictions + 1
  BY DEF TypeOK
<1>2. \/ owner \in {w, NoWorker}
      \/ owner \in Workers \ {w} /\ pc[owner] = "idle"
  BY <1>1 DEF Deliver
<1>. QED
  BY <1>2, AgentAssumption DEF Alone, OthersIdle

-----------------------------------------------------------------------------
(* What a step does to the two rows and the trail *)

RowsKept == UNCHANGED <<execStatus, resStatus, answer, steps>>

Starts ==
    /\ execStatus \notin Reviewable \cup {"failed"}
    /\ execStatus' = "running"
    /\ resStatus' = "processing"
    /\ UNCHANGED <<answer, steps>>

Proceeds ==
    /\ execStatus \in Active /\ execStatus' \in Active
    /\ UNCHANGED <<resStatus, answer>>
    /\ \/ steps' = steps
       \/ \E r \in Step : r.kind # "final" /\ steps' = Append(steps, r)

Answers ==
    /\ execStatus \in Active
    /\ execStatus' = "awaiting_review"
    /\ resStatus' = "completed"
    /\ answer' = Len(steps) + 1
    /\ steps' = Append(steps, [kind |-> "final", call |-> NoCall])

Fails ==
    /\ execStatus \in Active
    /\ execStatus' \in {"retryable", "failed"}
    /\ resStatus' = execStatus'
    /\ UNCHANGED <<answer, steps>>

Reviewed ==
    /\ \E r \in Reviewers : SubmitReview(r)
    /\ execStatus \in Reviewable
    /\ execStatus' \in {"approved", "rejected"}
    /\ UNCHANGED <<resStatus, answer, steps>>

RowCases == RowsKept \/ Starts \/ Proceeds \/ Answers \/ Fails \/ Reviewed

LEMMA RowsStep ==
  ASSUME TypeOK, KnownIsPrefix, AloneInv, [Next]_vars
  PROVE  RowCases
<1>1. \A w \in Workers : pc[w] \in InRun => execStatus \in Active
  BY DEF AloneInv, Consistent
<1>2. ASSUME NEW w \in Workers, PersistToolStep(w) PROVE Proceeds
  <2>1. [kind |-> "tool", call |-> call[w]] \in Step
    BY DEF Step, TypeOK
  <2>2. steps' = Append(steps, [kind |-> "tool", call |-> call[w]])
    BY <1>2, <2>1, InsertIsAppend DEF PersistToolStep
  <2>. QED
    BY <1>1, <1>2, <2>1, <2>2 DEF PersistToolStep, Proceeds, InRun, InTry, Active, resVars
<1>3. ASSUME NEW w \in Workers, PersistRejectedStep(w) PROVE Proceeds
  <2>1. [kind |-> "rejected", call |-> NoCall] \in Step
    BY DEF Step
  <2>2. steps' = Append(steps, [kind |-> "rejected", call |-> NoCall])
    BY <1>3, <2>1, InsertIsAppend DEF PersistRejectedStep
  <2>. QED
    BY <1>1, <1>3, <2>1, <2>2 DEF PersistRejectedStep, Proceeds, InRun, InTry, Active, resVars
<1>4. ASSUME NEW w \in Workers, PersistFinal(w) PROVE Answers
  <2>1. [kind |-> "final", call |-> NoCall] \in Step
    BY DEF Step
  <2>2. /\ steps' = Append(steps, [kind |-> "final", call |-> NoCall])
        /\ NextNumber(w) = Len(steps) + 1
    BY <1>4, <2>1, InsertIsAppend DEF PersistFinal
  <2>. QED
    BY <1>1, <1>4, <2>2 DEF PersistFinal, Answers, InRun, InTry
<1>5. ASSUME NEW w \in Workers, SetWaiting(w) \/ Resume(w) PROVE Proceeds
  BY <1>1, <1>5 DEF SetWaiting, Resume, Proceeds, InRun, InTry, Active, resVars
<1>6. ASSUME NEW w \in Workers, InsertExecution(w) \/ ClaimRun(w) PROVE Starts
  BY <1>6 DEF InsertExecution, ClaimRun, Starts, Reviewable
<1>7. ASSUME NEW w \in Workers, RecordTransient(w) \/ RecordValidation(w) PROVE Fails
  BY <1>1, <1>7 DEF RecordTransient, RecordValidation, Fails, InRun
<1>8. ASSUME NEW r \in Reviewers, SubmitReview(r) PROVE Reviewed
  BY <1>8 DEF SubmitReview, Reviewed, AloneInv, ReviewsAnswered, resVars
<1>9. CASE RowsKept
  BY <1>9 DEF RowCases
<1>. QED
  BY <1>2, <1>3, <1>4, <1>5, <1>6, <1>7, <1>8, <1>9
  DEF RowCases, RowsKept, Next, Run, vars, execVars, resVars, Deliver, ClaimSettled,
      ClaimFirst, InsertConflict, LoadSteps, CheckBudgets, PlanTool, DecideTool,
      PlanFinal, DecideFinal, PlanInvalid, DecideInvalid, ExecuteTool, GenerateFinal,
      StepConflict, ExhaustRetries, Mark, CommitOffset, Interrupt, LoseCommit, Abandon,
      Crash, Expire, OpenReview

LEMMA StatusesStep ==
  ASSUME StatusesAgree, RowCases
  PROVE  StatusesAgree'
BY DEF StatusesAgree, RowCases, RowsKept, Starts, Proceeds, Answers, Fails, Reviewed,
       Active, Reviewable

LEMMA AnswerStep ==
  ASSUME TypeOK, OneAnswer, RowCases
  PROVE  OneAnswer'
<1>1. steps \in Seq(Step) /\ Len(steps) \in Nat /\ DOMAIN steps = 1..Len(steps)
  BY LenProperties DEF TypeOK
<1>2. ASSUME NEW r \in Step, steps' = Append(steps, r)
      PROVE  /\ DOMAIN steps' = 1..(Len(steps) + 1) /\ Len(steps') = Len(steps) + 1
             /\ \A i \in 1..Len(steps) : steps'[i] = steps[i]
             /\ steps'[Len(steps) + 1] = r
  BY <1>1, <1>2, AppendProperties, LenProperties
<1>3. execStatus \in Active => answer = 0 /\ \A i \in DOMAIN steps : steps[i].kind # "final"
  <2>. SUFFICES ASSUME execStatus \in Active
                PROVE  answer = 0 /\ \A i \in DOMAIN steps : steps[i].kind # "final"
    OBVIOUS
  <2>1. answer = 0
    BY DEF OneAnswer, Active, Reviewable
  <2>2. ASSUME NEW i \in DOMAIN steps, steps[i].kind = "final" PROVE FALSE
    BY <1>1, <2>1, <2>2 DEF OneAnswer
  <2>. QED
    BY <2>1, <2>2
<1>4. CASE steps' = steps /\ answer' = answer
           /\ (execStatus' \in Reviewable <=> execStatus \in Reviewable)
  BY <1>4 DEF OneAnswer
<1>5. ASSUME NEW r \in Step, Proceeds, r.kind # "final", steps' = Append(steps, r)
      PROVE  OneAnswer'
  <2>0. \A i \in DOMAIN steps : steps[i].kind # "final"
    BY <1>3, <1>5 DEF Proceeds
  <2>1. \A i \in DOMAIN steps' : steps'[i].kind # "final"
    BY <1>1, <1>2, <1>5, <2>0
  <2>2. answer' = 0 /\ execStatus' \notin Reviewable
    BY <1>3, <1>5 DEF Proceeds, Active, Reviewable
  <2>. QED
    BY <2>1, <2>2 DEF OneAnswer
<1>6. CASE Answers
  <2>. DEFINE final == [kind |-> "final", call |-> NoCall]
  <2>1. final \in Step /\ final.kind = "final"
    BY DEF Step
  <2>2. steps' = Append(steps, final)
    BY <1>6 DEF Answers
  <2>. HIDE DEF final
  <2>3. /\ \A i \in DOMAIN steps' : steps'[i].kind = "final" => i = Len(steps')
        /\ \E i \in DOMAIN steps' : steps'[i].kind = "final"
    BY <1>1, <1>2, <1>3, <1>6, <2>1, <2>2 DEF Answers
  <2>4. answer' = Len(steps') /\ answer' # 0 /\ execStatus' \in Reviewable
    BY <1>1, <1>2, <1>6, <2>1, <2>2 DEF Answers, Reviewable
  <2>. QED
    BY <2>3, <2>4 DEF OneAnswer
<1>. QED
  BY <1>4, <1>5, <1>6
  DEF RowCases, RowsKept, Starts, Proceeds, Fails, Reviewed, Active, Reviewable

-----------------------------------------------------------------------------
(* Where the workers are *)

Placed == Alone /\ (\A w \in Workers : Consistent(w)) /\ OutcomeBeforeMarker

LEMMA PlacedStep ==
  ASSUME evictions' = 0, TypeOK, Placed, ReviewsAnswered, [Next]_vars
  PROVE  Placed'
<1>. USE DEF TypeOK, Placed, Alone, Consistent, OthersIdle, OutcomeBeforeMarker,
             InRun, InTry, Active, Reviewable, execVars, resVars, doneVars, workVars,
             faultVars
<1>1. ASSUME NEW w \in Workers, Deliver(w) PROVE Placed'
  BY <1>1, DeliveredAlone, ZenonT(40) DEF Deliver, GoTo
<1>2. ASSUME NEW w \in Workers, ClaimSettled(w) PROVE Placed'
  BY <1>2, BusyAlone DEF ClaimSettled, Return, GoTo
<1>3. ASSUME NEW w \in Workers, ClaimRun(w) PROVE Placed'
  BY <1>3, BusyAlone DEF ClaimRun, GoTo
<1>4. ASSUME NEW w \in Workers, LoadSteps(w) PROVE Placed'
  BY <1>4, BusyAlone DEF LoadSteps, GoTo
<1>5. ASSUME NEW w \in Workers, CheckBudgets(w) PROVE Placed'
  BY <1>5, BusyAlone DEF CheckBudgets, GoTo
<1>6. ASSUME NEW w \in Workers, NEW c \in Calls, PlanTool(w, c) PROVE Placed'
  BY <1>6, BusyAlone DEF PlanTool, DecideTool, GoTo
<1>7. ASSUME NEW w \in Workers, PlanFinal(w) PROVE Placed'
  BY <1>7, BusyAlone DEF PlanFinal, DecideFinal, GoTo
<1>8. ASSUME NEW w \in Workers, PlanInvalid(w) PROVE Placed'
  BY <1>8, BusyAlone DEF PlanInvalid, DecideInvalid, GoTo
<1>9. ASSUME NEW w \in Workers, SetWaiting(w) PROVE Placed'
  BY <1>9, BusyAlone DEF SetWaiting, GoTo
<1>10. ASSUME NEW w \in Workers, ExecuteTool(w) PROVE Placed'
  BY <1>10, BusyAlone DEF ExecuteTool, GoTo
<1>11. ASSUME NEW w \in Workers, PersistToolStep(w) PROVE Placed'
  BY <1>11, BusyAlone DEF PersistToolStep, GoTo
<1>12. ASSUME NEW w \in Workers, PersistRejectedStep(w) PROVE Placed'
  BY <1>12, BusyAlone DEF PersistRejectedStep, GoTo
<1>13. ASSUME NEW w \in Workers, Resume(w) PROVE Placed'
  BY <1>13, BusyAlone DEF Resume, GoTo
<1>14. ASSUME NEW w \in Workers, GenerateFinal(w) PROVE Placed'
  BY <1>14, BusyAlone DEF GenerateFinal, GoTo
<1>15. ASSUME NEW w \in Workers, PersistFinal(w) PROVE Placed'
  <2>1. /\ pc[w] = "persist_final" /\ execStatus' = "awaiting_review"
        /\ pc' = [pc EXCEPT ![w] = "mark"]
        /\ outcome' = [outcome EXCEPT ![w] = "completed"]
        /\ UNCHANGED <<processedAs, committed, owner>>
    BY <1>15 DEF PersistFinal, Return, GoTo
  <2>2. execStatus \in Active /\ processedAs = "none" /\ OthersIdle(w)
    BY <2>1, BusyAlone
  <2>. QED
    BY <2>1, <2>2
<1>16. ASSUME NEW w \in Workers, StepConflict(w) PROVE Placed'
  BY <1>16, BusyAlone DEF StepConflict, Inserting, GoTo
<1>17. ASSUME NEW w \in Workers, RecordTransient(w) PROVE Placed'
  <2>1. /\ pc[w] = "fail_transient" /\ execStatus' = "retryable" /\ Leave(w)
        /\ UNCHANGED <<processedAs, committed, owner>>
    BY <1>17 DEF RecordTransient
  <2>2. execStatus \in Active /\ processedAs = "none" /\ OthersIdle(w)
    BY <2>1, BusyAlone
  <2>. QED
    BY <2>1, <2>2 DEF Leave, GoTo
<1>18. ASSUME NEW w \in Workers, RecordValidation(w) PROVE Placed'
  <2>1. /\ pc[w] = "fail_validation"
        /\ UNCHANGED <<processedAs, committed, owner>>
        /\ \/ execStatus' = "failed" /\ Return(w, "failed")
           \/ execStatus' \in {"failed", "retryable"} /\ Leave(w)
    BY <1>18 DEF RecordValidation
  <2>2. execStatus \in Active /\ processedAs = "none" /\ OthersIdle(w)
    BY <2>1, BusyAlone
  <2>. QED
    BY <2>1, <2>2 DEF Return, Leave, GoTo
<1>19. ASSUME NEW w \in Workers, ExhaustRetries(w) PROVE Placed'
  BY <1>19, BusyAlone DEF ExhaustRetries, GoTo
<1>20. ASSUME NEW w \in Workers, Mark(w) PROVE Placed'
  BY <1>20, BusyAlone DEF Mark, GoTo
<1>21. ASSUME NEW w \in Workers, CommitOffset(w) PROVE Placed'
  BY <1>21, BusyAlone DEF CommitOffset, Leave, GoTo
<1>22. ASSUME NEW w \in Workers, Interrupt(w) PROVE Placed'
  BY <1>22, BusyAlone DEF Interrupt, GoTo
<1>23. ASSUME NEW w \in Workers, LoseCommit(w) PROVE Placed'
  BY <1>23, BusyAlone DEF LoseCommit, Leave, GoTo
<1>24. ASSUME NEW w \in Workers, Abandon(w) PROVE Placed'
  BY <1>24, BusyAlone DEF Abandon, Leave, GoTo
<1>25. ASSUME NEW w \in Workers, Crash(w) PROVE Placed'
  BY <1>25, BusyAlone DEF Crash, Leave, GoTo
<1>26. ASSUME NEW w \in Workers, ClaimFirst(w) PROVE Placed'
  BY <1>26, BusyAlone DEF ClaimFirst, GoTo
<1>27. ASSUME NEW w \in Workers, InsertExecution(w) PROVE Placed'
  BY <1>27, BusyAlone DEF InsertExecution, GoTo
<1>28. ASSUME NEW w \in Workers, InsertConflict(w) PROVE Placed'
  BY <1>28, BusyAlone DEF InsertConflict, Leave, GoTo
<1>29. CASE Expire
  BY <1>29 DEF Expire
<1>30. ASSUME NEW r \in Reviewers, NEW d \in {"approving", "rejecting"},
             OpenReview(r, d)
      PROVE  Placed'
  BY <1>30 DEF OpenReview
<1>31. ASSUME NEW r \in Reviewers, SubmitReview(r) PROVE Placed'
  BY <1>31 DEF SubmitReview, ReviewsAnswered
<1>32. CASE UNCHANGED vars
  BY <1>32 DEF vars
<1>. HIDE DEF Placed
<1>. QED
  BY <1>1, <1>2, <1>3, <1>4, <1>5, <1>6, <1>7, <1>8, <1>9, <1>10, <1>11, <1>12,
     <1>13, <1>14, <1>15, <1>16, <1>17, <1>18, <1>19, <1>20, <1>21, <1>22, <1>23,
     <1>24, <1>25, <1>26, <1>27, <1>28, <1>29, <1>30, <1>31, <1>32
  DEF Next, Run

-----------------------------------------------------------------------------
(* Reviews *)

LEMMA ReviewCases ==
  ASSUME [Next]_vars
  PROVE  \/ UNCHANGED review
         \/ \E r \in Reviewers, d \in {"approving", "rejecting"} : OpenReview(r, d)
         \/ \E r \in Reviewers : SubmitReview(r)
BY DEF Next, Run, vars, Deliver, ClaimSettled, ClaimFirst, InsertExecution, InsertConflict,
       ClaimRun, LoadSteps, CheckBudgets, PlanTool, DecideTool, PlanFinal, DecideFinal,
       PlanInvalid, DecideInvalid, SetWaiting, ExecuteTool, PersistToolStep,
       PersistRejectedStep, Resume, GenerateFinal, PersistFinal, StepConflict,
       RecordTransient, RecordValidation, ExhaustRetries, Mark, CommitOffset, Interrupt,
       LoseCommit, Abandon, Crash, Expire

LEMMA ReviewsStep ==
  ASSUME ReviewsAnswered, RowCases, [Next]_vars
  PROVE  ReviewsAnswered'
<1>1. execStatus \in Reviewable => execStatus' \in Reviewable
  BY DEF RowCases, RowsKept, Starts, Proceeds, Answers, Fails, Reviewed, Active, Reviewable
<1>2. ASSUME UNCHANGED review PROVE ReviewsAnswered'
  BY <1>1, <1>2 DEF ReviewsAnswered
<1>3. ASSUME NEW r \in Reviewers, NEW d \in {"approving", "rejecting"}, OpenReview(r, d)
      PROVE  ReviewsAnswered'
  <2>1. \A q \in Reviewers \ {r} : review'[q] = review[q]
    BY <1>3 DEF OpenReview
  <2>2. review'[r] \in {"approving", "rejecting"} => execStatus \in Reviewable
    BY <1>3 DEF OpenReview, Reviewable
  <2>. QED
    BY <1>1, <2>1, <2>2 DEF ReviewsAnswered
<1>4. ASSUME NEW r \in Reviewers, SubmitReview(r) PROVE ReviewsAnswered'
  <2>1. \A q \in Reviewers \ {r} : review'[q] = review[q]
    BY <1>4 DEF SubmitReview
  <2>2. execStatus \in Reviewable
    BY <1>4 DEF SubmitReview, ReviewsAnswered
  <2>. QED
    BY <1>1, <2>1, <2>2 DEF ReviewsAnswered
<1>. QED
  BY <1>2, <1>3, <1>4, ReviewCases

-----------------------------------------------------------------------------
(* The theorems for one worker at a time *)

LEMMA InitAlone == Init => AloneInv
<1>. SUFFICES ASSUME Init PROVE AloneInv
  OBVIOUS
<1>1. DOMAIN steps = {}
  BY EmptySeq DEF Init
<1>. QED
  BY <1>1 DEF Init, AloneInv, Alone, Consistent, ReviewsAnswered, StatusesAgree, OneAnswer,
              OutcomeBeforeMarker, InRun, InTry, Reviewable

LEMMA AloneStep ==
  ASSUME evictions' = 0, TypeOK, KnownIsPrefix, AloneInv, [Next]_vars
  PROVE  AloneInv'
<1>1. RowCases
  BY RowsStep
<1>2. Placed'
  BY PlacedStep DEF AloneInv, Placed
<1>3. ReviewsAnswered' /\ StatusesAgree' /\ OneAnswer'
  BY <1>1, ReviewsStep, StatusesStep, AnswerStep DEF AloneInv
<1>. QED
  BY <1>2, <1>3 DEF AloneInv, Placed

LEMMA EvictionsStep ==
  ASSUME TypeOK, [Next]_vars, evictions' = 0
  PROVE  evictions = 0
<1>1. evictions' \in {evictions, evictions + 1}
  BY ZenonT(60)
  DEF Next, Run, vars, faultVars, Deliver, ClaimSettled, ClaimFirst, InsertExecution,
      InsertConflict, ClaimRun, LoadSteps, CheckBudgets, PlanTool, DecideTool, PlanFinal,
      DecideFinal, PlanInvalid, DecideInvalid, SetWaiting, ExecuteTool, PersistToolStep,
      PersistRejectedStep, Resume, GenerateFinal, PersistFinal, StepConflict,
      RecordTransient, RecordValidation, ExhaustRetries, Mark, CommitOffset, Interrupt,
      LoseCommit, Abandon, Crash, Expire, OpenReview, SubmitReview
<1>. QED
  BY <1>1 DEF TypeOK

(* What holds until the event is first handed over too early *)
UntilEviction == TrailInv /\ (evictions = 0 => AloneInv)

LEMMA UntilEvictionStep == UntilEviction /\ [Next]_vars => UntilEviction'
<1>. SUFFICES ASSUME UntilEviction, [Next]_vars PROVE UntilEviction'
  OBVIOUS
<1>1. TypeOK /\ KnownIsPrefix /\ TrailInv'
  BY TrailInvStep DEF UntilEviction, TrailInv
<1>2. ASSUME evictions' = 0 PROVE AloneInv'
  <2>1. AloneInv
    BY <1>1, <1>2, EvictionsStep DEF UntilEviction
  <2>. QED
    BY <1>1, <1>2, <2>1, AloneStep
<1>. QED
  BY <1>1, <1>2 DEF UntilEviction

LEMMA UntilEvictionHolds == Spec => []UntilEviction
<1>1. Init => UntilEviction
  BY InitTrailInv, InitAlone DEF UntilEviction
<1>. QED
  BY <1>1, UntilEvictionStep, PTL DEF Spec

(* Whatever MaxEvictions is: until the event is handed over while its      *)
(* worker is busy, the execution and the resolution tell the same story,   *)
THEOREM StatusesAgreeHolds == Spec => [](evictions = 0 => StatusesAgree)
<1>1. UntilEviction => (evictions = 0 => StatusesAgree)
  BY DEF UntilEviction, AloneInv
<1>. QED
  BY <1>1, UntilEvictionHolds, PTL

(* there is one durable answer,                                            *)
THEOREM OneAnswerHolds == Spec => [](evictions = 0 => OneAnswer)
<1>1. UntilEviction => (evictions = 0 => OneAnswer)
  BY DEF UntilEviction, AloneInv
<1>. QED
  BY <1>1, UntilEvictionHolds, PTL

(* and a completed answer waits for its review, if none ever is.           *)
THEOREM ReviewWaitsHolds == Spec /\ [](evictions = 0) => ReviewWaits
<1>1. ASSUME UntilEviction, evictions = 0, [Next]_vars, execStatus = "awaiting_review"
      PROVE  execStatus' \in Reviewable
  <2>1. RowCases
    BY <1>1, RowsStep DEF UntilEviction, TrailInv
  <2>. QED
    BY <1>1, <2>1 DEF RowCases, RowsKept, Starts, Proceeds, Answers, Fails, Reviewed,
                      Active, Reviewable
<1>2. UntilEviction /\ evictions = 0 /\ [Next]_vars
        => [execStatus = "awaiting_review" => execStatus' \in Reviewable]_vars
  BY <1>1
<1>. QED
  BY <1>2, UntilEvictionHolds, PTL DEF Spec, ReviewWaits

-----------------------------------------------------------------------------
(* What the processor promises: every step is one of Settlement, or none   *)

Settled == IF execStatus \in Reviewable THEN "completed"
           ELSE IF execStatus = "failed" THEN "failed" ELSE "open"

(* Marking and committing are steps of their own. *)
LEMMA DoneCases ==
  ASSUME [Next]_vars
  PROVE  \/ UNCHANGED <<processedAs, committed>>
         \/ \E w \in Workers : Mark(w)
         \/ \E w \in Workers : CommitOffset(w)
BY ZenonT(60)
   DEF Next, Run, vars, doneVars, Deliver, ClaimSettled, ClaimFirst, InsertExecution,
       InsertConflict, ClaimRun, LoadSteps, CheckBudgets, PlanTool, DecideTool, PlanFinal,
       DecideFinal, PlanInvalid, DecideInvalid, SetWaiting, ExecuteTool, PersistToolStep,
       PersistRejectedStep, Resume, GenerateFinal, PersistFinal, StepConflict,
       RecordTransient, RecordValidation, ExhaustRetries, Interrupt, LoseCommit, Abandon,
       Crash, Expire, OpenReview, SubmitReview

LEMMA InitSettlement == Init => Handler!Init
BY DEF Init, Handler!Init, Reviewable

LEMMA SettlementStep ==
  ASSUME UntilEviction, [Next]_vars
  PROVE  [Handler!Next]_(Handler!vars)
<1>1. TypeOK /\ KnownIsPrefix /\ TypeOK'
  BY TrailInvStep DEF UntilEviction, TrailInv
<1>2. evictions \in Nat /\ evictions' \in Nat
  BY <1>1, AgentAssumption DEF TypeOK
<1>3. CASE evictions' # 0
  BY <1>2, <1>3 DEF Handler!Next, Handler!Break
<1>4. CASE evictions' = 0
  <2>1. evictions = 0 /\ AloneInv
    BY <1>1, <1>4, EvictionsStep DEF UntilEviction
  <2>2. (evictions > 0) = FALSE /\ (evictions' > 0) = FALSE
    BY <1>4, <2>1
  <2>3. RowCases
    BY <1>1, <2>1, RowsStep
  <2>4. ASSUME UNCHANGED <<processedAs, committed>>
        PROVE  [Handler!Next]_(Handler!vars)
    <3>1. \/ Settled' = Settled
          \/ Settled = "open" /\ Settled' \in {"completed", "failed"}
      <4>1. CASE RowsKept
        BY <4>1 DEF RowsKept, Settled
      <4>2. CASE Starts \/ Proceeds
        BY <4>2 DEF Starts, Proceeds, Settled, Active, Reviewable
      <4>3. CASE Answers \/ Reviewed
        BY <4>3 DEF Answers, Reviewed, Settled, Active, Reviewable
      <4>4. CASE Fails
        BY <4>4 DEF Fails, Settled, Active, Reviewable
      <4>. QED
        BY <2>3, <4>1, <4>2, <4>3, <4>4 DEF RowCases
    <3>. QED
      BY <2>2, <2>4, <3>1 DEF Settled, Handler!vars, Handler!Next, Handler!Keep,
                              Handler!Settle
  <2>5. ASSUME NEW w \in Workers, Mark(w) PROVE [Handler!Next]_(Handler!vars)
    <3>1. /\ UNCHANGED <<execStatus, committed>>
          /\ outcome[w] = Settled /\ Settled # "open"
          /\ processedAs' = IF processedAs = "none" THEN Settled ELSE processedAs
      BY <2>1, <2>5 DEF Mark, execVars, AloneInv, Consistent, Settled, Reviewable
    <3>2. CASE processedAs # "none"
      BY <2>2, <3>1, <3>2 DEF Handler!vars
    <3>3. CASE processedAs = "none"
      <4>1. [e \in {"event"} |-> processedAs'] =
              [[e \in {"event"} |-> processedAs] EXCEPT !["event"] = Settled]
        BY <3>1, <3>3
      <4>2. Handler!Mark("event")
        BY <3>1, <3>3, <4>1 DEF Settled, Handler!Mark
      <4>. QED
        BY <2>2, <4>2 DEF Handler!Next, Handler!Keep
    <3>. QED
      BY <3>2, <3>3
  <2>6. ASSUME NEW w \in Workers, CommitOffset(w) PROVE [Handler!Next]_(Handler!vars)
    <3>1. UNCHANGED <<execStatus, processedAs>> /\ committed' = TRUE /\ processedAs # "none"
      BY <2>1, <2>6 DEF CommitOffset, execVars, AloneInv, Consistent
    <3>2. Handler!Pass("event")
      BY <3>1 DEF Handler!Pass
    <3>. QED
      BY <2>2, <3>2 DEF Handler!Next, Handler!Keep
  <2>. QED
    BY <2>4, <2>5, <2>6, DoneCases
<1>. QED
  BY <1>3, <1>4

(* Until the event is handed over too early the execution is settled once, *)
(* the marker records that outcome, and the offset follows the marker.     *)
THEOREM AgentImplementsSettlement == Spec => ImplementsSettlement
BY InitSettlement, SettlementStep, UntilEvictionHolds, PTL
DEF Spec, ImplementsSettlement, Handler!Spec

-----------------------------------------------------------------------------
(* Reviews one at a time: no two requests are between their look at the    *)
(* status and their write                                                  *)

Reviewing(r) == review[r] \in {"approving", "rejecting"}

Deciding(r) == review[r] \in {"approved", "rejected"}

OneReviewOpen == \A q, r \in Reviewers : Reviewing(q) /\ Reviewing(r) => q = r

(* A review that is open finds the answer undecided, and whoever decided   *)
(* did so alone and left a decision.                                       *)
ReviewsInTurn ==
    /\ \A r \in Reviewers : Reviewing(r) => execStatus = "awaiting_review"
    /\ \A r \in Reviewers : Deciding(r) => execStatus \in {"approved", "rejected"}
    /\ OneDecision

LEMMA ReviewsInTurnStep ==
  ASSUME TypeOK, OneReviewOpen, ReviewsInTurn, RowCases, [Next]_vars
  PROVE  /\ ReviewsInTurn'
         /\ execStatus \in {"approved", "rejected"} => execStatus' = execStatus
<1>1. CASE \E r \in Reviewers : SubmitReview(r)
  <2>1. PICK r \in Reviewers : SubmitReview(r)
    BY <1>1
  <2>2. /\ Reviewing(r) /\ execStatus = "awaiting_review"
        /\ execStatus' \in {"approved", "rejected"}
        /\ Deciding(r)' /\ ~ Reviewing(r)'
    BY <2>1 DEF SubmitReview, ReviewsInTurn, Reviewing, Deciding, TypeOK
  <2>3. ASSUME NEW q \in Reviewers, q # r
        PROVE  ~ Reviewing(q) /\ ~ Deciding(q) /\ review'[q] = review[q]
    BY <2>1, <2>2, <2>3 DEF SubmitReview, OneReviewOpen, ReviewsInTurn
  <2>4. ASSUME NEW q \in Reviewers, q # r PROVE ~ Reviewing(q)' /\ ~ Deciding(q)'
    BY <2>3, <2>4 DEF Reviewing, Deciding
  <2>5. OneDecision'
    BY <2>4 DEF OneDecision, Deciding
  <2>. QED
    BY <2>2, <2>4, <2>5 DEF ReviewsInTurn
<1>2. CASE ~ \E r \in Reviewers : SubmitReview(r)
  <2>1. execStatus \in Reviewable => execStatus' = execStatus
    BY <1>2 DEF RowCases, RowsKept, Starts, Proceeds, Answers, Fails, Reviewed, Active,
                Reviewable
  <2>2. ASSUME UNCHANGED review PROVE ReviewsInTurn'
    BY <2>1, <2>2 DEF ReviewsInTurn, Reviewing, Deciding, OneDecision, Reviewable
  <2>3. ASSUME NEW r \in Reviewers, NEW d \in {"approving", "rejecting"}, OpenReview(r, d)
        PROVE  ReviewsInTurn'
    <3>1. /\ review[r] = "idle" /\ review'[r] \in {"approving", "rejecting", "conflict"}
          /\ review'[r] # "conflict" => execStatus = "awaiting_review"
          /\ \A q \in Reviewers \ {r} : review'[q] = review[q]
      BY <2>3 DEF OpenReview, TypeOK
    <3>2. Reviewing(r)' => execStatus = "awaiting_review"
      BY <3>1 DEF Reviewing
    <3>3. ~ Deciding(r)'
      BY <3>1 DEF Deciding
    <3>4. \A q \in Reviewers : Deciding(q)' => q # r /\ Deciding(q)
      BY <3>1, <3>3 DEF Deciding
    <3>5. \A q \in Reviewers : Reviewing(q)' => execStatus = "awaiting_review"
      BY <3>1, <3>2 DEF Reviewing, ReviewsInTurn
    <3>6. OneDecision'
      <4>1. SUFFICES ASSUME NEW q \in Reviewers, NEW s \in Reviewers,
                            Deciding(q)', Deciding(s)'
                     PROVE  q = s
        BY DEF OneDecision, Deciding
      <4>2. Deciding(q) /\ Deciding(s)
        BY <3>4, <4>1
      <4>. QED
        BY <4>2 DEF ReviewsInTurn, OneDecision, Deciding
    <3>7. \A q \in Reviewers : Reviewing(q)' => execStatus' = "awaiting_review"
      BY <2>1, <3>5 DEF Reviewable
    <3>8. \A q \in Reviewers : Deciding(q)' => execStatus' \in {"approved", "rejected"}
      BY <2>1, <3>4 DEF Reviewable, ReviewsInTurn
    <3>. QED
      BY <3>6, <3>7, <3>8 DEF ReviewsInTurn
  <2>. QED
    BY <1>2, <2>1, <2>2, <2>3, ReviewCases DEF Reviewable
<1>. QED
  BY <1>1, <1>2

LEMMA ReviewsInTurnHolds ==
  Spec /\ [](evictions = 0 /\ OneReviewOpen) => [](UntilEviction /\ ReviewsInTurn)
<1>1. Init => ReviewsInTurn
  BY DEF Init, ReviewsInTurn, Reviewing, Deciding, OneDecision
<1>2. UntilEviction /\ evictions = 0 /\ OneReviewOpen /\ ReviewsInTurn /\ [Next]_vars
        => ReviewsInTurn'
  BY RowsStep, ReviewsInTurnStep DEF UntilEviction, TrailInv
<1>. QED
  BY <1>1, <1>2, UntilEvictionHolds, PTL DEF Spec

(* As long as reviews come one at a time, a decision stands: what the run  *)
(* of the reviews finds takes two that overlap.                            *)
THEOREM DecisionStandsHolds ==
  Spec /\ [](evictions = 0 /\ OneReviewOpen) => DecisionStands
<1>1. UntilEviction /\ evictions = 0 /\ OneReviewOpen /\ ReviewsInTurn /\ [Next]_vars
        => [(execStatus \in {"approved", "rejected"}) => UNCHANGED execStatus]_vars
  BY RowsStep, ReviewsInTurnStep DEF UntilEviction, TrailInv
<1>. QED
  BY <1>1, ReviewsInTurnHolds, PTL DEF Spec, DecisionStands

(* And then only one of them is told that it decided.                      *)
THEOREM OneDecisionHolds ==
  Spec /\ [](evictions = 0 /\ OneReviewOpen) => []OneDecision
<1>1. ReviewsInTurn => OneDecision
  BY DEF ReviewsInTurn
<1>. QED
  BY <1>1, ReviewsInTurnHolds, PTL
=============================================================================
