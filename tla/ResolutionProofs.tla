--------------------------- MODULE ResolutionProofs ---------------------------
(***************************************************************************)
(* Proofs about Resolution for any workers, events, contexts and answers,  *)
(* and any number of faults and hand-overs.  What a worker relies on while *)
(* it runs - that the row is its own, and still what it has loaded - is    *)
(* not locked but follows from the row itself, for as long as no run has   *)
(* taken longer than stale_after and no event has been handed on while its *)
(* worker was about it.  What follows in spite of both comes first.        *)
(***************************************************************************)
EXTENDS Resolution, TLAPS

(* A run owns the row,                                                     *)
Owns ==
    \A w \in Workers : Running(w) =>
        status = "processing" /\ eventId = event[w] /\ fresh

(* which is still what it has loaded,                                      *)
Loaded == \A w \in Workers : pc[w] \in Storing => loaded[w] = Row

(* and what is marked, or about to be, is what the row says.               *)
Reported ==
    /\ \A w \in Workers : pc[w] = "settled" => status \in Settled
    /\ \A w \in Workers : pc[w] = "mark" => status \in Settled /\ outcome[w] = status
    /\ \A e \in Events : marker[e] # "none" => status \in Settled

MarkerMatchesRow == \A e \in Events : marker[e] # "none" => marker[e] = status

(* What is stored as completed cites what is stored with it.               *)
Matched == status = "completed" => cited \subseteq context

(* An event is with one worker.                                            *)
Exclusive ==
    \A v, w \in Workers : event[v] = event[w] /\ event[v] # NoEvent => v = w

(* A busy worker has an event.                                             *)
Busied == \A w \in Workers : pc[w] # "idle" <=> event[w] # NoEvent

(* A worker's attempt is one the row has counted, and an unusable answer   *)
(* has been noticed; who fails for good is in its last attempt.            *)
Counting ==
    \A w \in Workers :
        /\ attempt[w] <= attempts
        /\ pc[w] = "fail_invalid" => answered
        /\ pc[w] = "store_failed" => answered /\ attempt[w] >= MaxAttempts

Drafted ==
    \A w \in Workers :
        pc[w] \in {"complete", "store_completed"} => draft[w] \subseteq found[w]

(* Runs that overlap are different attempts, each counted by the row.      *)
AttemptsDiffer ==
    \A v, w \in Workers :
        Running(v) /\ Running(w) /\ v # w => attempt[v] # attempt[w]

(* Whatever overlaps, *)
RowInv ==
    /\ TypeOK
    /\ Busied
    /\ AttemptsDiffer
    /\ Counting
    /\ FailedByAnswers
    /\ Drafted

(* and until something does. *)
RunInv ==
    /\ Exclusive
    /\ Owns
    /\ Loaded
    /\ Reported
    /\ MarkerMatchesRow
    /\ Matched

-----------------------------------------------------------------------------
(* The two steps with a reply, without the reply *)

LEMMA RetrieveCases ==
  ASSUME NEW w \in Workers, Retrieve(w)
  PROVE  \/ Unavailable(w) /\ UNCHANGED found
         \/ Unusable(w) /\ UNCHANGED found
         \/ \E c \in Contexts : /\ found' = [found EXCEPT ![w] = c]
                                /\ GoTo(w, "generate")
                                /\ UNCHANGED <<answered, faults>>
BY DEF Retrieve

LEMMA GenerateCases ==
  ASSUME NEW w \in Workers, Generate(w)
  PROVE  \/ Unavailable(w) /\ UNCHANGED draft
         \/ Unusable(w) /\ UNCHANGED draft
         \/ \E a \in Answers : /\ Valid(a, found[w])
                               /\ draft' = [draft EXCEPT ![w] = a.cites]
                               /\ GoTo(w, "complete")
                               /\ UNCHANGED <<answered, faults>>
BY DEF Generate

-----------------------------------------------------------------------------
(* The row *)

LEMMA InitRow == Init => RowInv
<1>. SUFFICES ASSUME Init PROVE RowInv
  OBVIOUS
<1>1. TypeOK
  <2>1. /\ status \in {"none", "processing", "retryable"} \cup Settled
        /\ eventId \in Events \cup {NoEvent}
        /\ attempts \in Nat /\ fresh \in BOOLEAN
        /\ answered \in BOOLEAN /\ outlived \in BOOLEAN
        /\ cited \subseteq Chunk /\ context \subseteq Chunk
    BY DEF Init
  <2>2. pc \in [Workers -> {"idle", "claim", "insert", "settled", "retrieve", "generate",
                           "complete", "fail_transient", "fail_invalid", "mark"}
                          \cup Storing]
    BY DEF Init
  <2>3. /\ event \in [Workers -> Events \cup {NoEvent}]
        /\ attempt \in [Workers -> Nat]
    BY DEF Init
  <2>4. /\ found \in [Workers -> SUBSET Chunk]
        /\ draft \in [Workers -> SUBSET Chunk]
    <3>1. {} \in SUBSET Chunk
      OBVIOUS
    <3>. QED
      BY <3>1 DEF Init
  <2>5. /\ marker \in [Events -> {"none"} \cup Settled]
        /\ outcome \in [Workers -> {"none"} \cup Settled]
    BY DEF Init
  <2>6. handOns \in 0..MaxHandOns /\ faults \in 0..MaxFaults
    BY ResolutionAssumption DEF Init
  <2>7. loaded \in [Workers ->
            [status  : {"none", "processing", "retryable"} \cup Settled,
             cited   : SUBSET Chunk,
             context : SUBSET Chunk]]
    BY DEF Init, NoRow
  <2>. QED
    BY <2>1, <2>2, <2>3, <2>4, <2>5, <2>6, <2>7 DEF TypeOK
<1>2. Busied
  BY DEF Init, Busied
<1>3. Counting
  BY DEF Init, Counting
<1>4. Drafted
  BY DEF Init, Drafted
<1>5. FailedByAnswers /\ AttemptsDiffer
  BY DEF Init, FailedByAnswers, AttemptsDiffer, Running, Storing
<1>. QED
  BY <1>1, <1>2, <1>3, <1>4, <1>5 DEF RowInv

LEMMA RowStep == RowInv /\ [Next]_vars => RowInv'
<1>. SUFFICES ASSUME RowInv, [Next]_vars PROVE RowInv'
  OBVIOUS
<1>. USE ResolutionAssumption
     DEF RowInv, TypeOK, Busied, Counting, FailedByAnswers, Drafted, AttemptsDiffer,
         Running, Settled, Storing, GoTo, rowVars, pastVars
<1>0. NoRow \in [status  : {"none", "processing", "retryable"} \cup Settled,
                 cited   : SUBSET Chunk,
                 context : SUBSET Chunk]
  BY DEF NoRow
<1>1. ASSUME NEW w \in Workers, NEW e \in Events, Deliver(w, e) \/ HandOn(w, e)
      PROVE  RowInv'
  <2>1. Take(w, e) /\ handOns' \in 0..MaxHandOns
    BY <1>1 DEF Deliver, HandOn
  <2>. QED
    BY <2>1 DEF Take
<1>2. ASSUME NEW w \in Workers, Mark(w) PROVE RowInv'
  BY <1>0, <1>2 DEF Mark, Leave
<1>3. ASSUME NEW w \in Workers, FindSettled(w) PROVE RowInv'
  BY <1>3 DEF FindSettled
<1>4. ASSUME NEW w \in Workers, ReportSettled(w) PROVE RowInv'
  BY <1>0, <1>4 DEF ReportSettled, Return
<1>5. ASSUME NEW w \in Workers, Yield(w) PROVE RowInv'
  BY <1>0, <1>5 DEF Yield, Leave
<1>6. ASSUME NEW w \in Workers, pc[w] \in {"claim", "insert"}, Own(w) PROVE RowInv'
  BY <1>6 DEF Own, Counted
<1>7. ASSUME NEW w \in Workers, ClaimFirst(w) PROVE RowInv'
  BY <1>7 DEF ClaimFirst
<1>8. ASSUME NEW w \in Workers, InsertConflict(w) PROVE RowInv'
  BY <1>0, <1>8 DEF InsertConflict, Leave
<1>9. ASSUME NEW w \in Workers, Retrieve(w) PROVE RowInv'
  <2>1. ASSUME NEW c \in Contexts PROVE c \subseteq Chunk
    BY DEF Chunk
  <2>2. /\ UNCHANGED <<rowVars, marker, event, attempt, draft, loaded, outcome, outlived,
                   handOns>>
        /\ pc[w] = "retrieve"
    BY <1>9 DEF Retrieve
  <2>3. ASSUME Unavailable(w), UNCHANGED found PROVE RowInv'
    BY <2>2, <2>3 DEF Unavailable, Fault
  <2>4. ASSUME Unusable(w), UNCHANGED found PROVE RowInv'
    BY <2>2, <2>4 DEF Unusable
  <2>5. ASSUME NEW c \in Contexts, found' = [found EXCEPT ![w] = c], GoTo(w, "generate"),
               UNCHANGED <<answered, faults>>
        PROVE  RowInv'
    BY <2>1, <2>2, <2>5
  <2>. HIDE DEF RowInv
  <2>. QED
    BY <1>9, <2>3, <2>4, <2>5, RetrieveCases
<1>10. ASSUME NEW w \in Workers, Generate(w) PROVE RowInv'
  <2>1. ASSUME NEW a \in Answers PROVE a.cites \subseteq Chunk
    BY DEF Chunk
  <2>2. /\ UNCHANGED <<rowVars, marker, event, attempt, found, loaded, outcome, outlived,
                   handOns>>
        /\ pc[w] = "generate"
    BY <1>10 DEF Generate
  <2>3. ASSUME Unavailable(w), UNCHANGED draft PROVE RowInv'
    BY <2>2, <2>3 DEF Unavailable, Fault
  <2>4. ASSUME Unusable(w), UNCHANGED draft PROVE RowInv'
    BY <2>2, <2>4 DEF Unusable
  <2>5. ASSUME NEW a \in Answers, Valid(a, found[w]),
               draft' = [draft EXCEPT ![w] = a.cites], GoTo(w, "complete"),
               UNCHANGED <<answered, faults>>
        PROVE  RowInv'
    BY <2>1, <2>2, <2>5 DEF Valid
  <2>. HIDE DEF RowInv
  <2>. QED
    BY <1>10, <2>3, <2>4, <2>5, GenerateCases
<1>11. ASSUME NEW w \in Workers, Complete(w) PROVE RowInv'
  <2>1. /\ status' \in {status, "completed"}
        /\ cited' \in {cited, draft[w]}
        /\ context' \in {context, found[w]}
    BY <1>11 DEF Complete, Updated
  <2>. QED
    BY <1>0, <1>11, <2>1 DEF Complete, Return
<1>12. ASSUME NEW w \in Workers, RecordFailure(w) PROVE RowInv'
  <2>1. /\ status' \in {status, IF pc[w] = "store_failed" THEN "failed" ELSE "retryable"}
        /\ context' \in {context, found[w]}
        /\ UNCHANGED <<eventId, attempts, fresh, cited, marker, pastVars, faults>>
    BY <1>12 DEF RecordFailure, StoreFailure, Updated
  <2>2. FailedByAnswers'
    BY <1>12, <2>1 DEF RecordFailure
  <2>3. CASE Return(w, "failed")
    BY <1>0, <1>12, <2>1, <2>2, <2>3 DEF RecordFailure, Return
  <2>4. CASE Leave(w)
    BY <1>0, <1>12, <2>1, <2>2, <2>4 DEF RecordFailure, Leave
  <2>. QED
    BY <1>12, <2>3, <2>4 DEF RecordFailure
<1>13. ASSUME NEW w \in Workers, Crash(w) PROVE RowInv'
  BY <1>0, <1>13 DEF Crash, Fault, Leave
<1>14. ASSUME Age PROVE RowInv'
  BY <1>14 DEF Age, workVars
<1>15. ASSUME UNCHANGED vars PROVE RowInv'
  BY <1>15 DEF vars, workVars
<1>16. ASSUME NEW w \in Workers, Load(w) PROVE RowInv'
  <2>1. loaded' \in [Workers ->
            [status  : {"none", "processing", "retryable"} \cup Settled,
             cited   : SUBSET Chunk,
             context : SUBSET Chunk]]
    BY <1>16 DEF Load, Row
  <2>2. \/ pc[w] = "fail_invalid" /\ attempt[w] >= MaxAttempts
        \/ pc'[w] # "store_failed"
    BY <1>16 DEF Load, Terminal
  <2>. QED
    BY <1>16, <2>1, <2>2 DEF Load
<1>. HIDE DEF RowInv
<1>. QED
  BY <1>1, <1>2, <1>3, <1>4, <1>5, <1>6, <1>7, <1>8, <1>9, <1>10, <1>11, <1>12, <1>13,
     <1>14, <1>15, <1>16 DEF Next, Work, Claim, Insert

LEMMA RowInvHolds == Spec => []RowInv
BY InitRow, RowStep, PTL DEF Spec

-----------------------------------------------------------------------------
(* The runs, until one takes longer than stale_after or is handed on *)

LEMMA InitRun == Init => RunInv
BY DEF Init, RunInv, Exclusive, Owns, Loaded, Storing, Running, Reported,
       MarkerMatchesRow, Matched

LEMMA RunStep ==
  ASSUME ~ Disturbed', RowInv, RunInv, [Next]_vars
  PROVE  RunInv'
<1>. USE DEF RunInv, Exclusive, Owns, Loaded, Reported, MarkerMatchesRow, Matched, Running,
             Storing, Row, Settled, GoTo, rowVars
<1>0. /\ \A w \in Workers : pc[w] # "idle" <=> event[w] # NoEvent
      /\ DOMAIN pc = Workers /\ DOMAIN event = Workers /\ DOMAIN outcome = Workers
      /\ DOMAIN marker = Events
      /\ DOMAIN loaded = Workers
      /\ \A w \in Workers : event[w] \in Events \cup {NoEvent}
  BY DEF RowInv, TypeOK, Busied
<1>1. ASSUME NEW w \in Workers, NEW e \in Events, Deliver(w, e) PROVE RunInv'
  BY <1>0, <1>1 DEF Deliver, Take, With
<1>2. ASSUME NEW w \in Workers, Mark(w) PROVE RunInv'
  BY <1>0, <1>2 DEF Mark, Leave
<1>3. ASSUME NEW w \in Workers, FindSettled(w) PROVE RunInv'
  BY <1>0, <1>3 DEF FindSettled, Closed
<1>4. ASSUME NEW w \in Workers, ReportSettled(w) PROVE RunInv'
  BY <1>0, <1>4 DEF ReportSettled, Return
<1>5. ASSUME NEW w \in Workers, Yield(w) PROVE RunInv'
  BY <1>0, <1>5 DEF Yield, Leave
<1>6. ASSUME NEW w \in Workers, pc[w] \in {"claim", "insert"}, Own(w),
             status \notin Settled, ~ Busy(event[w])
      PROVE  RunInv'
  <2>1. \A v \in Workers : ~ Running(v)
    BY <1>0, <1>6 DEF Busy
  <2>. QED
    BY <1>0, <1>6, <2>1 DEF Own
<1>7. ASSUME NEW w \in Workers, ClaimFirst(w) PROVE RunInv'
  BY <1>0, <1>7 DEF ClaimFirst
<1>8. ASSUME NEW w \in Workers, InsertConflict(w) PROVE RunInv'
  BY <1>0, <1>8 DEF InsertConflict, Leave
<1>9. ASSUME NEW w \in Workers, Retrieve(w) PROVE RunInv'
  BY <1>0, <1>9, RetrieveCases DEF Retrieve, Unavailable, Unusable
<1>10. ASSUME NEW w \in Workers, Generate(w) PROVE RunInv'
  BY <1>0, <1>10, GenerateCases DEF Generate, Unavailable, Unusable
<1>11. ASSUME NEW w \in Workers, Complete(w) PROVE RunInv'
  <2>1. status' = "completed" /\ cited' = draft[w] /\ context' = found[w]
    BY <1>11 DEF Complete, Updated
  <2>2. draft[w] \subseteq found[w]
    BY <1>11 DEF Complete, RowInv, Drafted
  <2>3. \A v \in Workers : Running(v) => v = w
    BY <1>0, <1>11 DEF Complete
  <2>. QED
    BY <1>0, <1>11, <2>1, <2>2, <2>3 DEF Complete, Return
<1>12. ASSUME NEW w \in Workers, RecordFailure(w) PROVE RunInv'
  <2>1. status' = IF pc[w] = "store_failed" THEN "failed" ELSE "retryable"
    BY <1>12 DEF RecordFailure, StoreFailure, Updated
  <2>2. \A v \in Workers : Running(v) => v = w
    BY <1>0, <1>12 DEF RecordFailure
  <2>. QED
    BY <1>0, <1>12, <2>1, <2>2 DEF RecordFailure, StoreFailure, Return, Leave
<1>13. ASSUME NEW w \in Workers, Crash(w) PROVE RunInv'
  BY <1>0, <1>13 DEF Crash, Leave
<1>14. ASSUME Age PROVE RunInv'
  BY <1>14 DEF Age, Disturbed, workVars
<1>15. ASSUME UNCHANGED vars PROVE RunInv'
  BY <1>15 DEF vars, workVars
<1>16. ASSUME NEW w \in Workers, Claim(w) PROVE RunInv'
  BY <1>6, <1>16 DEF Claim, Closed
<1>17. ASSUME NEW w \in Workers, Insert(w) PROVE RunInv'
  BY <1>6, <1>17 DEF Insert, Busy
<1>18. ASSUME NEW w \in Workers, Load(w) PROVE RunInv'
  BY <1>0, <1>18 DEF Load
<1>19. ~ \E w \in Workers, e \in Events : HandOn(w, e)
  BY DEF HandOn, Disturbed, RowInv, TypeOK
<1>. HIDE DEF RunInv
<1>. QED
  BY <1>1, <1>2, <1>3, <1>4, <1>5, <1>7, <1>8, <1>9, <1>10, <1>11, <1>12, <1>13,
     <1>14, <1>15, <1>16, <1>17, <1>18, <1>19 DEF Next, Work

(* A run that has taken too long stays one, and so does a hand-over. *)
LEMMA DisturbedStep ==
  ASSUME Disturbed, RowInv, [Next]_vars
  PROVE  Disturbed'
<1>1. \/ UNCHANGED <<outlived, handOns>>
      \/ Age
      \/ \E w \in Workers, e \in Events : HandOn(w, e)
  BY DEF Next, Work, vars, pastVars, Deliver, Take, Mark, FindSettled,
         ReportSettled, Yield, Claim, ClaimFirst, Insert, InsertConflict, Own, Retrieve,
         Generate, Load, Complete, RecordFailure, StoreFailure, Crash
<1>. QED
  BY <1>1 DEF Disturbed, Age, HandOn, Take, RowInv, TypeOK

UntilDisturbed == RowInv /\ (~ Disturbed => RunInv)

LEMMA UntilDisturbedStep == UntilDisturbed /\ [Next]_vars => UntilDisturbed'
<1>. SUFFICES ASSUME UntilDisturbed, [Next]_vars PROVE UntilDisturbed'
  OBVIOUS
<1>1. RowInv /\ RowInv'
  BY RowStep DEF UntilDisturbed
<1>2. ASSUME ~ Disturbed' PROVE RunInv'
  <2>1. RunInv
    BY <1>1, <1>2, DisturbedStep DEF UntilDisturbed
  <2>. QED
    BY <1>1, <1>2, <2>1, RunStep
<1>. QED
  BY <1>1, <1>2 DEF UntilDisturbed

LEMMA UntilDisturbedHolds == Spec => []UntilDisturbed
<1>1. Init => UntilDisturbed
  BY InitRow, InitRun DEF UntilDisturbed
<1>. QED
  BY <1>1, UntilDisturbedStep, PTL DEF Spec

-----------------------------------------------------------------------------
(* What the row does, as a step of Settlement or none *)

Outcome == IF status \in Settled THEN status ELSE "open"

(* While the row is settled nobody runs, and only a mark is left to do. *)
LEMMA SettledStep ==
  ASSUME RunInv, [Next]_vars, status \in Settled
  PROVE  UNCHANGED <<status, cited, context>>
<1>1. \A w \in Workers : ~ Running(w)
  BY DEF RunInv, Owns, Settled
<1>2. \A w \in Workers : ~ Claim(w) /\ ~ Insert(w) /\ ~ Complete(w) /\ ~ RecordFailure(w)
  BY <1>1 DEF Claim, Closed, Insert, Complete, RecordFailure, Running, Storing, Settled
<1>. QED
  BY <1>2 DEF Next, Work, FindSettled, ReportSettled, Yield, ClaimFirst,
     InsertConflict, Retrieve, Generate, Load, Mark, Crash, Deliver, HandOn, Take, Age,
     rowVars, vars

LEMMA MarkerCases ==
  ASSUME [Next]_vars
  PROVE  UNCHANGED marker \/ \E w \in Workers : Mark(w)
BY DEF Next, Work, vars, Deliver, HandOn, Take, FindSettled, ReportSettled, Yield, Claim,
       ClaimFirst, Insert, InsertConflict, Own, Retrieve, Generate, Load, Complete,
       RecordFailure, StoreFailure, Crash, Age

LEMMA InitSettlement == Init => Handler!Init
BY DEF Init, Handler!Init, Settled, Disturbed

LEMMA SettlementStep ==
  ASSUME UntilDisturbed, [Next]_vars
  PROVE  [Handler!Next]_(Handler!vars)
<1>1. RowInv /\ RowInv'
  BY RowStep DEF UntilDisturbed
<1>2. Disturbed \in BOOLEAN /\ Disturbed' \in BOOLEAN
  BY <1>1 DEF RowInv, TypeOK, Disturbed
<1>3. CASE Disturbed'
  BY <1>2, <1>3 DEF Handler!Next, Handler!Break
<1>4. CASE ~ Disturbed'
  <2>1. Disturbed = FALSE /\ Disturbed' = FALSE /\ RunInv
    BY <1>1, <1>2, <1>4, DisturbedStep DEF UntilDisturbed
  <2>2. \/ Outcome' = Outcome
        \/ Outcome = "open" /\ Outcome' \in {"completed", "failed"}
    BY <2>1, SettledStep DEF Outcome, Settled
  <2>3. CASE UNCHANGED marker
    BY <2>1, <2>2, <2>3 DEF Outcome, Handler!vars, Handler!Next, Handler!Keep,
                            Handler!Settle
  <2>4. ASSUME NEW w \in Workers, Mark(w) PROVE [Handler!Next]_(Handler!vars)
    <3>1. event[w] \in Events
      BY <1>1, <2>4 DEF Mark, RowInv, Busied, TypeOK
    <3>2. /\ status \in Settled /\ Outcome = status /\ UNCHANGED status
          /\ marker' = [marker EXCEPT ![event[w]] = IF @ = "none" THEN status ELSE @]
      BY <2>1, <2>4 DEF Mark, RunInv, Reported, rowVars, Outcome
    <3>3. CASE marker[event[w]] = "none"
      <4>1. Handler!Mark(event[w])
        BY <3>2, <3>3 DEF Handler!Mark, Outcome, Settled
      <4>. QED
        BY <2>1, <3>1, <4>1 DEF Handler!Next, Handler!Keep
    <3>4. CASE marker[event[w]] # "none"
      <4>1. marker' = marker
        BY <1>1, <3>1, <3>2, <3>4 DEF RowInv, TypeOK
      <4>. QED
        BY <2>1, <3>2, <4>1 DEF Handler!vars
    <3>. QED
      BY <3>3, <3>4
  <2>. QED
    BY <2>3, <2>4, MarkerCases
<1>. QED
  BY <1>3, <1>4

-----------------------------------------------------------------------------
(* The theorems *)

(* The type invariant, for any constants.                                  *)
THEOREM TypeCorrect == Spec => []TypeOK
<1>1. RowInv => TypeOK
  BY DEF RowInv
<1>. QED
  BY <1>1, RowInvHolds, PTL

(* Whatever workers overtake each other, after stale_after or because an   *)
(* event was handed on, an incident fails only after its last attempt and  *)
(* over an unusable answer.                                                *)
THEOREM FailedByAnswersHolds == Spec => []FailedByAnswers
<1>1. RowInv => FailedByAnswers
  BY DEF RowInv
<1>. QED
  BY <1>1, RowInvHolds, PTL

(* Nor do two runs ever share an attempt, whatever they overlap: a claim   *)
(* counts it under the lock of the row, or in the insert that only one of  *)
(* two first claims survives (workflow.py:150-195).                        *)
THEOREM AttemptsDifferHolds == Spec => []AttemptsDiffer
<1>1. RowInv => AttemptsDiffer
  BY DEF RowInv
<1>. QED
  BY <1>1, RowInvHolds, PTL

(* As long as no run takes longer than stale_after and no event is handed  *)
(* on while its worker is about it, runs exclude each other,               *)
THEOREM OneRunHolds == Spec => []OneRun
<1>1. UntilDisturbed => OneRun
  BY DEF UntilDisturbed, RowInv, Busied, RunInv, Owns, Exclusive, OneRun, Running,
         Storing
<1>. QED
  BY <1>1, UntilDisturbedHolds, PTL

(* what is stored as completed cites the context stored with it, although  *)
(* neither is written where it equals what was loaded,                     *)
THEOREM CitationsMatchContextHolds == Spec => []CitationsMatchContext
<1>1. UntilDisturbed => CitationsMatchContext
  BY DEF UntilDisturbed, RunInv, Matched, CitationsMatchContext
<1>. QED
  BY <1>1, UntilDisturbedHolds, PTL

(* a settled resolution is final,                                          *)
THEOREM SettledStaysHolds == Spec => SettledStays
<1>1. UntilDisturbed /\ [Next]_vars
        => [~ Disturbed /\ status \in Settled => UNCHANGED <<status, cited, context>>]_vars
  BY SettledStep DEF UntilDisturbed
<1>. QED
  BY <1>1, UntilDisturbedHolds, PTL DEF Spec, SettledStays

(* and the incident is settled once and its events are marked with that    *)
(* outcome, whichever of them settled it.  From a hand-over or an outlived *)
(* run on, nothing is claimed.                                             *)
THEOREM ResolutionImplementsSettlement == Spec => ImplementsSettlement
BY InitSettlement, SettlementStep, UntilDisturbedHolds, PTL
DEF Spec, ImplementsSettlement, Handler!Spec
=============================================================================
