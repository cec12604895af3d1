---------------------------- MODULE OutboxProofs ----------------------------
(***************************************************************************)
(* Proofs about Outbox, for every set of events, threads and processes and *)
(* every value of the settings: the type invariant, the safety invariants, *)
(* the finality of a published row, and the refinement of Delivery.        *)
(***************************************************************************)
EXTENDS Outbox, FiniteSetTheorems, TLAPS

-----------------------------------------------------------------------------
(* The inductive invariant, part by part *)

(* A thread that dispatches has an event that was staged, and so has every *)
(* message and every row still to come in a batch.                         *)
StagedBeforeDispatch ==
    /\ \A t \in Threads : pc[t] \in {"lookup"} \cup InTransaction =>
          cur[t] \in Events /\ row[cur[t]] # "absent"
    /\ \A t \in Threads : \A e \in batch[t] : row[e] # "absent"
    /\ \A m \in queue : row[m.ev] # "absent"

(* The row lock: one dispatcher at a time, and only of a pending row. *)
OneHolder ==
    \A t \in Threads : pc[t] \in InTransaction =>
        /\ row[cur[t]] = "pending"
        /\ \A u \in Threads : pc[u] \in InTransaction /\ cur[u] = cur[t] => t = u

(* A message the broker has stored is in the topic. *)
StoredIsInTopic ==
    \A m \in queue : m.stored => copies[m.ev] > 0

(* What a waiting thread may conclude from an empty queue. *)
OwnMessage(t) ==
    \E m \in queue : m.th = t /\ m.ev = cur[t] /\ m.try = tries[cur[t]]

FlushIsHonest ==
    /\ \A t \in Threads : pc[t] = "flush" =>
          failed[t] \/ copies[cur[t]] > 0 \/ OwnMessage(t)
    /\ \A t \in Threads : pc[t] = "settle" => copies[cur[t]] > 0

(* Every produce() of an event beyond the first follows a failure. *)
InGoodStanding(e) ==
    \/ row[e] = "published"
    \/ \E t \in Threads :
          /\ cur[t] = e
          /\ pc[t] = "settle" \/ (pc[t] = "flush" /\ ~ failed[t])

TriesCostFaults ==
    \A e \in Events :
        /\ tries[e] <= faults + 1
        /\ tries[e] = faults + 1 => InGoodStanding(e)

(* No produce() puts more than one copy on the topic. *)
Unstored(e) == {m \in queue : m.ev = e /\ ~ m.stored}

CopiesCostTries ==
    \A e \in Events :
        /\ IsFiniteSet(Unstored(e))
        /\ copies[e] + Cardinality(Unstored(e)) <= tries[e]

FiniteStaged == IsFiniteSet(Staged)

LockInv == TypeOK /\ FiniteStaged /\ StagedBeforeDispatch /\ OneHolder

TopicInv == LockInv /\ StoredIsInTopic /\ FlushIsHonest /\ PublishedIsInTopic

CountInv == LockInv /\ TriesCostFaults /\ CopiesCostTries

-----------------------------------------------------------------------------
(* Types *)

LEMMA InitTypes == Init => TypeOK /\ FiniteStaged
<1>. SUFFICES ASSUME Init PROVE TypeOK /\ FiniteStaged
  OBVIOUS
<1>1. TypeOK
  BY OutboxAssumption DEF Init, TypeOK, Threads, InTransaction, BackoffCap
<1>2. Staged = {}
  BY DEF Init, Staged
<1>. QED
  BY <1>1, <1>2, FS_EmptySet DEF FiniteStaged

(* Every step keeps every variable in its domain. *)
LEMMA TypeStep ==
  ASSUME TypeOK, FiniteStaged, StagedBeforeDispatch, [Next]_vars
  PROVE  TypeOK'
<1>. USE OutboxAssumption DEF TypeOK, InTransaction, rowVars, threadVars, kafkaVars
<1>1. ASSUME NEW t \in Threads, NEW e \in Events, CreateIncident(t, e) PROVE TypeOK'
  BY <1>1, FS_CardinalityType DEF CreateIncident, Staged, FiniteStaged
<1>2. ASSUME NEW t \in Threads, ListPending(t) PROVE TypeOK'
  BY <1>2 DEF ListPending, TakeNext, Rest, Oldest, Batches, Due
<1>3. ASSUME NEW t \in Threads, LockRow(t) PROVE TypeOK'
  BY <1>3 DEF LockRow, GoTo
<1>4. ASSUME NEW t \in Threads, SkipRow(t) PROVE TypeOK'
  BY <1>4 DEF SkipRow, TakeNext, Rest, Oldest
<1>5. ASSUME NEW t \in Threads, Produce(t) PROVE TypeOK'
  <2>1. cur[t] \in Events /\ tries[cur[t]] + 1 \in Nat
    BY <1>5 DEF Produce, StagedBeforeDispatch
  <2>2. [ev |-> cur[t], try |-> tries[cur[t]] + 1, th |-> t, stored |-> FALSE]
          \in Message
    BY <2>1 DEF Message
  <2>. QED
    BY <1>5, <2>1, <2>2 DEF Produce, GoTo
<1>6. ASSUME NEW t \in Threads, RejectPayload(t) PROVE TypeOK'
  BY <1>6 DEF RejectPayload, GoTo
<1>7. ASSUME NEW t \in Threads, RefuseProduce(t) PROVE TypeOK'
  BY <1>7 DEF RefuseProduce, GoTo, UseFault
<1>8. ASSUME NEW t \in Threads, FlushDone(t) PROVE TypeOK'
  BY <1>8 DEF FlushDone, GoTo
<1>9. ASSUME NEW t \in Threads, FlushTimeout(t) PROVE TypeOK'
  BY <1>9 DEF FlushTimeout, GoTo, UseFault
<1>10. ASSUME NEW t \in Threads, CommitPublished(t) PROVE TypeOK'
  BY <1>10, SMTT(30) DEF CommitPublished, TakeNext, Rest, Oldest, Bump, BackoffCap,
              StagedBeforeDispatch
<1>11. ASSUME NEW t \in Threads, CommitDeferred(t) PROVE TypeOK'
  BY <1>11 DEF CommitDeferred, Rest, Bump, BackoffCap, RetryDelay,
              StagedBeforeDispatch
<1>12. ASSUME NEW t \in Threads, DatabaseError(t) PROVE TypeOK'
  BY <1>12 DEF DatabaseError, Rest, UseFault
<1>13. ASSUME NEW m \in queue, BrokerAppend(m) PROVE TypeOK'
  <2>1. m.ev \in Events /\ Stored(m) \in Message
    BY DEF Stored, Message
  <2>. QED
    BY <1>13, <2>1 DEF BrokerAppend
<1>14. ASSUME NEW m \in queue, BrokerAck(m) PROVE TypeOK'
  BY <1>14 DEF BrokerAck
<1>15. ASSUME NEW m \in queue, ExpireMessage(m) PROVE TypeOK'
  BY <1>15 DEF ExpireMessage, UseFault, Message
<1>16. CASE Tick
  BY <1>16 DEF Tick
<1>17. ASSUME NEW p \in Procs, Crash(p) PROVE TypeOK'
  BY <1>17 DEF Crash, UseFault, Remaining
<1>18. CASE UNCHANGED vars
  BY <1>18 DEF vars
<1>. QED
  BY <1>1, <1>2, <1>3, <1>4, <1>5, <1>6, <1>7, <1>8, <1>9, <1>10, <1>11, <1>12,
     <1>13, <1>14, <1>15, <1>16, <1>17, <1>18 DEF Next, Dispatch

(* Incidents are created one at a time, so finitely many are staged. *)
LEMMA StagedStep ==
  ASSUME TypeOK, FiniteStaged, StagedBeforeDispatch, [Next]_vars
  PROVE  FiniteStaged'
<1>. USE DEF FiniteStaged
<1>1. ASSUME NEW t \in Threads, NEW e \in Events, CreateIncident(t, e)
      PROVE  FiniteStaged'
  <2>1. Staged' = Staged \cup {e}
    BY <1>1 DEF CreateIncident, Staged, TypeOK
  <2>. QED
    BY <2>1, FS_AddElement
<1>2. ASSUME NEW t \in Threads, CommitPublished(t) PROVE FiniteStaged'
  <2>1. Staged' = Staged
    BY <1>2 DEF CommitPublished, Staged, TypeOK, StagedBeforeDispatch, InTransaction
  <2>. QED
    BY <2>1
<1>3. CASE UNCHANGED row
  BY <1>3 DEF Staged
<1>. QED
  BY <1>1, <1>2, <1>3
  DEF Next, Dispatch, vars, rowVars, ListPending, LockRow, SkipRow, Produce,
      RejectPayload, RefuseProduce, FlushDone, FlushTimeout, CommitDeferred,
      DatabaseError, BrokerAppend, BrokerAck, ExpireMessage, Tick, Crash

-----------------------------------------------------------------------------
(* The row lock *)

LEMMA BeforeStep ==
  ASSUME TypeOK, StagedBeforeDispatch, [Next]_vars
  PROVE  StagedBeforeDispatch'
<1>. USE DEF TypeOK, StagedBeforeDispatch, InTransaction, rowVars, threadVars, kafkaVars
<1>1. ASSUME NEW t \in Threads, NEW e \in Events, CreateIncident(t, e) PROVE StagedBeforeDispatch'
  BY <1>1 DEF CreateIncident
<1>2. ASSUME NEW t \in Threads, ListPending(t) PROVE StagedBeforeDispatch'
  BY <1>2 DEF ListPending, TakeNext, Rest, Oldest, Batches, Due
<1>3. ASSUME NEW t \in Threads, LockRow(t) PROVE StagedBeforeDispatch'
  BY <1>3 DEF LockRow, GoTo
<1>4. ASSUME NEW t \in Threads, SkipRow(t) PROVE StagedBeforeDispatch'
  BY <1>4 DEF SkipRow, TakeNext, Rest, Oldest
<1>5. ASSUME NEW t \in Threads, Produce(t) PROVE StagedBeforeDispatch'
  BY <1>5 DEF Produce, GoTo
<1>6. ASSUME NEW t \in Threads, RejectPayload(t) PROVE StagedBeforeDispatch'
  BY <1>6 DEF RejectPayload, GoTo
<1>7. ASSUME NEW t \in Threads, RefuseProduce(t) PROVE StagedBeforeDispatch'
  BY <1>7 DEF RefuseProduce, GoTo
<1>8. ASSUME NEW t \in Threads, FlushDone(t) PROVE StagedBeforeDispatch'
  BY <1>8 DEF FlushDone, GoTo
<1>9. ASSUME NEW t \in Threads, FlushTimeout(t) PROVE StagedBeforeDispatch'
  BY <1>9 DEF FlushTimeout, GoTo
<1>10. ASSUME NEW t \in Threads, CommitPublished(t) PROVE StagedBeforeDispatch'
  BY <1>10 DEF CommitPublished, TakeNext, Rest, Oldest
<1>11. ASSUME NEW t \in Threads, CommitDeferred(t) PROVE StagedBeforeDispatch'
  BY <1>11 DEF CommitDeferred, Rest
<1>12. ASSUME NEW t \in Threads, DatabaseError(t) PROVE StagedBeforeDispatch'
  BY <1>12 DEF DatabaseError, Rest
<1>13. ASSUME NEW m \in queue, BrokerAppend(m) PROVE StagedBeforeDispatch'
  BY <1>13 DEF BrokerAppend, Stored, Message
<1>14. ASSUME NEW m \in queue, BrokerAck(m) PROVE StagedBeforeDispatch'
  BY <1>14 DEF BrokerAck, Message
<1>15. ASSUME NEW m \in queue, ExpireMessage(m) PROVE StagedBeforeDispatch'
  BY <1>15 DEF ExpireMessage, Message
<1>16. CASE Tick
  BY <1>16 DEF Tick
<1>17. ASSUME NEW p \in Procs, Crash(p) PROVE StagedBeforeDispatch'
  BY <1>17 DEF Crash, Remaining
<1>18. CASE UNCHANGED vars
  BY <1>18 DEF vars
<1>. QED
  BY <1>1, <1>2, <1>3, <1>4, <1>5, <1>6, <1>7, <1>8, <1>9, <1>10, <1>11, <1>12,
     <1>13, <1>14, <1>15, <1>16, <1>17, <1>18 DEF Next, Dispatch

LEMMA HolderStep ==
  ASSUME TypeOK, StagedBeforeDispatch, OneHolder, [Next]_vars
  PROVE  OneHolder'
<1>. USE DEF TypeOK, StagedBeforeDispatch, OneHolder, InTransaction,
              rowVars, threadVars, kafkaVars
<1>1. ASSUME NEW t \in Threads, NEW e \in Events, CreateIncident(t, e) PROVE OneHolder'
  BY <1>1 DEF CreateIncident
<1>2. ASSUME NEW t \in Threads, ListPending(t) PROVE OneHolder'
  BY <1>2 DEF ListPending, TakeNext, Rest, Oldest, Batches, Due
<1>3. ASSUME NEW t \in Threads, LockRow(t) PROVE OneHolder'
  BY <1>3 DEF LockRow, GoTo, Locked, Holds
<1>4. ASSUME NEW t \in Threads, SkipRow(t) PROVE OneHolder'
  BY <1>4 DEF SkipRow, TakeNext, Rest, Oldest
<1>5. ASSUME NEW t \in Threads, Produce(t) PROVE OneHolder'
  BY <1>5 DEF Produce, GoTo
<1>6. ASSUME NEW t \in Threads, RejectPayload(t) PROVE OneHolder'
  BY <1>6 DEF RejectPayload, GoTo
<1>7. ASSUME NEW t \in Threads, RefuseProduce(t) PROVE OneHolder'
  BY <1>7 DEF RefuseProduce, GoTo
<1>8. ASSUME NEW t \in Threads, FlushDone(t) PROVE OneHolder'
  BY <1>8 DEF FlushDone, GoTo
<1>9. ASSUME NEW t \in Threads, FlushTimeout(t) PROVE OneHolder'
  BY <1>9 DEF FlushTimeout, GoTo
<1>10. ASSUME NEW t \in Threads, CommitPublished(t) PROVE OneHolder'
  BY <1>10 DEF CommitPublished, TakeNext, Rest, Oldest
<1>11. ASSUME NEW t \in Threads, CommitDeferred(t) PROVE OneHolder'
  BY <1>11 DEF CommitDeferred, Rest
<1>12. ASSUME NEW t \in Threads, DatabaseError(t) PROVE OneHolder'
  BY <1>12 DEF DatabaseError, Rest
<1>13. ASSUME NEW m \in queue, BrokerAppend(m) PROVE OneHolder'
  BY <1>13 DEF BrokerAppend, Stored, Message
<1>14. ASSUME NEW m \in queue, BrokerAck(m) PROVE OneHolder'
  BY <1>14 DEF BrokerAck, Message
<1>15. ASSUME NEW m \in queue, ExpireMessage(m) PROVE OneHolder'
  BY <1>15 DEF ExpireMessage, Message
<1>16. CASE Tick
  BY <1>16 DEF Tick
<1>17. ASSUME NEW p \in Procs, Crash(p) PROVE OneHolder'
  BY <1>17 DEF Crash, Remaining
<1>18. CASE UNCHANGED vars
  BY <1>18 DEF vars
<1>. QED
  BY <1>1, <1>2, <1>3, <1>4, <1>5, <1>6, <1>7, <1>8, <1>9, <1>10, <1>11, <1>12,
     <1>13, <1>14, <1>15, <1>16, <1>17, <1>18 DEF Next, Dispatch

LEMMA InitLockInv == Init => LockInv
<1>. SUFFICES ASSUME Init PROVE LockInv
  OBVIOUS
<1>1. StagedBeforeDispatch /\ OneHolder
  BY DEF Init, StagedBeforeDispatch, OneHolder, InTransaction
<1>. QED
  BY <1>1, InitTypes DEF LockInv

LEMMA LockInvStep == LockInv /\ [Next]_vars => LockInv'
  BY TypeStep, StagedStep, BeforeStep, HolderStep DEF LockInv

(* Every variable of the outbox stays in its domain.                       *)
THEOREM TypeCorrect == Spec => []TypeOK
<1>1. Spec => []LockInv
  BY InitLockInv, LockInvStep, PTL DEF Spec
<1>2. LockInv => TypeOK
  BY DEF LockInv
<1>. QED
  BY <1>1, <1>2, PTL

-----------------------------------------------------------------------------
(* Published events are in the topic *)

LEMMA StoredStep ==
  ASSUME LockInv, StoredIsInTopic, [Next]_vars
  PROVE  StoredIsInTopic'
<1>. USE DEF LockInv, TypeOK, InTransaction, rowVars, threadVars, kafkaVars, StoredIsInTopic
<1>1. ASSUME NEW t \in Threads, NEW e \in Events, CreateIncident(t, e) PROVE StoredIsInTopic'
  BY <1>1 DEF CreateIncident
<1>2. ASSUME NEW t \in Threads, ListPending(t) PROVE StoredIsInTopic'
  BY <1>2 DEF ListPending, TakeNext, Rest, Oldest, Batches, Due
<1>3. ASSUME NEW t \in Threads, LockRow(t) PROVE StoredIsInTopic'
  BY <1>3 DEF LockRow, GoTo
<1>4. ASSUME NEW t \in Threads, SkipRow(t) PROVE StoredIsInTopic'
  BY <1>4 DEF SkipRow, TakeNext, Rest, Oldest
<1>5. ASSUME NEW t \in Threads, Produce(t) PROVE StoredIsInTopic'
  BY <1>5 DEF Produce, GoTo
<1>6. ASSUME NEW t \in Threads, RejectPayload(t) PROVE StoredIsInTopic'
  BY <1>6 DEF RejectPayload, GoTo
<1>7. ASSUME NEW t \in Threads, RefuseProduce(t) PROVE StoredIsInTopic'
  BY <1>7 DEF RefuseProduce, GoTo
<1>8. ASSUME NEW t \in Threads, FlushDone(t) PROVE StoredIsInTopic'
  BY <1>8 DEF FlushDone, GoTo
<1>9. ASSUME NEW t \in Threads, FlushTimeout(t) PROVE StoredIsInTopic'
  BY <1>9 DEF FlushTimeout, GoTo
<1>10. ASSUME NEW t \in Threads, CommitPublished(t) PROVE StoredIsInTopic'
  BY <1>10 DEF CommitPublished, TakeNext, Rest, Oldest
<1>11. ASSUME NEW t \in Threads, CommitDeferred(t) PROVE StoredIsInTopic'
  BY <1>11 DEF CommitDeferred, Rest
<1>12. ASSUME NEW t \in Threads, DatabaseError(t) PROVE StoredIsInTopic'
  BY <1>12 DEF DatabaseError, Rest
<1>13. ASSUME NEW m \in queue, BrokerAppend(m) PROVE StoredIsInTopic'
  BY <1>13 DEF BrokerAppend, Stored, Message
<1>14. ASSUME NEW m \in queue, BrokerAck(m) PROVE StoredIsInTopic'
  BY <1>14 DEF BrokerAck, Message
<1>15. ASSUME NEW m \in queue, ExpireMessage(m) PROVE StoredIsInTopic'
  BY <1>15 DEF ExpireMessage, Message
<1>16. CASE Tick
  BY <1>16 DEF Tick
<1>17. ASSUME NEW p \in Procs, Crash(p) PROVE StoredIsInTopic'
  BY <1>17 DEF Crash, Remaining
<1>18. CASE UNCHANGED vars
  BY <1>18 DEF vars
<1>. QED
  BY <1>1, <1>2, <1>3, <1>4, <1>5, <1>6, <1>7, <1>8, <1>9, <1>10, <1>11, <1>12,
     <1>13, <1>14, <1>15, <1>16, <1>17, <1>18 DEF Next, Dispatch

LEMMA FlushStep ==
  ASSUME LockInv, StoredIsInTopic, FlushIsHonest, [Next]_vars
  PROVE  FlushIsHonest'
<1>. USE OutboxAssumption DEF LockInv, TypeOK, InTransaction, rowVars, threadVars, kafkaVars,
                            StagedBeforeDispatch, OneHolder, FlushIsHonest, OwnMessage
<1>1. ASSUME NEW t \in Threads, NEW e \in Events, CreateIncident(t, e) PROVE FlushIsHonest'
  BY <1>1 DEF CreateIncident
<1>2. ASSUME NEW t \in Threads, ListPending(t) PROVE FlushIsHonest'
  BY <1>2 DEF ListPending, TakeNext, Rest, Oldest, Batches, Due
<1>3. ASSUME NEW t \in Threads, LockRow(t) PROVE FlushIsHonest'
  BY <1>3 DEF LockRow, GoTo
<1>4. ASSUME NEW t \in Threads, SkipRow(t) PROVE FlushIsHonest'
  BY <1>4 DEF SkipRow, TakeNext, Rest, Oldest
<1>5. ASSUME NEW t \in Threads, Produce(t) PROVE FlushIsHonest'
  <2>. DEFINE new == [ev |-> cur[t], try |-> tries[cur[t]] + 1,
                      th |-> t, stored |-> FALSE]
  <2>1. new \in queue' /\ queue \subseteq queue'
    BY <1>5 DEF Produce
  <2>2. cur[t] \in Events
    BY <1>5 DEF Produce
  <2>3. OwnMessage(t)'
    <3>1. cur' = cur /\ tries'[cur[t]] = tries[cur[t]] + 1
      BY <1>5, <2>2 DEF Produce, GoTo
    <3>2. new.th = t /\ new.ev = cur[t] /\ new.try = tries[cur[t]] + 1
      OBVIOUS
    <3>. HIDE DEF new
    <3>. QED
      BY <2>1, <3>1, <3>2
  <2>4. ASSUME NEW u \in Threads, u # t, pc[u] = "flush"
        PROVE  cur[u] # cur[t] /\ tries'[cur[u]] = tries[cur[u]]
    BY <1>5, <2>4 DEF Produce
  <2>5. ASSUME NEW u \in Threads, u # t, pc'[u] = "flush"
        PROVE  failed'[u] \/ copies'[cur'[u]] > 0 \/ OwnMessage(u)'
    <3>1. pc[u] = "flush" /\ cur'[u] = cur[u] /\ copies' = copies
          /\ failed'[u] = failed[u]
      BY <1>5, <2>5 DEF Produce, GoTo
    <3>2. CASE OwnMessage(u)
      BY <3>1, <3>2, <2>1, <2>4, <2>5
    <3>. QED
      BY <3>1, <3>2, <2>5
  <2>. QED
    BY <1>5, <2>3, <2>5 DEF Produce, GoTo
<1>6. ASSUME NEW t \in Threads, RejectPayload(t) PROVE FlushIsHonest'
  BY <1>6 DEF RejectPayload, GoTo
<1>7. ASSUME NEW t \in Threads, RefuseProduce(t) PROVE FlushIsHonest'
  BY <1>7 DEF RefuseProduce, GoTo
<1>8. ASSUME NEW t \in Threads, FlushDone(t) PROVE FlushIsHonest'
  BY <1>8 DEF FlushDone, GoTo, Remaining
<1>9. ASSUME NEW t \in Threads, FlushTimeout(t) PROVE FlushIsHonest'
  BY <1>9 DEF FlushTimeout, GoTo
<1>10. ASSUME NEW t \in Threads, CommitPublished(t) PROVE FlushIsHonest'
  BY <1>10 DEF CommitPublished, TakeNext, Rest, Oldest
<1>11. ASSUME NEW t \in Threads, CommitDeferred(t) PROVE FlushIsHonest'
  BY <1>11 DEF CommitDeferred, Rest
<1>12. ASSUME NEW t \in Threads, DatabaseError(t) PROVE FlushIsHonest'
  BY <1>12 DEF DatabaseError, Rest
<1>13. ASSUME NEW m \in queue, BrokerAppend(m) PROVE FlushIsHonest'
  BY <1>13 DEF BrokerAppend, Stored, Message
<1>14. ASSUME NEW m \in queue, BrokerAck(m) PROVE FlushIsHonest'
  BY <1>14 DEF BrokerAck, Message, StoredIsInTopic
<1>15. ASSUME NEW m \in queue, ExpireMessage(m) PROVE FlushIsHonest'
  <2>1. pc' = pc /\ cur' = cur /\ copies' = copies /\ tries' = tries
        /\ queue' = queue \ {m} /\ m.th \in Threads
    BY <1>15 DEF ExpireMessage, Message
  <2>2. ASSUME NEW u \in Threads, pc[u] = "flush"
        PROVE  failed'[u] \/ copies[cur[u]] > 0 \/ OwnMessage(u)'
    <3>1. CASE failed[u]
      BY <1>15, <3>1 DEF ExpireMessage
    <3>2. CASE OwnMessage(u) /\ ~ OwnMessage(u)'
      <4>1. m.th = u /\ m.ev = cur[u] /\ m.try = tries[cur[u]]
        BY <2>1, <3>2
      <4>2. IsCurrent(m)
        BY <2>2, <4>1 DEF IsCurrent
      <4>. QED
        BY <1>15, <4>1, <4>2 DEF ExpireMessage
    <3>. QED
      BY <2>2, <3>1, <3>2
  <2>. QED
    BY <2>1, <2>2
<1>16. CASE Tick
  BY <1>16 DEF Tick
<1>17. ASSUME NEW p \in Procs, Crash(p) PROVE FlushIsHonest'
  BY <1>17 DEF Crash, Remaining
<1>18. CASE UNCHANGED vars
  BY <1>18 DEF vars
<1>. QED
  BY <1>1, <1>2, <1>3, <1>4, <1>5, <1>6, <1>7, <1>8, <1>9, <1>10, <1>11, <1>12,
     <1>13, <1>14, <1>15, <1>16, <1>17, <1>18 DEF Next, Dispatch

LEMMA PublishedStep ==
  ASSUME LockInv, FlushIsHonest, PublishedIsInTopic, [Next]_vars
  PROVE  PublishedIsInTopic'
<1>. USE DEF LockInv, TypeOK, InTransaction, rowVars, threadVars, kafkaVars, PublishedIsInTopic
<1>1. ASSUME NEW t \in Threads, NEW e \in Events, CreateIncident(t, e) PROVE PublishedIsInTopic'
  BY <1>1 DEF CreateIncident
<1>2. ASSUME NEW t \in Threads, ListPending(t) PROVE PublishedIsInTopic'
  BY <1>2 DEF ListPending, TakeNext, Rest, Oldest, Batches, Due
<1>3. ASSUME NEW t \in Threads, LockRow(t) PROVE PublishedIsInTopic'
  BY <1>3 DEF LockRow, GoTo
<1>4. ASSUME NEW t \in Threads, SkipRow(t) PROVE PublishedIsInTopic'
  BY <1>4 DEF SkipRow, TakeNext, Rest, Oldest
<1>5. ASSUME NEW t \in Threads, Produce(t) PROVE PublishedIsInTopic'
  BY <1>5 DEF Produce, GoTo
<1>6. ASSUME NEW t \in Threads, RejectPayload(t) PROVE PublishedIsInTopic'
  BY <1>6 DEF RejectPayload, GoTo
<1>7. ASSUME NEW t \in Threads, RefuseProduce(t) PROVE PublishedIsInTopic'
  BY <1>7 DEF RefuseProduce, GoTo
<1>8. ASSUME NEW t \in Threads, FlushDone(t) PROVE PublishedIsInTopic'
  BY <1>8 DEF FlushDone, GoTo
<1>9. ASSUME NEW t \in Threads, FlushTimeout(t) PROVE PublishedIsInTopic'
  BY <1>9 DEF FlushTimeout, GoTo
<1>10. ASSUME NEW t \in Threads, CommitPublished(t) PROVE PublishedIsInTopic'
  BY <1>10 DEF CommitPublished, TakeNext, Rest, Oldest, FlushIsHonest
<1>11. ASSUME NEW t \in Threads, CommitDeferred(t) PROVE PublishedIsInTopic'
  BY <1>11 DEF CommitDeferred, Rest
<1>12. ASSUME NEW t \in Threads, DatabaseError(t) PROVE PublishedIsInTopic'
  BY <1>12 DEF DatabaseError, Rest
<1>13. ASSUME NEW m \in queue, BrokerAppend(m) PROVE PublishedIsInTopic'
  BY <1>13 DEF BrokerAppend, Stored, Message
<1>14. ASSUME NEW m \in queue, BrokerAck(m) PROVE PublishedIsInTopic'
  BY <1>14 DEF BrokerAck, Message
<1>15. ASSUME NEW m \in queue, ExpireMessage(m) PROVE PublishedIsInTopic'
  BY <1>15 DEF ExpireMessage, Message
<1>16. CASE Tick
  BY <1>16 DEF Tick
<1>17. ASSUME NEW p \in Procs, Crash(p) PROVE PublishedIsInTopic'
  BY <1>17 DEF Crash, Remaining
<1>18. CASE UNCHANGED vars
  BY <1>18 DEF vars
<1>. QED
  BY <1>1, <1>2, <1>3, <1>4, <1>5, <1>6, <1>7, <1>8, <1>9, <1>10, <1>11, <1>12,
     <1>13, <1>14, <1>15, <1>16, <1>17, <1>18 DEF Next, Dispatch

-----------------------------------------------------------------------------
(* Copies cost failures *)

LEMMA TriesStep ==
  ASSUME LockInv, TriesCostFaults, [Next]_vars
  PROVE  TriesCostFaults'
<1>. USE DEF LockInv, TypeOK, InTransaction, rowVars, threadVars, kafkaVars,
           TriesCostFaults, InGoodStanding
<1>1. ASSUME NEW t \in Threads, NEW e \in Events, CreateIncident(t, e) PROVE TriesCostFaults'
  BY <1>1 DEF CreateIncident
<1>2. ASSUME NEW t \in Threads, ListPending(t) PROVE TriesCostFaults'
  BY <1>2 DEF ListPending, TakeNext, Rest, Oldest, Batches, Due
<1>3. ASSUME NEW t \in Threads, LockRow(t) PROVE TriesCostFaults'
  BY <1>3 DEF LockRow, GoTo
<1>4. ASSUME NEW t \in Threads, SkipRow(t) PROVE TriesCostFaults'
  BY <1>4 DEF SkipRow, TakeNext, Rest, Oldest
<1>5. ASSUME NEW t \in Threads, Produce(t) PROVE TriesCostFaults'
  <2>1. cur[t] \in Events /\ faults' = faults /\ row' = row /\ cur' = cur
    BY <1>5 DEF Produce, GoTo, StagedBeforeDispatch
  <2>2. ASSUME NEW e \in Events, e # cur[t]
        PROVE  /\ tries'[e] <= faults' + 1
               /\ tries'[e] = faults' + 1 => InGoodStanding(e)'
    BY <1>5, <2>1, <2>2 DEF Produce, GoTo
  <2>3. ~ InGoodStanding(cur[t])
    BY <1>5 DEF Produce, OneHolder
  <2>4. tries[cur[t]] <= faults
    BY <2>1, <2>3
  <2>5. tries'[cur[t]] <= faults' + 1
    BY <1>5, <2>1, <2>4 DEF Produce
  <2>6. InGoodStanding(cur[t])'
    BY <1>5, <2>1 DEF Produce, GoTo
  <2>7. ASSUME NEW e \in Events, e = cur[t]
        PROVE  /\ tries'[e] <= faults' + 1
               /\ InGoodStanding(e)'
    BY <2>1, <2>5, <2>6, <2>7
  <2>. QED
    BY <2>2, <2>7
<1>6. ASSUME NEW t \in Threads, RejectPayload(t) PROVE TriesCostFaults'
  BY <1>6 DEF RejectPayload, GoTo
<1>7. ASSUME NEW t \in Threads, RefuseProduce(t) PROVE TriesCostFaults'
  BY <1>7 DEF RefuseProduce, GoTo, UseFault
<1>8. ASSUME NEW t \in Threads, FlushDone(t) PROVE TriesCostFaults'
  BY <1>8 DEF FlushDone, GoTo
<1>9. ASSUME NEW t \in Threads, FlushTimeout(t) PROVE TriesCostFaults'
  BY <1>9 DEF FlushTimeout, GoTo, UseFault
<1>10. ASSUME NEW t \in Threads, CommitPublished(t) PROVE TriesCostFaults'
  BY <1>10 DEF CommitPublished, TakeNext, Rest, Oldest, StagedBeforeDispatch
<1>11. ASSUME NEW t \in Threads, CommitDeferred(t) PROVE TriesCostFaults'
  BY <1>11 DEF CommitDeferred, Rest
<1>12. ASSUME NEW t \in Threads, DatabaseError(t) PROVE TriesCostFaults'
  BY <1>12 DEF DatabaseError, Rest, UseFault
<1>13. ASSUME NEW m \in queue, BrokerAppend(m) PROVE TriesCostFaults'
  BY <1>13 DEF BrokerAppend, Stored, Message
<1>14. ASSUME NEW m \in queue, BrokerAck(m) PROVE TriesCostFaults'
  BY <1>14 DEF BrokerAck, Message
<1>15. ASSUME NEW m \in queue, ExpireMessage(m) PROVE TriesCostFaults'
  BY <1>15 DEF ExpireMessage, Message, UseFault
<1>16. CASE Tick
  BY <1>16 DEF Tick
<1>17. ASSUME NEW p \in Procs, Crash(p) PROVE TriesCostFaults'
  BY <1>17 DEF Crash, Remaining, UseFault
<1>18. CASE UNCHANGED vars
  BY <1>18 DEF vars
<1>. QED
  BY <1>1, <1>2, <1>3, <1>4, <1>5, <1>6, <1>7, <1>8, <1>9, <1>10, <1>11, <1>12,
     <1>13, <1>14, <1>15, <1>16, <1>17, <1>18 DEF Next, Dispatch

(* Messages that leave the queue, or are stored, free what they counted.   *)
LEMMA FewerUnstored ==
  ASSUME LockInv, CopiesCostTries, queue' \subseteq queue,
         UNCHANGED <<tries, copies>>
  PROVE  CopiesCostTries'
<1>. SUFFICES ASSUME NEW e \in Events
              PROVE  /\ IsFiniteSet(Unstored(e)')
                     /\ copies'[e] + Cardinality(Unstored(e)') <= tries'[e]
  BY DEF CopiesCostTries
<1>1. Unstored(e)' \in SUBSET Unstored(e)
  BY DEF Unstored
<1>2. /\ IsFiniteSet(Unstored(e)')
      /\ Cardinality(Unstored(e)') <= Cardinality(Unstored(e))
  BY <1>1, FS_Subset DEF CopiesCostTries
<1>3. Cardinality(Unstored(e)) \in Nat /\ Cardinality(Unstored(e)') \in Nat
  BY <1>2, FS_CardinalityType DEF CopiesCostTries
<1>. QED
  BY <1>2, <1>3 DEF CopiesCostTries, LockInv, TypeOK

LEMMA CopiesStep ==
  ASSUME LockInv, CopiesCostTries, [Next]_vars
  PROVE  CopiesCostTries'
<1>1. ASSUME NEW t \in Threads, Produce(t) PROVE CopiesCostTries'
  <2>. DEFINE new == [ev |-> cur[t], try |-> tries[cur[t]] + 1,
                      th |-> t, stored |-> FALSE]
  <2>1. cur[t] \in Events /\ copies' = copies /\ queue' = queue \cup {new}
    BY <1>1 DEF Produce, LockInv, StagedBeforeDispatch, InTransaction
  <2>2. ASSUME NEW e \in Events
        PROVE  /\ IsFiniteSet(Unstored(e)')
               /\ copies'[e] + Cardinality(Unstored(e)') <= tries'[e]
    <3>1. Cardinality(Unstored(e)) \in Nat
      BY FS_CardinalityType DEF CopiesCostTries
    <3>2. CASE e = cur[t]
      <4>1. Unstored(e)' = Unstored(e) \cup {new}
        BY <2>1, <3>2 DEF Unstored
      <4>2. /\ IsFiniteSet(Unstored(e)')
            /\ Cardinality(Unstored(e)') <= Cardinality(Unstored(e)) + 1
        <5>1. IsFiniteSet(Unstored(e))
          BY DEF CopiesCostTries
        <5>. HIDE DEF new
        <5>. QED
          BY <3>1, <4>1, <5>1, FS_AddElement
      <4>3. tries'[e] = tries[e] + 1
        BY <1>1, <3>2 DEF Produce, LockInv, TypeOK
      <4>4. Cardinality(Unstored(e)') \in Nat
        BY <4>2, FS_CardinalityType
      <4>. QED
        BY <2>1, <3>1, <4>2, <4>3, <4>4 DEF CopiesCostTries, LockInv, TypeOK
    <3>3. CASE e # cur[t]
      <4>1. Unstored(e)' = Unstored(e) /\ tries'[e] = tries[e]
        BY <1>1, <2>1, <3>3 DEF Unstored, Produce, LockInv, TypeOK
      <4>. QED
        BY <2>1, <4>1 DEF CopiesCostTries
    <3>. QED
      BY <3>2, <3>3
  <2>. QED
    BY <2>2 DEF CopiesCostTries
<1>2. ASSUME NEW m \in queue, BrokerAppend(m) PROVE CopiesCostTries'
  <2>1. m.ev \in Events /\ tries' = tries
    BY <1>2 DEF BrokerAppend, LockInv, TypeOK, Message
  <2>2. ASSUME NEW e \in Events
        PROVE  /\ IsFiniteSet(Unstored(e)')
               /\ copies'[e] + Cardinality(Unstored(e)') <= tries'[e]
    <3>1. Cardinality(Unstored(e)) \in Nat
      BY FS_CardinalityType DEF CopiesCostTries
    <3>2. Stored(m).stored
      BY DEF Stored
    <3>3. Unstored(e)' = Unstored(e) \ {m}
      BY <1>2, <3>2 DEF BrokerAppend, Unstored
    <3>4. /\ IsFiniteSet(Unstored(e)')
          /\ Cardinality(Unstored(e)') = IF m \in Unstored(e)
                THEN Cardinality(Unstored(e)) - 1 ELSE Cardinality(Unstored(e))
      BY <3>3, FS_RemoveElement DEF CopiesCostTries
    <3>5. CASE e = m.ev
      <4>1. m \in Unstored(e) /\ copies'[e] = copies[e] + 1
        BY <1>2, <3>5 DEF BrokerAppend, Unstored, LockInv, TypeOK
      <4>. QED
        BY <2>1, <3>1, <3>4, <4>1 DEF CopiesCostTries, LockInv, TypeOK
    <3>6. CASE e # m.ev
      <4>1. m \notin Unstored(e) /\ copies'[e] = copies[e]
        BY <1>2, <3>6 DEF BrokerAppend, Unstored, LockInv, TypeOK
      <4>. QED
        BY <2>1, <3>4, <4>1 DEF CopiesCostTries
    <3>. QED
      BY <3>5, <3>6
  <2>. QED
    BY <2>2 DEF CopiesCostTries
<1>3. CASE queue' \subseteq queue /\ UNCHANGED <<tries, copies>>
  BY <1>3, FewerUnstored
<1>. QED
  BY <1>1, <1>2, <1>3
  DEF Next, Dispatch, vars, kafkaVars, CreateIncident, ListPending, LockRow,
      SkipRow, RejectPayload, RefuseProduce, FlushDone, FlushTimeout,
      CommitPublished, CommitDeferred, DatabaseError, BrokerAck,
      ExpireMessage, Tick, Crash

-----------------------------------------------------------------------------
(* The theorems *)

LEMMA InitTopicInv == Init => TopicInv
  BY InitLockInv
  DEF Init, TopicInv, StoredIsInTopic, FlushIsHonest, PublishedIsInTopic

LEMMA TopicInvStep == TopicInv /\ [Next]_vars => TopicInv'
  BY LockInvStep, StoredStep, FlushStep, PublishedStep DEF TopicInv

(* No flush that timed out and no delivery error is ever taken for an      *)
(* acknowledgement: a row is marked published only when the topic holds    *)
(* the event.                                                              *)
THEOREM PublishedIsInTopicHolds == Spec => []PublishedIsInTopic
<1>1. Spec => []TopicInv
  BY InitTopicInv, TopicInvStep, PTL DEF Spec
<1>2. TopicInv => PublishedIsInTopic
  BY DEF TopicInv
<1>. QED
  BY <1>1, <1>2, PTL

LEMMA InitCountInv == Init => CountInv
<1>. SUFFICES ASSUME Init PROVE CountInv
  OBVIOUS
<1>1. \A e \in Events : Unstored(e) = {} /\ copies[e] = 0 /\ tries[e] = 0
  BY DEF Init, Unstored
<1>2. CopiesCostTries
  BY <1>1, FS_EmptySet DEF CopiesCostTries
<1>3. TriesCostFaults
  BY <1>1 DEF TriesCostFaults, Init
<1>. QED
  BY <1>2, <1>3, InitLockInv DEF CountInv

LEMMA CountInvStep == CountInv /\ [Next]_vars => CountInv'
  BY LockInvStep, TriesStep, CopiesStep DEF CountInv

(* However many threads and processes race for a row, every copy of an     *)
(* event beyond the first costs a failure.                                 *)
THEOREM NoDuplicateWithoutFaultHolds == Spec => []NoDuplicateWithoutFault
<1>1. Spec => []CountInv
  BY InitCountInv, CountInvStep, PTL DEF Spec
<1>2. CountInv => NoDuplicateWithoutFault
  <2>. SUFFICES ASSUME CountInv, NEW e \in Events
                PROVE  copies[e] <= 1 + faults
    BY DEF NoDuplicateWithoutFault
  <2>1. Cardinality(Unstored(e)) \in Nat
    BY FS_CardinalityType DEF CountInv, CopiesCostTries
  <2>. QED
    BY <2>1 DEF CountInv, CopiesCostTries, TriesCostFaults, LockInv, TypeOK
<1>. QED
  BY <1>1, <1>2, PTL

LEMMA FinalStep ==
  ASSUME LockInv, [Next]_vars, NEW e \in Events, row[e] = "published"
  PROVE  row'[e] = "published" /\ attempts'[e] = attempts[e] /\ tries'[e] = tries[e]
<1>. USE DEF LockInv, TypeOK, StagedBeforeDispatch, OneHolder, InTransaction,
              rowVars, threadVars, kafkaVars
<1>1. ASSUME NEW t \in Threads, NEW d \in Events, CreateIncident(t, d)
      PROVE  row'[e] = "published" /\ attempts'[e] = attempts[e] /\ tries'[e] = tries[e]
  BY <1>1 DEF CreateIncident
<1>2. ASSUME NEW t \in Threads, ListPending(t)
      PROVE  row'[e] = "published" /\ attempts'[e] = attempts[e] /\ tries'[e] = tries[e]
  BY <1>2 DEF ListPending, TakeNext, Rest, Oldest, Batches, Due
<1>3. ASSUME NEW t \in Threads, LockRow(t)
      PROVE  row'[e] = "published" /\ attempts'[e] = attempts[e] /\ tries'[e] = tries[e]
  BY <1>3 DEF LockRow, GoTo
<1>4. ASSUME NEW t \in Threads, SkipRow(t)
      PROVE  row'[e] = "published" /\ attempts'[e] = attempts[e] /\ tries'[e] = tries[e]
  BY <1>4 DEF SkipRow, TakeNext, Rest, Oldest
<1>5. ASSUME NEW t \in Threads, Produce(t)
      PROVE  row'[e] = "published" /\ attempts'[e] = attempts[e] /\ tries'[e] = tries[e]
  BY <1>5 DEF Produce, GoTo
<1>6. ASSUME NEW t \in Threads, RejectPayload(t)
      PROVE  row'[e] = "published" /\ attempts'[e] = attempts[e] /\ tries'[e] = tries[e]
  BY <1>6 DEF RejectPayload, GoTo
<1>7. ASSUME NEW t \in Threads, RefuseProduce(t)
      PROVE  row'[e] = "published" /\ attempts'[e] = attempts[e] /\ tries'[e] = tries[e]
  BY <1>7 DEF RefuseProduce, GoTo
<1>8. ASSUME NEW t \in Threads, FlushDone(t)
      PROVE  row'[e] = "published" /\ attempts'[e] = attempts[e] /\ tries'[e] = tries[e]
  BY <1>8 DEF FlushDone, GoTo
<1>9. ASSUME NEW t \in Threads, FlushTimeout(t)
      PROVE  row'[e] = "published" /\ attempts'[e] = attempts[e] /\ tries'[e] = tries[e]
  BY <1>9 DEF FlushTimeout, GoTo
<1>10. ASSUME NEW t \in Threads, CommitPublished(t)
      PROVE  row'[e] = "published" /\ attempts'[e] = attempts[e] /\ tries'[e] = tries[e]
  BY <1>10 DEF CommitPublished, TakeNext, Rest, Oldest
<1>11. ASSUME NEW t \in Threads, CommitDeferred(t)
      PROVE  row'[e] = "published" /\ attempts'[e] = attempts[e] /\ tries'[e] = tries[e]
  BY <1>11 DEF CommitDeferred, Rest
<1>12. ASSUME NEW t \in Threads, DatabaseError(t)
      PROVE  row'[e] = "published" /\ attempts'[e] = attempts[e] /\ tries'[e] = tries[e]
  BY <1>12 DEF DatabaseError, Rest
<1>13. ASSUME NEW m \in queue, BrokerAppend(m)
      PROVE  row'[e] = "published" /\ attempts'[e] = attempts[e] /\ tries'[e] = tries[e]
  BY <1>13 DEF BrokerAppend, Stored, Message
<1>14. ASSUME NEW m \in queue, BrokerAck(m)
      PROVE  row'[e] = "published" /\ attempts'[e] = attempts[e] /\ tries'[e] = tries[e]
  BY <1>14 DEF BrokerAck, Message
<1>15. ASSUME NEW m \in queue, ExpireMessage(m)
      PROVE  row'[e] = "published" /\ attempts'[e] = attempts[e] /\ tries'[e] = tries[e]
  BY <1>15 DEF ExpireMessage, Message
<1>16. CASE Tick
  BY <1>16 DEF Tick
<1>17. ASSUME NEW p \in Procs, Crash(p)
      PROVE  row'[e] = "published" /\ attempts'[e] = attempts[e] /\ tries'[e] = tries[e]
  BY <1>17 DEF Crash, Remaining
<1>18. CASE UNCHANGED vars
  BY <1>18 DEF vars
<1>. QED
  BY <1>1, <1>2, <1>3, <1>4, <1>5, <1>6, <1>7, <1>8, <1>9, <1>10, <1>11, <1>12,
     <1>13, <1>14, <1>15, <1>16, <1>17, <1>18 DEF Next, Dispatch

(* Once a row is marked published no dispatcher counts another attempt for *)
(* it, produces its event again or takes the mark back.                    *)
THEOREM PublishedIsFinalHolds == Spec => PublishedIsFinal
<1>1. Spec => []LockInv
  BY InitLockInv, LockInvStep, PTL DEF Spec
<1>2. LockInv /\ [Next]_vars =>
        [\A e \in Events : row[e] = "published" =>
            /\ row'[e] = "published"
            /\ attempts'[e] = attempts[e]
            /\ tries'[e] = tries[e]]_vars
  BY FinalStep
<1>. QED
  BY <1>1, <1>2, PTL DEF Spec, PublishedIsFinal

-----------------------------------------------------------------------------
(* Refinement *)

LEMMA InitRefines == Init => AtLeastOnce!Init
  BY DEF Init, AtLeastOnce!Init

LEMMA StepRefines ==
  ASSUME TopicInv, [Next]_vars
  PROVE  [AtLeastOnce!Next]_(AtLeastOnce!vars)
<1>. USE DEF TopicInv, LockInv, TypeOK, StagedBeforeDispatch, InTransaction,
             AtLeastOnce!vars
<1>1. ASSUME NEW t \in Threads, NEW e \in Events, CreateIncident(t, e)
      PROVE  AtLeastOnce!Next
  BY <1>1 DEF CreateIncident, kafkaVars, AtLeastOnce!Next, AtLeastOnce!Accept
<1>2. ASSUME NEW t \in Threads, CommitPublished(t)
      PROVE  AtLeastOnce!Next
  <2>1. AtLeastOnce!Confirm(cur[t])
    BY <1>2 DEF CommitPublished, OneHolder, FlushIsHonest, kafkaVars,
                AtLeastOnce!Confirm
  <2>. QED
    BY <1>2, <2>1 DEF CommitPublished, AtLeastOnce!Next
<1>3. ASSUME NEW m \in queue, BrokerAppend(m)
      PROVE  AtLeastOnce!Next
  <2>1. AtLeastOnce!Append(m.ev)
    BY <1>3 DEF BrokerAppend, rowVars, AtLeastOnce!Append
  <2>. QED
    BY <1>3, <2>1 DEF Message, AtLeastOnce!Next
<1>4. CASE UNCHANGED <<row, copies>>
  BY <1>4
<1>. QED
  BY <1>1, <1>2, <1>3, <1>4
  DEF Next, Dispatch, vars, rowVars, kafkaVars, ListPending, LockRow, SkipRow,
      Produce, RejectPayload, RefuseProduce, FlushDone, FlushTimeout,
      CommitDeferred, DatabaseError, BrokerAck, ExpireMessage, Tick, Crash

(* The outbox implements at-least-once delivery: committing an incident    *)
(* accepts its event, the broker's append is a copy on the topic, and the  *)
(* commit of published_at is the confirmation.                             *)
THEOREM OutboxImplementsDelivery == Spec => ImplementsDelivery
<1>1. Spec => []TopicInv
  BY InitTopicInv, TopicInvStep, PTL DEF Spec
<1>. QED
  BY <1>1, InitRefines, StepRefines, PTL
  DEF Spec, ImplementsDelivery, AtLeastOnce!Spec
=============================================================================
