------------------------------- MODULE Outbox -------------------------------
(***************************************************************************)
(* The transactional outbox of the API: POST /incidents commits the        *)
(* incident and its incident.created event in one transaction, then tries  *)
(* to publish the event at once; a retry thread in every API process       *)
(* publishes what is still pending.  Every process has one Kafka producer, *)
(* shared by its request threads and its retry thread.                     *)
(*                                                                         *)
(* A step of a thread is one database transaction, or one return of a call *)
(* into the producer.  The lock a thread holds on an outbox row is not a   *)
(* variable: the row is locked exactly while the transaction of            *)
(* dispatch_event is open (Holds).                                         *)
(***************************************************************************)
EXTENDS Naturals, FiniteSets

CONSTANTS
    Events,         \* the events that may ever be staged
    Malformed,      \* events whose stored payload no longer validates
    Requests,       \* request threads
    Retriers,       \* outbox retry threads
    Procs,          \* API processes
    ProcOf,         \* the process of each thread
    BatchSize,      \* kafka_outbox_batch_size
    PollInterval,   \* kafka_outbox_poll_interval_seconds
    MaxFaults       \* bound on broker, database and process failures

Threads == Requests \cup Retriers

ASSUME OutboxAssumption ==
    /\ Malformed \subseteq Events
    /\ Requests \cap Retriers = {}
    /\ ProcOf \in [Threads -> Procs]
    /\ BatchSize \in Nat \ {0}
    /\ PollInterval \in Nat \ {0}
    /\ MaxFaults \in Nat

NoEvent == "no event"

ASSUME NoEventAssumption == NoEvent \notin Events

VARIABLES
    row,        \* outbox row: "absent", "pending" or "published"
    created,    \* rank of created_at among the staged rows, 0 while absent
    attempts,   \* outbox_events.attempts, saturating at BackoffCap
    backoff,    \* seconds until next_attempt_at, 0 once due
    pc,         \* where each thread is
    cur,        \* the event each thread dispatches
    batch,      \* events left in the batch of each retry thread
    queue,      \* messages the producers have not reported on yet
    failed,     \* the delivery callback of the thread's publish saw an error
    tries,      \* produce() calls made for each event
    copies,     \* copies of each event in the topic
    faults      \* failures so far

rowVars    == <<row, created, attempts, backoff>>
threadVars == <<pc, cur, batch>>
kafkaVars  == <<queue, failed, tries, copies>>
vars       == <<rowVars, threadVars, kafkaVars, faults>>

Message == [ev : Events, try : Nat, th : Threads, stored : BOOLEAN]

-----------------------------------------------------------------------------
(* Helpers *)

BackoffCap == 6

(* min(2 ** min(attempt, 6), 60) for attempt = 1, 2, ... *)
RetryDelay == <<2, 4, 8, 16, 32, 60>>

Bump(n) == IF n < BackoffCap THEN n + 1 ELSE n

InTransaction == {"produce", "flush", "settle", "defer"}

Holds(t, e) == cur[t] = e /\ pc[t] \in InTransaction

Locked(e) == \E t \in Threads : Holds(t, e)

Staged == {e \in Events : row[e] # "absent"}

Due == {e \in Events : row[e] = "pending" /\ backoff[e] = 0}

Oldest(S) == {e \in S : \A d \in S : created[e] <= created[d]}

(* The BatchSize oldest due rows; all of them when there are fewer. *)
Batches ==
    {B \in SUBSET Due :
        /\ Cardinality(B) <= BatchSize
        /\ Cardinality(B) < BatchSize => B = Due
        /\ \A b \in B, d \in Due \ B : created[b] < created[d]}

(* What the producer of a process still has to report on: the number       *)
(* flush() returns counts the messages of every thread of the process.     *)
Remaining(p) == {m \in queue : ProcOf[m.th] = p}

IsCurrent(m) == cur[m.th] = m.ev /\ pc[m.th] = "flush" /\ m.try = tries[m.ev]

UseFault == faults < MaxFaults /\ faults' = faults + 1

-----------------------------------------------------------------------------
Init ==
    /\ row      = [e \in Events |-> "absent"]
    /\ created  = [e \in Events |-> 0]
    /\ attempts = [e \in Events |-> 0]
    /\ backoff  = [e \in Events |-> 0]
    /\ pc       = [t \in Threads |-> IF t \in Retriers THEN "poll" ELSE "idle"]
    /\ cur      = [t \in Threads |-> NoEvent]
    /\ batch    = [t \in Threads |-> {}]
    /\ queue    = {}
    /\ failed   = [t \in Threads |-> FALSE]
    /\ tries    = [e \in Events |-> 0]
    /\ copies   = [e \in Events |-> 0]
    /\ faults   = 0

-----------------------------------------------------------------------------
(* Thread control *)

(* The thread leaves dispatch_event and has no event to go on with: a      *)
(* request answers its client, a retry thread waits for the next poll.     *)
Rest(t) ==
    /\ pc' = [pc EXCEPT ![t] = "idle"]
    /\ cur' = [cur EXCEPT ![t] = NoEvent]
    /\ batch' = [batch EXCEPT ![t] = {}]

(* Take the oldest event of S next, or rest when there is none. *)
TakeNext(t, S) ==
    \/ S = {} /\ Rest(t)
    \/ \E e \in Oldest(S) :
        /\ pc' = [pc EXCEPT ![t] = "lookup"]
        /\ cur' = [cur EXCEPT ![t] = e]
        /\ batch' = [batch EXCEPT ![t] = S \ {e}]

GoTo(t, l) ==
    /\ pc' = [pc EXCEPT ![t] = l]
    /\ UNCHANGED <<cur, batch>>

-----------------------------------------------------------------------------
(* Request threads: analyze_and_persist_incident *)

(* One transaction stages the incident and its event; a failed commit      *)
(* rolls both back and leaves nothing to model.                            *)
CreateIncident(t, e) ==
    /\ t \in Requests
    /\ pc[t] = "idle"
    /\ row[e] = "absent"
    /\ row' = [row EXCEPT ![e] = "pending"]
    /\ created' = [created EXCEPT ![e] = Cardinality(Staged) + 1]
    /\ pc' = [pc EXCEPT ![t] = "lookup"]
    /\ cur' = [cur EXCEPT ![t] = e]
    /\ UNCHANGED <<attempts, backoff, batch, kafkaVars, faults>>

(* Retry threads: dispatch_pending *)

ListPending(t) ==
    /\ t \in Retriers
    /\ pc[t] = "poll"
    /\ \E B \in Batches : TakeNext(t, B)
    /\ UNCHANGED <<rowVars, kafkaVars, faults>>

-----------------------------------------------------------------------------
(* dispatch_event *)

(* Faulty variants: the row is read without a lock; published rows too. *)
LockRowUnlocked(t) ==
    /\ pc[t] = "lookup"
    /\ row[cur[t]] = "pending"
    /\ GoTo(t, "produce")
    /\ UNCHANGED <<rowVars, kafkaVars, faults>>

LockAnyRow(t) ==
    /\ pc[t] = "lookup"
    /\ ~ Locked(cur[t])
    /\ GoTo(t, "produce")
    /\ UNCHANGED <<rowVars, kafkaVars, faults>>

(* SELECT ... FOR UPDATE SKIP LOCKED of a row that is still unpublished. *)
LockRow(t) ==
    /\ pc[t] = "lookup"
    /\ row[cur[t]] = "pending"
    /\ ~ Locked(cur[t])
    /\ GoTo(t, "produce")
    /\ UNCHANGED <<rowVars, kafkaVars, faults>>

(* UNAVAILABLE: published meanwhile, or locked by another dispatcher. *)
SkipRow(t) ==
    /\ pc[t] = "lookup"
    /\ row[cur[t]] # "pending" \/ Locked(cur[t])
    /\ TakeNext(t, batch[t])
    /\ UNCHANGED <<rowVars, kafkaVars, faults>>

Produce(t) ==
    /\ pc[t] = "produce"
    /\ cur[t] \notin Malformed
    /\ tries' = [tries EXCEPT ![cur[t]] = @ + 1]
    /\ queue' = queue \cup
            {[ev |-> cur[t], try |-> tries[cur[t]] + 1, th |-> t, stored |-> FALSE]}
    /\ failed' = [failed EXCEPT ![t] = FALSE]
    /\ GoTo(t, "flush")
    /\ UNCHANGED <<rowVars, copies, faults>>

(* The payload does not validate: ValueError, before anything is produced. *)
RejectPayload(t) ==
    /\ pc[t] = "produce"
    /\ cur[t] \in Malformed
    /\ GoTo(t, "defer")
    /\ UNCHANGED <<rowVars, kafkaVars, faults>>

(* ensure_topic or produce() fails: EventPublishError, nothing queued. *)
RefuseProduce(t) ==
    /\ pc[t] = "produce"
    /\ cur[t] \notin Malformed
    /\ GoTo(t, "defer")
    /\ UseFault
    /\ UNCHANGED <<rowVars, kafkaVars>>

(* Faulty variant: the error of the delivery callback is dropped. *)
FlushDoneIgnoringError(t) ==
    /\ pc[t] = "flush"
    /\ Remaining(ProcOf[t]) = {}
    /\ GoTo(t, "settle")
    /\ UNCHANGED <<rowVars, kafkaVars, faults>>

(* flush() returned 0: every message of the process has been reported on. *)
FlushDone(t) ==
    /\ pc[t] = "flush"
    /\ Remaining(ProcOf[t]) = {}
    /\ GoTo(t, IF failed[t] THEN "defer" ELSE "settle")
    /\ UNCHANGED <<rowVars, kafkaVars, faults>>

(* flush() timed out with messages of the process, of this thread or of    *)
(* another one, still to be reported on.                                   *)
FlushTimeout(t) ==
    /\ pc[t] = "flush"
    /\ Remaining(ProcOf[t]) # {}
    /\ GoTo(t, "defer")
    /\ UseFault
    /\ UNCHANGED <<rowVars, kafkaVars>>

CommitPublished(t) ==
    /\ pc[t] = "settle"
    /\ row' = [row EXCEPT ![cur[t]] = "published"]
    /\ attempts' = [attempts EXCEPT ![cur[t]] = Bump(@)]
    /\ TakeNext(t, batch[t])
    /\ UNCHANGED <<created, backoff, kafkaVars, faults>>

(* Faulty variant: a failed attempt is due again at once. *)
CommitDeferredNoBackoff(t) ==
    /\ pc[t] = "defer"
    /\ attempts' = [attempts EXCEPT ![cur[t]] = Bump(@)]
    /\ Rest(t)
    /\ UNCHANGED <<row, created, backoff, kafkaVars, faults>>

(* DEFERRED also ends the batch of a retry thread. *)
CommitDeferred(t) ==
    /\ pc[t] = "defer"
    /\ attempts' = [attempts EXCEPT ![cur[t]] = Bump(@)]
    /\ backoff' = [backoff EXCEPT ![cur[t]] = RetryDelay[Bump(attempts[cur[t]])]]
    /\ Rest(t)
    /\ UNCHANGED <<row, created, kafkaVars, faults>>

(* A query or a commit fails: the session rolls back, the row stays        *)
(* pending, and both callers swallow the exception.                        *)
DatabaseError(t) ==
    /\ pc[t] \in {"poll", "lookup", "settle", "defer"}
    /\ Rest(t)
    /\ UseFault
    /\ UNCHANGED <<rowVars, kafkaVars>>

Dispatch(t) ==
    \/ ListPending(t)
    \/ LockRow(t)
    \/ SkipRow(t)
    \/ Produce(t)
    \/ RejectPayload(t)
    \/ FlushDone(t)
    \/ CommitPublished(t)
    \/ CommitDeferred(t)

-----------------------------------------------------------------------------
(* The Kafka client and broker (external) *)

Stored(m) == [ev |-> m.ev, try |-> m.try, th |-> m.th, stored |-> TRUE]

BrokerAppend(m) ==
    /\ m \in queue
    /\ ~ m.stored
    /\ queue' = (queue \ {m}) \cup {Stored(m)}
    /\ copies' = [copies EXCEPT ![m.ev] = @ + 1]
    /\ UNCHANGED <<rowVars, threadVars, failed, tries, faults>>

BrokerAck(m) ==
    /\ m \in queue
    /\ m.stored
    /\ queue' = queue \ {m}
    /\ UNCHANGED <<rowVars, threadVars, failed, tries, copies, faults>>

(* delivery.timeout.ms: the callback reports an error although the message *)
(* may have been stored.  Only the publish that is still waiting sees it.  *)
ExpireMessage(m) ==
    /\ m \in queue
    /\ queue' = queue \ {m}
    /\ failed' = [failed EXCEPT ![m.th] = @ \/ IsCurrent(m)]
    /\ UseFault
    /\ UNCHANGED <<rowVars, threadVars, tries, copies>>

-----------------------------------------------------------------------------
(* Time and processes *)

(* A poll interval passes.  A retry thread whose wait has ended polls      *)
(* before the next interval ends.                                          *)
Tick ==
    /\ \A t \in Retriers : pc[t] # "poll"
    /\ \/ \E t \in Retriers : pc[t] = "idle"
       \/ \E e \in Events : backoff[e] > 0
    /\ pc' = [t \in Threads |->
                IF t \in Retriers /\ pc[t] = "idle" THEN "poll" ELSE pc[t]]
    /\ backoff' = [e \in Events |->
                    IF backoff[e] > PollInterval THEN backoff[e] - PollInterval
                                                 ELSE 0]
    /\ UNCHANGED <<row, created, attempts, cur, batch, kafkaVars, faults>>

(* The process dies and is started again: its transactions roll back, its  *)
(* queued messages are lost, its retry thread polls at once.               *)
Crash(p) ==
    /\ UseFault
    /\ pc' = [t \in Threads |-> IF ProcOf[t] # p THEN pc[t]
                                ELSE IF t \in Retriers THEN "poll" ELSE "idle"]
    /\ cur' = [t \in Threads |-> IF ProcOf[t] = p THEN NoEvent ELSE cur[t]]
    /\ batch' = [t \in Threads |-> IF ProcOf[t] = p THEN {} ELSE batch[t]]
    /\ queue' = queue \ Remaining(p)
    /\ UNCHANGED <<rowVars, failed, tries, copies>>

-----------------------------------------------------------------------------
Next ==
    \/ \E t \in Threads, e \in Events : CreateIncident(t, e)
    \/ \E t \in Threads : Dispatch(t)
    \/ \E t \in Threads : RefuseProduce(t) \/ FlushTimeout(t) \/ DatabaseError(t)
    \/ \E m \in queue : BrokerAppend(m) \/ BrokerAck(m) \/ ExpireMessage(m)
    \/ Tick
    \/ \E p \in Procs : Crash(p)

Spec == Init /\ [][Next]_vars

(* Threads run, the broker answers while it is up (failures are bounded by *)
(* MaxFaults), and time passes.  Nobody has to create an incident.         *)
Fairness ==
    /\ \A t \in Threads : WF_vars(Dispatch(t))
    /\ WF_vars(\E m \in queue : BrokerAppend(m))
    /\ WF_vars(\E m \in queue : BrokerAck(m))
    /\ WF_vars(Tick)

LiveSpec == Spec /\ Fairness
-----------------------------------------------------------------------------
(* Properties *)

(* Every variable stays in its domain. *)
TypeOK ==
    /\ row \in [Events -> {"absent", "pending", "published"}]
    /\ created \in [Events -> Nat]
    /\ attempts \in [Events -> 0..BackoffCap]
    /\ backoff \in [Events -> Nat]
    /\ pc \in [Threads -> {"idle", "poll", "lookup"} \cup InTransaction]
    /\ cur \in [Threads -> Events \cup {NoEvent}]
    /\ batch \in [Threads -> SUBSET Events]
    /\ queue \in SUBSET Message
    /\ failed \in [Threads -> BOOLEAN]
    /\ tries \in [Events -> Nat]
    /\ copies \in [Events -> Nat]
    /\ faults \in 0..MaxFaults

(* A row is marked published only when the topic holds the event: neither  *)
(* a flush that timed out on a neighbour's message nor a delivery error    *)
(* reported to another thread is taken for an acknowledgement              *)
(* (dispatcher.py:73-117, producer.py:159-170).                            *)
PublishedIsInTopic ==
    \A e \in Events : row[e] = "published" => copies[e] > 0

(* Request and retry threads of several processes race for the same rows;  *)
(* as long as nothing fails they never put an event on the topic twice     *)
(* (FOR UPDATE SKIP LOCKED, outbox.py:33-43), and every further copy costs *)
(* a failure.                                                              *)
NoDuplicateWithoutFault ==
    \A e \in Events : copies[e] <= 1 + faults

(* No dispatcher touches a row once another one has marked it published    *)
(* (the published_at filter and the lock of get_for_dispatch).             *)
PublishedIsFinal ==
    [][\A e \in Events : row[e] = "published" =>
            /\ row'[e] = "published"
            /\ attempts'[e] = attempts[e]
            /\ tries'[e] = tries[e]]_vars

(* Every committed event whose payload is valid is published in the end:   *)
(* after the API answered, after crashes, and although a row that can      *)
(* never be published is older and ends every batch it heads               *)
(* (dispatcher.py:150-155, README "Delivery and failure semantics").       *)
EventuallyPublished ==
    \A e \in Events \ Malformed : row[e] = "pending" ~> row[e] = "published"

(* The outbox implements at-least-once delivery. *)
AtLeastOnce == INSTANCE Delivery WITH
    status <- row, Deliverable <- Events \ Malformed

ImplementsDelivery == AtLeastOnce!Spec
=============================================================================
