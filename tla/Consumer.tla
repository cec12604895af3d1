------------------------------ MODULE Consumer ------------------------------
(***************************************************************************)
(* The worker loop of KafkaIncidentWorker on one partition of the topic.   *)
(* Messages are consumed in offset order, and only a commit moves the      *)
(* offset from which the next owner of the partition starts.  What the     *)
(* handler does with a message is one step here; AgentExecution has its    *)
(* details.                                                                *)
(*                                                                         *)
(* A worker that loses the partition while it handles a message keeps      *)
(* running, and notices at its next poll, commit or seek.                  *)
(***************************************************************************)
EXTENDS Naturals, Sequences

CONSTANTS
    Workers,
    Events,         \* what a message of the topic may carry
    Malformed,      \* the ones that do not deserialize
    MaxLog,         \* bound on the messages in the partition
    MaxRebalances,  \* bound on new assignments of the partition
    MaxCrashes      \* bound on worker crashes

NoWorker == "no worker"

ASSUME ConsumerAssumption ==
    /\ Malformed \subseteq Events
    /\ MaxLog \in Nat
    /\ MaxRebalances \in Nat
    /\ MaxCrashes \in Nat
    /\ NoWorker \notin Workers

VARIABLES
    log,        \* the messages of the partition
    committed,  \* how many messages the consumer group has committed
    owner,      \* the worker the partition is assigned to
    processed,  \* events with a row in processed_events
    pc,         \* where each worker is
    position,   \* the offset each worker fetches next
    held,       \* the offset each worker is handling, or 0
    rebalances,
    crashes

workVars == <<pc, position, held>>
boundVars == <<rebalances, crashes>>
vars == <<log, committed, owner, processed, workVars, boundVars>>

Handled(o) == log[o] \in Malformed \cup processed

-----------------------------------------------------------------------------
Init ==
    /\ log = <<>>
    /\ committed = 0
    /\ owner = NoWorker
    /\ processed = {}
    /\ pc = [w \in Workers |-> "poll"]
    /\ position = [w \in Workers |-> 1]
    /\ held = [w \in Workers |-> 0]
    /\ rebalances = 0
    /\ crashes = 0

-----------------------------------------------------------------------------
(* The broker (external) *)

Publish(e) ==
    /\ Len(log) < MaxLog
    /\ log' = Append(log, e)
    /\ UNCHANGED <<committed, owner, processed, workVars, boundVars>>

(* The partition is assigned, to a worker that may still be busy with one  *)
(* of its messages; it is consumed from the committed offset on.           *)
Assign(w) ==
    /\ owner # w
    /\ owner # NoWorker => rebalances < MaxRebalances
    /\ rebalances' = IF owner = NoWorker THEN rebalances ELSE rebalances + 1
    /\ owner' = w
    /\ position' = [position EXCEPT ![w] = committed + 1]
    /\ UNCHANGED <<log, committed, processed, pc, held, crashes>>

-----------------------------------------------------------------------------
(* The loop of run() *)

Poll(w) ==
    /\ pc[w] = "poll"
    /\ owner = w
    /\ position[w] <= Len(log)
    /\ held' = [held EXCEPT ![w] = position[w]]
    /\ position' = [position EXCEPT ![w] = @ + 1]
    /\ pc' = [pc EXCEPT ![w] = "handle"]
    /\ UNCHANGED <<log, committed, owner, processed, boundVars>>

(* MALFORMED, or DUPLICATE: the event has its marker. *)
Skip(w) ==
    /\ pc[w] = "handle"
    /\ Handled(held[w])
    /\ pc' = [pc EXCEPT ![w] = "commit"]
    /\ UNCHANGED <<log, committed, owner, processed, position, held, boundVars>>

(* PROCESSED or FAILED: the workflow has settled the event and the marker  *)
(* is written.                                                             *)
Process(w) ==
    /\ pc[w] = "handle"
    /\ ~ Handled(held[w])
    /\ processed' = processed \cup {log[held[w]]}
    /\ pc' = [pc EXCEPT ![w] = "commit"]
    /\ UNCHANGED <<log, committed, owner, position, held, boundVars>>

(* Faulty variant: a retry is taken for a handled message. *)
DeferAndCommit(w) ==
    /\ pc[w] = "handle"
    /\ log[held[w]] \notin Malformed
    /\ pc' = [pc EXCEPT ![w] = "commit"]
    /\ UNCHANGED <<log, committed, owner, processed, position, held, boundVars>>

(* RETRY, or an exception: nothing the consumer can see has changed. *)
Defer(w) ==
    /\ pc[w] = "handle"
    /\ log[held[w]] \notin Malformed
    /\ pc' = [pc EXCEPT ![w] = "seek"]
    /\ UNCHANGED <<log, committed, owner, processed, position, held, boundVars>>

(* The group takes the offset of the owner.  Whether it also takes the one *)
(* of a worker that has lost the partition is left open: here it may, and  *)
(* LoseCommit is the refusal.                                              *)
Commit(w) ==
    /\ pc[w] = "commit"
    /\ committed' = held[w]
    /\ held' = [held EXCEPT ![w] = 0]
    /\ pc' = [pc EXCEPT ![w] = "poll"]
    /\ UNCHANGED <<log, owner, processed, position, boundVars>>

(* KafkaException: the group has refused the offset, or its answer is lost.*)
LoseCommit(w) ==
    /\ pc[w] = "commit"
    /\ committed' \in {committed, held[w]}
    /\ pc' = [pc EXCEPT ![w] = "seek"]
    /\ UNCHANGED <<log, owner, processed, position, held, boundVars>>

(* Faulty variants: the next poll goes on behind the message; the next     *)
(* poll starts from the beginning.                                         *)
SeekNowhere(w) ==
    /\ pc[w] = "seek"
    /\ held' = [held EXCEPT ![w] = 0]
    /\ pc' = [pc EXCEPT ![w] = "poll"]
    /\ UNCHANGED <<log, committed, owner, processed, position, boundVars>>

SeekToStart(w) ==
    /\ pc[w] = "seek"
    /\ position' = [position EXCEPT ![w] = 1]
    /\ held' = [held EXCEPT ![w] = 0]
    /\ pc' = [pc EXCEPT ![w] = "poll"]
    /\ UNCHANGED <<log, committed, owner, processed, boundVars>>

(* Seeking a partition that is no longer assigned raises, which ends the   *)
(* process; it starts again without an assignment.                         *)
Seek(w) ==
    /\ pc[w] = "seek"
    /\ position' = [position EXCEPT ![w] = IF owner = w THEN held[w] ELSE @]
    /\ held' = [held EXCEPT ![w] = 0]
    /\ pc' = [pc EXCEPT ![w] = "poll"]
    /\ UNCHANGED <<log, committed, owner, processed, boundVars>>

Crash(w) ==
    /\ crashes < MaxCrashes
    /\ crashes' = crashes + 1
    /\ owner' = IF owner = w THEN NoWorker ELSE owner
    /\ held' = [held EXCEPT ![w] = 0]
    /\ pc' = [pc EXCEPT ![w] = "poll"]
    /\ UNCHANGED <<log, committed, processed, position, rebalances>>

-----------------------------------------------------------------------------
Work(w) ==
    \/ Poll(w) \/ Skip(w) \/ Process(w) \/ Defer(w)
    \/ Commit(w) \/ LoseCommit(w) \/ Seek(w)

Next ==
    \/ \E e \in Events : Publish(e)
    \/ \E w \in Workers : Assign(w) \/ Work(w) \/ Crash(w)

Spec == Init /\ [][Next]_vars

(* Workers keep running and the partition does not stay without an owner.  *)
(* The handler settles an event that is redelivered again and again        *)
(* (EventuallySettled of AgentExecution), and a marker lookup or a commit  *)
(* that is repeated again and again succeeds.                              *)
Fairness ==
    /\ WF_vars(owner = NoWorker /\ \E w \in Workers : Assign(w))
    /\ \A w \in Workers :
        /\ WF_vars(Work(w))
        /\ SF_vars(Skip(w) \/ Process(w))
        /\ SF_vars(Commit(w))

-----------------------------------------------------------------------------
(* Properties *)

(* Every variable stays in its domain; no position is beyond the end of    *)
(* the partition.                                                          *)
TypeOK ==
    /\ log \in Seq(Events)
    /\ committed \in 0..Len(log)
    /\ owner \in Workers \cup {NoWorker}
    /\ processed \subseteq Events
    /\ pc \in [Workers -> {"poll", "handle", "commit", "seek"}]
    /\ position \in [Workers -> 1..(Len(log) + 1)]
    /\ held \in [Workers -> 0..Len(log)]
    /\ rebalances \in 0..MaxRebalances
    /\ crashes \in 0..MaxCrashes

(* The group never commits past a message that was not handled: neither a  *)
(* message put off behind its successors, nor the late commit of a worker  *)
(* that has lost the partition, nor a crash makes one disappear            *)
(* (runner.py:221-260, README "Delivery and failure semantics").           *)
NoMessageSkipped == \A o \in 1..committed : Handled(o)

(* As long as the partition is not taken from a living worker, the         *)
(* committed offset does not go back, whatever is retried and whichever    *)
(* answer to a commit is lost (runner.py:226-260).                         *)
OffsetStays == [][rebalances = 0 => committed' >= committed]_vars
=============================================================================
