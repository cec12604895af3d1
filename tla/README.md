# Verification of the AI support engineering platform

TLA+ models of the event-driven core of the platform, the TLC runs that check
them on small instances, and TLAPS proofs of the results that hold for every
size. All paths below are relative to the root of the repository.

    tlc -workers 2 -config Outbox_all.cfg MCOutbox
    tlapm OutboxProofs.tla

## 1. The system

An API process accepts an incident, commits it together with an
`incident.created` event (the transactional outbox) and publishes the event to
Kafka. A worker consumes the event, runs a controlled agent (plan, call a
read-only tool, record a step, answer) and persists an answer that waits for a
human review.

| component | state it keeps | operations | talks to |
|---|---|---|---|
| API intake (`app/services/incidents.py`) | incident row, outbox row | `analyze_and_persist_incident` | dispatcher, synchronously after its commit |
| Outbox dispatcher (`app/events/dispatcher.py`, `app/repositories/outbox.py`) | `outbox_events`: `published_at`, `attempts`, `next_attempt_at` | `dispatch_event`, `dispatch_pending`, the retry thread | PostgreSQL row locks, producer |
| Producer (`app/events/producer.py`) | one client per process, its queue, delivery callbacks | `ensure_topic`, `publish`, `flush` | Kafka |
| Worker loop (`app/workers/runner.py`) | consumer position and group membership | `run`, `handle`, seek, commit | Kafka, processor |
| Processor (`app/workers/processor.py`) | `processed_events` | `process` | workflow |
| Agent workflow (`app/agent/workflow.py`) | `agent_executions`, `agent_steps`, `ai_resolutions`; in memory: steps, repair count, signatures | `_claim`, `_load_steps`, budgets, `_plan`, tool and rejected steps, `_persist_final`, `_record_failure`, `_record_terminal_failure` | provider, tools |
| Tool executor (`app/agent/tools.py`) | none | `execute`, the six tools, `sanitize_value` | PostgreSQL (read only), retriever |
| Providers (`app/ai/providers/`) | usage counts only | `generate_structured`, `embed_texts` | Ollama |
| Review (`app/api/routes/incidents.py`, `app/repositories/agent.py`) | execution status, feedback rows | approve, reject, feedback | PostgreSQL |
| Knowledge (`app/knowledge/`) | documents, chunks, embeddings | ingest, chunk, retrieve | embedding provider |
| Legacy workflow (`app/ai/workflow.py`) | `ai_resolutions` | `resolve` | provider, retriever |

What is hard in it:

* several dispatchers race for one outbox row, and threads share a producer
  whose `flush()` counts and reports on each other's messages;
* a crash between Kafka's acknowledgement and the commit of `published_at`,
  between the answer, the idempotency marker and the offset commit, or between
  the two transactions of a terminal failure;
* a worker may lose its partition while it is busy (the session timeout and
  `max.poll.interval.ms`, `app/core/config.py:160-174`) and keeps running; `_claim_impl`
  takes a running execution over, so two workers may share one execution;
* a message that is put off must hold up the messages behind it, also when its
  partition moves to another worker and the answer to a commit is lost;
* read-modify-write of counters and statuses without a lock;
* two workers find no execution, which locks nothing, and both insert one;
* a worker that takes an execution over answers from results it restores from
  the trail, which were sanitized once more and cut at another depth;
* the runbooks are ingested again between a search and the answer that cites it;
* planner output is repaired by the server (aliases, literals that are filled
  in) before it is checked, and outages and bad answers count differently;
* the legacy workflow keeps two runs apart by a time stamp instead of a lock, and
  that only if they are of different events; what it completes or fails it loads
  without a lock and writes in part;
* a planner reply may raise an exception that nothing in the agent expects;
* several ingestors replace the chunks of one document under READ COMMITTED,
  each with the rows it happened to see;
* termination: a deferred row that heads every batch, a provider that never
  answers.

What makes each part correct:

* outbox: an event is called published only if the topic holds it; without
  failures nothing is published twice; every valid event is published in the end;
* worker and processor: the outcome is durable before the marker, the marker
  before the offset; every event is settled in the end;
* agent: budgets, guardrail and grounding hold over all attempts together; the
  audit trail is gapless and its counters exact; one answer, and it waits for
  its review;
* evidence: what a published answer cites was found by stored tool steps, what
  it calls its tools did run, an answer without evidence is escalated, and an
  outage of the provider never ends an incident;
* review: one decision, and it stands;
* legacy workflow: one run at a time and one outcome for as long as nothing it
  cannot prevent happens; every event marked, no outage that ends an incident;
* ingestion: the chunks of a document are always those of one version;
* chunking: no text is lost and the maximum is kept wherever words allow.

## 2. Modules

| module | role |
|---|---|
| `Delivery` | abstract specification: what at-least-once delivery promises |
| `Outbox` | intake, dispatcher, producer and broker; implements `Delivery` |
| `MCOutbox` | its instances |
| `OutboxProofs` | its theorems |
| `Consumer` | worker loop on one partition of the topic |
| `ConsumerProofs` | its theorems |
| `EndToEnd` | abstract specification: an accepted incident is processed, once |
| `Platform` | composes `Delivery` and `Consumer` through the topic; implements `EndToEnd` |
| `MCPlatform` | its instances |
| `PlatformProofs` | its theorems |
| `Settlement` | abstract specification: an incident is settled once, its events marked with the outcome, offsets passed only over marked events |
| `AgentExecution` | worker loop, processor, agent workflow and review around one event; implements `Settlement` |
| `MCAgentExecution` | its instances |
| `AgentProofs` | its theorems |
| `Provider` | how the adapters classify what the provider answers |
| `Planner` | how a planner payload becomes a decision, or a schema error |
| `Retrieval` | which chunks a search returns |
| `Tools` | authorization of a call, the six tools, depth limit of the sanitizer |
| `AgentEvidence` | `AgentExecution` with replies, evidence, memory and answers; implements it |
| `MCAgentEvidence` | its instances |
| `EvidenceProofs` | its theorems |
| `Resolution` | the events of one incident in the legacy workflow; implements `Settlement` |
| `MCResolution` | its instances |
| `ResolutionProofs` | its theorems |
| `Ingestion` | ingestors that replace the chunks of one document |
| `MCIngestion` | its instances |
| `IngestionProofs` | its theorems |
| `Chunking` | cutting a text and packing the pieces into chunks |
| `MCChunking` | its instances |
| `ChunkingProofs` | its theorems |

How they fit together: `Outbox` implements `Delivery`; `Platform` puts
`Delivery` and `Consumer` side by side, where `Append` of a copy and `Publish`
of a message are one step; `AgentExecution` is what happens inside
`Process` and `Defer` of `Consumer`, for one event. `AgentEvidence` extends
`AgentExecution` and the four modules of operators it needs; where
`AgentExecution` leaves a decision, the end of a tool call or an answer open, it
derives it, and it is shown to do nothing `AgentExecution` does not allow.
`Resolution` is the same place of the platform in its earlier form, for several
events of one incident. `Settlement` is what both promise to the worker loop, under the
condition each of them rests on: `AgentExecution` until the event is handed over while
its worker is busy, `Resolution` until then or until a run takes longer than
`stale_seconds`. The condition is the variable `void`; once it holds, `Settlement` promises nothing more. `Ingestion` is independent of
the rest: the agent only reads what it commits, which is `Release` of
`AgentEvidence`. `Chunking` makes the chunks an
ingestor brings; `Ingestion` knows only how many there are.

### Outbox

A thread is a request thread or the retry thread of a process; `ProcOf` gives
its process and with that its producer. One step is one database transaction
or one return of a call into the producer.

| model | code |
|---|---|
| `row`, `created`, `attempts`, `backoff` | `published_at`, `created_at`, `attempts`, `next_attempt_at` minus now |
| `CreateIncident` | the transaction of `analyze_and_persist_incident` |
| `ListPending`, `TakeNext` | `list_pending_ids` and the loop of `dispatch_pending` |
| `LockRow`, `SkipRow` | `get_for_dispatch` (`FOR UPDATE SKIP LOCKED`, unpublished only) |
| `RejectPayload`, `RefuseProduce`, `Produce` | validation, `ensure_topic`, `produce` |
| `FlushDone`, `FlushTimeout` | the outcome of `flush()` and of the checks after it |
| `CommitPublished`, `CommitDeferred` | the two commits at the end of `dispatch_event` |
| `DatabaseError` | a query or commit that fails; both callers swallow it |
| `BrokerAppend`, `BrokerAck`, `ExpireMessage` | the client's queue and Kafka (external): store, positive callback, negative callback although the message may be stored |
| `Tick`, `Crash` | a poll interval; a process dies and starts again |

The row lock is not a variable: a row is locked exactly while some thread is
between `LockRow` and its commit (`Holds`). A negative callback is seen by the
publish it belongs to only while that publish still waits (`IsCurrent`),
because every publish has an error list of its own (`producer.py:145`).
`attempts` saturates at six, where the delay has reached its maximum. The
acknowledgement is the default one (`acks=all`). A commit whose outcome is
unknown to the client, and a message stored after its expiry, add nothing: the
first is a crash after `CommitPublished`, the second is `BrokerAppend` before
`ExpireMessage`.

### Consumer and Platform

| model | code |
|---|---|
| `log`, `committed`, `owner` | the partition, the offset of the consumer group, the assignment (external) |
| `position`, `held` | the fetch position of the consumer, the message in the loop body |
| `Poll` | `poll()` that returns a message |
| `Skip` | `handle` returns MALFORMED or DUPLICATE |
| `Process` | PROCESSED or FAILED: settled and marked |
| `Defer` | RETRY, or an exception that reaches `run` |
| `Commit`, `LoseCommit` | `commit(asynchronous=False)`, and the `KafkaException` branch, with or without effect on the group |
| `Seek` | `_seek_to_message`; seeking a partition that is not assigned raises and ends the process |
| `Assign`, `Crash` | the partition gets an owner, possibly while the previous one is busy; a process dies |
| `Accept`, `Confirm`, `Transfer` of `Platform` | the steps of `Delivery`; `Transfer` is `Append` and `Publish` at once |

Whether the group takes the offset of a worker that has lost the partition is
left open: `Commit` lets it, which is more than Kafka does, and `LoseCommit` is
the refusal. Deserialization is membership in `Malformed`. Reading ahead,
partition end-of-file events and waiting times change nothing of this.

### AgentExecution

The database rows are shared variables; `pc`, `known`, `repair`, `call` and
`outcome` are what one worker holds in memory between two transactions.

| model | code |
|---|---|
| `Deliver` | `poll()` and the marker lookup of `process` |
| `ClaimSettled`, `ClaimRun`, `LoadSteps` | `_claim_impl` of an existing execution, `_load_steps` |
| `ClaimFirst`, `InsertExecution`, `InsertConflict` | `_claim_impl` that finds none: nothing is locked, and the insert meets the unique `incident_id` |
| `CheckBudgets` | `_check_time_and_step_budgets` |
| `DecideTool`, `DecideFinal`, `DecideInvalid` | the branches of the loop on a decision and on an unusable reply |
| `PlanTool`, `PlanFinal`, `PlanInvalid` | `_plan` with any result, and these branches |
| `SetWaiting`, `ExecuteTool` | `_set_status`, `ToolExecutor.execute` |
| `PersistToolStep`, `PersistRejectedStep`, `Resume` | the step transactions and the status set back after a refused tool request |
| `GenerateFinal`, `PersistFinal` | `_generate_final`, `_persist_final` |
| `StepConflict`, `Interrupt` | the unique step number; provider, tool or database failures inside the `try` block |
| `RecordTransient`, `RecordValidation`, `ExhaustRetries` | `_record_failure` in its two uses, the first transaction of `_record_terminal_failure` |
| `Mark`, `CommitOffset`, `LoseCommit` | the marker insert, the offset commit and its failure |
| `Abandon`, `Crash` | an exception that leaves the handler, from the planner among others; the process dies |
| `OpenReview`, `SubmitReview` | the status check and `add_feedback` |

Tool calls are their signatures. A signature is computed from sanitized
arguments, and stored arguments are sanitized once more when it is rebuilt;
sanitizing twice changes nothing, so it is the same after a restart.
`StrictProvider` says whether the provider enforces the schema it is asked for.
With a strict provider the branch `final_missing_required_evidence` cannot be
reached; `StrictProvider = FALSE` lets the planner ask for anything, which is
what the local guardrails are there for.

Left out because nothing modelled reads it: durations,
`attempt_count`, error texts, feedback comments. The local duration check is
implied by the one since `created_at`. `COMPLETED` and `CANCELLED` are never
assigned by the code. `retry_count` saturates at `model_retries`, the highest
value it is compared with. The processor without a workflow, and the retry for
an incident that does not exist (it is committed before its event), cannot
occur.

Transactions are atomic in `Outbox` and `AgentExecution`: interleavings of READ COMMITTED
transactions on the same rows are not represented, except where a lock or a
unique constraint decides them (`LockRow`, `SkipRow`, `StepConflict`). `Resolution` and
`Ingestion` split them where it matters.

### AgentEvidence, Planner, Provider, Retrieval and Tools

| model | code |
|---|---|
| `Transport`, `ChatOutcome`, `EmbeddingOutcome` | the errors raised by the HTTP client and the two Ollama adapters |
| `Normalize`, `FillRequired`, `ParseFree`, `ParseRequired` | `normalize_planner_payload`, `_normalize_required_tool_payload`, `PlannerDecision`, the decisions with a literal tool |
| `Matching`, `Nearest`, `Retrieve` | category filter, order and limit of the vector search |
| `Authorized`, `Found`, `Similar`, `Previous` | the checks of `_execute_impl` before the call, and what each tool selects |
| `Readable`, `Result`, `Stored` | `sanitize_value` on a live result, and on the record that is stored |
| `held`, `stored` | `previous_results`, `agent_steps.result_summary` |
| `Restore` | `_load_steps` with `_restore_results` |
| `Plan` | the call of `_plan`, its reply and what the loop makes of it |
| `Raises`, `PlanRaises` | a list or object as `tool_name` while a tool is required: looking it up in a set (`app/agent/workflow.py:76`) raises a `TypeError`, which is no validation error and passes every handler |
| `RunTool`, `PersistResult` | `ToolExecutor.execute`, `_persist_tool_step` |
| `Answer`, `PersistAnswer` | one call of `_generate_final` with `_validate_final`, and `_persist_final` with what it publishes |
| `Other` | the steps of `AgentExecution` that touch no evidence; a worker that returns forgets what it held |
| `Release` | an ingestion that replaces chunks |

A payload is a record of the five keys the code looks at, a candidate answer
the facts about it that the validation tells apart (citations, duplicates,
tools, unsafe actions, confidence, escalation). A result is its tool, its
references and the parts of its data that are not cut off by the depth limit;
`Nesting` holds how deep each part lies. Whether a result exceeds the size
limit, and how similar two incidents are, is left open or given. `RunTool`
includes a tool that fails or times out (`Refuse`). What the registry does for a
tool name it does not know is in `Authorized`. After `PlanRaises` nothing is recorded:
the reply counts neither as a repair nor as a failure, the execution stays `running`,
and the message is delivered again until the duration budget is used up.

### Resolution

| model | code |
|---|---|
| `status`, `eventId`, `attempts`, `fresh` | the row of `ai_resolutions`; `fresh` is `processing_started_at` younger than `stale_after` |
| `Deliver`, `HandOn`, `Mark` | `process` around the workflow: an event nobody has, one that goes to another worker while its own is still busy, and the marker, of which the first one stays |
| `FindSettled`, `ReportSettled` | `_claim` returns attempt 0; the status is read in another session |
| `Yield`, `Claim` | `RetryableResolutionError`; the claim of an existing row, which is locked |
| `ClaimFirst`, `Insert`, `InsertConflict` | the claim without a row, and the unique `incident_id` |
| `Retrieve`, `Generate` | retrieval, generation and `validate_citations` |
| `Load` with `loaded` | the SELECT of the final transaction, or of `_record_failure`, which locks nothing |
| `Complete`, `RecordFailure` | the UPDATE of these transactions; `Updated` leaves out what equals the loaded value |
| `Age`, `Crash` | `stale_after` passes; a process dies |

Two things the code does not prevent end what a run relies on (`Disturbed`). A run may take
longer than `stale_seconds`, and another event takes it over (`outlived`). And an
event may be handed on while its worker is busy with it (`handOns`); the claim guards a
fresh run against other events only (`app/ai/workflow.py:162`), so the second worker takes it
over at once. A run that has been taken over still completes or fails, without a lock and
without a look at the status (`:101`, `:213`): a completed resolution may go back to
`retryable`, and since a session writes only what differs from what it has loaded, the
citations of one attempt may end up with the context of another. `OneRun`, `SettledStays`,
`CitationsMatchContext` and `ImplementsSettlement` therefore speak of the time before,
`FailedByAnswers` and `EventuallyMarked` also of the time after.

### Ingestion and Chunking

One source of the manifest; the loop over the sources runs one after the
other and shares nothing. A version is what an ingestor brings: the text and
its metadata (`Content`) cut in some way (`Size` chunks). A step is one SQL
statement, because what another ingestor commits between two statements is
what matters here.

| model | code |
|---|---|
| `Start`, `Finish` | a worker starts or `python -m app.knowledge.ingest`; the pass is over |
| `CheckDocument`, `CheckChunks` | the first transaction: metadata, then `_is_current` |
| `Load`, `CreateDocument` | the second transaction: the document row, inserted if missing |
| `ListChunks`, `DeleteEmbeddings` | the select of `chunk_ids` and the delete that uses them |
| `FindChunks`, `DeleteChunks` | the delete of the chunks: its snapshot, and its effect once nobody holds the rows |
| `WriteChunks`, `Commit` | the inserts under `uq_chunk_document_index`; the attributes of the document that differ from the loaded ones, and the commit |
| `Fail` | a constraint, database or provider error, a deadlock that PostgreSQL breaks, a crash: rollback |

`chunks` and `embedded` are committed rows; what a transaction has deleted is in
`locked` (embeddings) and `deleted` (chunks), and makes others wait. Rows are
named by the ingestion that wrote them. Two ingestors that delete the embeddings and the
chunks of the same rows in a different order may deadlock; as PostgreSQL then
aborts one of them, this is a wait in the model, which `Fail` may end. The
attributes of the document are one value. `overlapped` is a history variable.

`Chunking` has one step for every turn of a loop of `chunk_document`:

| model | code |
|---|---|
| `text`, `limit` | `content` as stripped paragraphs, `max_chars` |
| `units` with `read`, `packed` with `next` | `units`, and `packed` followed by `current` |
| `KeepParagraph` | a paragraph that is short enough (35-36) |
| `TakeWord` | a word in `_split_oversized_paragraph` (14-22) |
| `PackUnit` | a unit in the packing loop (42-48) |

A piece of text is the range of words it holds and its length: words joined
by a blank, units joined by an empty line. The length of a paragraph is
independent of its words, because the white space in it is kept as it is, but
replaced by blanks when it is split. `LastOf` of `units` or `packed` is what
the code calls `current`, so that the flush behind each loop needs no step.

## 3. Runs

| run | instance | shows |
|---|---|---|
| `Outbox_all` | a malformed row and a valid one, 1 request thread, 2 retry threads, 2 processes, batches of 1, 1 failure | `NoDuplicateWithoutFault`, `PublishedIsFinal`, `ImplementsDelivery`, `EventuallyPublished` |
| `Platform_all` | 2 events with at most 1 further copy, a message that does not deserialize, 2 workers, a partition of 3 messages, 1 hand-over, 1 crash | `NoMessageSkipped`, `OffsetStays`, `PublishedIsPursued`, `ImplementsEndToEnd`, `ImplementsLiveEndToEnd` |
| `Agent_evidence` | 1 worker at a time, 1 crash, 4 steps, 3 tool calls, every kind of reply, 14 calls, 16 candidate answers, 5 chunks in 2 releases | `MemoryMatchesTrail`, `ResultsReadable`, `CitationsAreEvidence`, `UncitedIsEscalated`, `ToolsUsedSucceeded`, `FailedOnlyAfterReply`, `ModelCallsBounded`, `ImplementsAgentExecution` |
| `Agent_single` | 1 worker at a time, 1 crash, 1 reviewer, 4 steps, 2 tool calls, a provider that ignores schemas | `StatusesAgree`, `OneAnswer`, `ImplementsSettlement`, `ReviewWaits`, `DecisionStands`, `EventuallySettled` |
| `Agent_overlap` | 2 workers at once (1 eviction), first claims included, 2 runbook queries, 3 steps, 2 tool calls | `CountersExact`, `WithinBudgets`, `NoRepeatedCall`, `FinalIsGrounded` |
| `Agent_answers` | 2 workers at once | violation of `OneAnswer` |
| `Agent_reviews` | 2 reviewers | violation of `OneDecision` |
| `Agent_previous` | the instance of `Agent_evidence` without a crash | violation of `ResolutionsReadable` |
| `Resolution` | 2 events of an incident, 2 workers, 2 attempts, 1 fault, 1 hand-over of a busy event, 3 contexts, runs of any length | `OneRun`, `FailedByAnswers`, `CitationsMatchContext`, `ImplementsSettlement`, `SettledStays`, `EventuallyMarked` |
| `Ingestion_safety` | 2 ingestors, 3 versions of 2 texts, 4 ingestions | `OneCompleteVersion`, `AloneIsCurrent` |
| `Ingestion_mismatch` | the same | violation of `ChunksMatchDocument` |
| `Chunking_all` | all texts of up to 3 paragraphs out of 12, limits 4, 5 and 9 | `NothingLost`, `WithinLimit`, `FewestChunks` |

The type invariants of the agent are also checked (`TypeOK` in `Agent_single`,
`EvidenceTypeOK` in `Agent_evidence`); those of the other modules are proved for
every instance (section 4).

Bounds. `MaxFaults`, `MaxEvictions`, `MaxCrashes` and `MaxExtra` bound failures
and copies and appear in the guards of the failing actions only. In
`Outbox_all` the malformed row is always older or newer than the valid one, so
that each of them heads a batch of one; the request thread and one retry
thread share a process and its producer, the other retry thread has its own,
so that threads wait for each other's messages and skip each other's rows. One
failure is enough for a copy that nobody knows of; the proofs have no bound.
The poll interval is 16, so that the delays of 32 and 60 seconds skip polls.
`EventuallyPublished` needs a poll interval shorter than the longest
delay of 60 seconds; the setting (`app/core/config.py:139`, default 5) has no
upper limit, and with a longer interval a malformed row that heads a batch of
one is due again at every poll.

In `Platform_all` three messages leave room for a duplicate or a foreign message
in front of another event; one hand-over gives a busy worker's partition away and
one crash takes its position. `MaxExtra` counts foreign messages and further
copies together, so that they never keep the first copy of an event out of
the topic.

Budgets of three and four steps leave room for both pieces of evidence, a
refused step or a third tool, and an answer, and are small enough to be
exhausted. In `Agent_evidence` a crash may fall between any two steps, and a
release between a search and the answer. The first release has two chunks at
the same distance and one of another category, so that order, limit and filter
matter, the second one has none for the incident; two
references are the limit (`MaxReferences`) that a summary of an incident and
two chunks exceeds. Every tool is called well, out of scope or malformed, one
name is unknown. Candidates cite nothing, what was found, one thing too many, or
a chunk of another category; some repeat a citation, name a tool that did not run or
propose something dangerous.

In `Resolution` two attempts are the least for which a failure may or may not be
the last one. One fault is a crash, an outage or a database error at any step;
unusable answers are not bounded, so that every attempt may fail beside it. One
hand-over (`MaxHandOns`) makes two runs of one event overlap, `Age` two runs of
different events, also both at once. The contexts are empty, one chunk or both,
so that a failed attempt and a later one may have retrieved different ones. The proofs
bound neither faults nor hand-overs.

In `Ingestion` four ingestions allow a document to be created, replaced by two
overlapping ingestors, one of them with a stale list of chunks, and ingested once
more. In `Chunking` words of 1, 2, 3 and 6 characters in paragraphs of up to three
words meet, miss and exceed the limits by one, three paragraphs give the
packing a choice, and a paragraph with a blank too many may be split into a
single unit.

Deadlock checking is on for the outbox, whose retry threads never stop. The
other models switch it off: they follow a bounded number of events or
ingestions, and the system rests once these are settled and the reviews are
answered.

Fairness. In `Outbox`, threads keep running, the broker stores and reports on
messages while it is up (its failures are the bounded ones) and time passes;
nobody has to create an incident. In `AgentExecution`, workers keep running,
time passes, and a transaction or offset commit that is tried again and again
succeeds in the end (strong fairness: each attempt may fail). In `Platform` the
outbox puts out and confirms what it accepted, which `EventuallyPublished` shows of
`Outbox`, and of `Consumer`: workers keep
running, a partition without owner gets one, a handler that gets the same
event again and again settles it (`EventuallySettled`), and so does a commit.
Nothing is asked
of the model provider, which may fail every call, or of the reviewers. In
`Resolution` workers keep running (weak fairness of `Work`), the group
delivers an event again as long as it has no marker (strong fairness, because
an event is in the hands of another worker at times), and time passes (weak fairness of
`Age`: if a worker dies over an event that is marked already, its row is
`processing` until `stale_seconds` are over, and holds up the other events). No event
has to be handed on. Here the outages have to end
(`MaxFaults`): without a duration budget the legacy workflow retries them for ever.

### What the violations say

* `Agent_answers`: the takeover of `_claim_impl` may come just before the first
  worker persists its answer, and `_record_failure` does not look at the status
  it replaces either, so that a worker that finds its step number taken sets an
  execution that another one has completed to `retryable`. A second final step is appended and the
  resolution overwritten (README.md:103-104 promises no duplicate durable
  outcome). It needs the hand-over of a partition from a worker that is still
  busy; `Agent_single` shows that `OneAnswer` and `ReviewWaits` hold without it.
* `Agent_reviews`: the review status is checked without a lock; two requests
  at once are both accepted (`tests/test_agent_api.py:95` expects a conflict,
  and gets one, because it sends them one after the other).
* `Agent_previous`: `get_previous_resolutions` nests the recommended actions and the
  fields of a citation as deep as the sanitizer cuts (`sanitization.py:35`). A live result
  has lost the citations, a stored one, which lies one level deeper, the actions
  too, although the tool offers both (`tools.py:261`). The references beside the
  data are not affected (`MemoryMatchesTrail`).
* `Ingestion_mismatch`: an ingestor loads the document row, waits in a delete
  for another one that brings a newer text, and then replaces the newer chunks
  by its own; since its attributes equal the ones it has loaded, the session
  leaves the update of the row out. The document has the newer version and hash
  with the older chunks (`ingestion.py:33` says that chunks are replaced atomically per
  document) until the next ingestion repairs it (`AloneIsCurrent`).

One more difference between documentation and code shows in the model without a run of its own:
the request thread goes through `Produce` and waits in `flush` like any other
(`incidents.py:83`, `producer.py:159`), up to the delivery timeout and one
second, while README.md:35-36 says that the API returns without waiting for
Kafka. The answer itself does not depend on Kafka: after `FlushTimeout` the event
is deferred and the client is answered.

## 4. Proofs

`OutboxProofs` (any events, threads, processes, batch size and failures):

* `TypeCorrect`, `PublishedIsInTopicHolds`, `NoDuplicateWithoutFaultHolds`,
  `PublishedIsFinalHolds`, `OutboxImplementsDelivery`.
* The inductive invariant has three layers. `LockInv`: a thread in a
  transaction holds a staged event, and no two threads hold the same one.
  `TopicInv`: a message reported as stored has a copy in the topic, and a
  thread whose flush ended with its own message gone and no error has its
  event in the topic (`FlushIsHonest`). `CountInv`: every publication that was
  tried a second time has cost a failure (`TriesCostFaults`), and the copies of
  an event, with its messages that may still be stored, never exceed its tries
  (`CopiesCostTries`). `PublishedIsInTopic` alone is not inductive: a step from
  flush to commit needs to know what an empty queue means for this thread.
* The refinement maps `row` to `status`; every step is an `Accept`, an
  `Append`, a `Confirm` or a stutter, `Confirm` because of `FlushIsHonest`.

`AgentProofs` (any workers, reviewers, calls, budgets, evictions and crashes):

* `TypeCorrect`, `CountersExactHolds`, `WithinBudgetsHolds`,
  `NoRepeatedCallHolds`, `FinalIsGroundedHolds`.
* The key is that what a worker knows is a prefix of the audit trail
  (`KnownIsPrefix`), and that what it has checked of its own prefix still holds
  where it stands (`Checked`). A step number is free only to a worker
  whose prefix is the whole trail (`InsertIsAppend`), so a step that is stored
  was decided on all the steps before it: the unique constraint alone makes
  unlocked reads of the other transactions harmless.
* `StatusesAgreeHolds`, `OneAnswerHolds`, `AgentImplementsSettlement`: they hold until
  the event is first handed over while its worker is busy (`evictions = 0`, a condition on
  the state, for any `MaxEvictions`); from then on the unlocked writes of two workers
  may break them, as `Agent_answers` shows. The invariant is `UntilEviction`: `TrailInv`
  always, and `AloneInv` as long as there was no such hand-over. `AloneInv` says that whoever
  is busy owns the partition (`Alone`), that where it stands agrees with the rows
  (`Consistent`), and that only an execution with an answer has open reviews
  (`ReviewsAnswered`). Every step then changes the rows in one of six ways (`RowCases`), over
  which the properties are checked one by one, and which map to a `Settle` or a stutter;
  `Mark` and `CommitOffset` map to `Mark` and `Pass`.
* `ReviewWaitsHolds`, `DecisionStandsHolds`, `OneDecisionHolds` are about behaviours without
  such a hand-over; the last two also about any number of review requests of
  which no two are open at once (`OneReviewOpen`), since two that are may both be accepted
  (`Agent_reviews`). A request that is open then finds the answer undecided
  (`ReviewsInTurn`).
* `TrailIsAppendOnly`, `LatestAnswerHolds`, `DurableHolds` say what is left when workers do
  overlap, without any condition: stored steps stay as they are; the resolution holds the last
  final step, so that a second answer replaces the first and never a later one; and
  nothing is called reviewable or completed without an answer, nor an offset committed
  without a marker. The argument is `AnswerMoves`: an answer is written in the transaction
  that appends its final step, and by nothing else.

`ConsumerProofs` (any workers, messages, hand-overs and crashes):

* `TypeCorrect`, `NoMessageSkippedHolds`, `OffsetStaysHolds`.
* `NoMessageSkipped` becomes inductive with `HeldInOrder` (all messages before
  one that some worker holds, owner or not, are handled) and `FetchedInOrder`
  (the owner's position has passed only handled messages and the one it
  holds): the seek after a failure is what keeps the latter. `OffsetStays`
  rests on `OwnerAlone`.

`PlatformProofs` (any incidents, workers and bounds):

* `PlatformImplementsConsumer` (so the theorems above hold of the composition),
  `PublishedIsPursuedHolds`, `PlatformImplementsEndToEnd`.
* The invariant adds to that of `Consumer` that whatever stems from an incident
  is in the topic or marked only after the incident was accepted, and that
  copies are messages of the log. With `OutboxImplementsDelivery` the argument
  reaches from the request to the marker.

`EvidenceProofs` (any calls, payloads, candidates, knowledge and history, and
everything `AgentProofs` leaves open):

* `EvidenceImplementsExecution`, so that the theorems of `AgentProofs` hold with
  evidence, `EvidenceImplementsSettlement` among them; `MemoryMatchesTrailHolds`,
  `ResultsReadableHolds`, `CitationsAreEvidenceHolds`, `UncitedIsEscalatedHolds`, `ToolsUsedSucceededHolds`.
* The invariant is `TrailInv` of `AgentProofs` with `Fits`: every stored result is the one
  of a tool step, and the chunks it refers to can be read again (`TrailFits`); what a worker
  holds is what the trail says of the steps it knows, and a draft has passed the
  validation against it (`WorkerFits`); a published answer was such a draft
  (`PublishedFits`). Since an answer is stored under a
  number that is free only to a worker that knows the whole trail
  (`InsertIsAppend` again), the draft then fits the trail as well, whichever
  worker stored it and whatever is indexed by then. The theorems need no bound
  on evictions: they hold although two workers may answer.
* `FailedOnlyAfterReplyHolds`: a step of the trail, a decision under way and a failed
  validation were all paid with a reply (`RepliesPaid`), and a budget is only exceeded
  by steps or by time.
* `ModelCallsBoundedHolds` and `EvidenceTypeCorrect`: a worker keeps a balanced account
  (`Balanced`): its calls are at most `RepairAttempts + 1` for each tool step it knows,
  its repairs since the last one, and one more while a decision is under way; the
  answer opens an account of its own.

`ResolutionProofs` (any workers, events, contexts, answers, faults and hand-overs):

* `TypeCorrect`, `FailedByAnswersHolds` and `AttemptsDifferHolds` hold whatever overlaps;
  `OneRunHolds`, `CitationsMatchContextHolds`, `SettledStaysHolds` and
  `ResolutionImplementsSettlement` until a run is outlived or a busy event handed on.
* `RowInv` always holds: an attempt that was claimed has been counted, and whoever is about
  to fail for good is in its last attempt and has seen an unusable answer (`Counting`); runs
  that overlap are different attempts, because a claim counts under the row lock
  (`AttemptsDiffer`); and a draft cites what its worker found (`Drafted`).
* `RunInv` holds until then (`UntilDisturbed`): no two workers have the same event
  (`Exclusive`), and whoever runs owns a row that is `processing`, fresh and in the name of its
  event (`Owns`), so that two runs would be of one event. What a worker has loaded is
  therefore still what the row holds when it writes (`Loaded`), so that leaving out
  equal values leaves out nothing; and what is marked, or about to be, is what the
  row says (`Reported`, `MarkerMatchesRow`). `Age` and `HandOn` are the steps that may end
  it. A settled row is nobody's run, which makes every step a `Settle`, a `Mark` or a stutter.

`IngestionProofs` (any ingestors, versions and number of ingestions):

* `TypeCorrect`, `OneCompleteVersionHolds`, `AloneIsCurrentHolds`.
* The invariant says that a delete always holds all or none of the rows
  (`WholeSets`), that no two transactions hold the same rows (`HeldOnce`), that a creator
  is alone (`CreatesAlone`), and that whoever may commit has deleted everything
  (`CommitsAlone`). The unique chunk index carries it: a stale delete finds
  nothing, and then the first chunk of the others is in the way. For an ingestion that
  no other overlaps, what it has seen of the document stays so (`Undisturbed`), and with
  `CommitsAlone` its own rows are all there is.

`ChunkingProofs` (any texts and limits, and any finite index):

* `TypeCorrect`, `NothingLostHolds`, `WithinLimitHolds`, `FewestChunksHolds`,
  `SearchReturnsNearest`.
* The invariant says that nothing is packed before all units are there, that a
  half cut paragraph has a unit and is too long (`Phases`), and that units obey the limit
  (`UnitsWithinLimit`). `AppendCovers` and `ExtendCovers` are the two ways a
  sequence of pieces grows.
* `FewestChunks` compares with every way to cut the units into stretches within the limit.
  No packing gets ahead of the greedy one (`GreedyAhead`): of the units packed so far it has
  made at least as many chunks, and if just as many, its open chunk is at least as
  long as the greedy one's. How many characters a stretch has is a recursive
  function; that it exists, and its recursion, are proved by induction over sets of naturals
  (`LeastNatural`, from the well-foundedness of `<`), which needs no operator parameter.
* `SearchReturnsNearest` is about `Retrieve` alone, which the evidence of `AgentEvidence`
  comes from: the rows that are returned are closed under `Closer` (`NearestClosed`), and a
  limit that is one higher admits exactly the closest of the others (`NearestGrows`).

The assumptions are `OutboxAssumption`, `NoEventAssumption`, `ConsumerAssumption`,
`PlatformAssumption`, `IngestionAssumption`, `ChunkingAssumption`,
`RetrievalAssumption`, `ToolsAssumption`, `PlannerAssumption`,
`EvidenceAssumption`, `ResolutionAssumption` and `AgentAssumption`; the last one
includes `MaxToolCalls < MaxSteps`, as
the settings require. `EvidenceAssumption` includes `StrictProvider`: the parser insists
on the required tool, so that the weaker guardrail of `AgentExecution` is not needed.

Only model-checked: liveness (`EventuallyPublished`,
`ImplementsLiveEndToEnd`, `EventuallySettled`, `EventuallyMarked`), which is out of the prover's
reach. Every invariant and action property of the runs that pass is stated by a theorem.

## 5. Not modelled, and the plan

Not modelled: the deterministic analyzer (regular expressions over the log
text, without state), HTTP routing, validation and
settings, observability, offline evaluation and the feedback export, migrations
and deployment, the text of prompts and answers, how vectors are compared (the
distances are given), redaction (it changes texts only), the size limits of tool
arguments and results (a choice of the model), and the fake providers and the
portable search for SQLite, which serve tests.

Of what is modelled, two things remain abstract on purpose. Transactions of
`AgentExecution` are atomic, while those of `Ingestion` are split by statement;
splitting the former would make the reads before the unlocked writes
(`agent/workflow.py:927`, `:1184`) visible one by one. And `Consumer` stands for
the handler by `Process` and `Defer`; that `AgentExecution` and `Resolution` fill these in
is said by `Settlement`, which both implement, but not by a refinement of `Consumer` itself.

Next, in this order:

1. The unlocked reads of `AgentExecution` statement by statement, as in `Ingestion`.
2. That `Consumer` with a handler that implements `Settlement` settles what it processes.
