--------------------------------- MODULE Tools ---------------------------------
(***************************************************************************)
(* The six read-only tools, what the executor lets through to them, and    *)
(* how much of a result survives the depth limit of the sanitizer.  A      *)
(* result is the tool, the evidence it refers to and the parts of its data *)
(* that are still readable.                                                *)
(***************************************************************************)
EXTENDS Retrieval

CONSTANTS
    Category,       \* category of the runbooks for the incident's own
                    \* classification, AnyCategory if there is none
    MaxChunks,      \* max_retrieval_chunks
    MaxReferences,  \* max_length of evidence_references
    History         \* the other incidents

ASSUME ToolsAssumption ==
    /\ MaxChunks \in Nat \ {0}
    /\ MaxReferences \in Nat \ {0}

ListTools == {"search_similar_incidents", "get_previous_resolutions"}

(* Tools whose arguments name an incident. *)
ScopedTools == ListTools \cup {"get_incident", "get_incident_resolution_context"}

Registered == ScopedTools \cup {"retrieve_runbooks", "summarize_evidence"}

(* A call as the executor sees it: the tool; whether the arguments fit its *)
(* input model and the size limit; whether they name the active incident;  *)
(* the number of items and the category asked for; the steps to summarize. *)
Authorized(q) ==
    /\ q.tool \in Registered
    /\ q.wellFormed
    /\ q.tool \in ScopedTools => q.ownIncident

(* The server's classification decides; only where it has no category does *)
(* the planner's own word count, and that is taken as it stands.           *)
SearchCategory(q) == IF Category # AnyCategory THEN Category ELSE q.category

-----------------------------------------------------------------------------
(* sanitize_value: how deep each part of a tool's data lies. *)

MaxDepth == 5

Nesting ==
    [get_incident |-> [text |-> 1, actions |-> 2],
     retrieve_runbooks |-> [chunks |-> 3],
     search_similar_incidents |-> [matches |-> 3],
     get_previous_resolutions |-> [summaries |-> 3, actions |-> 4, citations |-> 5],
     get_incident_resolution_context |-> [chunks |-> 3],
     summarize_evidence |-> [facts |-> 2]]

Parts(tool) == DOMAIN Nesting[tool]

(* Faulty variant: a limit one level tighter. *)
ReadableTight(tool, base) ==
    {part \in Parts(tool) : base + Nesting[tool][part] < MaxDepth - 1}

(* What can be read of the data of a result that is itself at depth base. *)
Readable(tool, base) ==
    {part \in Parts(tool) : base + Nesting[tool][part] < MaxDepth}

-----------------------------------------------------------------------------
(* Evidence references *)

Ref(type, id) == [type |-> type, id |-> id]

Refs(type, rows) == {Ref(type, r.id) : r \in rows}

(* The runbook chunks among the references. *)
ChunksOf(refs) == {r.id : r \in {s \in refs : s.type = "runbook"}}

(* The best scores first, then the latest incident; no score, no match. *)
Better(a, b) ==
    \/ a.score > b.score
    \/ a.score = b.score /\ a.id > b.id

Similar(limit) ==
    {r \in History : /\ r.score > 0
                     /\ Cardinality({q \in History : Better(q, r)}) < limit}

(* Completed resolutions of the same class, unless they were rejected, the *)
(* latest first.                                                           *)
Precedents == {r \in History : r.sameClass /\ r.completed # 0 /\ ~ r.rejected}

Previous(limit) ==
    {r \in Precedents :
        Cardinality({q \in Precedents : q.completed > r.completed}) < limit}

(* What a tool finds: rows are the indexed chunks, context the chunks of   *)
(* the resolution's own retrieved context, results the memory by step.     *)
Found(q, rows, context, results) ==
    CASE q.tool = "get_incident" -> {Ref("incident", 0)}
      [] q.tool = "retrieve_runbooks" ->
            Refs("runbook", Retrieve(rows, SearchCategory(q), Lesser(q.limit, MaxChunks)))
      [] q.tool = "search_similar_incidents" -> Refs("similar_incident", Similar(q.limit))
      [] q.tool = "get_previous_resolutions" -> Refs("resolution", Previous(q.limit))
      [] q.tool = "get_incident_resolution_context" ->
            {Ref("runbook", c) : c \in context}
      [] OTHER -> UNION {results[n].refs : n \in q.steps \cap DOMAIN results}

(* What the workflow receives: the result the executor makes of it. *)
Result(tool, refs) == [tool |-> tool, refs |-> refs, parts |-> Readable(tool, 0)]

(* What is stored of a result, and restored after a restart: the result    *)
(* has been wrapped in its own record, one level deeper.                   *)
Stored(r) == [r EXCEPT !.parts = @ \cap Readable(r.tool, 1)]
=============================================================================
