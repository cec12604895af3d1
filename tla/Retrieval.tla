------------------------------- MODULE Retrieval -------------------------------
(***************************************************************************)
(* The semantic search over the indexed chunks.  A row is a chunk with the *)
(* category of its document and its distance from the query.               *)
(***************************************************************************)
EXTENDS Naturals, FiniteSets

CONSTANT TopK   \* retrieval_top_k of the retriever

ASSUME RetrievalAssumption == TopK \in Nat \ {0}

AnyCategory == "any"

Lesser(a, b) == IF a <= b THEN a ELSE b

(* order_by(distance, chunk id): equal distances are ordered by the id. *)
Closer(a, b) ==
    \/ a.distance < b.distance
    \/ a.distance = b.distance /\ a.id < b.id

Matching(rows, category) ==
    {r \in rows : category \in {AnyCategory, r.category}}

(* The first rows of an ordered set. *)
Nearest(rows, limit) ==
    {r \in rows : Cardinality({q \in rows : Closer(q, r)}) < limit}

(* retrieve_query: a caller may ask for less than the retriever's own k. *)
Retrieve(rows, category, limit) ==
    Nearest(Matching(rows, category), Lesser(limit, TopK))
=============================================================================
