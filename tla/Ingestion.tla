------------------------------ MODULE Ingestion ------------------------------
(***************************************************************************)
(* KnowledgeIngestor.ingest for one source of the manifest.  Every worker  *)
(* ingests when it starts, and an operator may ingest by hand, so several  *)
(* ingestors, perhaps of different releases, may replace the chunks of one *)
(* document at once.                                                       *)
(*                                                                         *)
(* A step is one SQL statement under READ COMMITTED: it sees what is       *)
(* committed when it starts, waits for rows that another transaction has   *)
(* deleted or inserted but not committed, and then goes on with the rows   *)
(* of its snapshot that are still there.                                   *)
(***************************************************************************)
EXTENDS Naturals, Sequences, FiniteSets

CONSTANTS
    Ingestors,
    Versions,       \* what an ingestor may bring: source, chunk size, model
    Contents,       \* metadata and text of the source
    Content,        \* the content of each version
    Size,           \* how many chunks each version has
    MaxRuns         \* bound on ingestions

NoDocument == "no document"

ASSUME IngestionAssumption ==
    /\ Content \in [Versions -> Contents]
    /\ Size \in [Versions -> Nat \ {0}]
    /\ MaxRuns \in Nat
    /\ NoDocument \notin Contents

VARIABLES
    runs,       \* the version of each ingestion so far
    document,   \* committed: content of the document row
    chunks,     \* committed: rows of knowledge_chunks
    embedded,   \* committed: the chunks with a row of knowledge_embeddings
    pc,
    run,        \* the ingestion each ingestor is in
    seen,       \* the document row each ingestor has loaded
    ids,        \* the chunks each ingestor has listed, then found
    locked,     \* rows whose embeddings each ingestor has deleted
    deleted,    \* rows each ingestor has deleted
    overlapped  \* has another ingestor been busy during this ingestion?

stored == <<runs, document, chunks, embedded>>
vars == <<stored, pc, run, seen, ids, locked, deleted, overlapped>>

-----------------------------------------------------------------------------
(* Every ingestion inserts rows of its own. *)
Row(n, k) == [run |-> n, index |-> k]

Rows(n) == {Row(n, k) : k \in 0..(Size[runs[n]] - 1)}

Version(i) == runs[run[i]]

(* Rows whose fate is open until the transaction of another one ends. *)
Pending(i) == UNION {locked[j] \cup deleted[j] : j \in Ingestors \ {i}}

InsertPending(i) == \E j \in Ingestors \ {i} : pc[j] = "commit"

Creating(i) == pc[i] \in {"write", "commit"} /\ seen[i] = NoDocument

(* _is_current, after the metadata *)
IsCurrent(v) ==
    /\ embedded = chunks
    /\ {<<runs[r.run], r.index>> : r \in chunks}
          = {<<v, k>> : k \in 0..(Size[v] - 1)}

Init ==
    /\ runs = <<>>
    /\ document = NoDocument
    /\ chunks = {}
    /\ embedded = {}
    /\ pc = [i \in Ingestors |-> "idle"]
    /\ run = [i \in Ingestors |-> 0]
    /\ seen = [i \in Ingestors |-> NoDocument]
    /\ ids = [i \in Ingestors |-> {}]
    /\ locked = [i \in Ingestors |-> {}]
    /\ deleted = [i \in Ingestors |-> {}]
    /\ overlapped = [i \in Ingestors |-> FALSE]

-----------------------------------------------------------------------------
GoTo(i, l) == pc' = [pc EXCEPT ![i] = l]

(* The transaction ends, with its locks. *)
Release(i) ==
    /\ locked' = [locked EXCEPT ![i] = {}]
    /\ deleted' = [deleted EXCEPT ![i] = {}]

Start(i, v) ==
    /\ pc[i] = "idle"
    /\ Len(runs) < MaxRuns
    /\ runs' = Append(runs, v)
    /\ run' = [run EXCEPT ![i] = Len(runs) + 1]
    /\ overlapped' = [j \in Ingestors |->
            IF j = i THEN \E k \in Ingestors \ {i} : pc[k] # "idle" ELSE TRUE]
    /\ GoTo(i, "document")
    /\ UNCHANGED <<document, chunks, embedded, seen, ids, locked, deleted>>

(* The first transaction decides whether there is anything to do. *)
CheckDocument(i) ==
    /\ pc[i] = "document"
    /\ GoTo(i, IF document = Content[Version(i)] THEN "chunks" ELSE "load")
    /\ UNCHANGED <<stored, run, seen, ids, locked, deleted, overlapped>>

(* Faulty variant: the metadata is enough. *)
TrustDocument(i) ==
    /\ pc[i] = "chunks"
    /\ GoTo(i, "unchanged")
    /\ UNCHANGED <<stored, run, seen, ids, locked, deleted, overlapped>>

CheckChunks(i) ==
    /\ pc[i] = "chunks"
    /\ GoTo(i, IF IsCurrent(Version(i)) THEN "unchanged" ELSE "load")
    /\ UNCHANGED <<stored, run, seen, ids, locked, deleted, overlapped>>

(* After embed_texts, the second transaction loads the document again. *)
Load(i) ==
    /\ pc[i] = "load"
    /\ seen' = [seen EXCEPT ![i] = document]
    /\ GoTo(i, IF document = NoDocument THEN "create" ELSE "list")
    /\ UNCHANGED <<stored, run, ids, locked, deleted, overlapped>>

(* source_id is unique: the second of two creators waits for the first one,*)
(* and fails if that commits.                                              *)
CreateDocument(i) ==
    /\ pc[i] = "create"
    /\ document = NoDocument
    /\ ~ \E j \in Ingestors : Creating(j)
    /\ GoTo(i, "write")
    /\ UNCHANGED <<stored, run, seen, ids, locked, deleted, overlapped>>

ListChunks(i) ==
    /\ pc[i] = "list"
    /\ ids' = [ids EXCEPT ![i] = chunks]
    /\ GoTo(i, "embeddings")
    /\ UNCHANGED <<stored, run, seen, locked, deleted, overlapped>>

DeleteEmbeddings(i) ==
    /\ pc[i] = "embeddings"
    /\ ids[i] \cap Pending(i) = {}
    /\ locked' = [locked EXCEPT ![i] = ids[i] \cap chunks]
    /\ GoTo(i, "find")
    /\ UNCHANGED <<stored, run, seen, ids, deleted, overlapped>>

(* DELETE of the chunks: its snapshot, and what is left of it when nobody  *)
(* holds it any longer.  The embeddings of deleted chunks go with them.    *)
FindChunks(i) ==
    /\ pc[i] = "find"
    /\ ids' = [ids EXCEPT ![i] = chunks]
    /\ GoTo(i, "delete")
    /\ UNCHANGED <<stored, run, seen, locked, deleted, overlapped>>

DeleteChunks(i) ==
    /\ pc[i] = "delete"
    /\ ids[i] \cap Pending(i) = {}
    /\ deleted' = [deleted EXCEPT ![i] = ids[i] \cap chunks]
    /\ GoTo(i, "write")
    /\ UNCHANGED <<stored, run, seen, ids, locked, overlapped>>

(* Faulty variant: without uq_chunk_document_index. *)
WriteChunksAnyway(i) ==
    /\ pc[i] = "write"
    /\ GoTo(i, "commit")
    /\ UNCHANGED <<stored, run, seen, ids, locked, deleted, overlapped>>

(* The chunk index is unique in a document: the insert waits for rows with *)
(* its index that are pending, and fails if one of them stays.             *)
Taken(i) == {r \in chunks \ deleted[i] : r.index < Size[Version(i)]}

WriteChunks(i) ==
    /\ pc[i] = "write"
    /\ ~ InsertPending(i)
    /\ Taken(i) = {}
    /\ GoTo(i, "commit")
    /\ UNCHANGED <<stored, run, seen, ids, locked, deleted, overlapped>>

(* The session writes only the attributes of the document that differ from *)
(* what it has loaded.                                                     *)
Commit(i) ==
    /\ pc[i] = "commit"
    /\ document' = IF seen[i] = Content[Version(i)] THEN document
                   ELSE Content[Version(i)]
    /\ chunks' = (chunks \ deleted[i]) \cup Rows(run[i])
    /\ embedded' = (embedded \ (locked[i] \cup deleted[i])) \cup Rows(run[i])
    /\ Release(i)
    /\ GoTo(i, "updated")
    /\ UNCHANGED <<runs, run, seen, ids, overlapped>>

(* A unique constraint, a database or provider error, a deadlock that      *)
(* PostgreSQL breaks, or a crash: the transaction is rolled back and the   *)
(* process ends.                                                           *)
Fail(i) ==
    /\ pc[i] \notin {"idle", "unchanged", "updated"}
    /\ Release(i)
    /\ GoTo(i, "idle")
    /\ UNCHANGED <<stored, run, seen, ids, overlapped>>

Finish(i) ==
    /\ pc[i] \in {"unchanged", "updated"}
    /\ GoTo(i, "idle")
    /\ UNCHANGED <<stored, run, seen, ids, locked, deleted, overlapped>>

Step(i) ==
    \/ CheckDocument(i) \/ CheckChunks(i) \/ Load(i) \/ CreateDocument(i)
    \/ ListChunks(i) \/ DeleteEmbeddings(i) \/ FindChunks(i) \/ DeleteChunks(i)
    \/ WriteChunks(i) \/ Commit(i) \/ Fail(i) \/ Finish(i)

Next == \E i \in Ingestors : (\E v \in Versions : Start(i, v)) \/ Step(i)

Spec == Init /\ [][Next]_vars

-----------------------------------------------------------------------------
(* Properties *)

AllRows == UNION {Rows(n) : n \in 1..Len(runs)}

(* Every variable stays in its domain; what a transaction holds are rows   *)
(* of the tables.                                                          *)
TypeOK ==
    /\ runs \in Seq(Versions)
    /\ document \in Contents \cup {NoDocument}
    /\ chunks \subseteq AllRows
    /\ embedded \subseteq chunks
    /\ pc \in [Ingestors -> {"idle", "document", "chunks", "load", "create",
                             "list", "embeddings", "find", "delete", "write",
                             "commit", "unchanged", "updated"}]
    /\ run \in [Ingestors -> 0..Len(runs)]
    /\ \A i \in Ingestors : pc[i] # "idle" => run[i] # 0
    /\ seen \in [Ingestors -> Contents \cup {NoDocument}]
    /\ ids \in [Ingestors -> SUBSET AllRows]
    /\ locked \in [Ingestors -> SUBSET chunks]
    /\ deleted \in [Ingestors -> SUBSET chunks]
    /\ overlapped \in [Ingestors -> BOOLEAN]

(* What retrieval finds of a document is always all of the chunks of one   *)
(* ingestion, each with its embedding: never a mixture of two, never a     *)
(* part, and never nothing once the document exists (ingestion.py:76-137). *)
OneCompleteVersion ==
    IF document = NoDocument
    THEN chunks = {} /\ embedded = {}
    ELSE \E n \in 1..Len(runs) : chunks = Rows(n) /\ embedded = chunks

(* An ingestion that has the document to itself leaves it current,         *)
(* whatever others have left behind (ingestion.py:50-174).                 *)
AloneIsCurrent ==
    \A i \in Ingestors :
        pc[i] \in {"unchanged", "updated"} /\ ~ overlapped[i] =>
            /\ document = Content[Version(i)]
            /\ IsCurrent(Version(i))

(* What the class says of itself, "replace changed chunks atomically per   *)
(* document" (ingestion.py:33): the chunks are those of the content that   *)
(* the document row names.                                                 *)
ChunksMatchDocument ==
    \A r \in chunks : document = Content[runs[r.run]]
=============================================================================
