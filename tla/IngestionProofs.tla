-------------------------- MODULE IngestionProofs --------------------------
(***************************************************************************)
(* Proofs about Ingestion, for any ingestors, versions and number of       *)
(* ingestions: type correctness, that the committed chunks are always      *)
(* those of one ingestion, and that an ingestion without company leaves    *)
(* the document current.                                                   *)
(***************************************************************************)
EXTENDS Ingestion, SequenceTheorems, TLAPS

-----------------------------------------------------------------------------
(* The inductive invariant, part by part *)

(* A DELETE finds the chunks of one ingestion, and holds all or none of    *)
(* the rows of the tables.                                                 *)
WholeSets ==
    \A i \in Ingestors :
        /\ ids[i] = {} \/ \E n \in 1..Len(runs) : ids[i] = Rows(n)
        /\ locked[i] \in {{}, chunks}
        /\ deleted[i] \in {{}, chunks}

(* No row is held by two transactions. *)
HeldOnce ==
    \A i, j \in Ingestors : i # j =>
        (locked[i] \cup deleted[i]) \cap (locked[j] \cup deleted[j]) = {}

(* Whoever creates the document is alone and holds nothing; whoever        *)
(* replaces chunks has found a document, which stays.                      *)
CreatesAlone ==
    /\ \A i \in Ingestors : Creating(i) =>
          /\ document = NoDocument
          /\ \A j \in Ingestors : Creating(j) => i = j
    /\ \A i \in Ingestors : pc[i] = "create" => seen[i] = NoDocument
    /\ \A i \in Ingestors : pc[i] \in {"list", "embeddings", "find", "delete"} =>
          seen[i] # NoDocument
    /\ \A i \in Ingestors :
          pc[i] \in {"list", "embeddings", "find", "delete", "write", "commit"}
            /\ seen[i] # NoDocument => document # NoDocument

(* One transaction at a time has inserted its chunks, and it has deleted   *)
(* all the others.                                                         *)
CommitsAlone ==
    \A i \in Ingestors : pc[i] = "commit" =>
        /\ deleted[i] = chunks
        /\ \A j \in Ingestors : pc[j] = "commit" => i = j

ReplaceInv ==
    /\ TypeOK
    /\ OneCompleteVersion
    /\ WholeSets
    /\ HeldOnce
    /\ CreatesAlone
    /\ CommitsAlone

-----------------------------------------------------------------------------
(* Rows of ingestions *)

(* Different ingestions have no row in common, and each has a first row.   *)
LEMMA RowsOfRuns ==
    ASSUME TypeOK
    PROVE  /\ \A n \in 1..Len(runs) : Row(n, 0) \in Rows(n)
           /\ \A n, m \in 1..Len(runs) : n # m => Rows(n) \cap Rows(m) = {}
<1>1. ASSUME NEW n \in 1..Len(runs) PROVE Row(n, 0) \in Rows(n)
    <2>1. runs[n] \in Versions
        BY DEF TypeOK
    <2>2. Size[runs[n]] \in Nat \ {0}
        BY <2>1, IngestionAssumption
    <2>3. 0 \in 0..(Size[runs[n]] - 1)
        BY <2>2
    <2> QED
        BY <2>3 DEF Rows
<1>2. ASSUME NEW n \in 1..Len(runs), NEW m \in 1..Len(runs), n # m
      PROVE  Rows(n) \cap Rows(m) = {}
    BY <1>2 DEF Rows, Row
<1> QED
    BY <1>1, <1>2

(* Of the chunks of one ingestion, all or none are in the tables.          *)
LEMMA AllOrNone ==
    ASSUME ReplaceInv, NEW i \in Ingestors
    PROVE  ids[i] \cap chunks \in {{}, chunks}
<1>1. TypeOK
    BY DEF ReplaceInv
<1>2. CASE ids[i] = {} \/ chunks = {}
    BY <1>2
<1>3. CASE ids[i] # {} /\ chunks # {}
    <2>1. PICK n \in 1..Len(runs) : ids[i] = Rows(n)
        BY <1>3 DEF ReplaceInv, WholeSets
    <2>2. PICK m \in 1..Len(runs) : chunks = Rows(m)
        BY <1>3 DEF ReplaceInv, OneCompleteVersion
    <2>3. n # m => Rows(n) \cap Rows(m) = {}
        BY <1>1, RowsOfRuns
    <2> QED
        BY <2>1, <2>2, <2>3
<1> QED
    BY <1>2, <1>3

(* Steps that leave the tables alone leave what they say alone. *)
LEMMA SameTables ==
    ASSUME ReplaceInv, UNCHANGED stored
    PROVE  /\ AllRows' = AllRows
           /\ \A n : Rows(n)' = Rows(n)
           /\ OneCompleteVersion'
BY DEF stored, AllRows, Rows, Row, ReplaceInv, OneCompleteVersion

-----------------------------------------------------------------------------
(* Nothing is stored at first. *)
LEMMA InitReplaceInv == Init => ReplaceInv
<1> SUFFICES ASSUME Init PROVE ReplaceInv
    OBVIOUS
<1>1. runs \in Seq(Versions) /\ Len(runs) = 0
    BY DEF Init
<1>2. TypeOK
    BY <1>1 DEF Init, TypeOK
<1>3. /\ OneCompleteVersion /\ WholeSets /\ HeldOnce
      /\ CreatesAlone /\ CommitsAlone
    BY DEF Init, OneCompleteVersion, WholeSets, HeldOnce, CreatesAlone,
           CommitsAlone, Creating
<1> QED
    BY <1>2, <1>3 DEF ReplaceInv

(* Steps that read, or take note of what they are going to do. *)
LEMMA ReadStep ==
    ASSUME ReplaceInv, NEW i \in Ingestors,
           CheckDocument(i) \/ CheckChunks(i) \/ Load(i) \/ Finish(i)
    PROVE  ReplaceInv'
<1>1. UNCHANGED <<stored, run, ids, locked, deleted, overlapped>>
    BY DEF CheckDocument, CheckChunks, Load, Finish
<1>2. TypeOK'
    <2>1. TypeOK /\ AllRows' = AllRows
        BY SameTables, <1>1 DEF ReplaceInv
    <2>2. pc' \in [Ingestors -> {"idle", "document", "chunks", "load", "create",
                                "list", "embeddings", "find", "delete", "write",
                                "commit", "unchanged", "updated"}]
        BY <2>1 DEF CheckDocument, CheckChunks, Load, Finish, GoTo, TypeOK
    <2>3. seen' \in [Ingestors -> Contents \cup {NoDocument}]
        BY <2>1 DEF CheckDocument, CheckChunks, Load, Finish, TypeOK
    <2>4. \A j \in Ingestors : pc'[j] # "idle" => pc[j] # "idle"
        BY <2>1 DEF CheckDocument, CheckChunks, Load, Finish, GoTo, TypeOK
    <2> QED
        BY <1>1, <2>1, <2>2, <2>3, <2>4 DEF TypeOK, stored
<1>3. WholeSets' /\ HeldOnce'
    BY <1>1, SameTables DEF ReplaceInv, WholeSets, HeldOnce, stored
<1>4. /\ \A j \in Ingestors \ {i} : pc'[j] = pc[j] /\ seen'[j] = seen[j]
      /\ pc'[i] \notin {"embeddings", "find", "delete", "write", "commit"}
      /\ pc'[i] = "create" => seen'[i] = NoDocument
      /\ pc'[i] = "list" => seen'[i] # NoDocument /\ document # NoDocument
    BY DEF CheckDocument, CheckChunks, Load, Finish, GoTo, ReplaceInv, TypeOK
<1>5. CreatesAlone'
    BY <1>1, <1>4 DEF ReplaceInv, CreatesAlone, Creating, stored
<1>6. CommitsAlone'
    BY <1>1, <1>4 DEF ReplaceInv, CommitsAlone, stored
<1> QED
    BY <1>1, <1>2, <1>3, <1>5, <1>6, SameTables DEF ReplaceInv

(* A new ingestion adds a version, and no row. *)
LEMMA StartStep ==
    ASSUME ReplaceInv, NEW i \in Ingestors, NEW v \in Versions, Start(i, v)
    PROVE  ReplaceInv'
<1>1. /\ runs \in Seq(Versions) /\ Len(runs) \in Nat
      /\ runs' = Append(runs, v)
    BY DEF Start, ReplaceInv, TypeOK
<1>2. /\ runs' \in Seq(Versions) /\ Len(runs') = Len(runs) + 1
      /\ \A n \in 1..Len(runs) : runs'[n] = runs[n]
    BY <1>1
<1>3. \A n \in 1..Len(runs) : Rows(n)' = Rows(n) /\ n \in 1..Len(runs')
    BY <1>1, <1>2 DEF Rows, Row
<1>4. AllRows \subseteq AllRows'
    BY <1>3 DEF AllRows
<1>5. UNCHANGED <<document, chunks, embedded, seen, ids, locked, deleted>>
    BY DEF Start
<1>6. TypeOK'
    <2>1. /\ run' \in [Ingestors -> 0..Len(runs')]
          /\ \A j \in Ingestors : pc'[j] # "idle" => run'[j] # 0
        BY <1>1, <1>2 DEF Start, GoTo, ReplaceInv, TypeOK
    <2>2. /\ pc' \in [Ingestors -> {"idle", "document", "chunks", "load",
                         "create", "list", "embeddings", "find", "delete",
                         "write", "commit", "unchanged", "updated"}]
          /\ overlapped' \in [Ingestors -> BOOLEAN]
        BY DEF Start, GoTo, ReplaceInv, TypeOK
    <2>3. /\ chunks' \subseteq AllRows'
          /\ ids' \in [Ingestors -> SUBSET AllRows']
        BY <1>4, <1>5 DEF ReplaceInv, TypeOK
    <2> QED
        BY <1>2, <1>5, <2>1, <2>2, <2>3 DEF ReplaceInv, TypeOK
<1>7. OneCompleteVersion'
    BY <1>3, <1>5 DEF ReplaceInv, OneCompleteVersion
<1>8. WholeSets'
    BY <1>3, <1>5 DEF ReplaceInv, WholeSets
<1>9. HeldOnce'
    BY <1>5 DEF ReplaceInv, HeldOnce
<1>10. /\ \A j \in Ingestors \ {i} : pc'[j] = pc[j]
       /\ pc'[i] = "document"
    BY DEF Start, GoTo, ReplaceInv, TypeOK
<1>11. CreatesAlone' /\ CommitsAlone'
    BY <1>5, <1>10 DEF ReplaceInv, CreatesAlone, CommitsAlone, Creating
<1> QED
    BY <1>6, <1>7, <1>8, <1>9, <1>11 DEF ReplaceInv

(* Only one ingestor creates the document, and only if there is none. *)
LEMMA CreateStep ==
    ASSUME ReplaceInv, NEW i \in Ingestors, CreateDocument(i)
    PROVE  ReplaceInv'
<1>1. UNCHANGED <<stored, run, seen, ids, locked, deleted, overlapped>>
    BY DEF CreateDocument
<1>2. TypeOK'
    BY <1>1, SameTables DEF CreateDocument, GoTo, ReplaceInv, TypeOK, stored
<1>3. WholeSets' /\ HeldOnce'
    BY <1>1, SameTables DEF ReplaceInv, WholeSets, HeldOnce, stored
<1>4. /\ \A j \in Ingestors \ {i} : pc'[j] = pc[j]
      /\ pc'[i] = "write" /\ seen[i] = NoDocument /\ document = NoDocument
      /\ \A j \in Ingestors : ~ Creating(j)
    BY DEF CreateDocument, GoTo, ReplaceInv, TypeOK, CreatesAlone
<1>5. CreatesAlone'
    BY <1>1, <1>4 DEF ReplaceInv, CreatesAlone, Creating, stored
<1>6. CommitsAlone'
    BY <1>1, <1>4 DEF ReplaceInv, CommitsAlone, stored
<1> QED
    BY <1>1, <1>2, <1>3, <1>5, <1>6, SameTables DEF ReplaceInv

(* A statement takes its snapshot. *)
LEMMA FindStep ==
    ASSUME ReplaceInv, NEW i \in Ingestors, ListChunks(i) \/ FindChunks(i)
    PROVE  ReplaceInv'
<1>1. /\ UNCHANGED <<stored, run, seen, locked, deleted, overlapped>>
      /\ ids' = [ids EXCEPT ![i] = chunks]
    BY DEF ListChunks, FindChunks
<1>2. TypeOK'
    BY <1>1, SameTables DEF ListChunks, FindChunks, GoTo, ReplaceInv, TypeOK, stored
<1>3. chunks = {} \/ \E n \in 1..Len(runs) : chunks = Rows(n)
    BY DEF ReplaceInv, OneCompleteVersion
<1>4. WholeSets'
    BY <1>1, <1>3, SameTables DEF ReplaceInv, TypeOK, WholeSets, stored
<1>5. HeldOnce'
    BY <1>1 DEF ReplaceInv, HeldOnce
<1>6. /\ \A j \in Ingestors \ {i} : pc'[j] = pc[j]
      /\ pc[i] \in {"list", "find"}
      /\ pc'[i] \in {"embeddings", "delete"}
    BY DEF ListChunks, FindChunks, GoTo, ReplaceInv, TypeOK
<1>7. CreatesAlone' /\ CommitsAlone'
    BY <1>1, <1>6 DEF ReplaceInv, CreatesAlone, CommitsAlone, Creating, stored
<1> QED
    BY <1>1, <1>2, <1>4, <1>5, <1>7, SameTables DEF ReplaceInv

(* A DELETE takes what nobody else holds. *)
LEMMA DeleteStep ==
    ASSUME ReplaceInv, NEW i \in Ingestors, DeleteEmbeddings(i) \/ DeleteChunks(i)
    PROVE  ReplaceInv'
<1> DEFINE found == ids[i] \cap chunks
<1>1. UNCHANGED <<stored, run, seen, ids, overlapped>>
    BY DEF DeleteEmbeddings, DeleteChunks
<1>2. found \in {{}, chunks}
    BY AllOrNone
<1>3. found \cap Pending(i) = {}
    BY DEF DeleteEmbeddings, DeleteChunks
<1>4. \A j \in Ingestors \ {i} : found \cap (locked[j] \cup deleted[j]) = {}
    BY <1>3 DEF Pending
<1>5. \/ locked' = [locked EXCEPT ![i] = found] /\ deleted' = deleted
      \/ deleted' = [deleted EXCEPT ![i] = found] /\ locked' = locked
    BY DEF DeleteEmbeddings, DeleteChunks
<1>6. /\ \A j \in Ingestors \ {i} : pc'[j] = pc[j]
      /\ \/ pc[i] = "embeddings" /\ pc'[i] = "find"
         \/ pc[i] = "delete" /\ pc'[i] = "write"
    BY DEF DeleteEmbeddings, DeleteChunks, GoTo, ReplaceInv, TypeOK
<1>7. TypeOK'
    BY <1>1, <1>5, SameTables, ZenonT(40)
       DEF DeleteEmbeddings, DeleteChunks, GoTo, ReplaceInv, TypeOK, stored
<1> HIDE DEF found
<1>8. WholeSets'
    BY <1>1, <1>2, <1>5, SameTables DEF ReplaceInv, TypeOK, WholeSets, stored
<1>9. HeldOnce'
    BY <1>4, <1>5 DEF ReplaceInv, TypeOK, HeldOnce
<1>10. CreatesAlone'
    BY <1>1, <1>6 DEF ReplaceInv, CreatesAlone, Creating, stored
<1>11. CommitsAlone'
    BY <1>1, <1>5, <1>6 DEF ReplaceInv, TypeOK, CommitsAlone, stored
<1> QED
    BY <1>1, <1>7, <1>8, <1>9, <1>10, <1>11, SameTables DEF ReplaceInv

(* Chunks can be inserted only by whoever has deleted all that were there: *)
(* of those that stay, the first one is in the way.                        *)
LEMMA WriteStep ==
    ASSUME ReplaceInv, NEW i \in Ingestors, WriteChunks(i)
    PROVE  ReplaceInv'
<1>1. UNCHANGED <<stored, run, seen, ids, locked, deleted, overlapped>>
    BY DEF WriteChunks
<1>2. TypeOK'
    BY <1>1, SameTables DEF WriteChunks, GoTo, ReplaceInv, TypeOK, stored
<1>3. WholeSets' /\ HeldOnce'
    BY <1>1, SameTables DEF ReplaceInv, WholeSets, HeldOnce, stored
<1>4. /\ \A j \in Ingestors \ {i} : pc'[j] = pc[j] /\ pc[j] # "commit"
      /\ pc[i] = "write" /\ pc'[i] = "commit"
    BY DEF WriteChunks, GoTo, InsertPending, ReplaceInv, TypeOK
<1>5. CreatesAlone'
    BY <1>1, <1>4 DEF ReplaceInv, CreatesAlone, Creating, stored
<1>6. deleted[i] = chunks
    <2>1. TypeOK /\ deleted[i] \in {{}, chunks}
        BY DEF ReplaceInv, WholeSets
    <2>2. SUFFICES ASSUME chunks # {} PROVE deleted[i] # {}
        BY <2>1
    <2>3. PICK m \in 1..Len(runs) : chunks = Rows(m)
        BY <2>2 DEF ReplaceInv, OneCompleteVersion
    <2>4. Row(m, 0) \in chunks
        BY <2>1, <2>3, RowsOfRuns
    <2>5. Size[Version(i)] \in Nat \ {0}
        <3>1. run[i] \in 1..Len(runs)
            BY <1>4, <2>1 DEF TypeOK
        <3>2. runs[run[i]] \in Versions
            BY <2>1, <3>1 DEF TypeOK
        <3> QED
            BY <3>2, IngestionAssumption DEF Version
    <2>6. Row(m, 0).index < Size[Version(i)]
        BY <2>5 DEF Row
    <2> QED
        BY <2>4, <2>6 DEF WriteChunks, Taken
<1>7. CommitsAlone'
    BY <1>1, <1>4, <1>6 DEF stored, CommitsAlone
<1> QED
    BY <1>1, <1>2, <1>3, <1>5, <1>7, SameTables DEF ReplaceInv

(* The commit puts the chunks of one ingestion in the place of all others. *)
LEMMA CommitStep ==
    ASSUME ReplaceInv, NEW i \in Ingestors, Commit(i)
    PROVE  ReplaceInv'
<1>1. /\ TypeOK
      /\ pc[i] = "commit" /\ deleted[i] = chunks /\ locked[i] \subseteq chunks
      /\ embedded \subseteq chunks
    BY DEF Commit, ReplaceInv, CommitsAlone, TypeOK
<1>2. /\ run[i] \in 1..Len(runs) /\ runs' = runs
      /\ UNCHANGED <<run, seen, ids, overlapped>>
    BY <1>1 DEF Commit, TypeOK
<1>3. AllRows' = AllRows /\ \A n : Rows(n)' = Rows(n)
    BY <1>2 DEF AllRows, Rows, Row
<1>4. chunks' = Rows(run[i]) /\ embedded' = Rows(run[i])
    BY <1>1 DEF Commit
<1>5. Content[Version(i)] \in Contents
    <2>1. runs[run[i]] \in Versions
        BY <1>1, <1>2 DEF TypeOK
    <2> QED
        BY <2>1, IngestionAssumption DEF Version
<1>6. document' \in Contents
    <2>1. CASE seen[i] = Content[Version(i)]
        <3>1. document # NoDocument
            BY <1>1, <1>5, <2>1, IngestionAssumption DEF ReplaceInv, CreatesAlone
        <3> QED
            BY <1>1, <2>1, <3>1 DEF Commit, TypeOK
    <2>2. CASE seen[i] # Content[Version(i)]
        BY <1>5, <2>2 DEF Commit
    <2> QED
        BY <2>1, <2>2
<1>7. OneCompleteVersion'
    BY <1>2, <1>3, <1>4, <1>6, IngestionAssumption DEF OneCompleteVersion
<1>8. \A j \in Ingestors : locked'[j] = {} /\ deleted'[j] = {}
    <2>1. ASSUME NEW j \in Ingestors, j # i PROVE locked[j] = {} /\ deleted[j] = {}
        <3>1. (locked[j] \cup deleted[j]) \cap chunks = {}
            BY <1>1, <2>1 DEF ReplaceInv, HeldOnce
        <3>2. locked[j] \subseteq chunks /\ deleted[j] \subseteq chunks
            BY <1>1 DEF TypeOK
        <3> QED
            BY <3>1, <3>2
    <2> QED
        BY <1>1, <2>1 DEF Commit, Release, TypeOK
<1>9. TypeOK'
    <2>1. chunks' \subseteq AllRows'
        BY <1>2, <1>3, <1>4 DEF AllRows
    <2>2. locked' \in [Ingestors -> SUBSET chunks'] /\ deleted' \in [Ingestors -> SUBSET chunks']
        BY <1>1, <1>8 DEF Commit, Release, TypeOK
    <2>3. /\ pc' \in [Ingestors -> {"idle", "document", "chunks", "load",
                         "create", "list", "embeddings", "find", "delete",
                         "write", "commit", "unchanged", "updated"}]
          /\ \A j \in Ingestors : pc'[j] # "idle" => run'[j] # 0
        BY <1>1, <1>2 DEF Commit, GoTo, TypeOK
    <2> QED
        BY <1>1, <1>2, <1>3, <1>4, <1>6, <2>1, <2>2, <2>3 DEF TypeOK
<1>10. WholeSets'
    BY <1>2, <1>3, <1>8 DEF ReplaceInv, WholeSets
<1>11. HeldOnce'
    BY <1>8 DEF HeldOnce
<1>12. /\ \A j \in Ingestors \ {i} : pc'[j] = pc[j] /\ pc[j] # "commit"
       /\ pc'[i] = "updated"
    BY <1>1 DEF Commit, GoTo, ReplaceInv, CommitsAlone, TypeOK
<1>13. \A j \in Ingestors \ {i} : ~ Creating(j)
    <2> SUFFICES ASSUME NEW j \in Ingestors \ {i}, Creating(j) PROVE FALSE
        OBVIOUS
    <2>1. document = NoDocument /\ ~ Creating(i)
        BY DEF ReplaceInv, CreatesAlone
    <2> QED
        BY <1>1, <2>1 DEF ReplaceInv, CreatesAlone, Creating
<1>14. CreatesAlone'
    BY <1>2, <1>6, <1>12, <1>13, IngestionAssumption
       DEF ReplaceInv, CreatesAlone, Creating
<1>15. CommitsAlone'
    BY <1>12 DEF CommitsAlone
<1> QED
    BY <1>7, <1>9, <1>10, <1>11, <1>14, <1>15 DEF ReplaceInv

(* A rollback gives back what was held. *)
LEMMA FailStep ==
    ASSUME ReplaceInv, NEW i \in Ingestors, Fail(i)
    PROVE  ReplaceInv'
<1>1. UNCHANGED <<stored, run, seen, ids, overlapped>>
    BY DEF Fail
<1>2. /\ locked' = [locked EXCEPT ![i] = {}]
      /\ deleted' = [deleted EXCEPT ![i] = {}]
    BY DEF Fail, Release
<1>3. TypeOK'
    BY <1>1, <1>2, SameTables DEF Fail, GoTo, ReplaceInv, TypeOK, stored
<1>4. WholeSets' /\ HeldOnce'
    <2>1. WholeSets'
        BY <1>1, <1>2, SameTables DEF ReplaceInv, TypeOK, WholeSets, stored
    <2>2. HeldOnce'
        BY <1>2 DEF ReplaceInv, TypeOK, HeldOnce
    <2> QED
        BY <2>1, <2>2
<1>5. /\ \A j \in Ingestors \ {i} : pc'[j] = pc[j]
      /\ pc'[i] = "idle"
    BY DEF Fail, GoTo, ReplaceInv, TypeOK
<1>6. CreatesAlone'
    BY <1>1, <1>5 DEF ReplaceInv, CreatesAlone, Creating, stored
<1>7. CommitsAlone'
    BY <1>1, <1>2, <1>5 DEF ReplaceInv, TypeOK, CommitsAlone, stored
<1> QED
    BY <1>1, <1>3, <1>4, <1>6, <1>7, SameTables DEF ReplaceInv

(* Every statement of every ingestor keeps the invariant. *)
LEMMA NextReplaceInv == ReplaceInv /\ [Next]_vars => ReplaceInv'
<1>1. ASSUME ReplaceInv, UNCHANGED vars PROVE ReplaceInv'
    <2>1. UNCHANGED <<stored, pc, run, seen, ids, locked, deleted, overlapped>>
        BY <1>1 DEF vars
    <2>2. TypeOK'
        BY <1>1, <2>1, SameTables DEF ReplaceInv, TypeOK, stored
    <2>3. WholeSets' /\ HeldOnce' /\ CreatesAlone' /\ CommitsAlone'
        BY <1>1, <2>1, SameTables
           DEF ReplaceInv, WholeSets, HeldOnce, CreatesAlone, CommitsAlone,
               Creating, stored
    <2> QED
        BY <1>1, <2>1, <2>2, <2>3, SameTables DEF ReplaceInv
<1> QED
    BY <1>1, ReadStep, StartStep, CreateStep, FindStep, DeleteStep, WriteStep,
       CommitStep, FailStep
       DEF Next, Step

(* Every reachable state is well typed, for any number of ingestors and    *)
(* ingestions; what a transaction holds is in the tables                   *)
(* (ingestion.py:76-137).                                                  *)
THEOREM TypeCorrect == Spec => []TypeOK
<1>1. ReplaceInv => TypeOK
    BY DEF ReplaceInv
<1> QED
    BY <1>1, InitReplaceInv, NextReplaceInv, PTL DEF Spec

(* The committed chunks are always all those of one ingestion, with their  *)
(* embeddings (ingestion.py:76-137).                                       *)
THEOREM OneCompleteVersionHolds == Spec => []OneCompleteVersion
<1>1. ReplaceInv => OneCompleteVersion
    BY DEF ReplaceInv
<1> QED
    BY <1>1, InitReplaceInv, NextReplaceInv, PTL DEF Spec

-----------------------------------------------------------------------------
(* An ingestion without company *)

Lonely(i) == pc[i] # "idle" /\ ~ overlapped[i]

(* What it has found out about the document is still so, and the others    *)
(* do nothing.                                                             *)
Undisturbed(i) ==
    /\ \A j \in Ingestors \ {i} : pc[j] = "idle"
    /\ pc[i] \in {"chunks", "unchanged", "updated"} => document = Content[Version(i)]
    /\ pc[i] \in {"create", "list", "embeddings", "find", "delete", "write", "commit"} =>
          seen[i] = document
    /\ pc[i] \in {"unchanged", "updated"} => IsCurrent(Version(i))

AloneInv == \A i \in Ingestors : Lonely(i) => Undisturbed(i)

(* The rows of an ingestion are what its version brings. *)
LEMMA RowsCarry ==
    ASSUME NEW n
    PROVE  {<<runs[r.run], r.index>> : r \in Rows(n)}
              = {<<runs[n], k>> : k \in 0..(Size[runs[n]] - 1)}
<1> DEFINE K == 0..(Size[runs[n]] - 1)
<1>1. \A r \in Rows(n) : \E k \in K : r = Row(n, k)
    BY DEF Rows
<1>2. \A k \in K : Row(n, k) \in Rows(n)
    BY DEF Rows
<1>3. \A k : Row(n, k).run = n /\ Row(n, k).index = k
    BY DEF Row
<1> HIDE DEF K
<1>4. {<<runs[r.run], r.index>> : r \in Rows(n)} = {<<runs[n], k>> : k \in K}
    BY <1>1, <1>2, <1>3
<1> QED
    BY <1>4 DEF K

LEMMA AloneStep ==
    ASSUME ReplaceInv, ReplaceInv', AloneInv, [Next]_vars
    PROVE  AloneInv'
<1>0. TypeOK /\ TypeOK' /\ DOMAIN pc = Ingestors /\ DOMAIN seen = Ingestors
    BY DEF ReplaceInv, TypeOK
<1> SUFFICES ASSUME NEW i \in Ingestors, Lonely(i)' PROVE Undisturbed(i)'
    BY DEF AloneInv
<1>1. ASSUME NEW j \in Ingestors, NEW v \in Versions, Start(j, v)
      PROVE  Undisturbed(i)'
    <2>1. i = j /\ \A k \in Ingestors \ {i} : pc[k] = "idle"
        BY <1>1 DEF Start, Lonely, GoTo, TypeOK
    <2>2. pc'[i] = "document" /\ \A k \in Ingestors \ {i} : pc'[k] = "idle"
        BY <1>0, <1>1, <2>1 DEF Start, GoTo
    <2> QED
        BY <2>2 DEF Undisturbed
<1>2. ASSUME NEW j \in Ingestors, Step(j), j # i PROVE Undisturbed(i)'
    <2>1. overlapped' = overlapped /\ pc'[i] = pc[i] /\ pc[j] # "idle"
        BY <1>0, <1>2 DEF Step, CheckDocument, CheckChunks, Load, CreateDocument, ListChunks,
           DeleteEmbeddings, FindChunks, DeleteChunks, WriteChunks, Commit, Fail, Finish, GoTo
    <2> QED
        BY <1>2, <2>1 DEF AloneInv, Lonely, Undisturbed
<1>3. ASSUME Step(i) PROVE Undisturbed(i)'
    <2>1. /\ UNCHANGED <<overlapped, runs, run>> /\ pc[i] # "idle"
          /\ \A j \in Ingestors \ {i} : pc'[j] = pc[j]
        BY <1>0, <1>3 DEF Step, CheckDocument, CheckChunks, Load, CreateDocument, ListChunks,
           DeleteEmbeddings, FindChunks, DeleteChunks, WriteChunks, Commit, Fail, Finish,
           GoTo, stored
    <2>2. Undisturbed(i) /\ Version(i)' = Version(i)
        BY <2>1 DEF AloneInv, Lonely, Version
    <2>3. CASE CheckDocument(i) \/ Load(i)
        BY <1>0, <2>1, <2>2, <2>3 DEF CheckDocument, Load, GoTo, Undisturbed, stored
    <2>4. CASE CheckChunks(i)
        <3>1. IsCurrent(Version(i))' <=> IsCurrent(Version(i))
            BY <2>1, <2>2, <2>4 DEF CheckChunks, IsCurrent, stored
        <3> QED
            BY <1>0, <2>1, <2>2, <2>4, <3>1 DEF CheckChunks, GoTo, Undisturbed, stored
    <2>5. CASE CreateDocument(i) \/ ListChunks(i) \/ DeleteEmbeddings(i) \/ FindChunks(i)
               \/ DeleteChunks(i) \/ WriteChunks(i)
        BY <1>0, <2>1, <2>2, <2>5
           DEF CreateDocument, ListChunks, DeleteEmbeddings, FindChunks, DeleteChunks,
               WriteChunks, GoTo, Undisturbed, stored
    <2>6. CASE Commit(i)
        <3>1. pc[i] = "commit" /\ pc'[i] = "updated"
            BY <1>0, <2>6 DEF Commit, GoTo
        <3>2. deleted[i] = chunks /\ embedded \subseteq chunks
            BY <3>1 DEF ReplaceInv, CommitsAlone, TypeOK
        <3>3. run[i] \in 1..Len(runs)
            BY <3>1, LenProperties DEF ReplaceInv, TypeOK
        <3>4. Rows(run[i])' = Rows(run[i])
            BY <2>1 DEF Rows, Row
        <3>5. chunks' = Rows(run[i]) /\ embedded' = Rows(run[i])
            BY <2>6, <3>2 DEF Commit
        <3>6. document' = Content[Version(i)]
            BY <2>2, <2>6, <3>1 DEF Commit, Undisturbed
        <3>7. IsCurrent(Version(i))'
            <4>1. {<<runs[r.run], r.index>> : r \in Rows(run[i])}
                     = {<<Version(i), k>> : k \in 0..(Size[Version(i)] - 1)}
                BY <3>3, RowsCarry DEF Version
            <4> QED
                BY <2>1, <2>2, <3>5, <4>1 DEF IsCurrent
        <3> QED
            BY <2>1, <2>2, <3>1, <3>6, <3>7 DEF Undisturbed
    <2>7. CASE Fail(i) \/ Finish(i)
        BY <1>0, <2>7 DEF Fail, Finish, GoTo, Lonely
    <2> QED
        BY <1>3, <2>3, <2>4, <2>5, <2>6, <2>7 DEF Step
<1>4. ASSUME UNCHANGED vars PROVE Undisturbed(i)'
    BY <1>4 DEF vars, stored, AloneInv, Lonely, Undisturbed, Version, IsCurrent
<1> QED
    BY <1>1, <1>2, <1>3, <1>4 DEF Next

(* An ingestion that has the document to itself leaves it current, whatever*)
(* the ingestions and failures before it have left behind.                 *)
THEOREM AloneIsCurrentHolds == Spec => []AloneIsCurrent
<1>1. Init => AloneInv
    BY DEF Init, AloneInv, Lonely
<1>2. (ReplaceInv /\ AloneInv) /\ ReplaceInv' /\ [Next]_vars => AloneInv'
    BY AloneStep
<1>3. AloneInv => AloneIsCurrent
    BY DEF AloneInv, Lonely, Undisturbed, AloneIsCurrent
<1> QED
    BY <1>1, <1>2, <1>3, InitReplaceInv, NextReplaceInv, PTL DEF Spec
=============================================================================
