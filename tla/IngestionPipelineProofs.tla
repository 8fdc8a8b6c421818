----------------------- MODULE IngestionPipelineProofs -----------------------
(***************************************************************************)
(* Safety of the ingestion pipeline for any tasks, documents, numbers of   *)
(* chunks, runs side by side and runs in all.                              *)
(***************************************************************************)
EXTENDS IngestionPipeline, TLAPS

USE DEF chunkVars

(* The document of a run.                                                  *)
RunDoc(r) == DocOf[task[r]]

-----------------------------------------------------------------------------
(* The inductive invariant.                                                *)

(* Only uploads come to the storage, and what has finished was accepted:   *)
(* it cannot be stored any more, not even late.                            *)
GateInv ==
    /\ \A t \in Tasks : gate[t] \in {"stored", "raised", "direct"} => t \in Uploads
    /\ \A t \in finished : gate[t] = "accepted"

(* An upload is stored once.                                               *)
StoredInv ==
    /\ \A j, k \in DOMAIN stored : stored[j] = stored[k] => j = k
    /\ \A k \in DOMAIN stored : gate[stored[k]] # "new"

(* A row holds the upload of its document that was stored last.            *)
IsLast(j, d) == \A k \in DOMAIN stored : k > j => DocOf[stored[k]] # d

RowInv ==
    \A d \in Docs : row[d] # NoTask =>
        /\ DocOf[row[d]] = d
        /\ \E j \in DOMAIN stored : stored[j] = row[d] /\ IsLast(j, d)

(* Chunks are made of uploads of their own document, text and metadata,    *)
(* and the metadata of a task that was published or that the gate indexed. *)
IndexInv ==
    \A d \in Docs, i \in Indices : index[d][i] # None =>
        /\ DocOf[index[d][i].text] = d /\ DocOf[index[d][i].of] = d
        /\ gate[index[d][i].of] \in {"accepted", "direct"}

(* The bytes a run is about to index are the row's, or it is behind.       *)
ReadInv ==
    \A r \in Runs : step[r] = "upsert" =>
        /\ DocOf[read[r]] = RunDoc(r)
        /\ r \in behind \/ row[RunDoc(r)] = read[r]

(* The index holds nothing of d that has no excuse.                        *)
Cleared(d) == index[d] = NoChunks \/ d \in overlapped \cup leftover \/ Direct(d)

(* A run that is about to delete the row has cleared the index.            *)
Deleting(d) == \E r \in Runs : step[r] = "delete_row" /\ RunDoc(r) = d

ClearedInv == \A d \in Docs : row[d] = NoTask \/ Deleting(d) => Cleared(d)

(* The document may be served by its row's upload, or something else was   *)
(* accepted or written: what DoneServesRow excuses.                        *)
Excused(d) ==
    \/ d \in overlapped \cup partly \/ Direct(d)
    \/ \E u \in Deletes : DocOf[u] = d /\ gate[u] = "accepted"

Serves(t) == \A i \in 1..Pieces[t] : index[DocOf[t]][i].text = t

ServedInv ==
    \A t \in Uploads : row[DocOf[t]] = t /\ t \in finished => Excused(DocOf[t]) \/ Serves(t)

Safe == RowInv /\ IndexInv /\ ReadInv /\ ClearedInv /\ ServedInv
IInv == TypeOK /\ GateInv /\ StoredInv /\ Safe

LEMMA InitInv == Init => IInv
BY PipelineAssumption
DEF Init, IInv, TypeOK, GateInv, StoredInv, Safe, RowInv, IndexInv, ReadInv, ClearedInv, ServedInv,
    Cleared, Deleting, NoChunks, AllSeen, None, Chunk, Chunks, Steps, RunDoc

-----------------------------------------------------------------------------
(* What the steps do.                                                      *)

(* Some chunks of a document written from an upload, or removed.           *)
LEMMA WriteType ==
    ASSUME TypeOK, NEW d \in Docs, NEW I, NEW c \in Chunks
    PROVE  /\ Write(d, I, c) \in [Docs -> [Indices -> Chunks]]
           /\ \A e \in Docs : e # d => Write(d, I, c)[e] = index[e]
           /\ \A i \in Indices : Write(d, I, c)[d][i] = IF i \in I THEN c ELSE index[d][i]
BY DEF Write, TypeOK

LEMMA WrittenType ==
    ASSUME TypeOK, NEW d \in Docs, NEW I \in SUBSET Indices, NEW c \in Chunks, Written(d, I, c)
    PROVE  /\ index' \in [Docs -> [Indices -> Chunks]]
           /\ unseen' \in [Docs -> SUBSET Indices]
           /\ \A e \in Docs : e # d => index'[e] = index[e]
           /\ \A i \in Indices : index'[d][i] = IF i \in I THEN c ELSE index[d][i]
<1>1. index' = Write(d, I, c) /\ unseen' = [unseen EXCEPT ![d] = @ \cup I]
  BY DEF Written
<1>2. unseen' \in [Docs -> SUBSET Indices]
  BY <1>1 DEF TypeOK
<1> QED BY <1>1, <1>2, WriteType

(* Of a chunk.                                                             *)
LEMMA ChunkType ==
    ASSUME NEW u \in Uploads, NEW t \in Uploads
    PROVE  Chunk(u, t) \in Chunks /\ Chunk(u, t).text = u /\ Chunk(u, t).of = t
BY DEF Chunk, Chunks

LEMMA NoneType == None \in Chunks /\ None.text = NoTask /\ None.of = NoTask
BY DEF Chunk, Chunks, None

(* A run that is not free has an accepted task of a document.              *)
LEMMA RunType ==
    ASSUME TypeOK, NEW r \in Runs, step[r] # "free"
    PROVE  /\ task[r] \in Tasks /\ gate[task[r]] = "accepted" /\ RunDoc(r) \in Docs
           /\ step[r] = "upsert" => read[r] \in Uploads
           /\ step[r] \in {"delete_index", "delete_row"} => task[r] \in Deletes
BY PipelineAssumption DEF TypeOK, RunDoc, Steps, Deletes

(* The chunks of an upload are numbered among all.                         *)
LEMMA PiecesType ==
    ASSUME NEW t \in Tasks
    PROVE  1..Pieces[t] \subseteq Indices
BY DEF Indices

(* The gate's answers are final, but for the legacy path after an error.   *)
GateMoves ==
    \A t \in Tasks :
        /\ gate[t] \in {"accepted", "direct"} => gate'[t] = gate[t]
        /\ gate'[t] = "new" => gate[t] = "new"

LEMMA ExcusesStay ==
    ASSUME GateMoves, NEW d \in Docs
    PROVE  /\ Direct(d) => Direct(d)'
           /\ (\E u \in Deletes : DocOf[u] = d /\ gate[u] = "accepted")
                 => (\E u \in Deletes : DocOf[u] = d /\ gate'[u] = "accepted")
BY DEF GateMoves, Direct, Deletes, Uploads

LEMMA IndexStays ==
    ASSUME TypeOK, IndexInv, GateMoves, NEW d \in Docs, NEW i \in Indices, index[d][i] # None
    PROVE  /\ DocOf[index[d][i].text] = d /\ DocOf[index[d][i].of] = d
           /\ gate'[index[d][i].of] \in {"accepted", "direct"}
<1>1. index[d][i].of \in Tasks
  BY DEF TypeOK, Chunks, Uploads
<1> QED BY <1>1 DEF IndexInv, GateMoves

-----------------------------------------------------------------------------
(* The gate.                                                               *)

LEMMA StorageTakesInv ==
    ASSUME IInv, NEW t \in Uploads, GateStore(t) \/ StoreLandsLate(t)
    PROVE  IInv'
<1> DEFINE d == DocOf[t]
<1> USE DEF IInv, Safe
<1>1. t \in Tasks /\ d \in Docs
  BY PipelineAssumption DEF Uploads
<1>2. /\ row' = [row EXCEPT ![d] = t] /\ stored' = Append(stored, t)
      /\ behind' = behind \cup ReadersOf(d)
      /\ UNCHANGED <<index, unseen, step, task, read, lossy, waiting, finished, started, overlapped, leftover, partly>>
  BY DEF GateStore, StoreLandsLate, StorageTakes, runVars
<1>3. /\ gate' \in [Tasks -> {"new", "stored", "raised", "direct", "accepted", "refused"}]
      /\ \A u \in Tasks : u # t => gate'[u] = gate[u]
      /\ gate'[t] \notin {"new", "accepted"} /\ gate[t] # "accepted"
      /\ GateMoves
  BY <1>1 DEF GateStore, StoreLandsLate, TypeOK, GateMoves
<1> DEFINE last == Len(stored) + 1
<1>4. /\ stored' \in Seq(Uploads) /\ last \in Nat
      /\ DOMAIN stored = 1..Len(stored) /\ DOMAIN stored' = 1..last /\ stored'[last] = t
      /\ \A k \in DOMAIN stored : k \in DOMAIN stored' /\ stored'[k] = stored[k] /\ stored[k] \in Tasks
      /\ \A k \in DOMAIN stored' : k \in DOMAIN stored \/ k = last
      /\ \A k \in DOMAIN stored' : ~(k > last)
  BY <1>2 DEF TypeOK, Uploads
<1> HIDE DEF last
<1>5. \A k \in DOMAIN stored : stored[k] # t
  BY DEF StoredInv, GateStore, StoreLandsLate
<1>6. row' \in [Docs -> Uploads \cup {NoTask}] /\ row'[d] = t /\ \A e \in Docs : e # d => row'[e] = row[e]
  BY <1>1, <1>2 DEF TypeOK
<1>7. TypeOK'
  <2>1. \A r \in Runs : step[r] # "free" => gate'[task[r]] = "accepted"
    BY <1>3, RunType
  <2>2. behind' \in SUBSET Runs
    BY <1>2 DEF TypeOK, ReadersOf
  <2> QED BY <1>2, <1>3, <1>4, <1>6, <2>1, <2>2 DEF TypeOK
<1>8. GateInv'
  BY <1>1, <1>2, <1>3 DEF GateInv, TypeOK
<1>9. StoredInv'
  BY <1>3, <1>4, <1>5 DEF StoredInv
<1>10. RowInv'
  <2> SUFFICES ASSUME NEW e \in Docs, row'[e] # NoTask
               PROVE  /\ DocOf[row'[e]] = e
                      /\ \E j \in DOMAIN stored' :
                            stored'[j] = row'[e] /\ \A k \in DOMAIN stored' : k > j => DocOf[stored'[k]] # e
    BY DEF RowInv, IsLast
  <2>1. CASE e = d
    <3>1. last \in DOMAIN stored'
      BY <1>4 DEF last, TypeOK
    <3> QED BY <2>1, <3>1, <1>4, <1>6
  <2>2. CASE e # d
    <3>1. row'[e] = row[e] /\ DocOf[row[e]] = e
      BY <1>6, <2>2 DEF RowInv
    <3>2. PICK j \in DOMAIN stored : stored[j] = row[e] /\ IsLast(j, e)
      BY <3>1 DEF RowInv
    <3>3. j \in DOMAIN stored' /\ stored'[j] = row'[e]
      BY <1>4, <3>1, <3>2
    <3>4. \A k \in DOMAIN stored' : k > j => DocOf[stored'[k]] # e
      BY <1>4, <2>2, <3>2 DEF IsLast
    <3> QED BY <3>1, <3>3, <3>4
  <2> QED BY <2>1, <2>2
<1>11. IndexInv'
  BY <1>2, <1>3, IndexStays DEF IndexInv
<1>12. ReadInv'
  BY <1>2, <1>6, RunType DEF ReadInv, RunDoc, ReadersOf
<1>13. ClearedInv'
  BY <1>2, <1>3, <1>6, ExcusesStay, PipelineAssumption DEF ClearedInv, Cleared, Deleting, RunDoc, Uploads
<1>14. ServedInv'
  <2>1. t \notin finished
    BY <1>3 DEF GateInv
  <2>2. \A u \in Uploads : DocOf[u] \in Docs /\ (row'[DocOf[u]] = u /\ u \in finished => row[DocOf[u]] = u)
    BY <1>6, <2>1, PipelineAssumption DEF Uploads
  <2> QED BY <1>2, <1>3, <2>2, ExcusesStay DEF ServedInv, Excused, Serves
<1> QED BY <1>7, <1>8, <1>9, <1>10, <1>11, <1>12, <1>13, <1>14

(* Steps of the gate that leave the storage alone.                         *)
LEMMA GateOnlyInv ==
    ASSUME IInv, NEW t \in Tasks, GateStoreRefused(t) \/ GateStoreRaises(t) \/ GatePublish(t)
    PROVE  IInv'
<1> USE DEF IInv, Safe
<1>1. UNCHANGED <<row, index, unseen, step, task, read, lossy, waiting, stored, finished, started, behind, overlapped, leftover, partly>>
  BY DEF GateStoreRefused, GateStoreRaises, GatePublish, runVars, history
<1>2. /\ gate' \in [Tasks -> {"new", "stored", "raised", "direct", "accepted", "refused"}]
      /\ \A u \in Tasks : u # t => gate'[u] = gate[u]
      /\ gate'[t] # "new" /\ gate[t] # "accepted" /\ (gate'[t] \in {"stored", "raised", "direct"} => t \in Uploads)
      /\ GateMoves
  BY DEF GateStoreRefused, GateStoreRaises, GatePublish, TypeOK, GateMoves
<1>3. TypeOK'
  <2>1. \A r \in Runs : step[r] # "free" => gate'[task[r]] = "accepted"
    BY <1>2, RunType
  <2> QED BY <1>1, <1>2, <2>1 DEF TypeOK
<1>4. GateInv' /\ StoredInv'
  BY <1>1, <1>2 DEF GateInv, StoredInv, TypeOK, Uploads
<1>5. RowInv' /\ ReadInv'
  BY <1>1 DEF RowInv, IsLast, ReadInv, RunDoc
<1>8. IndexInv'
  BY <1>1, <1>2, IndexStays DEF IndexInv
<1>6. ClearedInv'
  BY <1>1, <1>2, ExcusesStay DEF ClearedInv, Cleared, Deleting, RunDoc
<1>7. ServedInv'
  BY <1>1, <1>2, ExcusesStay, PipelineAssumption DEF ServedInv, Excused, Serves, Uploads
<1> QED BY <1>3, <1>4, <1>5, <1>6, <1>7, <1>8

LEMMA GateIndexesInv == ASSUME IInv, NEW t \in Tasks, GateIndexes(t) PROVE IInv'
<1> DEFINE d == DocOf[t]
<1> USE DEF IInv, Safe
<1>1. UNCHANGED <<row, step, task, read, lossy, waiting, stored, finished, started, behind, overlapped, leftover, partly>>
  BY DEF GateIndexes, runVars, history
<1>2. /\ gate' \in [Tasks -> {"new", "stored", "raised", "direct", "accepted", "refused"}]
      /\ \A u \in Tasks : u # t => gate'[u] = gate[u]
      /\ gate'[t] = "direct" /\ gate[t] # "accepted" /\ t \in Uploads
      /\ GateMoves
  BY DEF GateIndexes, TypeOK, GateMoves, GateInv
<1>3. PICK I \in SUBSET (1..Pieces[t]) : Written(d, I, Chunk(t, t))
  BY DEF GateIndexes
<1>4. d \in Docs /\ Direct(d)' /\ I \in SUBSET Indices
  BY <1>2, <1>3, PipelineAssumption, PiecesType DEF Direct
<1>5. /\ index' \in [Docs -> [Indices -> Chunks]] /\ unseen' \in [Docs -> SUBSET Indices]
      /\ \A e \in Docs : e # d => index'[e] = index[e]
      /\ \A i \in Indices : index'[d][i] = Chunk(t, t) \/ index'[d][i] = index[d][i]
  <2>1. Chunk(t, t) \in Chunks
    BY <1>2, ChunkType
  <2> HIDE DEF d
  <2> QED BY <1>3, <1>4, <2>1, WrittenType
<1>6. TypeOK'
  <2>1. \A r \in Runs : step[r] # "free" => gate'[task[r]] = "accepted"
    BY <1>2, RunType
  <2> QED BY <1>1, <1>2, <1>5, <2>1 DEF TypeOK
<1>7. GateInv' /\ StoredInv'
  BY <1>1, <1>2 DEF GateInv, StoredInv, TypeOK, Uploads
<1>8. RowInv' /\ ReadInv'
  BY <1>1 DEF RowInv, IsLast, ReadInv, RunDoc
<1>9. IndexInv'
  <2> SUFFICES ASSUME NEW e \in Docs, NEW i \in Indices, index'[e][i] # None
               PROVE  /\ DocOf[index'[e][i].text] = e /\ DocOf[index'[e][i].of] = e
                      /\ gate'[index'[e][i].of] \in {"accepted", "direct"}
    BY DEF IndexInv
  <2>1. CASE index'[e][i] = index[e][i]
    BY <1>2, <2>1, IndexStays
  <2>2. CASE e = d /\ index'[e][i] = Chunk(t, t)
    BY <1>2, <2>2, ChunkType
  <2> QED BY <1>5, <2>1, <2>2
<1>10. ClearedInv'
  BY <1>1, <1>2, <1>4, <1>5, ExcusesStay DEF ClearedInv, Cleared, Deleting, RunDoc
<1>11. ServedInv'
  <2> SUFFICES ASSUME NEW u \in Uploads, row[DocOf[u]] = u, u \in finished
               PROVE  Excused(DocOf[u])' \/ Serves(u)'
    BY <1>1 DEF ServedInv
  <2>1. DocOf[u] \in Docs
    BY PipelineAssumption DEF Uploads
  <2>2. CASE DocOf[u] = d
    BY <1>4, <2>2 DEF Excused
  <2>3. CASE DocOf[u] # d
    BY <1>1, <1>2, <1>5, <2>1, <2>3, ExcusesStay DEF ServedInv, Excused, Serves
  <2> QED BY <2>2, <2>3
<1> QED BY <1>6, <1>7, <1>8, <1>9, <1>10, <1>11

-----------------------------------------------------------------------------
(* The runs.                                                               *)

(* What TypeOK says of a run.                                              *)
RunOK(r) ==
    /\ step[r] = "free" <=> task[r] = NoTask
    /\ step[r] = "upsert" <=> read[r] # NoTask
    /\ step[r] \in {"fetch", "upsert"} => KindOf[task[r]] = "index"
    /\ step[r] \in {"delete_index", "delete_row"} => KindOf[task[r]] = "delete"
    /\ step[r] # "free" => gate[task[r]] = "accepted"

(* A free run takes a task, or a caller gives up.                          *)
LEMMA StartInv == ASSUME IInv, NEW r \in Runs, NEW t \in Tasks, Start(r, t) PROVE IInv'
<1> USE DEF IInv, Safe
<1>1. UNCHANGED <<gate, row, index, unseen, read, lossy, stored, finished, behind, overlapped, leftover, partly>>
  BY DEF Start
<1>2. /\ step' \in [Runs -> Steps] /\ task' \in [Runs -> Tasks \cup {NoTask}]
      /\ step[r] = "free" /\ step'[r] = (IF t \in Uploads THEN "fetch" ELSE "delete_index")
      /\ task'[r] = t /\ gate[t] = "accepted"
      /\ \A q \in Runs : q # r => step'[q] = step[q] /\ task'[q] = task[q]
  BY DEF Start, TypeOK, Steps
<1>3. waiting' \in [Runs -> BOOLEAN] /\ started' \in 0..MaxStarts
  BY PipelineAssumption DEF Start, TypeOK
<1>4. TypeOK'
  <2>1. ASSUME NEW q \in Runs PROVE RunOK(q)'
    <3>1. CASE q = r
      BY <1>1, <1>2, <3>1, PipelineAssumption DEF TypeOK, Uploads, RunOK
    <3>2. CASE q # r
      BY <1>1, <1>2, <3>2 DEF TypeOK, RunOK
    <3> QED BY <3>1, <3>2
  <2> QED BY <1>1, <1>2, <1>3, <2>1 DEF TypeOK, RunOK
<1>5. GateInv' /\ StoredInv' /\ RowInv' /\ IndexInv'
  BY <1>1 DEF GateInv, StoredInv, RowInv, IsLast, IndexInv
<1>6. ReadInv' /\ ClearedInv'
  BY <1>1, <1>2 DEF ReadInv, RunDoc, ClearedInv, Cleared, Deleting, Direct
<1>7. ServedInv'
  BY <1>1 DEF ServedInv, Excused, Serves, Direct
<1> QED BY <1>4, <1>5, <1>6, <1>7

LEMMA AbandonInv == ASSUME IInv, NEW r \in Runs, Abandon(r) PROVE IInv'
<1> USE DEF IInv, Safe
<1>1. UNCHANGED <<gate, row, index, unseen, step, task, read, lossy, stored, finished, started, behind,
                  overlapped, leftover, partly>>
  BY DEF Abandon, history
<1>2. TypeOK'
  BY <1>1 DEF Abandon, TypeOK
<1>3. GateInv' /\ StoredInv' /\ RowInv' /\ IndexInv' /\ ReadInv'
  BY <1>1 DEF GateInv, StoredInv, RowInv, IsLast, IndexInv, ReadInv, RunDoc
<1>4. ClearedInv' /\ ServedInv'
  BY <1>1 DEF ClearedInv, Cleared, Deleting, RunDoc, ServedInv, Excused, Serves, Direct
<1> QED BY <1>2, <1>3, <1>4

(* What is left of a run that ends.                                        *)
LEMMA EndFacts ==
    ASSUME TypeOK, NEW r \in Runs, End(r)
    PROVE  /\ step' \in [Runs -> Steps] /\ task' \in [Runs -> Tasks \cup {NoTask}]
           /\ read' \in [Runs -> Uploads \cup {NoTask}] /\ waiting' \in [Runs -> BOOLEAN]
           /\ step'[r] = "free" /\ task'[r] = NoTask /\ read'[r] = NoTask /\ lossy' \in SUBSET Runs
           /\ \A q \in Runs : q # r => step'[q] = step[q] /\ task'[q] = task[q] /\ read'[q] = read[q]
           /\ \A q \in Runs : step'[q] # "free" =>
                  q # r /\ step'[q] = step[q] /\ RunDoc(q)' = RunDoc(q) /\ read'[q] = read[q]
BY DEF End, TypeOK, Steps, RunDoc

(* An ending run keeps the types of all others.                            *)
LEMMA EndType ==
    ASSUME TypeOK, NEW r \in Runs, End(r), UNCHANGED <<gate, stored, started>>,
           row' \in [Docs -> Uploads \cup {NoTask}],
           index' \in [Docs -> [Indices -> Chunks]], unseen' \in [Docs -> SUBSET Indices],
           finished' \in SUBSET Tasks, behind' \in SUBSET Runs,
           overlapped' \in SUBSET Docs, leftover' \in SUBSET Docs, partly' \in SUBSET Docs
    PROVE  TypeOK'
BY EndFacts DEF TypeOK

LEMMA CallFailsInv == ASSUME IInv, NEW r \in Runs, CallFails(r) PROVE IInv'
<1> USE DEF IInv, Safe
<1>1. /\ UNCHANGED <<gate, row, index, unseen, stored, finished, started, overlapped, leftover, partly>>
      /\ behind' = behind \ {r}
  BY DEF CallFails
<1>2. End(r)
  BY DEF CallFails
<1>3. TypeOK'
  BY <1>1, <1>2, EndType DEF TypeOK
<1>4. GateInv' /\ StoredInv' /\ RowInv' /\ IndexInv'
  BY <1>1 DEF GateInv, StoredInv, RowInv, IsLast, IndexInv
<1>5. ReadInv' /\ ClearedInv'
  BY <1>1, <1>2, EndFacts DEF ReadInv, ClearedInv, Cleared, Deleting, Direct
<1>6. ServedInv'
  BY <1>1 DEF ServedInv, Excused, Serves, Direct
<1> QED BY <1>3, <1>4, <1>5, <1>6

LEMMA FetchInv == ASSUME IInv, NEW r \in Runs, Fetch(r) PROVE IInv'
<1> DEFINE u == row[RunDoc(r)]
<1> USE DEF IInv, Safe
<1>1. /\ UNCHANGED <<gate, row, index, unseen, task, waiting, stored, finished, started, behind,
                     overlapped, leftover, partly>>
      /\ lossy' \in SUBSET Runs
  BY DEF Fetch, history, TypeOK
<1>2. RunDoc(r) \in Docs /\ task[r] \in Tasks /\ step[r] = "fetch"
  BY RunType DEF Fetch
<1>3. u \in Uploads /\ DocOf[u] = RunDoc(r)
  BY <1>2 DEF Fetch, RunDoc, TypeOK, RowInv
<1>4. /\ step' \in [Runs -> Steps] /\ read' \in [Runs -> Uploads \cup {NoTask}]
      /\ step'[r] = "upsert" /\ read'[r] = u
      /\ \A q \in Runs : q # r => step'[q] = step[q] /\ read'[q] = read[q]
  BY <1>3 DEF Fetch, TypeOK, Steps, RunDoc
<1>5. TypeOK'
  <2>1. ASSUME NEW q \in Runs PROVE RunOK(q)'
    <3>1. CASE q = r
      BY <1>1, <1>2, <1>3, <1>4, <3>1, PipelineAssumption DEF TypeOK, Uploads, RunOK
    <3>2. CASE q # r
      BY <1>1, <1>4, <3>2 DEF TypeOK, RunOK
    <3> QED BY <3>1, <3>2
  <2> QED BY <1>1, <1>4, <2>1 DEF TypeOK, RunOK
<1>6. GateInv' /\ StoredInv' /\ RowInv' /\ IndexInv'
  BY <1>1 DEF GateInv, StoredInv, RowInv, IsLast, IndexInv
<1>7. ReadInv' /\ ClearedInv'
  BY <1>1, <1>2, <1>3, <1>4 DEF ReadInv, RunDoc, ClearedInv, Cleared, Deleting, Direct
<1>8. ServedInv'
  BY <1>1 DEF ServedInv, Excused, Serves, Direct
<1> QED BY <1>5, <1>6, <1>7, <1>8

(* A task that finishes is an accepted one.                                *)
LEMMA EndWellFacts ==
    ASSUME TypeOK, GateInv, NEW r \in Runs, step[r] # "free", EndWell(r), UNCHANGED gate
    PROVE  /\ End(r)
           /\ finished \subseteq finished' /\ finished' \subseteq finished \cup {task[r]}
           /\ finished' \in SUBSET Tasks /\ GateInv'
BY RunType DEF EndWell, GateInv, TypeOK

LEMMA SkipInv == ASSUME IInv, NEW r \in Runs, Skip(r) PROVE IInv'
<1> DEFINE u == row[RunDoc(r)]
<1> USE DEF IInv, Safe
<1>1. /\ UNCHANGED <<gate, row, index, unseen, stored, started, behind, overlapped, leftover>>
      /\ partly \subseteq partly'
  BY DEF Skip
<1>2. RunDoc(r) \in Docs /\ task[r] \in Tasks /\ step[r] = "fetch"
  BY RunType DEF Skip
<1>3. /\ End(r) /\ finished' \subseteq finished \cup {task[r]}
      /\ finished' \in SUBSET Tasks /\ GateInv'
  BY <1>1, <1>2, EndWellFacts DEF Skip
<1>4. TypeOK'
  <2>1. partly' \in SUBSET Docs
    BY <1>2 DEF Skip, TypeOK, RunDoc
  <2> QED BY <1>1, <1>3, <2>1, EndType DEF TypeOK
<1>5. StoredInv' /\ RowInv' /\ IndexInv'
  BY <1>1 DEF StoredInv, RowInv, IsLast, IndexInv
<1>6. ReadInv' /\ ClearedInv'
  BY <1>1, <1>3, EndFacts DEF ReadInv, ClearedInv, Cleared, Deleting, Direct
<1>7. ServedInv'
  <2> SUFFICES ASSUME NEW t \in Uploads, row[DocOf[t]] = t, t \in finished'
               PROVE  Excused(DocOf[t])' \/ Serves(t)
    BY <1>1 DEF ServedInv, Serves
  <2>1. CASE t \in finished
    BY <1>1, <2>1 DEF ServedInv, Excused, Direct
  <2>2. CASE t = task[r]
    <3>1. Pieces[t] = 0 \/ DocOf[t] \in partly'
      BY <2>2 DEF Skip
    <3>2. Pieces[t] = 0 => 1..Pieces[t] = {}
      OBVIOUS
    <3> QED BY <3>1, <3>2 DEF Serves, Excused
  <2> QED BY <1>3, <2>1, <2>2
<1> QED BY <1>3, <1>4, <1>5, <1>6, <1>7

(* The pieces are numbered in a row.                                       *)
LEMMA ExtractsType == \A n \in Indices : 1..n \subseteq Indices
<1> SUFFICES ASSUME NEW n \in Indices PROVE 1..n \subseteq Indices
  OBVIOUS
<1>1. PICK t \in Tasks : n \in 1..Pieces[t]
  BY DEF Indices
<1>2. 1..n \subseteq 1..Pieces[t]
  BY <1>1, PipelineAssumption
<1> QED BY <1>2, PiecesType

(* An index run writes all of its bytes, or some of them; `overlapped`     *)
(* says if they were not the row's, or the row is about to go.             *)
LEMMA IndexRunInv ==
    ASSUME IInv, NEW r \in Runs, Upsert(r) \/ UpsertPartial(r)
    PROVE  IInv'
<1> DEFINE d == RunDoc(r)
           u == read[r]
<1> USE DEF IInv, Safe
<1> DEFINE c == Chunk(u, task[r])
<1>1. UNCHANGED <<gate, row, stored, started, leftover>> /\ behind' = behind \ {r}
  BY DEF Upsert, UpsertPartial, Wrote
<1>2. /\ step[r] = "upsert" /\ task[r] \in Uploads /\ d \in Docs /\ gate[task[r]] = "accepted"
      /\ u \in Uploads /\ DocOf[u] = d /\ (r \in behind \/ row[d] = u)
      /\ c \in Chunks /\ c.text = u /\ c.of = task[r]
  <2>1. task[r] \in Uploads
    BY RunType DEF Upsert, UpsertPartial, TypeOK, Uploads
  <2> QED BY <2>1, RunType, ChunkType DEF Upsert, UpsertPartial, ReadInv
<1>3. /\ End(r)
      /\ finished' \subseteq finished \cup {task[r]}
      /\ finished' \in SUBSET Tasks /\ GateInv'
  BY <1>1, <1>2, EndWellFacts DEF Upsert, UpsertPartial, GateInv, TypeOK
<1>4. PICK I \in SUBSET Indices :
         /\ Written(d, I, c)
         /\ I = 1..Pieces[u] \/ finished' = finished \/ d \in partly'
         /\ d \in partly => d \in partly' \/ I = 1..Pieces[u]
  <2>1. \A A \in Extracts(r) : A \subseteq Indices /\ (r \notin lossy => A = 1..Pieces[u])
    BY <1>2, PiecesType, ExtractsType DEF Extracts, Uploads
  <2>2. CASE Upsert(r)
    <3>1. PICK A \in Extracts(r) : Written(d, A, c)
      BY <2>2 DEF Upsert, RunDoc
    <3>2. r \in lossy => d \in partly'
      BY <2>2 DEF Upsert, RunDoc
    <3> QED BY <2>1, <3>1, <3>2
  <2>3. CASE UpsertPartial(r)
    <3>1. PICK A \in Extracts(r) : \E I \in SUBSET A : Written(d, I, c)
      BY <2>3 DEF UpsertPartial, RunDoc
    <3>2. finished' = finished /\ (d \in partly => d \in partly')
      BY <2>3 DEF UpsertPartial, RunDoc
    <3> QED BY <2>1, <3>1, <3>2
  <2> QED BY <2>2, <2>3
<1>5. /\ index' \in [Docs -> [Indices -> Chunks]] /\ unseen' \in [Docs -> SUBSET Indices]
      /\ \A e \in Docs : e # d => index'[e] = index[e]
      /\ \A i \in Indices : index'[d][i] = IF i \in I THEN c ELSE index[d][i]
  <2>1. TypeOK /\ d \in Docs /\ I \in SUBSET Indices /\ c \in Chunks /\ Written(d, I, c)
    BY <1>2, <1>4
  <2> HIDE DEF IInv, Safe, c, d
  <2> QED BY <2>1, WrittenType
<1>6. /\ overlapped' \subseteq overlapped \cup {d} /\ overlapped \subseteq overlapped'
      /\ r \in behind \/ Deleting(d) => d \in overlapped'
      /\ partly' \subseteq partly \cup {d} /\ partly \subseteq partly' \cup {d}
  BY DEF Upsert, UpsertPartial, Wrote, Deleting, RunDoc
<1>7. TypeOK'
  <2>1. TypeOK /\ r \in Runs /\ End(r) /\ UNCHANGED <<gate, stored, started>>
    BY <1>1, <1>3
  <2>2. row' \in [Docs -> Uploads \cup {NoTask}] /\ behind' \in SUBSET Runs /\ leftover' \in SUBSET Docs
    BY <1>1 DEF TypeOK
  <2>3. overlapped' \in SUBSET Docs /\ partly' \in SUBSET Docs
    BY <1>2, <1>6 DEF TypeOK
  <2> HIDE DEF IInv, Safe, c, d
  <2> QED BY <1>3, <1>5, <2>1, <2>2, <2>3, EndType
<1>8. StoredInv' /\ RowInv'
  BY <1>1 DEF StoredInv, RowInv, IsLast
<1>9. IndexInv'
  BY <1>1, <1>2, <1>5 DEF IndexInv, RunDoc
<1>10. ReadInv'
  BY <1>1, <1>3, EndFacts DEF ReadInv
<1>11. ClearedInv'
  <2> SUFFICES ASSUME NEW e \in Docs, row[e] = NoTask \/ Deleting(e)'
               PROVE  Cleared(e)'
    BY <1>1 DEF ClearedInv
  <2>1. Deleting(e)' => Deleting(e)
    BY <1>3, EndFacts DEF Deleting
  <2>2. Direct(e)' = Direct(e)
    BY <1>1 DEF Direct
  <2>3. CASE e # d
    BY <1>1, <1>5, <1>6, <2>1, <2>2, <2>3 DEF ClearedInv, Cleared
  <2>4. CASE e = d
    <3>1. d \in overlapped'
      BY <1>2, <1>6, <2>1, <2>4, PipelineAssumption DEF Uploads
    <3> QED BY <2>4, <3>1 DEF Cleared
  <2> QED BY <2>3, <2>4
<1>12. ServedInv'
  <2> SUFFICES ASSUME NEW t \in Uploads, row[DocOf[t]] = t, t \in finished', ~Excused(DocOf[t])'
               PROVE  Serves(t)'
    BY <1>1 DEF ServedInv
  <2>1. DocOf[t] \in Docs /\ 1..Pieces[t] \subseteq Indices /\ DocOf[t] \notin partly'
    BY PipelineAssumption, PiecesType DEF Uploads, Excused
  <2>2. CASE DocOf[t] # d
    <3>1. t # task[r]
      BY <2>2 DEF RunDoc
    <3>2. ~Excused(DocOf[t])
      BY <1>1, <1>6, <2>2 DEF Excused, Direct
    <3> QED BY <1>3, <1>5, <2>1, <2>2, <3>1, <3>2 DEF ServedInv, Serves
  <2>3. CASE DocOf[t] = d
    <3>1. u = t
      BY <1>2, <1>6, <2>3 DEF Excused
    <3>2. CASE I = 1..Pieces[u]
      BY <1>2, <1>5, <2>1, <2>3, <3>1, <3>2 DEF Serves
    <3>3. CASE finished' = finished /\ I # 1..Pieces[u]
      <4>1. d \notin partly
        BY <1>4, <2>1, <2>3, <3>3
      <4>2. ~Excused(d)
        BY <1>1, <1>6, <2>3, <4>1 DEF Excused, Direct
      <4>3. Serves(t)
        BY <2>3, <3>3, <4>2 DEF ServedInv
      <4> QED BY <1>2, <1>5, <2>1, <2>3, <3>1, <4>3 DEF Serves
    <3> QED BY <1>4, <2>1, <2>3, <3>2, <3>3
  <2> QED BY <2>2, <2>3
<1> QED BY <1>3, <1>7, <1>8, <1>9, <1>10, <1>11, <1>12

(* A delete run clears the index, or leaves chunks and is excused, before  *)
(* it comes to the row.                                                    *)
LEMMA DeleteIndexInv ==
    ASSUME IInv, NEW r \in Runs, DeleteIndex(r) \/ DeleteIndexPartial(r)
    PROVE  IInv'
<1> DEFINE d == RunDoc(r)
<1> USE DEF IInv, Safe
<1>1. /\ UNCHANGED <<gate, row, stored, finished, started, partly>> /\ behind' = behind \cup ReadersOf(d)
      /\ step[r] = "delete_index"
  BY DEF DeleteIndex, DeleteIndexPartial, ThenTheRow, RunDoc
<1>2. task[r] \in Deletes /\ task[r] \in Tasks /\ d \in Docs /\ gate[task[r]] = "accepted"
  BY <1>1, RunType
<1>3. PICK I : index' = Write(d, I, None)
  BY DEF DeleteIndex, DeleteIndexPartial, RunDoc
<1>15. /\ index' \in [Docs -> [Indices -> Chunks]]
       /\ \A e \in Docs : e # d => index'[e] = index[e]
       /\ \A i \in Indices : index'[d][i] = None \/ index'[d][i] = index[d][i]
  <2> HIDE DEF d
  <2> QED BY <1>2, <1>3, WriteType, NoneType
<1>4. /\ overlapped' \in SUBSET Docs /\ leftover' \in SUBSET Docs
      /\ overlapped \ {d} \subseteq overlapped' /\ leftover \ {d} \subseteq leftover'
      /\ index'[d] = NoChunks \/ d \in leftover'
      /\ unseen' \in [Docs -> SUBSET Indices]
  <2>1. CASE DeleteIndex(r)
    <3>1. /\ index' = Write(d, Indices \ unseen[d], None) /\ unseen' = AllSeen
          /\ overlapped' = (IF Write(d, Indices \ unseen[d], None)[d] = NoChunks THEN overlapped \ {d} ELSE overlapped)
          /\ leftover' = (IF Write(d, Indices \ unseen[d], None)[d] = NoChunks
                           THEN leftover \ {d} ELSE leftover \cup {d})
      BY <2>1 DEF DeleteIndex, RunDoc
    <3> HIDE DEF d
    <3> QED BY <1>2, <3>1 DEF TypeOK, AllSeen
  <2>2. CASE DeleteIndexPartial(r)
    BY <1>2, <2>2 DEF DeleteIndexPartial, RunDoc, TypeOK
  <2> QED BY <2>1, <2>2
<1>5. \/ End(r)
      \/ /\ step' = [step EXCEPT ![r] = "delete_row"]
         /\ UNCHANGED <<task, read, lossy, waiting>>
  BY DEF DeleteIndex, DeleteIndexPartial, ThenTheRow
<1>6. behind' \in SUBSET Runs
  BY <1>1 DEF TypeOK, ReadersOf
<1>7. TypeOK'
  <2>1. CASE End(r)
    BY <1>1, <1>15, <1>4, <1>6, <2>1, EndType DEF TypeOK
  <2>2. CASE step' = [step EXCEPT ![r] = "delete_row"] /\ UNCHANGED <<task, read, lossy, waiting>>
    BY <1>1, <1>15, <1>4, <1>6, <2>2 DEF TypeOK, Steps
  <2> QED BY <1>5, <2>1, <2>2
<1>8. \A q \in Runs : q # r /\ step'[q] # "free" =>
         step'[q] = step[q] /\ RunDoc(q)' = RunDoc(q) /\ read'[q] = read[q]
  BY <1>5, EndFacts DEF TypeOK, RunDoc
<1>9. step'[r] \in {"free", "delete_row"} /\ (step'[r] = "delete_row" => RunDoc(r)' = d)
  BY <1>5, EndFacts DEF TypeOK, RunDoc
<1>10. GateInv' /\ StoredInv' /\ RowInv'
  BY <1>1 DEF GateInv, StoredInv, RowInv, IsLast
<1>11. IndexInv'
  BY <1>1, <1>15 DEF IndexInv
<1>12. ReadInv'
  BY <1>1, <1>8, <1>9 DEF ReadInv
<1>13. ClearedInv'
  <2> SUFFICES ASSUME NEW e \in Docs, row[e] = NoTask \/ Deleting(e)'
               PROVE  Cleared(e)'
    BY <1>1 DEF ClearedInv
  <2>1. CASE e = d
    BY <1>15, <1>4, <2>1 DEF Cleared
  <2>2. CASE e # d
    <3>1. Deleting(e)' => Deleting(e)
      BY <1>8, <1>9, <2>2 DEF Deleting
    <3> QED BY <1>1, <1>15, <1>4, <2>2, <3>1 DEF ClearedInv, Cleared, Direct
  <2> QED BY <2>1, <2>2
<1>14. ServedInv'
  <2> SUFFICES ASSUME NEW t \in Uploads, row[DocOf[t]] = t, t \in finished
               PROVE  Excused(DocOf[t])' \/ Serves(t)'
    BY <1>1 DEF ServedInv
  <2>1. DocOf[t] \in Docs
    BY PipelineAssumption DEF Uploads
  <2>2. CASE DocOf[t] = d
    BY <1>1, <1>2, <2>2 DEF Excused, RunDoc
  <2>3. CASE DocOf[t] # d
    BY <1>1, <1>15, <1>4, <2>1, <2>3 DEF ServedInv, Excused, Serves, Direct
  <2> QED BY <2>2, <2>3
<1> QED BY <1>7, <1>10, <1>11, <1>12, <1>13, <1>14

LEMMA DeleteRowInv == ASSUME IInv, NEW r \in Runs, DeleteRow(r) PROVE IInv'
<1> DEFINE d == RunDoc(r)
<1> USE DEF IInv, Safe
<1>1. /\ UNCHANGED <<gate, index, unseen, stored, started, overlapped, leftover, partly>>
      /\ behind' = behind \cup ReadersOf(d) /\ step[r] = "delete_row"
      /\ row' = [row EXCEPT ![d] = NoTask]
  BY DEF DeleteRow, RunDoc
<1>2. task[r] \in Deletes /\ task[r] \in Tasks /\ d \in Docs /\ gate[task[r]] = "accepted"
  BY <1>1, RunType
<1>3. /\ End(r) /\ finished' \subseteq finished \cup {task[r]}
      /\ finished' \in SUBSET Tasks /\ GateInv'
  BY <1>1, EndWellFacts DEF DeleteRow
<1>4. /\ row' \in [Docs -> Uploads \cup {NoTask}] /\ row'[d] = NoTask
      /\ \A e \in Docs : e # d => row'[e] = row[e]
  BY <1>1, <1>2 DEF TypeOK
<1>5. TypeOK'
  <2>1. behind' \in SUBSET Runs
    BY <1>1 DEF TypeOK, ReadersOf
  <2> QED BY <1>1, <1>3, <1>4, <2>1, EndType DEF TypeOK
<1>6. StoredInv' /\ RowInv' /\ IndexInv'
  BY <1>1, <1>4 DEF StoredInv, RowInv, IsLast, IndexInv
<1>7. ReadInv'
  <2> SUFFICES ASSUME NEW q \in Runs, step'[q] = "upsert"
               PROVE  DocOf[read'[q]] = RunDoc(q)' /\ (q \in behind' \/ row'[RunDoc(q)'] = read'[q])
    BY DEF ReadInv
  <2>1. step[q] = "upsert" /\ RunDoc(q)' = RunDoc(q) /\ read'[q] = read[q] /\ RunDoc(q) \in Docs
    BY <1>3, EndFacts, RunType
  <2>2. CASE RunDoc(q) = d
    BY <1>1, <2>1, <2>2 DEF ReadInv, ReadersOf, RunDoc
  <2>3. CASE RunDoc(q) # d
    BY <1>1, <1>4, <2>1, <2>3 DEF ReadInv
  <2> QED BY <2>2, <2>3
<1>8. ClearedInv'
  <2> SUFFICES ASSUME NEW e \in Docs, row'[e] = NoTask \/ Deleting(e)'
               PROVE  Cleared(e)
    BY <1>1 DEF ClearedInv, Cleared, Direct
  <2>1. Deleting(e)' => Deleting(e)
    BY <1>3, EndFacts DEF Deleting
  <2>2. Deleting(d)
    BY <1>1 DEF Deleting
  <2> QED BY <1>4, <2>1, <2>2 DEF ClearedInv
<1>9. ServedInv'
  <2> SUFFICES ASSUME NEW t \in Uploads, row'[DocOf[t]] = t, t \in finished'
               PROVE  Excused(DocOf[t]) \/ Serves(t)
    BY <1>1 DEF ServedInv, Excused, Serves, Direct
  <2>1. DocOf[t] \in Docs /\ t # NoTask /\ t # task[r]
    BY <1>2, PipelineAssumption DEF Uploads, Deletes
  <2> QED BY <1>3, <1>4, <2>1 DEF ServedInv
<1> QED BY <1>3, <1>5, <1>6, <1>7, <1>8, <1>9

-----------------------------------------------------------------------------
(* The theorems.                                                           *)

LEMMA RefreshInv == ASSUME IInv, Refresh PROVE IInv'
<1> USE DEF IInv, Safe
<1>1. /\ UNCHANGED <<gate, row, index, step, task, read, lossy, waiting, stored, finished, started, behind,
                     overlapped, leftover, partly>>
      /\ unseen' = AllSeen
  BY DEF Refresh, runVars, history
<1>2. TypeOK'
  BY <1>1 DEF TypeOK, AllSeen
<1>3. GateInv' /\ StoredInv' /\ RowInv' /\ IndexInv' /\ ReadInv'
  BY <1>1 DEF GateInv, StoredInv, RowInv, IsLast, IndexInv, ReadInv, RunDoc
<1>4. ClearedInv' /\ ServedInv'
  BY <1>1 DEF ClearedInv, Cleared, Deleting, RunDoc, ServedInv, Excused, Serves, Direct
<1> QED BY <1>2, <1>3, <1>4

LEMMA NextInv == IInv /\ [Next]_vars => IInv'
<1> SUFFICES ASSUME IInv, [Next]_vars PROVE IInv'
  OBVIOUS
<1>1. CASE UNCHANGED vars
  BY <1>1 DEF vars, runVars, history, IInv, TypeOK, GateInv, StoredInv, Safe, RowInv, IsLast, IndexInv, ReadInv,
     RunDoc, ClearedInv, Cleared, Deleting, ServedInv, Excused, Serves, Direct
<1>2. ASSUME NEW t \in Tasks, Gate(t) PROVE IInv'
  <2>1. GateStore(t) \/ StoreLandsLate(t) => t \in Uploads
    BY DEF GateStore, StoreLandsLate, IInv, GateInv
  <2> QED BY <1>2, <2>1, StorageTakesInv, GateOnlyInv, GateIndexesInv DEF Gate
<1>3. ASSUME NEW r \in Runs, Run(r) PROVE IInv'
  BY <1>3, StartInv, AbandonInv, CallFailsInv, FetchInv, SkipInv, IndexRunInv, DeleteIndexInv, DeleteRowInv DEF Run
<1> QED BY <1>1, <1>2, <1>3, RefreshInv DEF Next

LEMMA InvAlways == Spec => []IInv
BY InitInv, NextInv, PTL DEF Spec

(* Requests, rows, chunks and runs keep their types; a run works only on   *)
(* an accepted task.                                                       *)
THEOREM PipelineTypeCorrect == Spec => []TypeOK
<1>1. IInv => TypeOK
  BY DEF IInv
<1> QED BY <1>1, InvAlways, PTL

(* Chunks without a row are there only because an index run wrote across   *)
(* the delete, an index deletion left them and passed for a success, or    *)
(* the gate indexed.                                                       *)
THEOREM OrphansAreExplained == Spec => []OrphansExplained
<1>1. IInv => OrphansExplained
  BY DEF IInv, Safe, ClearedInv, Cleared, OrphansExplained
<1> QED BY <1>1, InvAlways, PTL

(* "done" means that every chunk of the row's upload is in the index,      *)
(* except where DoneServesRow names what may have taken it away.           *)
THEOREM DoneIsServed == Spec => []DoneServesRow
<1>1. IInv => DoneServesRow
  <2> SUFFICES ASSUME IInv, NEW t \in Uploads, row[DocOf[t]] = t, t \in finished,
                      DocOf[t] \notin overlapped \cup partly, ~Direct(DocOf[t]),
                      \A u \in Deletes : DocOf[u] = DocOf[t] => gate[u] # "accepted",
                      NEW i \in 1..Pieces[t]
               PROVE  LET c == index[DocOf[t]][i] IN
                      c.text = t /\ DocOf[c.of] = DocOf[t] /\ gate[c.of] = "accepted"
    BY DEF DoneServesRow
  <2> DEFINE c == index[DocOf[t]][i]
  <2>1. DocOf[t] \in Docs /\ i \in Indices /\ t # NoTask
    BY PipelineAssumption, PiecesType DEF Uploads
  <2>2. c.text = t
    BY DEF IInv, Safe, ServedInv, Excused, Serves
  <2>3. c # None /\ c \in Chunks
    BY <2>1, <2>2, NoneType DEF IInv, TypeOK
  <2>4. DocOf[c.of] = DocOf[t] /\ gate[c.of] \in {"accepted", "direct"} /\ c.of \in Uploads
    BY <2>1, <2>3 DEF IInv, Safe, IndexInv, Chunks
  <2> QED BY <2>2, <2>4 DEF Direct
<1> QED BY <1>1, InvAlways, PTL

(* An upload that is in the row was stored after every other one of its    *)
(* document.                                                               *)
LEMMA RowIsNewest ==
    ASSUME IInv, NEW d \in Docs, NEW w, row[d] # NoTask, DocOf[w] = d
    PROVE  ~StoredBefore(row[d], w)
<1> SUFFICES ASSUME StoredBefore(row[d], w) PROVE FALSE
  OBVIOUS
<1>1. PICK j, k \in DOMAIN stored : j < k /\ stored[j] = row[d] /\ stored[k] = w
  BY DEF StoredBefore
<1>2. PICK l \in DOMAIN stored : stored[l] = row[d] /\ IsLast(l, d)
  BY DEF IInv, Safe, RowInv
<1>3. l = j
  BY <1>1, <1>2 DEF IInv, StoredInv
<1>4. j \in Nat /\ k \in Nat
  BY <1>1 DEF IInv, TypeOK
<1> QED BY <1>1, <1>2, <1>3, <1>4 DEF IsLast

(* A chunk that a run writes from bytes that were not outrun: no text is   *)
(* newer, and its metadata is not of a newer upload either.                *)
LEMMA RunWritesNewest ==
    ASSUME IInv, NEW r \in Runs, step[r] = "upsert", r \notin behind
    PROVE  /\ \A w : DocOf[w] = RunDoc(r) => ~StoredBefore(read[r], w)
           /\ \A w : DocOf[w] = RunDoc(r) /\ StoredBefore(task[r], w) => StoredBefore(task[r], read[r])
<1>1. /\ RunDoc(r) \in Docs /\ read[r] \in Uploads /\ row[RunDoc(r)] = read[r]
      /\ row[RunDoc(r)] # NoTask /\ DocOf[task[r]] = RunDoc(r)
  BY RunType, PipelineAssumption DEF IInv, Safe, ReadInv, RunDoc, Uploads
<1>2. \A w : DocOf[w] = RunDoc(r) => ~StoredBefore(read[r], w)
  BY <1>1, RowIsNewest
<1>3. ASSUME NEW w, DocOf[w] = RunDoc(r), StoredBefore(task[r], w) PROVE StoredBefore(task[r], read[r])
  <2>1. PICK j, k \in DOMAIN stored : j < k /\ stored[j] = task[r] /\ stored[k] = w
    BY <1>3 DEF StoredBefore
  <2>2. PICK l \in DOMAIN stored : stored[l] = read[r] /\ IsLast(l, RunDoc(r))
    BY <1>1 DEF IInv, Safe, RowInv
  <2>3. j \in Nat /\ k \in Nat /\ l \in Nat /\ ~(k > l)
    BY <1>3, <2>1, <2>2 DEF IInv, TypeOK, IsLast
  <2> QED BY <2>1, <2>2, <2>3 DEF StoredBefore
<1> QED BY <1>2, <1>3

(* Nothing is stored before or after nothing.                              *)
LEMMA StoredAreUploads ==
    ASSUME TypeOK, NEW t, NEW u, StoredBefore(t, u)
    PROVE  t \in Uploads /\ u \in Uploads /\ t # NoTask /\ u # NoTask
BY PipelineAssumption DEF TypeOK, StoredBefore, Uploads

(* A chunk that is written anew does not go back, or its document is       *)
(* excused.                                                                *)
LEMMA NoStepBackStep ==
    ASSUME IInv, IInv', [Next]_vars, NEW d \in Docs, NEW i \in Indices, index'[d][i] # index[d][i]
    PROVE  \/ d \in overlapped' \/ Direct(d)'
           \/ /\ ~StoredBefore(index'[d][i].text, index[d][i].text)
              /\ StoredBefore(index'[d][i].of, index[d][i].of)
                    => StoredBefore(index'[d][i].of, index'[d][i].text)
<1> USE DEF IInv, Safe
<1>1. /\ index[d][i] \in Chunks
      /\ index[d][i] # None => DocOf[index[d][i].text] = d /\ DocOf[index[d][i].of] = d
  BY DEF TypeOK, IndexInv
<1>4. ASSUME NEW t \in Tasks, GateIndexes(t) PROVE Direct(d)'
  <2>1. PICK I \in SUBSET (1..Pieces[t]) : Written(DocOf[t], I, Chunk(t, t))
    BY <1>4 DEF GateIndexes
  <2>2. t \in Uploads /\ DocOf[t] \in Docs /\ gate'[t] = "direct" /\ I \in SUBSET Indices
    <3>1. gate[t] = "raised" /\ gate' = [gate EXCEPT ![t] = "direct"]
      BY <1>4 DEF GateIndexes
    <3>2. t \in Uploads
      BY <3>1 DEF GateInv
    <3>3. DocOf[t] \in Docs
      BY PipelineAssumption
    <3>4. gate'[t] = "direct"
      BY <3>1 DEF TypeOK
    <3> QED BY <2>1, <3>2, <3>3, <3>4, PiecesType
  <2>3. DocOf[t] = d
    <3>1. \A e \in Docs : e # DocOf[t] => index'[e] = index[e]
      BY <2>1 DEF Written, Write, TypeOK
    <3> QED BY <3>1
  <2> QED BY <2>2, <2>3 DEF Direct
<1>5. ASSUME NEW r \in Runs, Upsert(r) \/ UpsertPartial(r), d \notin overlapped'
      PROVE  /\ ~StoredBefore(index'[d][i].text, index[d][i].text)
             /\ StoredBefore(index'[d][i].of, index[d][i].of)
                   => StoredBefore(index'[d][i].of, index'[d][i].text)
  <2>1. /\ step[r] = "upsert" /\ RunDoc(r) \in Docs /\ read[r] \in Uploads /\ task[r] \in Uploads
    BY <1>5, RunType DEF Upsert, UpsertPartial, TypeOK, Uploads
  <2>2. PICK I : index' = Write(RunDoc(r), I, Chunk(read[r], task[r]))
    BY <1>5 DEF Upsert, UpsertPartial, RunDoc, Written
  <2>3. RunDoc(r) = d /\ index'[d][i].text = read[r] /\ index'[d][i].of = task[r]
    BY <2>1, <2>2, WriteType, ChunkType
  <2>4. r \notin behind
    BY <1>5, <2>3 DEF Upsert, UpsertPartial, Wrote, RunDoc
  <2>5. CASE index[d][i] = None
    BY <2>5, NoneType, StoredAreUploads
  <2>6. CASE index[d][i] # None
    BY <1>1, <2>1, <2>3, <2>4, <2>6, RunWritesNewest
  <2> QED BY <2>5, <2>6
<1>6. ASSUME NEW r \in Runs, DeleteIndex(r) \/ DeleteIndexPartial(r)
      PROVE  /\ ~StoredBefore(index'[d][i].text, index[d][i].text)
             /\ ~StoredBefore(index'[d][i].of, index[d][i].of)
  <2>1. RunDoc(r) \in Docs
    BY <1>6, RunType DEF DeleteIndex, DeleteIndexPartial
  <2>2. PICK I : index' = Write(RunDoc(r), I, None)
    BY <1>6 DEF DeleteIndex, DeleteIndexPartial, RunDoc
  <2>3. index'[d][i] = None
    BY <2>1, <2>2, WriteType, NoneType
  <2> QED BY <2>3, NoneType, StoredAreUploads
<1>7. ASSUME NEW t \in Tasks, Gate(t), ~GateIndexes(t) PROVE UNCHANGED index
  BY <1>7 DEF Gate, GateStore, GateStoreRefused, GateStoreRaises, StoreLandsLate, GatePublish, StorageTakes
<1>8. ASSUME NEW r \in Runs, Run(r), ~(Upsert(r) \/ UpsertPartial(r) \/ DeleteIndex(r) \/ DeleteIndexPartial(r))
      PROVE  UNCHANGED index
  BY <1>8 DEF Run, Start, Abandon, CallFails, Fetch, Skip, DeleteRow
<1>9. Refresh => UNCHANGED index
  BY DEF Refresh
<1> QED BY <1>4, <1>5, <1>6, <1>7, <1>8, <1>9 DEF Next, vars

(* The text of a chunk never falls back to an older upload, unless a run   *)
(* wrote bytes that had been outrun or the gate indexed itself; metadata   *)
(* does only with the text of a newer upload.                              *)
THEOREM NeverBack == Spec => NoStepBack
<1>1. IInv /\ IInv' /\ [Next]_vars =>
        [\A d \in Docs : \A i \in Indices :
          index'[d][i] # index[d][i] =>
             \/ d \in overlapped' \/ Direct(d)'
             \/ /\ ~StoredBefore(index'[d][i].text, index[d][i].text)
                /\ StoredBefore(index'[d][i].of, index[d][i].of)
                      => StoredBefore(index'[d][i].of, index'[d][i].text)]_vars
  BY NoStepBackStep
<1> QED BY <1>1, InvAlways, PTL DEF Spec, NoStepBack
=============================================================================
