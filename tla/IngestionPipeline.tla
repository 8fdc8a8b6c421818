------------------------- MODULE IngestionPipeline --------------------------
(***************************************************************************)
(* What the tasks of the ingestion queue do to the other services: the     *)
(* gate's upload and delete (gate/app/main.py), the worker's handle_index  *)
(* and handle_delete (doc-processor/app/worker.py), the doc-processor's    *)
(* /v1/process (doc-processor/app/main.py), the row and bytes of each      *)
(* document in document-storage, and its chunks in the retrieval index.    *)
(*                                                                         *)
(* TaskQueue says when a handler runs.  Here it is only known that the     *)
(* task was accepted: redelivery, retry and stale deliveries may run a     *)
(* task again at any time, even beside another run of it.                  *)
(*                                                                         *)
(* A caller that times out, or dies, does not stop the call it has made:   *)
(* the service called goes on with it, or never saw it.                    *)
(*                                                                         *)
(* An upload is named by its task; so are its bytes and its metadata.  A   *)
(* chunk has the text of the bytes that the storage held and the metadata  *)
(* of the task that a run was given: they may be of two uploads.           *)
(* OpenSearch and Qdrant are one index, written or not written chunk by    *)
(* chunk; RetrievalIndex takes them apart.                                 *)
(***************************************************************************)
EXTENDS Naturals, FiniteSets, Sequences

CONSTANTS
    Tasks,         \* one for each request to the gate
    Docs,          \* document ids
    DocOf,         \* the document of each task
    KindOf,        \* "index" for an upload, "delete" for a delete
    Pieces,        \* the number of chunks an upload's bytes yield
    StorageAnswers,\* how the storage may answer a store call
    Runs,          \* handlers at work, the abandoned ones included
    MaxStarts,     \* bound: runs started in all
    NoTask         \* no upload

ASSUME PipelineAssumption ==
    /\ DocOf \in [Tasks -> Docs]
    /\ KindOf \in [Tasks -> {"index", "delete"}]
    /\ Pieces \in [Tasks -> Nat]
    /\ StorageAnswers \subseteq {"stored", "not_stored", "raised"}
    /\ MaxStarts \in Nat
    /\ NoTask \notin Tasks

Uploads == {t \in Tasks : KindOf[t] = "index"}
Deletes == {t \in Tasks : KindOf[t] = "delete"}
Indices == UNION {1..Pieces[t] : t \in Tasks}

VARIABLES
    gate,          \* how far the gate has come with each request
    row,           \* the upload whose row and bytes document-storage holds
    index,         \* chunk <doc>:<i>: the upload of its text, the task of its metadata
    unseen,        \* chunks written since the index's last refresh
    step,          \* the call each run waits for
    task,          \* the task of each run
    read,          \* the upload whose bytes the run's doc-processor has fetched
    lossy,         \* runs whose extraction lost pages, or the conversion: `partial`
    waiting,       \* the run's caller still waits for the answer
    stored,        \* history: the uploads the storage took, in order
    finished,      \* history: tasks a run of which succeeded
    started,       \* history: runs started
    behind,        \* history: runs whose bytes were outrun by a store or a delete
    overlapped,    \* history: documents written by an index run across a store or a delete
    leftover,      \* history: documents whose index deletion left chunks and was taken for a success
    partly         \* history: documents that a lossy run wrote, or left, after the last whole run

chunkVars == <<index, unseen>>
runVars == <<step, task, read, lossy, waiting>>
history == <<stored, finished, started, behind, overlapped, leftover, partly>>
vars == <<gate, row, chunkVars, runVars, history>>

Steps == {"free", "fetch", "upsert", "delete_index", "delete_row"}

Chunk(u, t) == [text |-> u, of |-> t]
None == Chunk(NoTask, NoTask)
Chunks == [text : Uploads, of : Uploads] \cup {None}

TypeOK ==
    /\ gate \in [Tasks -> {"new", "stored", "raised", "direct", "accepted", "refused"}]
    /\ row \in [Docs -> Uploads \cup {NoTask}]
    /\ index \in [Docs -> [Indices -> Chunks]]
    /\ unseen \in [Docs -> SUBSET Indices]
    /\ step \in [Runs -> Steps]
    /\ task \in [Runs -> Tasks \cup {NoTask}]
    /\ read \in [Runs -> Uploads \cup {NoTask}]
    /\ waiting \in [Runs -> BOOLEAN]
    /\ \A r \in Runs :
          /\ step[r] = "free" <=> task[r] = NoTask
          /\ step[r] = "upsert" <=> read[r] # NoTask
          /\ step[r] \in {"fetch", "upsert"} => KindOf[task[r]] = "index"
          /\ step[r] \in {"delete_index", "delete_row"} => KindOf[task[r]] = "delete"
          /\ step[r] # "free" => gate[task[r]] = "accepted"
    /\ stored \in Seq(Uploads)
    /\ finished \in SUBSET Tasks
    /\ started \in 0..MaxStarts
    /\ behind \in SUBSET Runs /\ lossy \in SUBSET Runs
    /\ overlapped \in SUBSET Docs /\ leftover \in SUBSET Docs /\ partly \in SUBSET Docs

NoChunks == [i \in Indices |-> None]
AllSeen == [d \in Docs |-> {}]

Init ==
    /\ gate = [t \in Tasks |-> "new"]
    /\ row = [d \in Docs |-> NoTask]
    /\ index = [d \in Docs |-> NoChunks] /\ unseen = AllSeen
    /\ step = [r \in Runs |-> "free"]
    /\ task = [r \in Runs |-> NoTask]
    /\ read = [r \in Runs |-> NoTask]
    /\ waiting = [r \in Runs |-> FALSE]
    /\ stored = <<>> /\ finished = {} /\ started = 0
    /\ behind = {} /\ lossy = {}
    /\ overlapped = {} /\ leftover = {} /\ partly = {}

-----------------------------------------------------------------------------
(* The gate, and the storage it calls.                                     *)

(* Runs whose doc-processor holds bytes of d and has not written them.     *)
ReadersOf(d) == {r \in Runs : step[r] = "upsert" /\ DocOf[task[r]] = d}

StorageTakes(t) ==
    /\ row' = [row EXCEPT ![DocOf[t]] = t]
    /\ stored' = Append(stored, t)
    /\ behind' = behind \cup ReadersOf(DocOf[t])
    /\ UNCHANGED <<chunkVars, runVars, finished, started, overlapped, leftover, partly>>

GateStore(t) ==
    /\ gate[t] = "new" /\ t \in Uploads /\ "stored" \in StorageAnswers
    /\ gate' = [gate EXCEPT ![t] = "stored"]
    /\ StorageTakes(t)

(* The storage answers 200 with ok: false, and the gate sets storage_ok    *)
(* all the same: whatever does not raise counts as stored.                 *)
GateStoreRefused(t) ==
    /\ gate[t] = "new" /\ t \in Uploads /\ "not_stored" \in StorageAnswers
    /\ gate' = [gate EXCEPT ![t] = "stored"]
    /\ UNCHANGED <<row, chunkVars, runVars, history>>

(* The store call raises (an error status, a timeout): the legacy path.    *)
GateStoreRaises(t) ==
    /\ gate[t] = "new" /\ t \in Uploads /\ "raised" \in StorageAnswers
    /\ gate' = [gate EXCEPT ![t] = "raised"]
    /\ UNCHANGED <<row, chunkVars, runVars, history>>

(* ... while the storage may still take the document, then or later.       *)
StoreLandsLate(t) ==
    /\ gate[t] \in {"raised", "direct"}
    /\ \A k \in DOMAIN stored : stored[k] # t
    /\ StorageTakes(t)
    /\ UNCHANGED gate

Write(d, I, c) == [index EXCEPT ![d] = [i \in Indices |-> IF i \in I THEN c ELSE @[i]]]

(* What is written is not seen by a deletion before the next refresh.      *)
Written(d, I, c) ==
    /\ index' = Write(d, I, c)
    /\ unseen' = [unseen EXCEPT ![d] = @ \cup I]

(* The legacy path: the gate decodes the bytes and indexes them itself; an *)
(* upload without text (no pieces) is refused.                             *)
GateIndexes(t) ==
    /\ gate[t] = "raised"
    /\ gate' = [gate EXCEPT ![t] = "direct"]
    /\ \E I \in SUBSET (1..Pieces[t]) : Written(DocOf[t], I, Chunk(t, t))
    /\ UNCHANGED <<row, runVars, history>>

GatePublish(t) ==
    /\ gate[t] = IF t \in Uploads THEN "stored" ELSE "new"
    /\ \E answer \in {"accepted", "refused"} : gate' = [gate EXCEPT ![t] = answer]
    /\ UNCHANGED <<row, chunkVars, runVars, history>>

-----------------------------------------------------------------------------
(* The worker's handlers and the calls they make.                          *)

(* Slip: the task's type is not looked at.                                 *)
StartUntyped(r, t) ==
    /\ step[r] = "free" /\ gate[t] = "accepted" /\ started < MaxStarts
    /\ step' = [step EXCEPT ![r] = "fetch"]
    /\ task' = [task EXCEPT ![r] = t]
    /\ waiting' = [waiting EXCEPT ![r] = TRUE]
    /\ started' = started + 1
    /\ UNCHANGED <<gate, row, chunkVars, read, lossy, stored, finished, behind, overlapped, leftover, partly>>

Start(r, t) ==
    /\ step[r] = "free" /\ gate[t] = "accepted" /\ started < MaxStarts
    /\ step' = [step EXCEPT ![r] = IF t \in Uploads THEN "fetch" ELSE "delete_index"]
    /\ task' = [task EXCEPT ![r] = t]
    /\ waiting' = [waiting EXCEPT ![r] = TRUE]
    /\ started' = started + 1
    /\ UNCHANGED <<gate, row, chunkVars, read, lossy, stored, finished, behind, overlapped, leftover, partly>>

(* Somewhere up the chain a caller times out or dies.                      *)
Abandon(r) ==
    /\ step[r] # "free" /\ waiting[r]
    /\ waiting' = [waiting EXCEPT ![r] = FALSE]
    /\ UNCHANGED <<gate, row, chunkVars, step, task, read, lossy, history>>

End(r) ==
    /\ step' = [step EXCEPT ![r] = "free"]
    /\ task' = [task EXCEPT ![r] = NoTask]
    /\ read' = [read EXCEPT ![r] = NoTask]
    /\ lossy' = lossy \ {r}
    /\ waiting' = [waiting EXCEPT ![r] = FALSE]

(* The answer `ok` reaches the handler if it still waits for it.           *)
EndWell(r) ==
    /\ End(r)
    /\ finished' = IF waiting[r] THEN finished \cup {task[r]} ELSE finished

(* Slip: a failed index deletion is best-effort too.                       *)
CallFailsTolerated(r) ==
    /\ step[r] # "free"
    /\ IF step[r] = "delete_index" /\ waiting[r]
         THEN step' = [step EXCEPT ![r] = "delete_row"] /\ UNCHANGED <<task, read, lossy, waiting>>
         ELSE End(r)
    /\ behind' = behind \ {r}
    /\ UNCHANGED <<gate, row, chunkVars, stored, finished, started, overlapped, leftover, partly>>

(* The call of the run fails with nothing done: a row that is not there,   *)
(* no bytes, no text at all, a service down, a request never served.  *)
CallFails(r) ==
    /\ step[r] # "free"
    /\ End(r)
    /\ behind' = behind \ {r}
    /\ UNCHANGED <<gate, row, chunkVars, stored, finished, started, overlapped, leftover, partly>>

(* Slip: the bytes are those of the task, not those of the storage.        *)
FetchOwn(r) ==
    /\ step[r] = "fetch"
    /\ row[DocOf[task[r]]] # NoTask /\ Pieces[task[r]] > 0
    /\ read' = [read EXCEPT ![r] = task[r]]
    /\ step' = [step EXCEPT ![r] = "upsert"]
    /\ UNCHANGED <<gate, row, chunkVars, task, lossy, waiting, history>>

(* /v1/process fetches the row and its bytes, and makes chunks of them.  A *)
(* page whose VLM call failed is left out, and a file whose conversion     *)
(* failed is read as plain text: `partial` is set, and the run goes on.    *)
Fetch(r) ==
    /\ step[r] = "fetch"
    /\ LET u == row[DocOf[task[r]]] IN
         /\ u # NoTask
         /\ lossy' = lossy \/ lossy' = lossy \cup {r}
         /\ Pieces[u] > 0 \/ r \in lossy'
         /\ read' = [read EXCEPT ![r] = u]
    /\ step' = [step EXCEPT ![r] = "upsert"]
    /\ UNCHANGED <<gate, row, chunkVars, task, waiting, history>>

(* No chunks: ok with skipped, and the index is left as it is.  A failed   *)
(* conversion may have lost them all.                                      *)
Skip(r) ==
    /\ step[r] = "fetch"
    /\ LET d == DocOf[task[r]] IN
         /\ row[d] # NoTask
         /\ \/ Pieces[row[d]] = 0 /\ UNCHANGED partly
            \/ partly' = partly \cup {d}
    /\ EndWell(r)
    /\ UNCHANGED <<gate, row, chunkVars, stored, started, behind, overlapped, leftover>>

(* The chunks of what was extracted: of the whole upload, or, after losses *)
(* of pages, fewer or others, numbered from the first all the same.        *)
Extracts(r) ==
    IF r \in lossy THEN {1..n : n \in Indices} ELSE {1..Pieces[read[r]]}

(* An index run has written d: was it across a store, or inside a delete,  *)
(* and with all the text?                                                  *)
Wrote(r, d) ==
    /\ overlapped' =
         IF r \in behind \/ \E o \in Runs : step[o] = "delete_row" /\ DocOf[task[o]] = d
         THEN overlapped \cup {d} ELSE overlapped
    /\ behind' = behind \ {r}
    /\ UNCHANGED <<gate, row, stored, started, leftover>>

(* Text of the bytes read, metadata of the task's own payload.  Lost pages *)
(* do not count: ok with partial, which the handler takes for done.        *)
Upsert(r) ==
    /\ step[r] = "upsert"
    /\ LET d == DocOf[task[r]] IN
         /\ \E I \in Extracts(r) : Written(d, I, Chunk(read[r], task[r]))
         /\ Wrote(r, d)
         /\ partly' = IF r \in lossy THEN partly \cup {d} ELSE partly \ {d}
    /\ EndWell(r)

(* Slip: `partial` in the retrieval's answer is not looked at.             *)
UpsertPartialOk(r) ==
    /\ step[r] = "upsert"
    /\ LET d == DocOf[task[r]] IN
         /\ \E A \in Extracts(r) : \E I \in SUBSET A : Written(d, I, Chunk(read[r], task[r]))
         /\ Wrote(r, d)
         /\ partly' = IF r \in lossy THEN partly \cup {d} ELSE partly
    /\ EndWell(r)

(* Some chunks are written, in some store: the answer says partial, and    *)
(* the doc-processor and then the handler turn it into a failure.          *)
UpsertPartial(r) ==
    /\ step[r] = "upsert"
    /\ LET d == DocOf[task[r]] IN
         /\ \E A \in Extracts(r) : \E I \in SUBSET A : Written(d, I, Chunk(read[r], task[r]))
         /\ Wrote(r, d)
         /\ partly' = IF r \in lossy THEN partly \cup {d} ELSE partly
    /\ End(r)
    /\ UNCHANGED finished

(* refresh_interval, or the `refresh` of an upsert.                        *)
Refresh ==
    /\ unseen # AllSeen /\ unseen' = AllSeen
    /\ UNCHANGED <<gate, row, index, runVars, history>>

(* The index deletion has been served: on to the row, if anybody waits.    *)
ThenTheRow(r) ==
    /\ IF waiting[r]
         THEN step' = [step EXCEPT ![r] = "delete_row"] /\ UNCHANGED <<task, read, lossy, waiting>>
         ELSE End(r)
    /\ behind' = behind \cup ReadersOf(DocOf[task[r]])
    /\ UNCHANGED <<gate, row, stored, finished, started, partly>>

(* Deletion by query takes the chunks that the last refresh shows, passes  *)
(* the others over, and answers ok; then it refreshes.                     *)
DeleteIndex(r) ==
    /\ step[r] = "delete_index"
    /\ LET d == DocOf[task[r]]
           all == Write(d, Indices \ unseen[d], None)[d] = NoChunks
       IN  /\ index' = Write(d, Indices \ unseen[d], None)
           /\ unseen' = AllSeen
           /\ overlapped' = IF all THEN overlapped \ {d} ELSE overlapped
           /\ leftover' = IF all THEN leftover \ {d} ELSE leftover \cup {d}
    /\ ThenTheRow(r)

(* A store that fails is reported in the body of a 200, which the handler  *)
(* does not read: it goes on to the row with chunks left.                  *)
DeleteIndexPartial(r) ==
    /\ step[r] = "delete_index"
    /\ LET d == DocOf[task[r]] IN
         /\ \E I \in SUBSET (Indices \ unseen[d]) : index' = Write(d, I, None)
         /\ leftover' = leftover \cup {d}
         /\ UNCHANGED <<unseen, overlapped>>
    /\ ThenTheRow(r)

(* The row is deleted, or is not there: 404 counts as success.             *)
DeleteRow(r) ==
    /\ step[r] = "delete_row"
    /\ LET d == DocOf[task[r]] IN
         /\ row' = [row EXCEPT ![d] = NoTask]
         /\ behind' = behind \cup ReadersOf(d)
    /\ EndWell(r)
    /\ UNCHANGED <<gate, chunkVars, stored, started, overlapped, leftover, partly>>

-----------------------------------------------------------------------------

Gate(t) ==
    \/ GateStore(t) \/ GateStoreRefused(t) \/ GateStoreRaises(t) \/ StoreLandsLate(t)
    \/ GateIndexes(t) \/ GatePublish(t)

Run(r) ==
    \/ \E t \in Tasks : Start(r, t)
    \/ Abandon(r) \/ CallFails(r)
    \/ Fetch(r) \/ Skip(r) \/ Upsert(r) \/ UpsertPartial(r)
    \/ DeleteIndex(r) \/ DeleteIndexPartial(r) \/ DeleteRow(r)

Next == (\E t \in Tasks : Gate(t)) \/ (\E r \in Runs : Run(r)) \/ Refresh

Spec == Init /\ [][Next]_vars

-----------------------------------------------------------------------------
(* Properties.                                                             *)

(* The gate has indexed some upload of d itself, around the storage.       *)
Direct(d) == \E t \in Uploads : DocOf[t] = d /\ gate[t] = "direct"

(* Chunks of a document without a row can be found but never deleted by    *)
(* the user again.  The order index first, row second, with the row kept   *)
(* until the index deletion was served, leaves such orphans in three cases *)
(* only: an index run wrote across the delete; the index deletion left     *)
(* chunks behind an answer taken for a success, those of a store that      *)
(* failed or those not yet refreshed; or the gate had indexed without the  *)
(* storage.                                                                *)
OrphansExplained ==
    \A d \in Docs :
        row[d] = NoTask /\ index[d] # NoChunks
            => d \in overlapped \cup leftover \/ Direct(d)

(* "done" means searchable: once a run of the upload the storage holds has *)
(* succeeded, every chunk of it is in the index with its text, whatever    *)
(* other runs were retried, abandoned or partial; unless a delete was      *)
(* accepted, the gate indexed itself, a run wrote bytes outrun by a later  *)
(* upload, or the last run had lost pages, which "done" does not tell.     *)
(* The metadata may be that of any upload that was accepted.               *)
DoneServesRow ==
    \A t \in Uploads :
        LET d == DocOf[t] IN
        /\ row[d] = t /\ t \in finished /\ d \notin overlapped \cup partly /\ ~Direct(d)
        /\ \A u \in Deletes : DocOf[u] = d => gate[u] # "accepted"
        => \A i \in 1..Pieces[t] :
              LET c == index[d][i] IN c.text = t /\ DocOf[c.of] = d /\ gate[c.of] = "accepted"

StoredBefore(t, u) == \E j, k \in DOMAIN stored : j < k /\ stored[j] = t /\ stored[k] = u

(* The text of a chunk goes back to an older upload only by a run whose    *)
(* bytes were outrun while it held them: a retried or redelivered task of  *)
(* an older upload indexes what the storage holds now, not what it was     *)
(* sent for.  It does take the metadata back to its own, so that title,    *)
(* tags and acl may be older than the text, but only then.                 *)
NoStepBack ==
    [][\A d \in Docs : \A i \in Indices :
          index'[d][i] # index[d][i] =>
             \/ d \in overlapped' \/ Direct(d)'
             \/ /\ ~StoredBefore(index'[d][i].text, index[d][i].text)
                /\ StoredBefore(index'[d][i].of, index[d][i].of)
                      => StoredBefore(index'[d][i].of, index'[d][i].text)]_vars

=============================================================================
