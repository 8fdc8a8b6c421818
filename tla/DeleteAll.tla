----------------------------- MODULE DeleteAll -----------------------------
(***************************************************************************)
(* gate: the synchronous deletes of gate/app/main.py, one document         *)
(* (delete_document) and all of them (delete_all_documents), over the      *)
(* rows of document-storage and the chunks of retrieval.                   *)
(*                                                                         *)
(* delete_all reads the first page of the rows until it is empty, and      *)
(* deletes the documents of a page side by side, a few at a time.  The     *)
(* page is two statements, a count and a select; only the last document    *)
(* of what looks like the last page asks the index to refresh.             *)
(*                                                                         *)
(* Uploads of other documents and a single delete run beside it, and index *)
(* tasks of documents uploaded shortly before: their chunks are not there  *)
(* yet, or not refreshed.                                                  *)
(***************************************************************************)
EXTENDS Naturals, Sequences, FiniteSets, SequencesExt

CONSTANTS
    Docs,          \* document ids
    Stored,        \* what is stored at first, newest first
    Young,         \* documents that may not be indexed and refreshed at first
    Stubborn,      \* documents whose row it may be impossible to delete
    BatchSize,     \* batch_size, as clamped
    MaxBatches,    \* max_batches, as clamped
    MaxFaults,     \* bound: calls that fail, other than for a stuck row
    Alone,         \* the name of the single delete's task
    NoDoc          \* the single delete has not come

ASSUME DeleteAllAssumption ==
    /\ Stored \in Seq(Docs) /\ IsInjective(Stored)
    /\ Stubborn \subseteq Docs /\ Young \subseteq Docs
    /\ BatchSize \in Nat \ {0} /\ MaxBatches \in Nat \ {0} /\ MaxFaults \in Nat
    /\ Alone \notin Nat /\ NoDoc \notin Docs

VARIABLES
    rows,          \* the rows of document-storage, newest first
    has,           \* the documents with chunks in the index
    vis,           \* the same, as of the index's last refresh
    pc,            \* where delete_all stands
    total,         \* `total` of the page under way
    batches,       \* pages asked for
    stuck,         \* those whose row can never be deleted
    young,         \* those of Stored whose chunks could not be deleted at first
    concurrency,   \* of the request: how many documents at a time
    tasks,         \* the page's _delete_one calls, and the single delete
    degraded,      \* what delete_all's answer reports: `degraded`, `errors`
    blind,         \* history: a page that storage could not search
    faults         \* calls that have failed

fixed == <<stuck, young, concurrency>>

vars == <<rows, has, vis, pc, total, batches, fixed, tasks, degraded, blind, faults>>

Start == ToSet(Stored)
Stages == {"wait", "storage", "index", "end"}
Reports == {"storage_delete_failed", "retrieval_delete_failed", "delete_failed_or_partial",
            "max_batches_reached", "delete_all_failed"}

TypeOK ==
    /\ rows \in Seq(Docs) /\ IsInjective(rows)
    /\ has \subseteq Docs /\ vis \subseteq Docs
    /\ pc \in {"count", "select", "deleting", "answered"}
    /\ total \in Nat /\ batches \in 0..MaxBatches + 1 /\ concurrency \in Nat \ {0}
    /\ stuck \subseteq Docs /\ young \subseteq Start \cap Young
    /\ \A t \in DOMAIN tasks : t = Alone \/ t \in 1..BatchSize
    /\ \A t \in DOMAIN tasks :
          tasks[t] \in [doc : Docs \cup {NoDoc}, refresh : BOOLEAN, at : Stages]
    /\ degraded \subseteq Reports /\ blind \in BOOLEAN /\ faults \in 0..MaxFaults

Task(d, refresh, at) == [doc |-> d, refresh |-> refresh, at |-> at]

(* A document may have a row and no chunks yet, its task still queued, or  *)
(* chunks that the index has not refreshed: uploads do not ask for it.     *)
Init ==
    /\ rows = Stored
    /\ has \in SUBSET Start /\ vis \in SUBSET has
    /\ young = Start \ vis /\ young \subseteq Young
    /\ pc = "count" /\ total = 0 /\ batches = 0
    /\ concurrency \in 1..2 /\ stuck \in SUBSET Stubborn
    /\ tasks = [t \in {Alone} |-> Task(NoDoc, TRUE, "end")]
    /\ degraded = {} /\ blind = FALSE /\ faults = 0

Fault == faults < MaxFaults /\ faults' = faults + 1

Partial == degraded # {}

Answer(report) ==
    /\ pc' = "answered"
    /\ degraded' = degraded \cup report

-----------------------------------------------------------------------------
(* The page: document-storage's search, and what the gate makes of it.     *)

(* Slip: the batches are not counted.                                      *)
CountPageForever ==
    /\ pc = "count"
    /\ total' = Len(rows) /\ pc' = "select"
    /\ UNCHANGED <<rows, has, vis, batches, fixed, tasks, degraded, blind, faults>>

CountPage ==
    /\ pc = "count"
    /\ batches' = batches + 1
    /\ IF batches' > MaxBatches
         THEN Answer({"max_batches_reached"}) /\ UNCHANGED total
         ELSE total' = Len(rows) /\ pc' = "select" /\ UNCHANGED degraded
    /\ UNCHANGED <<rows, has, vis, fixed, tasks, blind, faults>>

(* Slip: the refresh goes with the first document of the last page.        *)
PageTasksFirst(page) ==
    LET known == IF total = 0 THEN Len(page) ELSE total
    IN  [i \in DOMAIN page |-> Task(page[i], known <= Len(page) /\ i = 1, "wait")]

PageTasks(page) ==
    LET known == IF total = 0 THEN Len(page) ELSE total
    IN  [i \in DOMAIN page |-> Task(page[i], known <= Len(page) /\ i = Len(page), "wait")]

Least(a, b) == IF a < b THEN a ELSE b

Page(offset, limit) == SubSeq(rows, offset + 1, Least(offset + limit, Len(rows)))

ReadPage(page) ==
    /\ pc = "select"
    /\ IF page = <<>>
         THEN Answer({}) /\ UNCHANGED tasks
         ELSE /\ pc' = "deleting"
              /\ tasks' = [t \in {Alone} \cup DOMAIN page |->
                             IF t = Alone THEN tasks[Alone] ELSE PageTasks(page)[t]]
              /\ UNCHANGED degraded
    /\ UNCHANGED <<rows, has, vis, total, batches, fixed, blind, faults>>

(* Slip: the pages are counted on, over rows that move up.                 *)
SelectNextPage == ReadPage(Page((batches - 1) * BatchSize, BatchSize))

(* Slip: one row too many.                                                 *)
SelectLongPage == ReadPage(Page(0, BatchSize + 1))

(* Deletion changes the pages: the first one is read each time.            *)
SelectPage == ReadPage(Page(0, BatchSize))

(* Storage answers a search that failed with ok=False and no documents.    *)
PageUnsearched ==
    /\ pc = "select" /\ Fault
    /\ Answer({}) /\ blind' = TRUE
    /\ UNCHANGED <<rows, has, vis, total, batches, fixed, tasks>>

(* The call itself fails: nothing more is deleted.                         *)
PageFails ==
    /\ pc = "select" /\ Fault
    /\ Answer({"delete_all_failed"})
    /\ UNCHANGED <<rows, has, vis, total, batches, fixed, tasks, blind>>

-----------------------------------------------------------------------------
(* One document: its row, then its chunks.                                 *)

InPage(t) == t # Alone
Running == {t \in DOMAIN tasks : InPage(t) /\ tasks[t].at \in {"storage", "index"}}

(* The semaphore lets the tasks in as they were made.                      *)
Enter(t) ==
    /\ InPage(t) /\ tasks[t].at = "wait"
    /\ Cardinality(Running) < concurrency
    /\ \A u \in DOMAIN tasks : InPage(u) /\ tasks[u].at = "wait" => t <= u
    /\ tasks' = [tasks EXCEPT ![t].at = "storage"]
    /\ UNCHANGED <<rows, has, vis, pc, total, batches, fixed, degraded, blind, faults>>

Without(d) == RemoveFirst(rows, d)

(* A row that is not there is a 404, and counts as a failure; a call that  *)
(* fails may have deleted the row.                                         *)
StorageDelete(t) ==
    LET d == tasks[t].doc
        Failed == /\ tasks' = [tasks EXCEPT ![t].at = "index"]
                  /\ degraded' = IF InPage(t) THEN degraded \cup {"storage_delete_failed"} ELSE degraded
    IN  /\ tasks[t].at = "storage"
        /\ \/ /\ d \in ToSet(rows) \ stuck
              /\ rows' = Without(d)
              /\ tasks' = [tasks EXCEPT ![t].at = "index"]
              /\ UNCHANGED <<degraded, faults>>
           \/ d \notin ToSet(rows) \ stuck /\ Failed /\ UNCHANGED <<rows, faults>>
           \/ d \notin stuck /\ Fault /\ Failed /\ rows' \in {rows, Without(d)}
        /\ UNCHANGED <<has, vis, pc, total, batches, fixed, blind>>

(* Slip: failures of the index are not looked at.                          *)
IndexDeleteQuiet(t) ==
    LET d    == tasks[t].doc
        left == has \ ({d} \cap vis)
    IN  /\ tasks[t].at = "index"
        /\ tasks' = [tasks EXCEPT ![t].at = "end"]
        /\ \/ has' = left /\ vis' = (IF tasks[t].refresh THEN left ELSE vis) /\ UNCHANGED faults
           \/ Fault /\ UNCHANGED <<has, vis>>
        /\ UNCHANGED <<rows, pc, total, batches, fixed, degraded, blind>>

(* The index deletes what its last refresh has shown.  ok=False, or no     *)
(* answer: the deletion may have been done all the same.                   *)
IndexDelete(t) ==
    LET d    == tasks[t].doc
        left == has \ ({d} \cap vis)
        Ends(failures) == /\ tasks' = [tasks EXCEPT ![t].at = "end"]
                          /\ degraded' = IF InPage(t) THEN degraded \cup failures ELSE degraded
    IN  /\ tasks[t].at = "index"
        /\ \/ /\ has' = left
              /\ vis' = IF tasks[t].refresh THEN left ELSE vis
              /\ Ends({}) /\ UNCHANGED faults
           \/ /\ Fault
              /\ has' \in {has, left} /\ UNCHANGED vis
              /\ \/ Ends({"delete_failed_or_partial"})
                 \/ Ends({"retrieval_delete_failed", "delete_failed_or_partial"})
        /\ UNCHANGED <<rows, pc, total, batches, fixed, blind>>

(* asyncio.gather: the page is done when all its tasks are.                *)
Gather ==
    /\ pc = "deleting"
    /\ \A t \in DOMAIN tasks : InPage(t) => tasks[t].at = "end"
    /\ pc' = "count"
    /\ tasks' = [t \in {Alone} |-> tasks[t]]
    /\ UNCHANGED <<rows, has, vis, total, batches, fixed, degraded, blind, faults>>

-----------------------------------------------------------------------------
(* What runs beside it.                                                    *)

(* The delete of one document, asking for a refresh.                       *)
DeleteOne(d) ==
    /\ tasks[Alone].doc = NoDoc
    /\ tasks' = [tasks EXCEPT ![Alone] = Task(d, TRUE, "storage")]
    /\ UNCHANGED <<rows, has, vis, pc, total, batches, fixed, degraded, blind, faults>>

(* The upload of a new document, as far as the row and the chunks.         *)
Upload(d) ==
    /\ d \notin ToSet(rows) \cup has \cup Start
    /\ rows' = <<d>> \o rows /\ has' = has \cup {d}
    /\ UNCHANGED <<vis, pc, total, batches, fixed, tasks, degraded, blind, faults>>

(* The worker ends a document's index task, perhaps with bytes it fetched  *)
(* before the row went.                                                    *)
IndexTask(d) ==
    /\ d \in young \ has
    /\ has' = has \cup {d}
    /\ UNCHANGED <<rows, vis, pc, total, batches, fixed, tasks, degraded, blind, faults>>

(* refresh_interval.                                                       *)
Refresh ==
    /\ vis # has /\ vis' = has
    /\ UNCHANGED <<rows, has, pc, total, batches, fixed, tasks, degraded, blind, faults>>

DeleteTask(t) == Enter(t) \/ StorageDelete(t) \/ IndexDelete(t)
DeleteAllStep ==
    \/ CountPage \/ SelectPage \/ PageUnsearched \/ PageFails \/ Gather
    \/ \E t \in DOMAIN tasks : DeleteTask(t)
Next == DeleteAllStep \/ Refresh \/ \E d \in Docs : DeleteOne(d) \/ Upload(d) \/ IndexTask(d)

(* Every call has a timeout: the request's own steps come.                 *)
Spec == Init /\ [][Next]_vars /\ WF_vars(DeleteAllStep)

-----------------------------------------------------------------------------
(* Properties.                                                             *)

(* An answer that is not partial leaves no row of what was there when the  *)
(* request came, unless storage could not be searched, whatever is         *)
(* uploaded and deleted beside it and moves the pages (1562).              *)
CleanIsGone ==
    pc = "answered" /\ ~Partial /\ ~blind => Start \cap ToSet(rows) = {}

(* A document that has lost its row and kept its chunks can no longer be   *)
(* listed, nor deleted by another delete_all.  The answer is partial then, *)
(* unless the row went to the delete beside it (1515-1545, 1587-1596), or  *)
(* the chunks were not yet written or not yet refreshed when the request   *)
(* came: deletion by query passes those over and answers ok.               *)
OrphansReported ==
    pc = "answered" => \A d \in (Start \ ToSet(rows)) \cap has : Partial \/ tasks[Alone].doc = d \/ d \in young

(* Taken one document at a time, with nothing beside it and nothing        *)
(* reported, delete_all leaves none of the documents to be found by a      *)
(* search: the refresh came with the last delete (1568, 1579).             *)
SearchSeesNone ==
    pc = "answered" /\ ~Partial /\ ~blind /\ concurrency = 1
      /\ tasks[Alone].doc = NoDoc /\ ToSet(rows) \cup has = {} => Start \cap vis = {}

(* delete_all answers, even if rows that cannot be deleted come back on    *)
(* every page (1552).                                                      *)
Answered == <>(pc = "answered")

=============================================================================
