-------------------------- MODULE DocumentStorage ---------------------------
(***************************************************************************)
(* document-storage: the row of each document in Postgres                  *)
(* (document-storage/app/database.py) and its bytes in a local directory   *)
(* or in S3 (document-storage/app/storage.py), under the requests of       *)
(* document-storage/app/main.py.                                           *)
(*                                                                         *)
(* Every call of a request to the database or the backend runs in a thread *)
(* of its own, so that requests interleave between calls; one SQL          *)
(* statement and one completed upload are atomic.  A call that raises may  *)
(* have been carried out all the same, its answer being lost.  The storage *)
(* id is a digest of the document id (not of the bytes), so bytes are kept *)
(* by document, a document has at most one row that refers to them, and    *)
(* the look-up for duplicates under other documents finds none.            *)
(*                                                                         *)
(* A version of a document is named by the request that stores it.         *)
(***************************************************************************)
EXTENDS Naturals, FiniteSets

CONSTANTS
    Docs,          \* document ids
    Requests,      \* store and delete requests, each made at most once
    DocOf,         \* the document of each request
    KindOf,        \* "store" or "delete"
    Backend,       \* STORAGE_STORAGE_BACKEND: "local" or "s3"
    HandsStream,   \* the API hands the backend the stream it reads from;
                   \* at this commit it hands over the bytes, and store raises
    Faulty,        \* calls to the database and to the backend may fail
    MaxCrashes,    \* bound: crashes of the service
    Old,           \* the version of a document stored before
    NoVersion      \* no row, or no bytes

ASSUME StorageAssumption ==
    /\ DocOf \in [Requests -> Docs]
    /\ KindOf \in [Requests -> {"store", "delete"}]
    /\ Backend \in {"local", "s3"}
    /\ HandsStream \in BOOLEAN /\ Faulty \in BOOLEAN
    /\ MaxCrashes \in Nat
    /\ Old \notin Requests /\ NoVersion \notin Requests /\ Old # NoVersion

Stores == {r \in Requests : KindOf[r] = "store"}
Deletes == {r \in Requests : KindOf[r] = "delete"}
Versions == Stores \cup {Old}

VARIABLES
    row,           \* the version each document's row was written for
    extra,         \* the keys in the row's `extra`
    blob,          \* the version of the bytes under the document's storage id
    step,          \* how far each request has come, or how it ended
    crashes,       \* crashes so far
    overlapped,    \* history: pairs of stores of one document that overlapped
    crossed        \* history: documents stored again after a delete counted no rows and
                   \* before it took the bytes

vars == <<row, extra, blob, step, crashes, overlapped, crossed>>

InFlight == {"blob_stored", "found", "dropped", "unreferenced"}
StoreEnds == {"stored", "refused", "unrecorded"}
DeleteEnds == {"not_found", "unread", "failed", "gone", "deleted", "kept", "blob_left"}

TypeOK ==
    /\ row \in [Docs -> Versions \cup {NoVersion}]
    /\ extra \in [Docs -> SUBSET {"dedup", "ingestion"}]
    /\ blob \in [Docs -> Versions \cup {NoVersion}]
    /\ step \in [Requests -> {"new", "lost"} \cup InFlight \cup StoreEnds \cup DeleteEnds]
    /\ \A r \in Stores : step[r] \in {"new", "lost", "blob_stored"} \cup StoreEnds
    /\ \A r \in Deletes : step[r] \notin {"blob_stored"} \cup StoreEnds
    /\ crashes \in 0..MaxCrashes
    /\ \A d \in Docs : row[d] = NoVersion => extra[d] = {}
    /\ \A d \in Docs : row[d] \in Stores => step[row[d]] \in {"stored", "unrecorded"}
    /\ overlapped \in SUBSET (Stores \X Stores)
    /\ crossed \in SUBSET Docs

(* The volumes may hold documents of an earlier run of the service.        *)
Init ==
    /\ \E D \in SUBSET Docs :
          /\ row = [d \in Docs |-> IF d \in D THEN Old ELSE NoVersion]
          /\ blob = row
          /\ extra = [d \in Docs |-> IF d \in D THEN {"dedup"} ELSE {}]
    /\ step = [r \in Requests |-> "new"]
    /\ crashes = 0
    /\ overlapped = {} /\ crossed = {}

Advance(r, from, to) ==
    /\ step[r] = from
    /\ step' = [step EXCEPT ![r] = to]

Drop(f, d) == [f EXCEPT ![d] = NoVersion]

-----------------------------------------------------------------------------
(* POST /v1/documents/store.                                               *)

(* Stores of r's document that have put their bytes and not their row.     *)
Unrecorded(d) == {r \in Stores : step[r] = "blob_stored" /\ DocOf[r] = d}

(* Deletes that have counted no rows of d and will take its bytes.         *)
Taking(d) == {r \in Deletes : step[r] = "unreferenced" /\ DocOf[r] = d}

(* The backend has the bytes: a rename of the temporary file, or the       *)
(* completion of the multipart upload.                                     *)
StoreBlob(r) ==
    /\ r \in Stores /\ HandsStream
    /\ Advance(r, "new", "blob_stored")
    /\ blob' = [blob EXCEPT ![DocOf[r]] = r]
    /\ overlapped' = overlapped \cup {<<r, o>> : o \in Unrecorded(DocOf[r])}
    /\ crossed' = IF Taking(DocOf[r]) = {} THEN crossed \ {DocOf[r]} ELSE crossed
    /\ UNCHANGED <<row, extra, crashes>>

(* The backend raises, and the request answers 200 with ok: false.  The S3 *)
(* backend aborts the upload and then deletes the object under the key,    *)
(* best-effort: what is there is what was stored before, or these bytes if *)
(* the answer to the completion was lost.                                  *)
StoreBlobFails(r) ==
    /\ r \in Stores /\ (Faulty \/ ~HandsStream)
    /\ Advance(r, "new", "refused")
    /\ \/ UNCHANGED blob
       \/ Backend = "s3" /\ blob' = Drop(blob, DocOf[r])
       \/ Backend = "s3" /\ HandsStream /\ blob' = [blob EXCEPT ![DocOf[r]] = r]
    /\ UNCHANGED <<row, extra, crashes, overlapped, crossed>>

(* Slip: ON CONFLICT DO NOTHING.                                           *)
StoreRowOnce(r) ==
    /\ Advance(r, "blob_stored", "stored")
    /\ LET d == DocOf[r] IN
         /\ row' = IF row[d] = NoVersion THEN [row EXCEPT ![d] = r] ELSE row
         /\ extra' = IF row[d] = NoVersion THEN [extra EXCEPT ![d] = {"dedup"}] ELSE extra
    /\ UNCHANGED <<blob, crashes, overlapped, crossed>>

(* The row is inserted or overwritten, `extra` included.                   *)
Record(r) ==
    /\ row' = [row EXCEPT ![DocOf[r]] = r]
    /\ extra' = [extra EXCEPT ![DocOf[r]] = {"dedup"}]
    /\ crossed' = IF Taking(DocOf[r]) = {} THEN crossed ELSE crossed \cup {DocOf[r]}

StoreRow(r) ==
    /\ Advance(r, "blob_stored", "stored")
    /\ Record(r)
    /\ UNCHANGED <<blob, crashes, overlapped>>

(* The statement or its commit raises: the request answers ok: false, and  *)
(* the row may have been committed.                                        *)
StoreRowFails(r) ==
    /\ Faulty
    /\ Advance(r, "blob_stored", "unrecorded")
    /\ Record(r) \/ UNCHANGED <<row, extra, crossed>>
    /\ UNCHANGED <<blob, crashes, overlapped>>

-----------------------------------------------------------------------------
(* DELETE /v1/documents/by-id and /v1/documents/{doc_id}.                  *)

LookUp(r) ==
    /\ r \in Deletes
    /\ Advance(r, "new", IF row[DocOf[r]] = NoVersion THEN "not_found" ELSE "found")
    /\ UNCHANGED <<row, extra, blob, crashes, overlapped, crossed>>

DropMetadata(d) ==
    /\ row' = Drop(row, d)
    /\ extra' = [extra EXCEPT ![d] = {}]

(* The row goes first; `deleted` is false if another request was faster,   *)
(* and then the bytes are not this request's to delete.                    *)
DropRow(r) ==
    /\ Advance(r, "found", IF row[DocOf[r]] = NoVersion THEN "gone" ELSE "dropped")
    /\ DropMetadata(DocOf[r])
    /\ UNCHANGED <<blob, crashes, overlapped, crossed>>

(* The look-up or the deletion of the row raises: the request answers      *)
(* ok: false and leaves the bytes; the deletion may have been committed.   *)
DeleteFails(r) ==
    /\ r \in Deletes /\ Faulty
    /\ \/ Advance(r, "new", "unread") /\ UNCHANGED <<row, extra>>
       \/ Advance(r, "found", "failed") /\ (DropMetadata(DocOf[r]) \/ UNCHANGED <<row, extra>>)
    /\ UNCHANGED <<blob, crashes, overlapped, crossed>>

(* Slip: the count is not looked at.                                       *)
CountIgnored(r) ==
    /\ Advance(r, "dropped", "unreferenced")
    /\ UNCHANGED <<row, extra, blob, crashes, overlapped, crossed>>

(* Slip: the reference just deleted is counted.                            *)
CountOwn(r) ==
    /\ Advance(r, "dropped", "kept")
    /\ UNCHANGED <<row, extra, blob, crashes, overlapped, crossed>>

(* How many rows refer to the storage id now?                              *)
CountReferences(r) ==
    /\ Advance(r, "dropped", IF row[DocOf[r]] = NoVersion THEN "unreferenced" ELSE "kept")
    /\ UNCHANGED <<row, extra, blob, crashes, overlapped, crossed>>

TakeBytes(d) ==
    /\ blob' = Drop(blob, d)
    /\ crossed' = IF Unrecorded(d) = {} THEN crossed ELSE crossed \cup {d}

DropBlob(r) ==
    /\ Advance(r, "unreferenced", "deleted")
    /\ TakeBytes(DocOf[r])
    /\ UNCHANGED <<row, extra, crashes, overlapped>>

(* A count or a deletion of bytes that fails is logged: the answer is ok.  *)
(* The bytes may have been deleted all the same.                           *)
BlobLeft(r) ==
    /\ Faulty
    /\ \/ Advance(r, "dropped", "blob_left") /\ UNCHANGED <<blob, crossed>>
       \/ Advance(r, "unreferenced", "blob_left") /\ (TakeBytes(DocOf[r]) \/ UNCHANGED <<blob, crossed>>)
    /\ UNCHANGED <<row, extra, crashes, overlapped>>

-----------------------------------------------------------------------------

(* Slip: a document that is gone is given an `extra`.                      *)
PatchAny(d) ==
    /\ extra' = [extra EXCEPT ![d] = @ \cup {"ingestion"}]
    /\ UNCHANGED <<row, blob, step, crashes, overlapped, crossed>>

(* POST /v1/documents/by-id/extra: one UPDATE, which needs a row.          *)
PatchExtra(d) ==
    /\ row[d] # NoVersion
    /\ extra' = [extra EXCEPT ![d] = @ \cup {"ingestion"}]
    /\ UNCHANGED <<row, blob, step, crashes, overlapped, crossed>>

(* The service dies, and the requests in it.                               *)
Crash ==
    /\ crashes < MaxCrashes
    /\ crashes' = crashes + 1
    /\ step' = [r \in Requests |-> IF step[r] \in InFlight THEN "lost" ELSE step[r]]
    /\ UNCHANGED <<row, extra, blob, overlapped, crossed>>

Request(r) ==
    \/ StoreBlob(r) \/ StoreBlobFails(r) \/ StoreRow(r) \/ StoreRowFails(r)
    \/ LookUp(r) \/ DropRow(r) \/ DeleteFails(r)
    \/ CountReferences(r) \/ DropBlob(r) \/ BlobLeft(r)

Next == (\E r \in Requests : Request(r)) \/ (\E d \in Docs : PatchExtra(d)) \/ Crash

Spec == Init /\ [][Next]_vars

-----------------------------------------------------------------------------
(* Properties.                                                             *)

Of(d) == {r \in Requests : DocOf[r] = d}

(* A row without bytes answers 404 for a document that is listed, and its  *)
(* ingestion fails at every attempt.  Row first, count, bytes last leaves  *)
(* one in two cases only: the document was stored again between the count  *)
(* and the deletion of the bytes, or a failed store took the old object.   *)
RowHasBytes ==
    \A d \in Docs :
        row[d] # NoVersion /\ blob[d] = NoVersion
            => d \in crossed \/ \E r \in Of(d) : step[r] = "refused"

(* Bytes no row refers to are never deleted again.  They are left behind   *)
(* by a lost request or by one that failed, a delete included whose row    *)
(* was gone when its call failed, never by requests that ran to their end, *)
(* however they interleaved.                                               *)
NoLeak ==
    \A d \in Docs :
        row[d] = NoVersion /\ blob[d] # NoVersion
            => \E r \in Of(d) : step[r] \in InFlight \cup {"refused", "unrecorded", "failed", "blob_left", "lost"}

(* Row and bytes are of one version: size and content type describe other  *)
(* bytes only while a store of these is in flight, after it failed half    *)
(* way, or when two stores of the document overlapped.                     *)
RowMatchesBytes ==
    \A d \in Docs :
        LET v == row[d]
            b == blob[d]
        IN  v # NoVersion /\ b \notin {v, NoVersion}
                => \/ b \in Stores /\ step[b] \in {"blob_stored", "refused", "unrecorded", "lost"}
                   \/ <<v, b>> \in overlapped \/ <<b, v>> \in overlapped

(* "Store document file and metadata." (document-storage/app/main.py:241): *)
(* while nothing fails, no store is refused.                               *)
HealthyStoreTaken == ~Faulty => \A r \in Stores : step[r] # "refused"

=============================================================================
