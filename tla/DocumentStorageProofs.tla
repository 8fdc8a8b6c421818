------------------------ MODULE DocumentStorageProofs -----------------------
(***************************************************************************)
(* Rows and bytes, for any documents, requests, backend, failures and      *)
(* crashes.                                                                *)
(***************************************************************************)
EXTENDS DocumentStorage, TLAPS

-----------------------------------------------------------------------------
(* The inductive invariant.                                                *)

(* A delete that will take the bytes of a document with a row counted no   *)
(* rows before the document was stored again.                              *)
TakingInv == \A d \in Docs : Taking(d) # {} /\ row[d] # NoVersion => d \in crossed

(* A store whose bytes are gone before its row is written lost them to a   *)
(* delete it crossed, or to a failed store.                                *)
UnrecordedInv ==
    \A d \in Docs :
        blob[d] = NoVersion /\ Unrecorded(d) # {}
            => d \in crossed \/ \E r \in Of(d) : step[r] = "refused"

(* Bytes without a row have somebody to answer for them, other than a      *)
(* delete that has only looked the document up.                            *)
LeftInv ==
    \A d \in Docs :
        row[d] = NoVersion /\ blob[d] # NoVersion
            => \E r \in Of(d) : step[r] \in {"blob_stored", "dropped", "unreferenced",
                                          "refused", "unrecorded", "failed", "blob_left", "lost"}

(* The bytes of a store that waits for its row are replaced by a store     *)
(* that overlaps it, or by one that fails.                                 *)
ReplacedInv ==
    \A r \in Stores :
        LET b == blob[DocOf[r]]
        IN  step[r] = "blob_stored" /\ b \notin {r, NoVersion}
                => b \in Stores /\ (step[b] = "refused" \/ <<b, r>> \in overlapped)

(* The bytes under a document's storage id are the document's.             *)
HomeInv == \A d \in Docs : blob[d] \in Stores => DocOf[blob[d]] = d

IInv ==
    /\ TypeOK /\ HomeInv /\ TakingInv /\ UnrecordedInv /\ LeftInv /\ ReplacedInv
    /\ RowHasBytes /\ RowMatchesBytes

-----------------------------------------------------------------------------

LEMMA InitInv == Init => IInv
<1> SUFFICES ASSUME Init PROVE IInv
  OBVIOUS
<1> USE StorageAssumption
<1>1. TypeOK
  <2>1. PICK D \in SUBSET Docs :
            /\ row = [d \in Docs |-> IF d \in D THEN Old ELSE NoVersion]
            /\ blob = row
            /\ extra = [d \in Docs |-> IF d \in D THEN {"dedup"} ELSE {}]
    BY DEF Init
  <2>2. /\ row \in [Docs -> Versions \cup {NoVersion}]
        /\ extra \in [Docs -> SUBSET {"dedup", "ingestion"}]
    BY <2>1 DEF Versions
  <2>3. \A d \in Docs : row[d] \notin Stores /\ (row[d] = NoVersion => extra[d] = {})
    BY <2>1 DEF Stores
  <2>4. QED
    BY <2>1, <2>2, <2>3 DEF Init, TypeOK, Stores, Deletes, StoreEnds
<1>2. \A r \in Requests : step[r] = "new"
  BY DEF Init
<1>3. TakingInv /\ UnrecordedInv /\ ReplacedInv
  BY <1>2 DEF TakingInv, Taking, Deletes, UnrecordedInv, Unrecorded, ReplacedInv, Stores
<1>4. row = blob
  BY DEF Init
<1>5. HomeInv /\ LeftInv /\ RowHasBytes /\ RowMatchesBytes
  BY <1>1, <1>2, <1>4 DEF TypeOK, Stores, HomeInv, LeftInv, RowHasBytes, RowMatchesBytes
<1>6. QED
  BY <1>1, <1>3, <1>5 DEF IInv

(* A failing call that was carried out does what the call does.            *)
LEMMA DeleteFailsIs ==
    ASSUME NEW r \in Requests, DeleteFails(r)
    PROVE  /\ r \in Deletes
           /\ \/ /\ step[r] = "new"
                 /\ step' = [step EXCEPT ![r] = "unread"]
                 /\ UNCHANGED <<row, extra>>
              \/ /\ step[r] = "found"
                 /\ step' = [step EXCEPT ![r] = "failed"]
                 /\ DropMetadata(DocOf[r]) \/ UNCHANGED <<row, extra>>
           /\ UNCHANGED <<blob, crashes, overlapped, crossed>>
BY DEF DeleteFails, Advance

LEMMA BlobLeftIs ==
    ASSUME NEW r \in Requests, BlobLeft(r)
    PROVE  /\ step' = [step EXCEPT ![r] = "blob_left"]
           /\ \/ step[r] \in {"dropped", "unreferenced"} /\ UNCHANGED <<blob, crossed>>
              \/ step[r] = "unreferenced" /\ TakeBytes(DocOf[r])
           /\ UNCHANGED <<row, extra, crashes, overlapped>>
BY DEF BlobLeft, Advance

LEMMA StoreRowFailsIs ==
    ASSUME NEW r \in Requests, StoreRowFails(r)
    PROVE  /\ step[r] = "blob_stored"
           /\ step' = [step EXCEPT ![r] = "unrecorded"]
           /\ Record(r) \/ UNCHANGED <<row, extra, crossed>>
           /\ UNCHANGED <<blob, crashes, overlapped>>
BY DEF StoreRowFails, Advance

LEMMA StoreBlobFailsIs ==
    ASSUME TypeOK, NEW r \in Requests, StoreBlobFails(r)
    PROVE  /\ r \in Stores /\ step[r] = "new"
           /\ step' = [step EXCEPT ![r] = "refused"]
           /\ blob' \in [Docs -> Versions \cup {NoVersion}]
           /\ \A d \in Docs : d # DocOf[r] => blob'[d] = blob[d]
           /\ blob'[DocOf[r]] \in {blob[DocOf[r]], NoVersion, r}
           /\ UNCHANGED <<row, extra, crashes, overlapped, crossed>>
<1> USE StorageAssumption
<1>1. CASE UNCHANGED blob
  BY <1>1 DEF StoreBlobFails, Advance, TypeOK
<1>2. CASE blob' = Drop(blob, DocOf[r])
  BY <1>2 DEF StoreBlobFails, Advance, Drop, TypeOK, Versions
<1>3. CASE blob' = [blob EXCEPT ![DocOf[r]] = r]
  <2>1. r \in Versions /\ DocOf[r] \in Docs
    BY DEF StoreBlobFails, Versions
  <2>2. QED
    BY <1>3, <2>1 DEF StoreBlobFails, Advance, TypeOK
<1>4. QED
  BY <1>1, <1>2, <1>3 DEF StoreBlobFails

LEMMA TypeOKKept ==
    ASSUME IInv, NEW r \in Requests, Request(r)
    PROVE  TypeOK'
<1> USE StorageAssumption DEF IInv
<1>1. CASE StoreBlob(r)
  BY <1>1 DEF StoreBlob, Advance, Unrecorded, TypeOK, Versions, Stores, Deletes, StoreEnds, DeleteEnds, InFlight
<1>2. CASE StoreBlobFails(r)
  <2>1. /\ r \in Stores /\ step' = [step EXCEPT ![r] = "refused"]
        /\ blob' \in [Docs -> Versions \cup {NoVersion}]
        /\ UNCHANGED <<row, extra, crashes, overlapped, crossed>>
    BY <1>2, StoreBlobFailsIs
  <2>2. /\ step' \in [Requests -> {"new", "lost"} \cup InFlight \cup StoreEnds \cup DeleteEnds]
        /\ \A q \in Stores : step'[q] \in {"new", "lost", "blob_stored"} \cup StoreEnds
        /\ \A q \in Deletes : step'[q] \notin {"blob_stored"} \cup StoreEnds
    BY <2>1 DEF TypeOK, Stores, Deletes, StoreEnds
  <2>3. \A d \in Docs : row[d] \in Stores => step'[row[d]] \in {"stored", "unrecorded"}
    BY <1>2, StoreBlobFailsIs DEF TypeOK, Stores
  <2>4. QED
    BY <2>1, <2>2, <2>3 DEF TypeOK
<1>3. CASE StoreRow(r)
  BY <1>3 DEF StoreRow, Record, Advance, TypeOK, Versions, Stores, Deletes, StoreEnds, DeleteEnds, InFlight
<1>4. CASE StoreRowFails(r)
  BY <1>4, StoreRowFailsIs DEF Record, TypeOK, Versions, Stores, Deletes, StoreEnds, DeleteEnds, InFlight
<1>5. CASE LookUp(r)
  BY <1>5 DEF LookUp, Advance, TypeOK, Versions, Stores, Deletes, StoreEnds, DeleteEnds, InFlight
<1>6. CASE DropRow(r)
  BY <1>6 DEF DropRow, DropMetadata, Advance, Drop, TypeOK, Versions, Stores, Deletes, StoreEnds, DeleteEnds, InFlight
<1>7. CASE DeleteFails(r)
  BY <1>7, DeleteFailsIs DEF DropMetadata, Drop, TypeOK, Versions, Stores, Deletes, StoreEnds, DeleteEnds, InFlight
<1>8. CASE CountReferences(r)
  BY <1>8 DEF CountReferences, Advance, TypeOK, Versions, Stores, Deletes, StoreEnds, DeleteEnds, InFlight
<1>9. CASE DropBlob(r)
  BY <1>9 DEF DropBlob, TakeBytes, Advance, Drop, TypeOK, Versions, Stores, Deletes, StoreEnds, DeleteEnds, InFlight
<1>10. CASE BlobLeft(r)
  BY <1>10, BlobLeftIs DEF TakeBytes, Drop, TypeOK, Versions, Stores, Deletes, StoreEnds, DeleteEnds, InFlight
<1>11. QED
  BY <1>1, <1>2, <1>3, <1>4, <1>5, <1>6, <1>7, <1>8, <1>9, <1>10 DEF Request

LEMMA HomeInvKept ==
    ASSUME IInv, NEW r \in Requests, Request(r)
    PROVE  HomeInv'
<1> USE StorageAssumption DEF IInv
<1>1. CASE StoreBlob(r)
  BY <1>1 DEF StoreBlob, Advance, TypeOK, HomeInv, Stores
<1>2. CASE StoreBlobFails(r)
  BY <1>2, StoreBlobFailsIs DEF TypeOK, HomeInv, Stores
<1>3. CASE StoreRow(r)
  BY <1>3 DEF StoreRow, Record, Advance, TypeOK, HomeInv, Stores
<1>4. CASE StoreRowFails(r)
  BY <1>4, StoreRowFailsIs DEF Record, TypeOK, HomeInv, Stores
<1>5. CASE LookUp(r)
  BY <1>5 DEF LookUp, Advance, TypeOK, HomeInv, Stores
<1>6. CASE DropRow(r)
  BY <1>6 DEF DropRow, DropMetadata, Advance, Drop, TypeOK, HomeInv, Stores
<1>7. CASE DeleteFails(r)
  BY <1>7, DeleteFailsIs DEF DropMetadata, Drop, TypeOK, HomeInv, Stores
<1>8. CASE CountReferences(r)
  BY <1>8 DEF CountReferences, Advance, TypeOK, HomeInv, Stores
<1>9. CASE DropBlob(r)
  BY <1>9 DEF DropBlob, TakeBytes, Advance, Drop, TypeOK, HomeInv, Stores
<1>10. CASE BlobLeft(r)
  BY <1>10, BlobLeftIs DEF TakeBytes, Drop, TypeOK, HomeInv, Stores
<1>11. QED
  BY <1>1, <1>2, <1>3, <1>4, <1>5, <1>6, <1>7, <1>8, <1>9, <1>10 DEF Request

LEMMA TakingInvKept ==
    ASSUME IInv, NEW r \in Requests, Request(r)
    PROVE  TakingInv'
<1> USE StorageAssumption DEF IInv
<1>1. CASE StoreBlob(r)
  BY <1>1 DEF StoreBlob, Advance, TypeOK, TakingInv, Taking, Deletes, Stores
<1>2. CASE StoreBlobFails(r)
  BY <1>2, StoreBlobFailsIs DEF TypeOK, TakingInv, Taking, Deletes, Stores
<1>3. CASE StoreRow(r)
  BY <1>3 DEF StoreRow, Record, Advance, TypeOK, TakingInv, Taking, Deletes, Stores
<1>4. CASE StoreRowFails(r)
  BY <1>4, StoreRowFailsIs DEF Record, TypeOK, TakingInv, Taking, Deletes, Stores
<1>5. CASE LookUp(r)
  BY <1>5 DEF LookUp, Advance, TypeOK, TakingInv, Taking, Deletes, Stores
<1>6. CASE DropRow(r)
  BY <1>6 DEF DropRow, DropMetadata, Advance, Drop, TypeOK, TakingInv, Taking, Deletes, Stores
<1>7. CASE DeleteFails(r)
  BY <1>7, DeleteFailsIs DEF DropMetadata, Drop, TypeOK, TakingInv, Taking, Deletes, Stores
<1>8. CASE CountReferences(r)
  BY <1>8 DEF CountReferences, Advance, TypeOK, TakingInv, Taking, Deletes, Stores
<1>9. CASE DropBlob(r)
  BY <1>9 DEF DropBlob, TakeBytes, Advance, Drop, TypeOK, TakingInv, Taking, Deletes, Stores
<1>10. CASE BlobLeft(r)
  BY <1>10, BlobLeftIs DEF TakeBytes, Drop, TypeOK, TakingInv, Taking, Deletes, Stores
<1>11. QED
  BY <1>1, <1>2, <1>3, <1>4, <1>5, <1>6, <1>7, <1>8, <1>9, <1>10 DEF Request

LEMMA UnrecordedInvKept ==
    ASSUME IInv, NEW r \in Requests, Request(r)
    PROVE  UnrecordedInv'
<1> USE StorageAssumption DEF IInv
<1>1. CASE StoreBlob(r)
  BY <1>1 DEF StoreBlob, Advance, TypeOK, UnrecordedInv, Unrecorded, Of, Stores, Deletes
<1>2. CASE StoreBlobFails(r)
  BY <1>2, StoreBlobFailsIs DEF TypeOK, UnrecordedInv, Unrecorded, Of, Stores, Deletes
<1>3. CASE StoreRow(r)
  BY <1>3 DEF StoreRow, Record, Advance, TypeOK, UnrecordedInv, Unrecorded, Of, Stores, Deletes
<1>4. CASE StoreRowFails(r)
  BY <1>4, StoreRowFailsIs DEF Record, TypeOK, UnrecordedInv, Unrecorded, Of, Stores, Deletes
<1>5. CASE LookUp(r)
  BY <1>5 DEF LookUp, Advance, TypeOK, UnrecordedInv, Unrecorded, Of, Stores, Deletes
<1>6. CASE DropRow(r)
  BY <1>6 DEF DropRow, DropMetadata, Advance, Drop, TypeOK, UnrecordedInv, Unrecorded, Of, Stores, Deletes
<1>7. CASE DeleteFails(r)
  BY <1>7, DeleteFailsIs DEF DropMetadata, Drop, TypeOK, UnrecordedInv, Unrecorded, Of, Stores, Deletes
<1>8. CASE CountReferences(r)
  BY <1>8 DEF CountReferences, Advance, TypeOK, UnrecordedInv, Unrecorded, Of, Stores, Deletes
<1>9. CASE DropBlob(r)
  BY <1>9 DEF DropBlob, TakeBytes, Advance, Drop, TypeOK, UnrecordedInv, Unrecorded, Of, Stores, Deletes
<1>10. CASE BlobLeft(r)
  BY <1>10, BlobLeftIs DEF TakeBytes, Drop, TypeOK, UnrecordedInv, Unrecorded, Of, Stores, Deletes
<1>11. QED
  BY <1>1, <1>2, <1>3, <1>4, <1>5, <1>6, <1>7, <1>8, <1>9, <1>10 DEF Request

LEMMA LeftInvKept ==
    ASSUME IInv, NEW r \in Requests, Request(r)
    PROVE  LeftInv'
<1> USE StorageAssumption DEF IInv
<1>1. CASE StoreBlob(r)
  BY <1>1 DEF StoreBlob, Advance, TypeOK, LeftInv, Of, Stores, Deletes
<1>2. CASE StoreBlobFails(r)
  BY <1>2, StoreBlobFailsIs DEF TypeOK, LeftInv, Of, Stores, Deletes
<1>3. CASE StoreRow(r)
  BY <1>3 DEF StoreRow, Record, Advance, TypeOK, LeftInv, Of, Stores, Deletes
<1>4. CASE StoreRowFails(r)
  BY <1>4, StoreRowFailsIs DEF Record, TypeOK, LeftInv, Of, Stores, Deletes
<1>5. CASE LookUp(r)
  BY <1>5 DEF LookUp, Advance, TypeOK, LeftInv, Of, Stores, Deletes
<1>6. CASE DropRow(r)
  BY <1>6 DEF DropRow, DropMetadata, Advance, Drop, TypeOK, LeftInv, Of, Stores, Deletes
<1>7. CASE DeleteFails(r)
  BY <1>7, DeleteFailsIs DEF DropMetadata, Drop, TypeOK, LeftInv, Of, Stores, Deletes
<1>8. CASE CountReferences(r)
  BY <1>8 DEF CountReferences, Advance, TypeOK, LeftInv, Of, Stores, Deletes
<1>9. CASE DropBlob(r)
  BY <1>9 DEF DropBlob, TakeBytes, Advance, Drop, TypeOK, LeftInv, Of, Stores, Deletes
<1>10. CASE BlobLeft(r)
  BY <1>10, BlobLeftIs DEF TakeBytes, Drop, TypeOK, LeftInv, Of, Stores, Deletes
<1>11. QED
  BY <1>1, <1>2, <1>3, <1>4, <1>5, <1>6, <1>7, <1>8, <1>9, <1>10 DEF Request

LEMMA ReplacedInvKept ==
    ASSUME IInv, NEW r \in Requests, Request(r)
    PROVE  ReplacedInv'
<1> USE StorageAssumption DEF IInv
<1>1. CASE StoreBlob(r)
  BY <1>1 DEF StoreBlob, Advance, TypeOK, Versions, ReplacedInv, Unrecorded, Stores, Deletes
<1>2. CASE StoreBlobFails(r)
  BY <1>2, StoreBlobFailsIs DEF TypeOK, Versions, ReplacedInv, Unrecorded, Stores, Deletes
<1>3. CASE StoreRow(r)
  BY <1>3 DEF StoreRow, Record, Advance, TypeOK, Versions, ReplacedInv, Unrecorded, Stores, Deletes
<1>4. CASE StoreRowFails(r)
  BY <1>4, StoreRowFailsIs DEF Record, TypeOK, Versions, ReplacedInv, Unrecorded, Stores, Deletes
<1>5. CASE LookUp(r)
  BY <1>5 DEF LookUp, Advance, TypeOK, Versions, ReplacedInv, Unrecorded, Stores, Deletes
<1>6. CASE DropRow(r)
  BY <1>6 DEF DropRow, DropMetadata, Advance, Drop, TypeOK, Versions, ReplacedInv, Unrecorded, Stores, Deletes
<1>7. CASE DeleteFails(r)
  BY <1>7, DeleteFailsIs DEF DropMetadata, Drop, TypeOK, Versions, ReplacedInv, Unrecorded, Stores, Deletes
<1>8. CASE CountReferences(r)
  BY <1>8 DEF CountReferences, Advance, TypeOK, Versions, ReplacedInv, Unrecorded, Stores, Deletes
<1>9. CASE DropBlob(r)
  BY <1>9 DEF DropBlob, TakeBytes, Advance, Drop, TypeOK, Versions, ReplacedInv, Unrecorded, Stores, Deletes
<1>10. CASE BlobLeft(r)
  BY <1>10, BlobLeftIs DEF TakeBytes, Drop, TypeOK, Versions, ReplacedInv, Unrecorded, Stores, Deletes
<1>11. QED
  BY <1>1, <1>2, <1>3, <1>4, <1>5, <1>6, <1>7, <1>8, <1>9, <1>10 DEF Request

LEMMA RowHasBytesKept ==
    ASSUME IInv, NEW r \in Requests, Request(r)
    PROVE  RowHasBytes'
<1> USE StorageAssumption DEF IInv
<1>1. CASE StoreBlob(r)
  BY <1>1 DEF StoreBlob, Advance, TypeOK, RowHasBytes, TakingInv, UnrecordedInv, Taking, Unrecorded, Of, Stores, Deletes
<1>2. CASE StoreBlobFails(r)
  BY <1>2, StoreBlobFailsIs DEF TypeOK, RowHasBytes, TakingInv, UnrecordedInv, Taking, Unrecorded, Of, Stores, Deletes
<1>3. CASE StoreRow(r)
  BY <1>3 DEF StoreRow, Record, Advance, TypeOK, RowHasBytes, TakingInv, UnrecordedInv, Taking, Unrecorded, Of, Stores, Deletes
<1>4. CASE StoreRowFails(r)
  BY <1>4, StoreRowFailsIs DEF Record, TypeOK, RowHasBytes, TakingInv, UnrecordedInv, Taking, Unrecorded, Of, Stores, Deletes
<1>5. CASE LookUp(r)
  BY <1>5 DEF LookUp, Advance, TypeOK, RowHasBytes, TakingInv, UnrecordedInv, Taking, Unrecorded, Of, Stores, Deletes
<1>6. CASE DropRow(r)
  BY <1>6 DEF DropRow, DropMetadata, Advance, Drop, TypeOK, RowHasBytes, TakingInv, UnrecordedInv, Taking, Unrecorded, Of, Stores, Deletes
<1>7. CASE DeleteFails(r)
  BY <1>7, DeleteFailsIs DEF DropMetadata, Drop, TypeOK, RowHasBytes, TakingInv, UnrecordedInv, Taking, Unrecorded, Of, Stores, Deletes
<1>8. CASE CountReferences(r)
  BY <1>8 DEF CountReferences, Advance, TypeOK, RowHasBytes, TakingInv, UnrecordedInv, Taking, Unrecorded, Of, Stores, Deletes
<1>9. ASSUME step[r] = "unreferenced", TakeBytes(DocOf[r]), row' = row,
             NEW e \in DeleteEnds, step' = [step EXCEPT ![r] = e]
      PROVE  RowHasBytes'
  <2>1. ASSUME NEW d \in Docs, row'[d] # NoVersion, blob'[d] = NoVersion, d = DocOf[r]
        PROVE  d \in crossed'
    <3>1. r \in Taking(d) /\ row[d] # NoVersion
      BY <1>9, <2>1 DEF Taking, TypeOK, Stores, Deletes, StoreEnds
    <3>2. d \in crossed
      BY <3>1 DEF TakingInv
    <3>3. QED
      BY <1>9, <2>1, <3>2 DEF TakeBytes
  <2>2. ASSUME NEW d \in Docs, row'[d] # NoVersion, blob'[d] = NoVersion, d # DocOf[r]
        PROVE  d \in crossed' \/ \E q \in Of(d) : step'[q] = "refused"
    <3>1. d \in crossed \/ \E q \in Of(d) : step[q] = "refused"
      BY <1>9, <2>2 DEF TakeBytes, Drop, RowHasBytes, TypeOK
    <3>2. QED
      BY <1>9, <3>1 DEF TakeBytes, TypeOK, Of
  <2>3. QED
    BY <2>1, <2>2 DEF RowHasBytes, Of
<1>10. CASE DropBlob(r)
  BY <1>9, <1>10 DEF DropBlob, Advance, DeleteEnds
<1>11. CASE BlobLeft(r)
  <2>1. CASE TakeBytes(DocOf[r]) /\ step[r] = "unreferenced"
    BY <1>9, <1>11, <2>1, BlobLeftIs DEF DeleteEnds
  <2>2. CASE UNCHANGED <<blob, crossed>>
    BY <1>11, <2>2, BlobLeftIs DEF TypeOK, RowHasBytes, Of, Stores, Deletes
  <2>3. QED
    BY <1>11, <2>1, <2>2, BlobLeftIs
<1>12. QED
  BY <1>1, <1>2, <1>3, <1>4, <1>5, <1>6, <1>7, <1>8, <1>10, <1>11 DEF Request

LEMMA RowMatchesBytesKept ==
    ASSUME IInv, NEW r \in Requests, Request(r)
    PROVE  RowMatchesBytes'
<1> USE StorageAssumption DEF IInv
<1>1. CASE StoreBlob(r)
  BY <1>1 DEF StoreBlob, Advance, TypeOK, Versions, RowMatchesBytes, ReplacedInv, Unrecorded, Stores, Deletes
<1>2. CASE StoreBlobFails(r)
  BY <1>2, StoreBlobFailsIs DEF TypeOK, Versions, RowMatchesBytes, ReplacedInv, Unrecorded, Stores, Deletes
<1>3. CASE StoreRow(r)
  <2>1. r \in Stores /\ DocOf[r] \in Docs /\ step[r] = "blob_stored"
    BY <1>3 DEF StoreRow, Record, Advance, TypeOK, Stores, Deletes
  <2>2. blob' = blob /\ overlapped' = overlapped
    BY <1>3 DEF StoreRow
  <2>3. ASSUME NEW d \in Docs, row'[d] # NoVersion, blob[d] \notin {row'[d], NoVersion}
        PROVE  \/ blob[d] \in Stores /\ step'[blob[d]] \in {"blob_stored", "refused", "unrecorded", "lost"}
               \/ <<row'[d], blob[d]>> \in overlapped \/ <<blob[d], row'[d]>> \in overlapped
    <3>1. CASE d = DocOf[r]
      <4>1. row'[d] = r
        BY <1>3, <2>1, <3>1 DEF StoreRow, Record, TypeOK
      <4>2. blob[d] \in Stores /\ (step[blob[d]] = "refused" \/ <<blob[d], r>> \in overlapped)
        BY <2>1, <2>3, <3>1, <4>1 DEF ReplacedInv
      <4>3. blob[d] # r /\ blob[d] \in Requests
        BY <2>3, <4>1, <4>2 DEF Stores
      <4>4. QED
        BY <1>3, <4>1, <4>2, <4>3 DEF StoreRow, Record, Advance, TypeOK
    <3>2. CASE d # DocOf[r]
      <4>1. row'[d] = row[d]
        BY <1>3, <3>2 DEF StoreRow, Record, TypeOK
      <4>2. blob[d] \in Stores => blob[d] # r
        BY <3>2 DEF HomeInv
      <4>3. blob[d] \in Stores => step'[blob[d]] = step[blob[d]]
        BY <1>3, <4>2 DEF StoreRow, Record, Advance, TypeOK, Stores
      <4>4. QED
        BY <2>3, <4>1, <4>3 DEF RowMatchesBytes
    <3>3. QED
      BY <3>1, <3>2
  <2>4. QED
    BY <2>2, <2>3 DEF RowMatchesBytes
<1>4. CASE StoreRowFails(r)
  BY <1>4, StoreRowFailsIs DEF Record, TypeOK, Versions, RowMatchesBytes, ReplacedInv, Unrecorded, Stores, Deletes
<1>5. CASE LookUp(r)
  BY <1>5 DEF LookUp, Advance, TypeOK, Versions, RowMatchesBytes, ReplacedInv, Unrecorded, Stores, Deletes
<1>6. CASE DropRow(r)
  BY <1>6 DEF DropRow, DropMetadata, Advance, Drop, TypeOK, Versions, RowMatchesBytes, ReplacedInv, Unrecorded, Stores, Deletes
<1>7. CASE DeleteFails(r)
  BY <1>7, DeleteFailsIs DEF DropMetadata, Drop, TypeOK, Versions, RowMatchesBytes, ReplacedInv, Unrecorded, Stores, Deletes
<1>8. CASE CountReferences(r)
  BY <1>8 DEF CountReferences, Advance, TypeOK, Versions, RowMatchesBytes, ReplacedInv, Unrecorded, Stores, Deletes
<1>9. CASE DropBlob(r)
  BY <1>9 DEF DropBlob, TakeBytes, Advance, Drop, TypeOK, Versions, RowMatchesBytes, ReplacedInv, Unrecorded, Stores, Deletes
<1>10. CASE BlobLeft(r)
  BY <1>10, BlobLeftIs DEF TakeBytes, Drop, TypeOK, Versions, RowMatchesBytes, ReplacedInv, Unrecorded, Stores, Deletes
<1>11. QED
  BY <1>1, <1>2, <1>3, <1>4, <1>5, <1>6, <1>7, <1>8, <1>9, <1>10 DEF Request

LEMMA PatchInv ==
    ASSUME IInv, NEW d \in Docs, PatchExtra(d)
    PROVE  IInv'
<1> USE DEF IInv
<1>1. TypeOK'
  BY DEF PatchExtra, TypeOK
<1>2. HomeInv' /\ TakingInv' /\ UnrecordedInv' /\ LeftInv' /\ ReplacedInv'
  BY DEF PatchExtra, HomeInv, TakingInv, Taking, UnrecordedInv, Unrecorded, LeftInv, ReplacedInv
<1>3. RowHasBytes' /\ RowMatchesBytes'
  BY DEF PatchExtra, RowHasBytes, RowMatchesBytes
<1>4. QED
  BY <1>1, <1>2, <1>3

LEMMA CrashInv ==
    ASSUME IInv, Crash
    PROVE  IInv'
<1> USE StorageAssumption DEF IInv
<1>1. \A r \in Requests : step'[r] = IF step[r] \in InFlight THEN "lost" ELSE step[r]
  BY DEF Crash
<1>2. TypeOK'
  BY <1>1 DEF Crash, TypeOK, InFlight, StoreEnds, Stores, Deletes
<1>3. HomeInv'
  BY DEF Crash, HomeInv
<1>4. TakingInv' /\ UnrecordedInv'
  BY <1>1 DEF Crash, TakingInv, Taking, UnrecordedInv, Unrecorded, InFlight, Stores, Deletes
<1>5. LeftInv'
  BY <1>1 DEF Crash, LeftInv, InFlight, Of
<1>6. ReplacedInv'
  BY <1>1 DEF Crash, ReplacedInv, InFlight, Stores
<1>7. RowHasBytes'
  BY <1>1 DEF Crash, RowHasBytes, InFlight, Of
<1>8. RowMatchesBytes'
  BY <1>1 DEF Crash, RowMatchesBytes, InFlight, Stores
<1>9. QED
  BY <1>2, <1>3, <1>4, <1>5, <1>6, <1>7, <1>8

LEMMA NextInv == IInv /\ [Next]_vars => IInv'
<1> SUFFICES ASSUME IInv, [Next]_vars PROVE IInv'
  OBVIOUS
<1>1. CASE UNCHANGED vars
  BY <1>1 DEF vars, IInv, TypeOK, HomeInv, TakingInv, Taking, UnrecordedInv, Unrecorded, LeftInv,
     ReplacedInv, RowHasBytes, RowMatchesBytes
<1>2. ASSUME NEW r \in Requests, Request(r)
      PROVE  IInv'
  BY <1>2, TypeOKKept, HomeInvKept, TakingInvKept, UnrecordedInvKept, LeftInvKept, ReplacedInvKept,
     RowHasBytesKept, RowMatchesBytesKept DEF IInv
<1>3. QED
  BY <1>1, <1>2, PatchInv, CrashInv DEF Next

LEMMA InvAlways == Spec => []IInv
<1>1. QED
  BY InitInv, NextInv, PTL DEF Spec

(* The state of the storage is well formed; a row was written by a store   *)
(* that has ended, though it may have answered that it failed.             *)
THEOREM StorageTypeCorrect == Spec => []TypeOK
<1>1. IInv => TypeOK
  BY DEF IInv
<1>2. QED
  BY <1>1, InvAlways, PTL

(* A row has its bytes, unless a delete crossed a store or a store failed. *)
THEOREM RowsHaveBytes == Spec => []RowHasBytes
<1>1. IInv => RowHasBytes
  BY DEF IInv
<1>2. QED
  BY <1>1, InvAlways, PTL

(* Bytes without a row are left by a request that failed, whether or not   *)
(* its last call was carried out, that was lost or that has not ended.     *)
THEOREM BytesHaveRows == Spec => []NoLeak
<1>1. IInv => NoLeak
  BY DEF IInv, LeftInv, NoLeak, InFlight
<1>2. QED
  BY <1>1, InvAlways, PTL

(* Row and bytes are of one version, but for stores that overlap or fail.  *)
THEOREM RowsMatchBytes == Spec => []RowMatchesBytes
<1>1. IInv => RowMatchesBytes
  BY DEF IInv
<1>2. QED
  BY <1>1, InvAlways, PTL
=============================================================================
