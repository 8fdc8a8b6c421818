-------------------------- MODULE MCRetrievalIndex --------------------------
(* Instances of RetrievalIndex for TLC.                                    *)
EXTENDS RetrievalIndex, TLC

CONSTANTS u1, u2, u3, x1, x2, c0, c1

(* Two uploads of a document, of two chunks and of one, an empty one, the  *)
(* deletion of the document and that of its first chunk.                   *)
MCChunks == {c0, c1}
MCRequests == {u1, u2, u3, x1, x2}
MCKindOf ==
    (x1 :> "delete" @@ x2 :> "delete_chunk") @@ [r \in {u1, u2, u3} |-> "upsert"]
MCTargets ==
    (u1 :> {c0, c1} @@ u2 :> {c0} @@ u3 :> {} @@ x1 :> {c0, c1} @@ x2 :> {c0})

(* Bound: the empty upload, which touches nothing, comes first.            *)
EmptyFirst == step[u3] = "new" => \A r \in Requests : step[r] = "new"

=============================================================================
