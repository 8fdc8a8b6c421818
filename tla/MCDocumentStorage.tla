------------------------- MODULE MCDocumentStorage --------------------------
(* Instances of DocumentStorage for TLC.                                   *)
EXTENDS DocumentStorage, TLC

CONSTANTS s1, s2, s3, x1, x2, d1

(* Three stores and two deletes of one document: documents share nothing.  *)
MCRequests == {s1, s2, s3, x1, x2}
MCDocOf == [r \in MCRequests |-> d1]
MCKindOf == [r \in MCRequests |-> IF r \in {x1, x2} THEN "delete" ELSE "store"]

(* The requests of one kind differ in nothing but their names.             *)
RequestSymmetry == Permutations({s1, s2, s3}) \cup Permutations({x1, x2})
=============================================================================
