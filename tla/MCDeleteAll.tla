---------------------------- MODULE MCDeleteAll ----------------------------
(* Instances of DeleteAll for TLC.                                         *)
EXTENDS DeleteAll

CONSTANTS d1, d2, d3, d4

(* Three documents stored, pages of two, and one that is uploaded, which *)
(* perhaps cannot be deleted.                                              *)
MCStored == <<d1, d2, d3>>

=============================================================================
