------------------------ MODULE MCIngestionPipeline -------------------------
(* Instances of IngestionPipeline for TLC.                                 *)
EXTENDS IngestionPipeline, TLC

CONSTANTS long, short, blank, del, d1, r1, r2

(* A long, a short and a textless upload of one document, and a delete.    *)
MCTasks == {long, short, blank, del}
MCDocOf == [t \in MCTasks |-> d1]
MCKindOf == long :> "index" @@ short :> "index" @@ blank :> "index" @@ del :> "delete"
MCPieces == long :> 2 @@ short :> 1 @@ blank :> 0 @@ del :> 0

(* Two handlers at work; neither is told from the other.                   *)
MCRuns == {r1, r2}
RunSymmetry == Permutations(MCRuns)

(* Bound: the long upload and one of the others are made.                  *)
TwoUploads == gate[short] = "new" \/ gate[blank] = "new"

(* Bound: behaviours are not followed behind a task that the broker        *)
(* refused, as they are those of a task that never runs, or never comes.   *)
NoneRefused == \A t \in MCTasks : gate[t] # "refused"

Bounds == TwoUploads /\ NoneRefused
=============================================================================
