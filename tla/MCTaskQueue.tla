---------------------------- MODULE MCTaskQueue -----------------------------
(* Instances of TaskQueue for TLC.                                         *)
EXTENDS TaskQueue, TLC

CONSTANTS t1, t2, d1

(* Two tasks of one document.                                             *)
MCTasks == {t1, t2}
MCDocOf == [t \in MCTasks |-> d1]

(* An ordinary task beside one of a type the worker does not know, or one  *)
(* it cannot decode.                                                       *)
UnknownKindOf == t1 :> "index" @@ t2 :> "unknown"
UndecodableKindOf == t1 :> "index" @@ t2 :> "undecodable"
=============================================================================
