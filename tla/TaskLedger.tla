----------------------------- MODULE TaskLedger -----------------------------
(***************************************************************************)
(* What the ingestion queue promises about a task, with the broker, the    *)
(* retries and the worker abstracted away: a task the broker took is owed  *)
(* until it is done, dead (dead-lettered) or discarded, and a task leaves  *)
(* none of these three.  It may be discarded only if the broker was told   *)
(* to drop a delivery of it (`refused`) or if its body cannot be decoded.  *)
(***************************************************************************)
CONSTANTS Tasks,        \* the tasks the gate may submit
          Undecodable   \* those whose body is not JSON

VARIABLES ledger,       \* the standing of each task
          refused       \* tasks with a delivery rejected without requeue

vars == <<ledger, refused>>

Standing == {"new", "owed", "done", "dead", "discarded"}

TypeOK == ledger \in [Tasks -> Standing] /\ refused \in SUBSET Tasks

Init == ledger = [t \in Tasks |-> "new"] /\ refused = {}

(* What one step may do to the standing of t.                              *)
Move(t) ==
    \/ ledger'[t] = ledger[t]
    \/ ledger[t] = "new" /\ ledger'[t] = "owed"
    \/ ledger[t] = "owed" /\ ledger'[t] \in {"done", "dead"}
    \/ ledger[t] = "owed" /\ ledger'[t] = "discarded" /\ t \in refused' \cup Undecodable

(* One lost connection settles several tasks at once, so a step moves any  *)
(* number of them.                                                         *)
Next ==
    /\ ledger' \in [Tasks -> Standing]
    /\ refused' \in SUBSET Tasks
    /\ refused \subseteq refused'
    /\ \A t \in Tasks : Move(t)

Spec == Init /\ [][Next]_vars
=============================================================================
