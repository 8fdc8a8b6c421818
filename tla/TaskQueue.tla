----------------------------- MODULE TaskQueue ------------------------------
(***************************************************************************)
(* The ingestion task queue: the gate's publisher (gate/app/queue.py and   *)
(* the enqueue sections of gate/app/main.py), the three RabbitMQ queues    *)
(* and the ingestion worker (doc-processor/app/worker.py).                 *)
(*                                                                         *)
(* A queue is a bag of messages: the worker runs the deliveries it holds   *)
(* concurrently, so the order of the main queue decides no more than which *)
(* message is fetched first, and redelivery and retry reorder it anyway.   *)
(* What a handler does to the other services is abstracted to its outcome; *)
(* IngestionPipeline opens it.                                             *)
(*                                                                         *)
(* The broker and aio_pika are modelled from how the code uses them: a     *)
(* closed connection requeues every unacknowledged delivery, a delivery    *)
(* whose handler raises is rejected with requeue=False, and the main queue *)
(* has no dead-letter exchange, so that a rejected delivery is gone.       *)
(***************************************************************************)
EXTENDS Naturals, FiniteSets

CONSTANTS
    Tasks,         \* task ids
    Docs,          \* document ids
    DocOf,         \* the document of each task
    KindOf,        \* the "type" of each task, or "undecodable" for a body that is not JSON
    MaxAttempts,   \* WORKER_MAX_ATTEMPTS
    Prefetch,      \* WORKER_PREFETCH: deliveries the broker leaves unacknowledged
    Concurrency,   \* WORKER_CONCURRENCY: handlers running at once
    Slots,         \* deliveries in the worker's memory; bounds the stale ones
    Calls,         \* bounds the patches that have timed out at their caller and may still land
    MaxLosses,     \* bound: lost connections, crashes and interrupts of the worker
    NoTask,        \* no task has written the status yet
    NoMsg          \* a free slot holds no message

Msg == [task : Tasks, attempt : 0..MaxAttempts]

ASSUME QueueAssumption ==
    /\ DocOf \in [Tasks -> Docs]
    /\ KindOf \in [Tasks -> {"index", "delete", "unknown", "undecodable"}]
    /\ MaxAttempts \in Nat
    /\ Prefetch \in Nat \ {0}
    /\ Concurrency \in Nat \ {0}
    /\ IsFiniteSet(Slots)
    /\ MaxLosses \in Nat
    /\ NoTask \notin Tasks
    /\ NoMsg \notin Msg

VARIABLES
    gate,          \* the gate's request for each task
    status,        \* extra.ingestion of each document's row: its state and the task that wrote it
    late,          \* patches their caller has given up, which the storage still works on
    main,          \* ingestion.tasks: how many copies of each message wait in it
    retry,         \* ingestion.tasks.retry
    dlq,           \* ingestion.tasks.dlq
    up,            \* the worker process runs
    stage,         \* how far each slot's delivery has come
    held,          \* the message of each slot
    live,          \* the broker still counts the slot's delivery as unacknowledged
    losses,        \* lost connections, crashes and interrupts so far
    published,     \* history: tasks the broker took from the gate
    succeeded,     \* history: tasks a handler finished
    failures,      \* history: messages whose handler raised
    refused        \* history: tasks with a delivery rejected before it was settled

gateVars == <<gate, published>>
rowVars == <<status, late>>
slotVars == <<stage, held, live>>
vars == <<gate, status, late, main, retry, dlq, up, stage, held, live, losses,
          published, succeeded, failures, refused>>

Status == [state : {"none", "queued", "processing", "retrying", "failed", "done"},
           task : Tasks \cup {NoTask}]
NoStatus == [state |-> "none", task |-> NoTask]

Stages == {"free", "fetched", "started", "working", "worked", "failing", "publishing", "acking"}

(* Every queue, slot and status record has its type.                       *)
TypeOK ==
    /\ gate \in [Tasks -> {"new", "patched", "accepted", "error"}]
    /\ status \in [Docs -> Status]
    /\ late \in [Calls -> {p \in Status : p.task \in Tasks} \cup {NoStatus}]
    /\ main \in [Msg -> Nat] /\ retry \in [Msg -> Nat] /\ dlq \in [Msg -> Nat]
    /\ up \in BOOLEAN
    /\ stage \in [Slots -> Stages]
    /\ held \in [Slots -> Msg \cup {NoMsg}]
    /\ live \in [Slots -> BOOLEAN]
    /\ \A s \in Slots : stage[s] = "free" <=> held[s] = NoMsg
    /\ \A s \in Slots : live[s] => stage[s] # "free"
    /\ losses \in 0..MaxLosses
    /\ published \in SUBSET Tasks /\ succeeded \in SUBSET Tasks /\ refused \in SUBSET Tasks
    /\ failures \in SUBSET Msg

Empty == [m \in Msg |-> 0]

Init ==
    /\ gate = [t \in Tasks |-> "new"]
    /\ status = [d \in Docs |-> NoStatus] /\ late = [c \in Calls |-> NoStatus]
    /\ main = Empty /\ retry = Empty /\ dlq = Empty
    /\ up = TRUE
    /\ stage = [s \in Slots |-> "free"]
    /\ held = [s \in Slots |-> NoMsg]
    /\ live = [s \in Slots |-> FALSE]
    /\ losses = 0
    /\ published = {} /\ succeeded = {} /\ failures = {} /\ refused = {}

-----------------------------------------------------------------------------
(* Bags of messages.                                                       *)

Put(q, m) == [q EXCEPT ![m] = @ + 1]
Take(q, m) == [q EXCEPT ![m] = @ - 1]

(* The task of m with the attempt counted up.                              *)
Again(m) == [task |-> m.task, attempt |-> m.attempt + 1]

(* PATCH extra.ingestion: best-effort everywhere, so the write lands or it *)
(* does not (storage unreachable, row missing), and the caller goes on.    *)
(* After a timeout of the caller the storage goes on too.                  *)
Patch(t, state) ==
    LET p == [state |-> state, task |-> t]
    IN  \/ status' = [status EXCEPT ![DocOf[t]] = p] /\ UNCHANGED late
        \/ UNCHANGED rowVars
        \/ /\ UNCHANGED status
           /\ \E c \in Calls : late[c] = NoStatus /\ late' = [late EXCEPT ![c] = p]

(* A patch its caller has given up lands, whatever was written since.      *)
PatchLands(c) ==
    /\ late[c] # NoStatus
    /\ status' = [status EXCEPT ![DocOf[late[c].task]] = late[c]]
    /\ late' = [late EXCEPT ![c] = NoStatus]
    /\ UNCHANGED <<gateVars, main, retry, dlq, up, slotVars, losses, succeeded, failures, refused>>

(* The storage rewrites or deletes the row of d: `extra`, and the status   *)
(* in it, goes with the old row.                                           *)
RowRewritten(d) ==
    /\ status' = [status EXCEPT ![d] = NoStatus]
    /\ UNCHANGED <<late, gateVars, main, retry, dlq, up, slotVars, losses, succeeded, failures, refused>>

-----------------------------------------------------------------------------
(* The gate.                                                               *)

(* The status says "queued" before the task is published.                  *)
GatePatch(t) ==
    /\ gate[t] = "new"
    /\ gate' = [gate EXCEPT ![t] = "patched"]
    /\ Patch(t, "queued")
    /\ UNCHANGED <<main, retry, dlq, up, slotVars, losses, published, succeeded, failures, refused>>

(* RabbitPublisher.publish returns and the broker has the message.         *)
GatePublish(t) ==
    /\ gate[t] = "patched"
    /\ gate' = [gate EXCEPT ![t] = "accepted"]
    /\ main' = Put(main, [task |-> t, attempt |-> 0])
    /\ published' = published \cup {t}
    /\ UNCHANGED <<rowVars, retry, dlq, up, slotVars, losses, succeeded, failures, refused>>

(* publisher_confirms=False: publish returns although the connection broke *)
(* with the message still on the way; the gate answers 202 all the same.   *)
GatePublishVanishes(t) ==
    /\ gate[t] = "patched"
    /\ gate' = [gate EXCEPT ![t] = "accepted"]
    /\ UNCHANGED <<rowVars, main, retry, dlq, up, slotVars, losses, published, succeeded,
                   failures, refused>>

(* publish raises: the gate answers ingestion_enqueue_failed.              *)
GatePublishRaises(t) ==
    /\ gate[t] = "patched"
    /\ gate' = [gate EXCEPT ![t] = "error"]
    /\ UNCHANGED <<rowVars, main, retry, dlq, up, slotVars, losses, published, succeeded,
                   failures, refused>>

-----------------------------------------------------------------------------
(* The worker: one slot per delivery.                                      *)

LiveSlots == {s \in Slots : live[s]}
Running == {s \in Slots : stage[s] \notin {"free", "fetched"}}

(* The broker delivers into the iterator's buffer, up to the prefetch.     *)
Fetch(s, m) ==
    /\ up /\ stage[s] = "free" /\ main[m] > 0
    /\ Cardinality(LiveSlots) < Prefetch
    /\ main' = Take(main, m)
    /\ stage' = [stage EXCEPT ![s] = "fetched"]
    /\ held' = [held EXCEPT ![s] = m]
    /\ live' = [live EXCEPT ![s] = TRUE]
    /\ UNCHANGED <<gateVars, rowVars, retry, dlq, up, losses, succeeded, failures, refused>>

Advance(s, from, to) ==
    /\ stage[s] = from
    /\ stage' = [stage EXCEPT ![s] = to]
    /\ UNCHANGED <<gateVars, main, retry, dlq, up, held, live, losses, refused>>

(* Slip: the bound of the consumer loop off by one.                        *)
StartOffByOne(s) ==
    /\ Cardinality(Running) + 1 < Concurrency
    /\ Advance(s, "fetched", "started")
    /\ UNCHANGED <<rowVars, succeeded, failures>>

(* The consumer loop takes the next delivery while fewer than Concurrency  *)
(* handlers run.                                                           *)
Start(s) ==
    /\ Cardinality(Running) < Concurrency
    /\ Advance(s, "fetched", "started")
    /\ UNCHANGED <<rowVars, succeeded, failures>>

(* A body that is not JSON: return, and the context manager acknowledges.  *)
DropUndecodable(s) ==
    /\ stage[s] = "started" /\ KindOf[held[s].task] = "undecodable"
    /\ Advance(s, "started", "acking")
    /\ UNCHANGED <<rowVars, succeeded, failures>>

(* An unknown type raises before any call.                                 *)
RaiseUnknown(s) ==
    /\ stage[s] = "started" /\ KindOf[held[s].task] = "unknown"
    /\ Advance(s, "started", "failing")
    /\ failures' = failures \cup {held[s]}
    /\ UNCHANGED <<rowVars, succeeded>>

PatchProcessing(s) ==
    /\ stage[s] = "started" /\ KindOf[held[s].task] \in {"index", "delete"}
    /\ Advance(s, "started", "working")
    /\ Patch(held[s].task, "processing")
    /\ UNCHANGED <<succeeded, failures>>

(* The calls of handle_index or handle_delete return ...                   *)
Succeed(s) ==
    /\ Advance(s, "working", "worked")
    /\ succeeded' = succeeded \cup {held[s].task}
    /\ UNCHANGED <<rowVars, failures>>

(* Slip: the answer `ok: false` of the doc-processor is not looked at.     *)
FailUnnoticed(s) ==
    /\ Advance(s, "working", "worked")
    /\ UNCHANGED <<rowVars, succeeded, failures>>

(* Slip: the exception is logged and the task is not republished.          *)
FailLogged(s) ==
    /\ Advance(s, "working", "acking")
    /\ failures' = failures \cup {held[s]}
    /\ UNCHANGED <<rowVars, succeeded>>

(* ... or one of them raises.                                              *)
Fail(s) ==
    /\ Advance(s, "working", "failing")
    /\ failures' = failures \cup {held[s]}
    /\ UNCHANGED <<rowVars, succeeded>>

(* Slip: the delivery is acknowledged before the task is republished.      *)
PatchFailureAcksFirst(s) ==
    /\ stage[s] = "failing"
    /\ stage' = [stage EXCEPT ![s] = "publishing"]
    /\ live' = [live EXCEPT ![s] = FALSE]
    /\ Patch(held[s].task, IF held[s].attempt >= MaxAttempts THEN "failed" ELSE "retrying")
    /\ UNCHANGED <<gateVars, main, retry, dlq, up, held, losses, succeeded, failures, refused>>

(* Slip: every failure is reported as the last one.                        *)
PatchFailureFinal(s) ==
    /\ stage[s] = "failing"
    /\ Advance(s, "failing", "publishing")
    /\ Patch(held[s].task, "failed")
    /\ UNCHANGED <<succeeded, failures>>

PatchDone(s) ==
    /\ stage[s] = "worked"
    /\ Advance(s, "worked", "acking")
    /\ Patch(held[s].task, "done")
    /\ UNCHANGED <<succeeded, failures>>

PatchFailure(s) ==
    /\ stage[s] = "failing"
    /\ Advance(s, "failing", "publishing")
    /\ Patch(held[s].task, IF held[s].attempt >= MaxAttempts THEN "failed" ELSE "retrying")
    /\ UNCHANGED <<succeeded, failures>>

(* Slip: the last attempt is not made.                                     *)
RepublishEarly(s) ==
    /\ stage[s] = "publishing"
    /\ stage' = [stage EXCEPT ![s] = "acking"]
    /\ LET m == held[s] IN
         \/ /\ m.attempt + 1 < MaxAttempts
            /\ retry' = Put(retry, Again(m))
            /\ UNCHANGED dlq
         \/ /\ m.attempt + 1 >= MaxAttempts
            /\ dlq' = Put(dlq, m)
            /\ UNCHANGED retry
    /\ UNCHANGED <<gateVars, rowVars, main, up, held, live, losses, succeeded, failures, refused>>

(* Slip: the exception leaves the handler after the republish and the      *)
(* delivery is requeued as well.                                           *)
RepublishAndRequeue(s) ==
    /\ stage[s] = "publishing" /\ held[s].attempt < MaxAttempts
    /\ stage' = [stage EXCEPT ![s] = "free"]
    /\ held' = [held EXCEPT ![s] = NoMsg]
    /\ live' = [live EXCEPT ![s] = FALSE]
    /\ retry' = Put(retry, Again(held[s]))
    /\ main' = Put(main, held[s])
    /\ UNCHANGED <<gateVars, rowVars, dlq, up, losses, succeeded, failures, refused>>

(* Slip: the slot is reused and its delivery is never acknowledged.        *)
ReleaseUnacked(s) ==
    /\ stage' = [stage EXCEPT ![s] = "free"]
    /\ held' = [held EXCEPT ![s] = NoMsg]
    /\ UNCHANGED <<gateVars, rowVars, main, retry, dlq, up, live, losses, succeeded, failures>>

(* republish_retry with the attempt counted up, or republish_dlq.          *)
Republish(s) ==
    /\ stage[s] = "publishing"
    /\ stage' = [stage EXCEPT ![s] = "acking"]
    /\ LET m == held[s] IN
         \/ /\ m.attempt < MaxAttempts
            /\ retry' = Put(retry, Again(m))
            /\ UNCHANGED dlq
         \/ /\ m.attempt >= MaxAttempts
            /\ dlq' = Put(dlq, m)
            /\ UNCHANGED retry
    /\ UNCHANGED <<gateVars, rowVars, main, up, held, live, losses, succeeded, failures, refused>>

Release(s) ==
    /\ stage' = [stage EXCEPT ![s] = "free"]
    /\ held' = [held EXCEPT ![s] = NoMsg]
    /\ live' = [live EXCEPT ![s] = FALSE]
    /\ UNCHANGED <<gateVars, rowVars, main, retry, dlq, up, losses, succeeded, failures>>

(* The republish raises.  The broker's nack leaves a live delivery to the  *)
(* context manager, which rejects it; a stale one has been requeued.       *)
RepublishRaises(s) ==
    /\ stage[s] = "publishing"
    /\ refused' = IF live[s] THEN refused \cup {held[s].task} ELSE refused
    /\ Release(s)

(* The acknowledgement; that of a stale delivery raises and changes nothing. *)
Ack(s) ==
    /\ stage[s] = "acking"
    /\ Release(s)
    /\ UNCHANGED refused

-----------------------------------------------------------------------------
(* The broker.                                                             *)

(* After x-message-ttl the retry queue dead-letters into the main queue.   *)
RetryExpires(m) ==
    /\ retry[m] > 0
    /\ retry' = Take(retry, m)
    /\ main' = Put(main, m)
    /\ UNCHANGED <<gateVars, rowVars, dlq, up, slotVars, losses, succeeded, failures, refused>>

(* The main queue with the unacknowledged deliveries of S back in it.      *)
Requeued(S) == [m \in Msg |-> main[m] + Cardinality({s \in S : live[s] /\ held[s] = m})]

Lose ==
    /\ up /\ losses < MaxLosses
    /\ losses' = losses + 1
    /\ UNCHANGED <<gateVars, rowVars, retry, dlq, succeeded, failures>>

(* The connection breaks: the broker requeues, connect_robust reconnects,  *)
(* and the handlers and the buffer go on with stale deliveries.            *)
ConnectionLost ==
    /\ Lose
    /\ main' = Requeued(Slots)
    /\ live' = [s \in Slots |-> FALSE]
    /\ UNCHANGED <<up, stage, held, refused>>

Stop ==
    /\ up' = FALSE
    /\ stage' = [s \in Slots |-> "free"]
    /\ held' = [s \in Slots |-> NoMsg]
    /\ live' = [s \in Slots |-> FALSE]

(* The process dies: whatever it had not acknowledged is requeued.         *)
WorkerCrash ==
    /\ Lose
    /\ main' = Requeued(Slots)
    /\ Stop
    /\ UNCHANGED refused

(* asyncio.run cancels the handlers on SIGINT: `except Exception` does not *)
(* catch CancelledError, the context manager rejects the delivery, and     *)
(* only the buffered ones are requeued.                                    *)
Interrupt ==
    /\ Lose
    /\ main' = Requeued(Slots \ Running)
    /\ refused' = refused \cup {held[s].task : s \in {r \in Running : live[r] /\ stage[r] # "acking"}}
    /\ Stop

WorkerStart ==
    /\ ~up
    /\ up' = TRUE
    /\ UNCHANGED <<gateVars, rowVars, main, retry, dlq, slotVars, losses, succeeded, failures, refused>>

-----------------------------------------------------------------------------

Handler(s) ==
    \/ Start(s) \/ DropUndecodable(s) \/ RaiseUnknown(s) \/ PatchProcessing(s)
    \/ Succeed(s) \/ Fail(s) \/ PatchDone(s) \/ PatchFailure(s)
    \/ Republish(s) \/ RepublishRaises(s) \/ Ack(s)

Gate(t) == GatePatch(t) \/ GatePublish(t) \/ GatePublishVanishes(t) \/ GatePublishRaises(t)

Next ==
    \/ \E t \in Tasks : Gate(t)
    \/ \E d \in Docs : RowRewritten(d)
    \/ \E c \in Calls : PatchLands(c)
    \/ \E s \in Slots, m \in Msg : Fetch(s, m)
    \/ \E s \in Slots : Handler(s)
    \/ \E m \in Msg : RetryExpires(m)
    \/ ConnectionLost \/ WorkerCrash \/ Interrupt \/ WorkerStart

Spec == Init /\ [][Next]_vars

(* Every call of a handler has a timeout, the event loop and the broker    *)
(* serve what is ready, the retry queue has a TTL, and a worker that is    *)
(* down is started again.  The gate and the faults owe nothing.            *)
Fairness ==
    /\ \A s \in Slots : WF_vars(Handler(s))
    /\ WF_vars(\E s \in Slots, m \in Msg : Fetch(s, m))
    /\ \A m \in Msg : WF_vars(RetryExpires(m))
    /\ WF_vars(WorkerStart)

FairSpec == Spec /\ Fairness

-----------------------------------------------------------------------------
(* Properties.                                                             *)

(* The broker answers for t: a copy waits in a queue, or a delivery is     *)
(* unacknowledged and its handler has not come to the acknowledgement.     *)
Carried(t) ==
    \/ \E m \in Msg : m.task = t /\ (main[m] > 0 \/ retry[m] > 0 \/ dlq[m] > 0)
    \/ \E s \in Slots : live[s] /\ stage[s] # "acking" /\ held[s].task = t

(* At-least-once (README, "Async Ingestion: RabbitMQ-based pipeline with   *)
(* retry and dead-letter queue"): a task the broker took is still in a     *)
(* queue or in a delivery that would be redelivered, unless it was done,   *)
(* rejected or undecodable; a crash or a lost connection between the       *)
(* republish and the acknowledgement loses nothing.                        *)
AcceptedNotLost ==
    \A t \in published :
        Carried(t) \/ t \in succeeded \/ t \in refused \/ KindOf[t] = "undecodable"

(* The dead-letter queue and the status "failed" are reached only after    *)
(* the handler failed at every attempt 0..MaxAttempts, whatever was        *)
(* redelivered in between.                                                 *)
FailedEverywhere(t) == \A a \in 0..MaxAttempts : [task |-> t, attempt |-> a] \in failures

DeadOnlyAfterAllAttempts ==
    /\ \A m \in Msg : dlq[m] > 0 => FailedEverywhere(m.task)
    /\ \A d \in Docs : status[d].state = "failed" => FailedEverywhere(status[d].task)

(* "done" is written for a task only if some handler finished it.          *)
DoneIsTrue == \A d \in Docs : status[d].state = "done" => status[d].task \in succeeded

(* Where a copy of t is that has not been worked off: in a queue, or in a  *)
(* slot that has neither settled it nor handed it on.                      *)
CopiesOf(t) ==
    LET M == {m \in Msg : m.task = t}
    IN  (UNION {{<<"main", m, i>> : i \in 1..main[m]} : m \in M})
        \cup (UNION {{<<"retry", m, i>> : i \in 1..retry[m]} : m \in M})
        \cup (UNION {{<<"dlq", m, i>> : i \in 1..dlq[m]} : m \in M})
        \cup {<<"slot", s>> : s \in {r \in Slots : stage[r] \notin {"free", "acking"}
                                                   /\ held[r].task = t}}

(* Duplicates come from lost connections alone: until the first loss a     *)
(* task exists in one copy, so no two handlers work on it at once.         *)
OneCopyUntilLoss ==
    losses = 0 => \A t \in Tasks : \A x, y \in CopiesOf(t) : x = y

(* Until the first loss a final status stands: once "done" or "failed" is  *)
(* written for a task, only another task changes the status of the row, or *)
(* a patch that its caller had given up.                                   *)
FinalStatusStands ==
    [][losses' = 0 =>
         \A d \in Docs :
            status[d].state \in {"done", "failed"} /\ status'[d] # status[d]
               => \/ status'[d].task # status[d].task
                  \/ \E c \in Calls : late[c] = status'[d] /\ late'[c] = NoStatus]_vars

-----------------------------------------------------------------------------
(* The promise of TaskLedger.                                              *)

Unsettled(t) ==
    \/ \E m \in Msg : m.task = t /\ (main[m] > 0 \/ retry[m] > 0)
    \/ \E s \in Slots : stage[s] # "free" /\ held[s].task = t

Standing(t) ==
    CASE t \notin published -> "new"
      [] t \in succeeded -> "done"
      [] t \in published \ succeeded /\ Unsettled(t) -> "owed"
      [] t \in published \ succeeded /\ ~Unsettled(t)
            /\ (\E m \in Msg : m.task = t /\ dlq[m] > 0) -> "dead"
      [] OTHER -> "discarded"

Ledger == INSTANCE TaskLedger
            WITH ledger <- [t \in Tasks |-> Standing(t)],
                 Undecodable <- {t \in Tasks : KindOf[t] = "undecodable"}

(* The queue implements the ledger: a task is settled once, and dropped    *)
(* only after a rejected delivery or for a body that cannot be decoded.    *)
ImplementsLedger == Ledger!Spec

(* Every task the broker took is settled: done, dead-lettered or discarded. *)
EventuallySettled == \A t \in Tasks : Standing(t) = "owed" ~> Standing(t) # "owed"

=============================================================================
