-------------------------- MODULE TaskQueueProofs ---------------------------
(***************************************************************************)
(* Safety of the task queue for any tasks, documents, attempt limit,       *)
(* prefetch, concurrency, number of slots and number of lost connections.  *)
(* And the queue keeps the promise of TaskLedger: a task is settled once.  *)
(* Until a connection is lost a task is in one place, so that the status   *)
(* of a settled task is not written again, but by a patch given up before. *)
(***************************************************************************)
EXTENDS TaskQueue, FiniteSetTheorems, TLAPS

USE DEF rowVars

-----------------------------------------------------------------------------
(* Bags.                                                                   *)

(* One more copy of m, and of nothing else.                                *)
LEMMA PutCounts ==
    ASSUME NEW q \in [Msg -> Nat], NEW m \in Msg
    PROVE  /\ Put(q, m) \in [Msg -> Nat]
           /\ Put(q, m)[m] > 0
           /\ \A n \in Msg : n # m => Put(q, m)[n] = q[n]
BY DEF Put

(* One copy of m less.                                                     *)
LEMMA TakeCounts ==
    ASSUME NEW q \in [Msg -> Nat], NEW m \in Msg, q[m] > 0
    PROVE  /\ Take(q, m) \in [Msg -> Nat]
           /\ \A n \in Msg : n # m => Take(q, m)[n] = q[n]
BY DEF Take

(* Requeueing keeps what waits and adds exactly the live deliveries of S.  *)
LEMMA RequeuedCounts ==
    ASSUME TypeOK, NEW S \in SUBSET Slots
    PROVE  /\ Requeued(S) \in [Msg -> Nat]
           /\ \A m \in Msg : main[m] > 0 => Requeued(S)[m] > 0
           /\ \A s \in S : live[s] => Requeued(S)[held[s]] > 0
           /\ \A m \in Msg : Requeued(S)[m] > 0
                => main[m] > 0 \/ \E s \in S : live[s] /\ held[s] = m
<1> DEFINE L(m) == {s \in S : live[s] /\ held[s] = m}
<1>1. ASSUME NEW m \in Msg
      PROVE  Cardinality(L(m)) \in Nat /\ (Cardinality(L(m)) = 0 <=> L(m) = {})
  <2>1. IsFiniteSet(L(m))
    BY QueueAssumption, FS_Subset, L(m) \subseteq Slots
  <2>2. QED
    BY <2>1, FS_CardinalityType, FS_EmptySet
<1>2. main \in [Msg -> Nat]
  BY DEF TypeOK
<1>3. \A m \in Msg : Requeued(S)[m] = main[m] + Cardinality(L(m))
  BY DEF Requeued
<1>4. Requeued(S) \in [Msg -> Nat]
  BY <1>1, <1>2 DEF Requeued
<1>5. \A s \in S : live[s] => held[s] \in Msg /\ s \in L(held[s])
  BY DEF TypeOK
<1> HIDE DEF L
<1>6. \A m \in Msg : main[m] > 0 => Requeued(S)[m] > 0
  BY <1>1, <1>2, <1>3
<1>7. \A s \in S : live[s] => Requeued(S)[held[s]] > 0
  <2> TAKE s \in S
  <2> HAVE live[s]
  <2>1. held[s] \in Msg /\ L(held[s]) # {}
    BY <1>5
  <2>2. QED
    BY <2>1, <1>1, <1>2, <1>3
<1>8. ASSUME NEW m \in Msg, Requeued(S)[m] > 0, ~(main[m] > 0)
      PROVE  \E s \in S : live[s] /\ held[s] = m
  <2>1. L(m) # {}
    BY <1>8, <1>1, <1>2, <1>3
  <2>2. QED
    BY <2>1 DEF L
<1>9. QED
  BY <1>4, <1>6, <1>7, <1>8

-----------------------------------------------------------------------------
(* Type correctness.                                                       *)

LEMMA InitType == Init => TypeOK
BY QueueAssumption DEF Init, TypeOK, Empty, Stages, Msg, Status, NoStatus

(* A patch leaves a well-typed status, and is one itself.                  *)
LEMMA PatchType ==
    ASSUME TypeOK, NEW t \in Tasks, NEW st \in {"queued", "processing", "retrying", "failed", "done"},
           Patch(t, st)
    PROVE  /\ status' \in [Docs -> Status]
           /\ late' \in [Calls -> {p \in Status : p.task \in Tasks} \cup {NoStatus}]
<1>1. [state |-> st, task |-> t] \in {p \in Status : p.task \in Tasks}
  BY DEF Status
<1>2. status \in [Docs -> Status] /\ late \in [Calls -> {p \in Status : p.task \in Tasks} \cup {NoStatus}]
  BY DEF TypeOK
<1> QED BY <1>1, <1>2 DEF Patch

(* A patch that lands late leaves a well-typed status.                     *)
LEMMA PatchLandsType == ASSUME TypeOK, NEW c \in Calls, PatchLands(c) PROVE TypeOK'
<1>1. late[c] \in Status
  BY DEF TypeOK, PatchLands
<1>2. status' \in [Docs -> Status] /\ late' \in [Calls -> {p \in Status : p.task \in Tasks} \cup {NoStatus}]
  BY <1>1 DEF TypeOK, PatchLands
<1> QED BY <1>2 DEF TypeOK, PatchLands, gateVars, slotVars

(* The message of an occupied slot.                                        *)
LEMMA HeldType ==
    ASSUME TypeOK, NEW s \in Slots, stage[s] # "free"
    PROVE  /\ held[s] \in Msg /\ held[s].task \in Tasks /\ held[s].attempt \in 0..MaxAttempts
           /\ held[s].attempt \in Nat
BY QueueAssumption DEF TypeOK, Msg

(* A retry is a message, within the attempt limit.                         *)
LEMMA RetryType ==
    ASSUME NEW m \in Msg, m.attempt < MaxAttempts
    PROVE  /\ Again(m) \in Msg
           /\ Again(m).task = m.task
           /\ Again(m).attempt = m.attempt + 1
BY QueueAssumption DEF Msg, Again

LEMMA GateType == ASSUME TypeOK, NEW t \in Tasks, Gate(t) PROVE TypeOK'
<1> USE DEF gateVars, slotVars, TypeOK
<1>1. CASE GatePatch(t)
  BY <1>1, PatchType DEF GatePatch
<1>2. CASE GatePublish(t)
  <2>1. [task |-> t, attempt |-> 0] \in Msg
    BY QueueAssumption DEF Msg
  <2>2. main' \in [Msg -> Nat]
    BY <1>2, <2>1, PutCounts DEF GatePublish
  <2>3. QED
    BY <1>2, <2>2 DEF GatePublish
<1>3. CASE GatePublishVanishes(t)
  BY <1>3 DEF GatePublishVanishes
<1>4. CASE GatePublishRaises(t)
  BY <1>4 DEF GatePublishRaises
<1>5. QED
  BY <1>1, <1>2, <1>3, <1>4 DEF Gate

LEMMA RowRewrittenType == ASSUME TypeOK, NEW d \in Docs, RowRewritten(d) PROVE TypeOK'
BY DEF RowRewritten, TypeOK, gateVars, slotVars, Status, NoStatus

LEMMA FetchType == ASSUME TypeOK, NEW s \in Slots, NEW m \in Msg, Fetch(s, m) PROVE TypeOK'
<1>1. main' \in [Msg -> Nat]
  BY TakeCounts DEF Fetch, TypeOK
<1>2. QED
  BY <1>1, QueueAssumption DEF Fetch, TypeOK, gateVars, Stages

(* Freeing slots keeps the slots well typed.                               *)
LEMMA ReleaseType == ASSUME TypeOK, NEW s \in Slots, Release(s), refused' \in SUBSET Tasks PROVE TypeOK'
BY QueueAssumption DEF Release, TypeOK, gateVars, Stages

LEMMA HandlerType == ASSUME TypeOK, NEW s \in Slots, Handler(s) PROVE TypeOK'
<1> USE DEF Stages, gateVars
<1>1. CASE Start(s)
  BY <1>1 DEF Start, Advance, TypeOK
<1>2. CASE DropUndecodable(s)
  BY <1>2 DEF DropUndecodable, Advance, TypeOK
<1>3. CASE RaiseUnknown(s)
  BY <1>3, HeldType DEF RaiseUnknown, Advance, TypeOK
<1>4. CASE PatchProcessing(s)
  <2>1. held[s].task \in Tasks
    BY <1>4, HeldType DEF PatchProcessing
  <2>2. QED
    BY <1>4, <2>1, PatchType DEF PatchProcessing, Advance, TypeOK
<1>5. CASE Succeed(s)
  BY <1>5, HeldType DEF Succeed, Advance, TypeOK
<1>6. CASE Fail(s)
  BY <1>6, HeldType DEF Fail, Advance, TypeOK
<1>7. CASE PatchDone(s)
  <2>1. held[s].task \in Tasks
    BY <1>7, HeldType DEF PatchDone
  <2>2. QED
    BY <1>7, <2>1, PatchType DEF PatchDone, Advance, TypeOK
<1>8. CASE PatchFailure(s)
  <2>1. held[s].task \in Tasks
    BY <1>8, HeldType DEF PatchFailure
  <2>2. QED
    BY <1>8, <2>1, PatchType DEF PatchFailure, Advance, TypeOK
<1>9. CASE Republish(s)
  <2>1. held[s] \in Msg
    BY <1>9, HeldType DEF Republish
  <2>2. retry' \in [Msg -> Nat] /\ dlq' \in [Msg -> Nat]
    BY <1>9, <2>1, RetryType, PutCounts DEF Republish, TypeOK
  <2>3. QED
    BY <1>9, <2>2 DEF Republish, TypeOK
<1>10. CASE RepublishRaises(s)
  <2>1. refused' \in SUBSET Tasks
    BY <1>10, HeldType DEF RepublishRaises, TypeOK
  <2>2. QED
    BY <1>10, <2>1, ReleaseType DEF RepublishRaises
<1>11. CASE Ack(s)
  <2>1. refused' \in SUBSET Tasks
    BY <1>11 DEF Ack, TypeOK
  <2>2. QED
    BY <1>11, <2>1, ReleaseType DEF Ack
<1>12. QED
  BY <1>1, <1>2, <1>3, <1>4, <1>5, <1>6, <1>7, <1>8, <1>9, <1>10, <1>11 DEF Handler

LEMMA RetryExpiresType == ASSUME TypeOK, NEW m \in Msg, RetryExpires(m) PROVE TypeOK'
<1>1. main' \in [Msg -> Nat] /\ retry' \in [Msg -> Nat]
  BY PutCounts, TakeCounts DEF RetryExpires, TypeOK
<1>2. QED
  BY <1>1 DEF RetryExpires, TypeOK, gateVars, slotVars

(* A stopped worker holds nothing.                                         *)
LEMMA StopType ==
    ASSUME Stop
    PROVE  /\ up' \in BOOLEAN /\ stage' \in [Slots -> Stages]
           /\ held' \in [Slots -> Msg \cup {NoMsg}] /\ live' \in [Slots -> BOOLEAN]
           /\ \A s \in Slots : stage'[s] = "free" /\ held'[s] = NoMsg /\ live'[s] = FALSE
BY DEF Stop, Stages

(* Lost connections, crashes, interrupts and restarts of the worker.       *)
LEMMA FaultType ==
    ASSUME TypeOK, ConnectionLost \/ WorkerCrash \/ Interrupt \/ WorkerStart
    PROVE  TypeOK'
<1> USE QueueAssumption DEF Stages, gateVars, slotVars
<1>1. Requeued(Slots) \in [Msg -> Nat] /\ Requeued(Slots \ Running) \in [Msg -> Nat]
  BY RequeuedCounts
<1>2. CASE ConnectionLost
  BY <1>1, <1>2 DEF ConnectionLost, Lose, TypeOK
<1>3. CASE WorkerCrash
  <2>1. losses' \in 0..MaxLosses
    BY <1>3 DEF WorkerCrash, Lose, TypeOK
  <2>2. QED
    BY <1>1, <1>3, <2>1, StopType DEF WorkerCrash, Lose, TypeOK
<1>4. CASE Interrupt
  <2>1. \A s \in Running : live[s] => held[s].task \in Tasks
    BY HeldType DEF Running
  <2>2. refused' \in SUBSET Tasks
    BY <1>4, <2>1 DEF Interrupt, TypeOK
  <2>3. losses' \in 0..MaxLosses
    BY <1>4 DEF Interrupt, Lose, TypeOK
  <2>4. QED
    BY <1>1, <1>4, <2>2, <2>3, StopType DEF Interrupt, Lose, TypeOK
<1>5. CASE WorkerStart
  BY <1>5 DEF WorkerStart, TypeOK
<1>6. QED
  BY <1>2, <1>3, <1>4, <1>5

LEMMA NextType == TypeOK /\ [Next]_vars => TypeOK'
<1> SUFFICES ASSUME TypeOK, [Next]_vars PROVE TypeOK'
  OBVIOUS
<1>1. CASE UNCHANGED vars
  BY <1>1 DEF vars, TypeOK
<1>2. CASE Next
  BY <1>2, GateType, RowRewrittenType, PatchLandsType, FetchType, HandlerType, RetryExpiresType, FaultType DEF Next
<1>3. QED
  BY <1>1, <1>2

(* The queues, the slots and the status records keep their types.          *)
THEOREM TypeCorrect == Spec => []TypeOK
<1>1. QED
  BY InitType, NextType, PTL DEF Spec

-----------------------------------------------------------------------------
(* The attempts that came before a message failed.  The clauses follow a   *)
(* message through the queues and the slots: a retry is published only     *)
(* after the attempt it counts up has raised.                              *)

EarlierFailed(m) == \A b \in 0..MaxAttempts : b < m.attempt => [task |-> m.task, attempt |-> b] \in failures

QueuesInv == \A m \in Msg : main[m] > 0 \/ retry[m] > 0 \/ dlq[m] > 0 => EarlierFailed(m)

SlotsInv ==
    \A s \in Slots :
        /\ stage[s] # "free" => EarlierFailed(held[s])
        /\ stage[s] \in {"failing", "publishing"} => held[s] \in failures
        /\ stage[s] = "worked" => held[s].task \in succeeded

(* The status records that are written, and those on their way.            *)
Given == {status[d] : d \in Docs} \cup {late[c] : c \in Calls}

ReportsInv ==
    \A p \in Given :
        /\ p.state = "failed" => FailedEverywhere(p.task)
        /\ p.state = "done" => p.task \in succeeded

DeadInv == \A m \in Msg : dlq[m] > 0 => FailedEverywhere(m.task)

IInv == TypeOK /\ QueuesInv /\ SlotsInv /\ DeadInv /\ ReportsInv /\ AcceptedNotLost

LEMMA ReportsAreTrue == IInv => DeadOnlyAfterAllAttempts /\ DoneIsTrue
BY DEF IInv, DeadInv, ReportsInv, Given, DeadOnlyAfterAllAttempts, DoneIsTrue

(* What a patch may add to the records ...                                 *)
LEMMA PatchEffect ==
    ASSUME TypeOK, NEW t \in Tasks, NEW st, Patch(t, st)
    PROVE  \A p \in Given' : p \in Given \/ (p.state = st /\ p.task = t)
<1> DEFINE q == [state |-> st, task |-> t]
<1>1. \A d \in Docs : status'[d] \in {status[d], q}
  BY DEF Patch, TypeOK
<1>2. \A c \in Calls : late'[c] \in {late[c], q}
  BY DEF Patch, TypeOK
<1>3. q.state = st /\ q.task = t
  OBVIOUS
<1> HIDE DEF q
<1> QED BY <1>1, <1>2, <1>3 DEF Given

(* ... and one that lands late.                                            *)
LEMMA LandsEffect ==
    ASSUME TypeOK, NEW c \in Calls, PatchLands(c)
    PROVE  \A p \in Given' : p \in Given \/ p.state = "none"
<1>1. \A d \in Docs : status'[d] \in {status[d], late[c]}
  BY DEF PatchLands, TypeOK
<1>2. \A k \in Calls : late'[k] \in {late[k], NoStatus}
  BY DEF PatchLands, TypeOK
<1> QED BY <1>1, <1>2 DEF Given, NoStatus

LEMMA InitInv == Init => IInv
<1> SUFFICES ASSUME Init PROVE IInv
  OBVIOUS
<1>1. TypeOK
  BY InitType
<1>2. QueuesInv /\ SlotsInv
  BY DEF Init, Empty, QueuesInv, SlotsInv
<1>3. DeadInv /\ ReportsInv
  BY DEF Init, Empty, NoStatus, DeadInv, ReportsInv, Given
<1>4. AcceptedNotLost
  BY DEF Init, AcceptedNotLost
<1>5. QED
  BY <1>1, <1>2, <1>3, <1>4 DEF IInv

(* A failure is never forgotten.                                           *)
LEMMA EarlierFailedStays ==
    ASSUME NEW m \in Msg, EarlierFailed(m), failures \subseteq failures'
    PROVE  EarlierFailed(m)'
BY DEF EarlierFailed

LEMMA FailedEverywhereStays ==
    ASSUME NEW t, FailedEverywhere(t), failures \subseteq failures'
    PROVE  FailedEverywhere(t)'
BY DEF FailedEverywhere

(* A message that failed at the last attempt has failed at every attempt.  *)
LEMMA LastFailed ==
    ASSUME NEW m \in Msg, EarlierFailed(m), m \in failures, m.attempt >= MaxAttempts
    PROVE  FailedEverywhere(m.task)
<1>1. m = [task |-> m.task, attempt |-> m.attempt] /\ m.attempt = MaxAttempts
  BY QueueAssumption DEF Msg
<1>2. QED
  BY <1>1, QueueAssumption DEF EarlierFailed, FailedEverywhere

(* A message that failed has failed before its retry.                      *)
LEMMA RetryFailed ==
    ASSUME NEW m \in Msg, EarlierFailed(m), m \in failures, m.attempt < MaxAttempts
    PROVE  EarlierFailed(Again(m))
<1>1. m = [task |-> m.task, attempt |-> m.attempt]
  BY DEF Msg
<1>2. \A b \in 0..MaxAttempts : b < m.attempt + 1 => b < m.attempt \/ b = m.attempt
  BY QueueAssumption DEF Msg
<1>3. QED
  BY <1>1, <1>2, QueueAssumption DEF EarlierFailed, Again

LEMMA GateInv == ASSUME IInv, NEW t \in Tasks, Gate(t) PROVE IInv'
<1> DEFINE m0 == [task |-> t, attempt |-> 0]
<1> USE DEF IInv, gateVars, slotVars
<1>1. TypeOK'
  BY GateType
<1>2. UNCHANGED <<retry, dlq, slotVars, succeeded, failures, refused>>
  BY DEF Gate, GatePatch, GatePublish, GatePublishVanishes, GatePublishRaises
<1>3. m0 \in Msg /\ EarlierFailed(m0)
  BY QueueAssumption DEF Msg, EarlierFailed
<1>4. SlotsInv'
  BY <1>2 DEF SlotsInv, EarlierFailed
<1>5. CASE GatePublish(t)
  <2>1. main' = Put(main, m0) /\ published' = published \cup {t} /\ UNCHANGED <<status, late>>
    BY <1>5 DEF GatePublish
  <2>2. main'[m0] > 0 /\ \A m \in Msg : m # m0 => main'[m] = main[m]
    BY <2>1, <1>3, PutCounts DEF TypeOK
  <2>3. QueuesInv'
    BY <1>2, <1>3, <2>2 DEF QueuesInv, EarlierFailed
  <2>4. DeadInv' /\ ReportsInv'
    BY <1>2, <2>1 DEF DeadInv, ReportsInv, Given, FailedEverywhere
  <2>5. \A u \in Tasks : Carried(u) => Carried(u)'
    BY <1>2, <1>3, <2>2 DEF Carried
  <2>6. Carried(t)'
    BY <1>3, <2>2 DEF Carried
  <2>7. AcceptedNotLost'
    BY <1>2, <2>1, <2>5, <2>6 DEF AcceptedNotLost, TypeOK
  <2>8. QED
    BY <1>1, <1>4, <2>3, <2>4, <2>7
<1>6. CASE ~GatePublish(t)
  <2>1. UNCHANGED <<main, published>>
    BY <1>6 DEF Gate, GatePatch, GatePublishVanishes, GatePublishRaises
  <2>2. QueuesInv' /\ AcceptedNotLost'
    BY <1>2, <2>1 DEF QueuesInv, EarlierFailed, AcceptedNotLost, Carried
  <2>3. \A p \in Given' : p \in Given \/ p.state = "queued"
    <3>1. CASE GatePatch(t)
      BY <3>1, PatchEffect DEF GatePatch
    <3>2. CASE UNCHANGED <<status, late>>
      BY <3>2 DEF Given
    <3> QED BY <1>6, <3>1, <3>2 DEF Gate, GatePatch, GatePublishVanishes, GatePublishRaises
  <2>4. DeadInv' /\ ReportsInv'
    BY <1>2, <2>3 DEF DeadInv, ReportsInv, Given, FailedEverywhere
  <2>5. QED
    BY <1>1, <1>4, <2>2, <2>4
<1>7. QED
  BY <1>5, <1>6

LEMMA RowRewrittenInv == ASSUME IInv, NEW d \in Docs, RowRewritten(d) PROVE IInv'
<1> USE DEF IInv, gateVars, slotVars
<1>1. TypeOK'
  BY RowRewrittenType
<1>2. UNCHANGED <<main, retry, dlq, stage, held, live, published, succeeded, failures, refused>>
  BY DEF RowRewritten
<1>3. QueuesInv' /\ SlotsInv' /\ AcceptedNotLost'
  BY <1>2 DEF QueuesInv, SlotsInv, EarlierFailed, AcceptedNotLost, Carried
<1>4. \A p \in Given' : p \in Given \/ p.state = "none"
  BY DEF RowRewritten, TypeOK, NoStatus, Given
<1>5. DeadInv' /\ ReportsInv'
  BY <1>2, <1>4 DEF DeadInv, ReportsInv, Given, FailedEverywhere
<1>6. QED
  BY <1>1, <1>3, <1>5

LEMMA PatchLandsInv == ASSUME IInv, NEW c \in Calls, PatchLands(c) PROVE IInv'
<1> USE DEF IInv, gateVars, slotVars
<1>1. TypeOK'
  BY PatchLandsType
<1>2. UNCHANGED <<main, retry, dlq, stage, held, live, published, succeeded, failures, refused>>
  BY DEF PatchLands
<1>3. QueuesInv' /\ SlotsInv' /\ AcceptedNotLost'
  BY <1>2 DEF QueuesInv, SlotsInv, EarlierFailed, AcceptedNotLost, Carried
<1>4. \A p \in Given' : p \in Given \/ p.state = "none"
  BY LandsEffect
<1>5. DeadInv' /\ ReportsInv'
  BY <1>2, <1>4 DEF DeadInv, ReportsInv, FailedEverywhere
<1>6. QED
  BY <1>1, <1>3, <1>5

LEMMA FetchInv == ASSUME IInv, NEW s \in Slots, NEW m \in Msg, Fetch(s, m) PROVE IInv'
<1> USE DEF IInv
<1>1. TypeOK'
  BY FetchType
<1>2. main[m] > 0 /\ \A n \in Msg : n # m => main'[n] = main[n]
  BY TakeCounts DEF Fetch, TypeOK
<1>3. /\ stage'[s] = "fetched" /\ held'[s] = m /\ live'[s]
      /\ stage[s] = "free" /\ ~live[s]
      /\ \A r \in Slots : r # s => stage'[r] = stage[r] /\ held'[r] = held[r] /\ live'[r] = live[r]
  BY DEF Fetch, TypeOK
<1>4. UNCHANGED <<status, late, retry, dlq, published, succeeded, failures, refused>>
  BY DEF Fetch, gateVars
<1>5. EarlierFailed(m)
  BY <1>2 DEF QueuesInv
<1>6. QueuesInv'
  BY <1>2, <1>4, <1>5 DEF QueuesInv, EarlierFailed
<1>7. SlotsInv'
  BY <1>3, <1>4, <1>5 DEF SlotsInv, EarlierFailed
<1>8. DeadInv' /\ ReportsInv'
  BY <1>4 DEF DeadInv, ReportsInv, Given, FailedEverywhere
<1>9. \A t \in Tasks : Carried(t) => Carried(t)'
  BY <1>2, <1>3, <1>4 DEF Carried
<1>10. AcceptedNotLost'
  BY <1>4, <1>9 DEF AcceptedNotLost, TypeOK
<1>11. QED
  BY <1>1, <1>6, <1>7, <1>8, <1>10

(* A handler that moves on keeps the invariant if it records a failure     *)
(* before it reports one, and a success before it acknowledges.            *)
LEMMA AdvanceInv ==
    ASSUME IInv, TypeOK', NEW s \in Slots,
           NEW from \in Stages \ {"free"}, NEW to \in Stages \ {"free"}, Advance(s, from, to),
           failures \subseteq failures', succeeded \subseteq succeeded',
           to \in {"failing", "publishing"} => held[s] \in failures',
           to = "worked" => held[s].task \in succeeded',
           to = "acking" => held[s].task \in succeeded' \/ KindOf[held[s].task] = "undecodable",
           \A p \in Given' :
              \/ p \in Given
              \/ p.state \notin {"failed", "done"}
              \/ p.state = "failed" /\ FailedEverywhere(p.task)
              \/ p.state = "done" /\ p.task \in succeeded
    PROVE  IInv'
<1> USE DEF IInv
<1>1. /\ stage[s] = from /\ stage'[s] = to
      /\ \A r \in Slots : r # s => stage'[r] = stage[r]
      /\ UNCHANGED <<main, retry, dlq, held, live, refused, published>>
  BY DEF Advance, TypeOK, gateVars
<1>2. QueuesInv'
  BY <1>1, EarlierFailedStays DEF QueuesInv
<1>3. \A r \in Slots : stage'[r] # "free" => held[r] \in Msg /\ EarlierFailed(held[r])
  BY <1>1, HeldType DEF SlotsInv
<1>4. SlotsInv'
  BY <1>1, <1>3, EarlierFailedStays DEF SlotsInv
<1>5. \A t : FailedEverywhere(t) => FailedEverywhere(t)'
  BY FailedEverywhereStays
<1>6. DeadInv' /\ ReportsInv'
  BY <1>1, <1>5 DEF DeadInv, ReportsInv, Given
<1>7. ASSUME NEW t \in published
      PROVE  Carried(t)' \/ t \in succeeded' \/ t \in refused' \/ KindOf[t] = "undecodable"
  <2>1. CASE Carried(t)
    BY <1>1, <2>1 DEF Carried
  <2>2. CASE ~Carried(t)
    BY <1>1, <2>2 DEF AcceptedNotLost
  <2>3. QED
    BY <2>1, <2>2
<1>8. AcceptedNotLost'
  BY <1>1, <1>7 DEF AcceptedNotLost
<1>9. QED
  BY <1>2, <1>4, <1>6, <1>8

LEMMA RepublishInv == ASSUME IInv, NEW s \in Slots, Republish(s) PROVE IInv'
<1> DEFINE m == held[s]
<1> USE DEF IInv
<1>1. TypeOK'
  BY HandlerType DEF Handler
<1>2. m \in Msg /\ EarlierFailed(m) /\ m \in failures
  BY HeldType DEF Republish, SlotsInv
<1>3. /\ stage[s] = "publishing" /\ stage'[s] = "acking"
      /\ \A r \in Slots : r # s => stage'[r] = stage[r]
      /\ UNCHANGED <<status, late, main, held, live, published, succeeded, failures, refused>>
  BY DEF Republish, TypeOK, gateVars
<1>4. SlotsInv'
  BY <1>3 DEF SlotsInv, EarlierFailed
<1>5. ReportsInv'
  BY <1>3 DEF ReportsInv, Given, FailedEverywhere
<1>6. CASE m.attempt < MaxAttempts
  <2>1. retry' = Put(retry, Again(m)) /\ UNCHANGED dlq
    BY <1>2, <1>6, QueueAssumption DEF Republish, Msg
  <2>2. Again(m) \in Msg /\ Again(m).task = m.task /\ EarlierFailed(Again(m))
    BY <1>2, <1>6, RetryType, RetryFailed
  <2>3. retry'[Again(m)] > 0 /\ \A n \in Msg : n # Again(m) => retry'[n] = retry[n]
    BY <2>1, <2>2, PutCounts DEF TypeOK
  <2>4. QueuesInv'
    BY <1>3, <2>1, <2>2, <2>3 DEF QueuesInv, EarlierFailed
  <2>5. DeadInv'
    BY <1>3, <2>1 DEF DeadInv, FailedEverywhere
  <2>6. \A t \in Tasks : Carried(t) => Carried(t)'
    BY <1>3, <2>1, <2>2, <2>3 DEF Carried
  <2>7. AcceptedNotLost'
    BY <1>3, <2>6 DEF AcceptedNotLost, TypeOK
  <2>8. QED
    BY <1>1, <1>4, <1>5, <2>4, <2>5, <2>7
<1>7. CASE ~(m.attempt < MaxAttempts)
  <2>1. dlq' = Put(dlq, m) /\ UNCHANGED retry
    BY <1>2, <1>7 DEF Republish, TypeOK, Msg
  <2>2. FailedEverywhere(m.task)
    <3>1. m.attempt >= MaxAttempts
      BY <1>2, <1>7, QueueAssumption DEF Msg
    <3>2. QED
      BY <1>2, <3>1, LastFailed
  <2>3. dlq'[m] > 0 /\ \A n \in Msg : n # m => dlq'[n] = dlq[n]
    BY <1>2, <2>1, PutCounts DEF TypeOK
  <2>4. QueuesInv'
    BY <1>2, <1>3, <2>1, <2>3 DEF QueuesInv, EarlierFailed
  <2>5. DeadInv'
    BY <1>3, <2>2, <2>3 DEF DeadInv, FailedEverywhere
  <2>6. \A t \in Tasks : Carried(t) => Carried(t)'
    BY <1>2, <1>3, <2>1, <2>3 DEF Carried
  <2>7. AcceptedNotLost'
    BY <1>3, <2>6 DEF AcceptedNotLost, TypeOK
  <2>8. QED
    BY <1>1, <1>4, <1>5, <2>4, <2>5, <2>7
<1>8. QED
  BY <1>6, <1>7

(* A slot may be freed at the acknowledgement, or when its delivery is     *)
(* recorded as refused.                                                    *)
LEMMA ReleaseInv ==
    ASSUME IInv, TypeOK', NEW s \in Slots, Release(s), refused \subseteq refused',
           stage[s] = "acking" \/ (live[s] => held[s].task \in refused')
    PROVE  IInv'
<1> USE DEF IInv
<1>1. /\ stage'[s] = "free" /\ ~live'[s]
      /\ \A r \in Slots : r # s => stage'[r] = stage[r] /\ held'[r] = held[r] /\ live'[r] = live[r]
      /\ UNCHANGED <<status, late, main, retry, dlq, published, succeeded, failures>>
  BY DEF Release, TypeOK, gateVars
<1>2. QueuesInv' /\ SlotsInv'
  BY <1>1 DEF QueuesInv, SlotsInv, EarlierFailed
<1>3. DeadInv' /\ ReportsInv'
  BY <1>1 DEF DeadInv, ReportsInv, Given, FailedEverywhere
<1>4. \A t \in Tasks : Carried(t) => Carried(t)' \/ t \in refused'
  BY <1>1 DEF Carried
<1>5. AcceptedNotLost'
  BY <1>1, <1>4 DEF AcceptedNotLost, TypeOK
<1>6. QED
  BY <1>2, <1>3, <1>5

LEMMA HandlerInv == ASSUME IInv, NEW s \in Slots, Handler(s) PROVE IInv'
<1> USE DEF IInv, Stages
<1>1. TypeOK'
  BY HandlerType
<1>2. stage[s] # "free" => held[s] \in Msg /\ held[s].task \in Tasks /\ held[s].attempt \in 0..MaxAttempts
  BY HeldType
<1>3. CASE Start(s)
  BY <1>1, <1>3, AdvanceInv DEF Start, Given
<1>4. CASE DropUndecodable(s)
  BY <1>1, <1>4, AdvanceInv DEF DropUndecodable, Given
<1>5. CASE RaiseUnknown(s)
  BY <1>1, <1>5, AdvanceInv DEF RaiseUnknown, Given
<1>6. CASE PatchProcessing(s)
  <2>1. \A p \in Given' : p \in Given \/ p.state = "processing"
    BY <1>2, <1>6, PatchEffect DEF PatchProcessing
  <2>2. QED
    BY <1>1, <1>6, <2>1, AdvanceInv DEF PatchProcessing
<1>7. CASE Succeed(s)
  BY <1>1, <1>7, AdvanceInv DEF Succeed, Given
<1>8. CASE Fail(s)
  BY <1>1, <1>8, AdvanceInv DEF Fail, Given
<1>9. CASE PatchDone(s)
  <2>1. held[s].task \in succeeded
    BY <1>9 DEF PatchDone, SlotsInv
  <2>2. \A p \in Given' : p \in Given \/ (p.state = "done" /\ p.task = held[s].task)
    BY <1>2, <1>9, PatchEffect DEF PatchDone
  <2>3. QED
    BY <1>1, <1>9, <2>1, <2>2, AdvanceInv DEF PatchDone
<1>10. CASE PatchFailure(s)
  <2>1. held[s] \in failures /\ EarlierFailed(held[s])
    BY <1>10 DEF PatchFailure, SlotsInv
  <2>2. CASE held[s].attempt >= MaxAttempts
    <3>1. FailedEverywhere(held[s].task)
      BY <1>2, <1>10, <2>1, <2>2, LastFailed DEF PatchFailure
    <3>2. \A p \in Given' : p \in Given \/ (p.state = "failed" /\ p.task = held[s].task)
      BY <1>2, <1>10, <2>2, PatchEffect DEF PatchFailure
    <3>3. QED
      BY <1>1, <1>10, <2>1, <3>1, <3>2, AdvanceInv DEF PatchFailure
  <2>3. CASE ~(held[s].attempt >= MaxAttempts)
    <3>1. \A p \in Given' : p \in Given \/ p.state = "retrying"
      BY <1>2, <1>10, <2>3, PatchEffect DEF PatchFailure
    <3>2. QED
      BY <1>1, <1>10, <2>1, <3>1, AdvanceInv DEF PatchFailure
  <2>4. QED
    BY <2>2, <2>3
<1>11. CASE Republish(s)
  BY <1>11, RepublishInv
<1>12. CASE RepublishRaises(s)
  BY <1>1, <1>12, ReleaseInv DEF RepublishRaises
<1>13. CASE Ack(s)
  BY <1>1, <1>13, ReleaseInv DEF Ack
<1>14. QED
  BY <1>3, <1>4, <1>5, <1>6, <1>7, <1>8, <1>9, <1>10, <1>11, <1>12, <1>13 DEF Handler

LEMMA RetryExpiresInv == ASSUME IInv, NEW m \in Msg, RetryExpires(m) PROVE IInv'
<1> USE DEF IInv
<1>1. TypeOK'
  BY RetryExpiresType
<1>2. /\ retry[m] > 0 /\ main' = Put(main, m) /\ retry' = Take(retry, m)
      /\ UNCHANGED <<status, late, dlq, slotVars, published, succeeded, failures, refused>>
  BY DEF RetryExpires, gateVars
<1>3. main'[m] > 0 /\ \A n \in Msg : n # m => main'[n] = main[n] /\ retry'[n] = retry[n]
  BY <1>2, PutCounts, TakeCounts DEF TypeOK
<1>4. QueuesInv'
  BY <1>2, <1>3 DEF QueuesInv, EarlierFailed
<1>5. SlotsInv' /\ DeadInv' /\ ReportsInv'
  BY <1>2 DEF SlotsInv, EarlierFailed, DeadInv, ReportsInv, Given, FailedEverywhere, slotVars
<1>6. \A t \in Tasks : Carried(t) => Carried(t)'
  BY <1>2, <1>3 DEF Carried, slotVars
<1>7. AcceptedNotLost'
  BY <1>2, <1>6 DEF AcceptedNotLost, TypeOK
<1>8. QED
  BY <1>1, <1>4, <1>5, <1>7

(* A fault that requeues the live deliveries of S, and records as refused  *)
(* those it drops before their acknowledgement, keeps the invariant.       *)
LEMMA LoseInv ==
    ASSUME IInv, TypeOK', Lose, NEW S \in SUBSET Slots, main' = Requeued(S),
           refused \subseteq refused',
           \A s \in Slots \ S : live[s] /\ stage[s] # "acking" => held[s].task \in refused',
           \/ UNCHANGED <<stage, held>>
           \/ \A s \in Slots : stage'[s] = "free"
    PROVE  IInv'
<1> USE DEF IInv
<1>1. UNCHANGED <<status, late, retry, dlq, published, succeeded, failures>>
  BY DEF Lose, gateVars
<1>2. /\ \A m \in Msg : main[m] > 0 => main'[m] > 0
      /\ \A s \in S : live[s] => held[s] \in Msg /\ main'[held[s]] > 0
      /\ \A m \in Msg : main'[m] > 0 => main[m] > 0 \/ \E s \in S : live[s] /\ held[s] = m
  BY RequeuedCounts, HeldType DEF TypeOK
<1>3. QueuesInv'
  BY <1>1, <1>2 DEF QueuesInv, SlotsInv, EarlierFailed, TypeOK
<1>4. SlotsInv'
  BY <1>1 DEF SlotsInv, EarlierFailed
<1>5. DeadInv' /\ ReportsInv'
  BY <1>1 DEF DeadInv, ReportsInv, Given, FailedEverywhere
<1>6. ASSUME NEW t \in Tasks, Carried(t)
      PROVE  Carried(t)' \/ t \in refused'
  <2>1. CASE \E m \in Msg : m.task = t /\ (main[m] > 0 \/ retry[m] > 0 \/ dlq[m] > 0)
    BY <1>1, <1>2, <2>1 DEF Carried
  <2>2. CASE \E s \in Slots : live[s] /\ stage[s] # "acking" /\ held[s].task = t
    <3>1. PICK s \in Slots : live[s] /\ stage[s] # "acking" /\ held[s].task = t
      BY <2>2
    <3>2. CASE s \in S
      BY <1>2, <3>1, <3>2 DEF Carried
    <3>3. CASE s \notin S
      BY <3>1, <3>3
    <3>4. QED
      BY <3>2, <3>3
  <2>3. QED
    BY <1>6, <2>1, <2>2 DEF Carried
<1>7. AcceptedNotLost'
  BY <1>1, <1>6 DEF AcceptedNotLost, TypeOK
<1>8. QED
  BY <1>3, <1>4, <1>5, <1>7

LEMMA FaultInv ==
    ASSUME IInv, ConnectionLost \/ WorkerCrash \/ Interrupt \/ WorkerStart
    PROVE  IInv'
<1> USE DEF IInv
<1>1. TypeOK'
  BY FaultType
<1>2. CASE ConnectionLost
  BY <1>1, <1>2, LoseInv DEF ConnectionLost
<1>3. CASE WorkerCrash
  BY <1>1, <1>3, LoseInv, StopType DEF WorkerCrash
<1>4. CASE Interrupt
  <2>1. \A s \in Slots : live[s] /\ s \in Running /\ stage[s] # "acking" => held[s].task \in refused'
    BY <1>4 DEF Interrupt
  <2>2. Slots \ Running \in SUBSET Slots /\ main' = Requeued(Slots \ Running) /\ Lose /\ Stop
        /\ refused \subseteq refused'
    BY <1>4 DEF Interrupt
  <2>3. QED
    BY <1>1, <2>1, <2>2, LoseInv, StopType
<1>5. CASE WorkerStart
  BY <1>1, <1>5 DEF WorkerStart, gateVars, slotVars, QueuesInv, SlotsInv, EarlierFailed,
     DeadInv, ReportsInv, Given, FailedEverywhere, AcceptedNotLost, Carried
<1>6. QED
  BY <1>2, <1>3, <1>4, <1>5

LEMMA NextInv == IInv /\ [Next]_vars => IInv'
<1> SUFFICES ASSUME IInv, [Next]_vars PROVE IInv'
  OBVIOUS
<1>1. CASE UNCHANGED vars
  BY <1>1 DEF vars, IInv, TypeOK, QueuesInv, SlotsInv, EarlierFailed, DeadInv,
     ReportsInv, Given, FailedEverywhere, AcceptedNotLost, Carried
<1>2. CASE Next
  BY <1>2, GateInv, RowRewrittenInv, PatchLandsInv, FetchInv, HandlerInv, RetryExpiresInv, FaultInv DEF Next
<1>3. QED
  BY <1>1, <1>2

LEMMA InvAlways == Spec => []IInv
<1>1. QED
  BY InitInv, NextInv, PTL DEF Spec

(* A task the broker took is lost only if a delivery of it was rejected or *)
(* its body cannot be decoded.                                             *)
THEOREM NothingLost == Spec => []AcceptedNotLost
<1>1. IInv => AcceptedNotLost
  BY DEF IInv
<1>2. QED
  BY <1>1, InvAlways, PTL

(* No task is dead-lettered, or reported as failed, that has an attempt    *)
(* left.                                                                   *)
THEOREM DeadLettersExhausted == Spec => []DeadOnlyAfterAllAttempts
<1>1. IInv => DeadOnlyAfterAllAttempts
  BY ReportsAreTrue
<1>2. QED
  BY <1>1, InvAlways, PTL

(* The status "done" is never written for a task no handler finished.      *)
THEOREM DoneStatusTrue == Spec => []DoneIsTrue
<1>1. IInv => DoneIsTrue
  BY ReportsAreTrue
<1>2. QED
  BY <1>1, InvAlways, PTL

-----------------------------------------------------------------------------
(* A task is settled once.                                                 *)

Final == {"done", "failed"}

(* A copy of t lies in the dead-letter queue.                              *)
Dead(t) == \E m \in Msg : m.task = t /\ dlq[m] > 0

(* Whatever is known of a task, the gate published it, and once.           *)
PublishedInv ==
    /\ \A t \in published : gate[t] = "accepted"
    /\ \A t \in Tasks : Unsettled(t) \/ Dead(t) => t \in published
    /\ succeeded \subseteq published
    /\ \A m \in failures : m.task \in published

-----------------------------------------------------------------------------
(* A step settles what was owed, and takes nothing back.                   *)

StepEffect ==
    /\ succeeded \subseteq succeeded' /\ refused \subseteq refused' /\ published \subseteq published'
    /\ \A t \in Tasks : gate[t] = "accepted" => gate'[t] = "accepted"
    /\ \A t \in published' \ published : gate[t] # "accepted" /\ gate'[t] = "accepted" /\ Unsettled(t)'
    /\ \A t \in Tasks : Unsettled(t)' => Unsettled(t) \/ t \in published' \ published
    /\ \A t \in succeeded' \ succeeded : Unsettled(t)
    /\ \A m \in failures' \ failures : Unsettled(m.task)
    /\ \A t \in Tasks : Dead(t) => Dead(t)'
    /\ \A t \in Tasks : Dead(t)' => Dead(t) \/ Unsettled(t)

(* A step that leaves the history, the gate and the dead letters alone.    *)
LEMMA QuietEffect ==
    ASSUME TypeOK, UNCHANGED <<gate, published, dlq, succeeded, failures>>, refused \subseteq refused',
           \A t \in Tasks : Unsettled(t)' => Unsettled(t)
    PROVE  StepEffect
BY DEF StepEffect, Dead

LEMMA GateEffect == ASSUME TypeOK, PublishedInv, NEW t \in Tasks, Gate(t) PROVE StepEffect
<1>1. TypeOK /\ UNCHANGED <<retry, dlq, slotVars, succeeded, failures, refused>>
  BY DEF Gate, GatePatch, GatePublish, GatePublishVanishes, GatePublishRaises
<1>2. CASE GatePublish(t)
  <2> DEFINE m0 == [task |-> t, attempt |-> 0]
  <2>1. m0 \in Msg /\ m0.task = t
    BY QueueAssumption DEF Msg
  <2>2. main' = Put(main, m0) /\ published' = published \cup {t}
        /\ gate[t] = "patched" /\ gate' = [gate EXCEPT ![t] = "accepted"]
    BY <1>2 DEF GatePublish
  <2>3. main'[m0] > 0 /\ \A m \in Msg : m # m0 => main'[m] = main[m]
    BY <1>1, <2>1, <2>2, PutCounts DEF TypeOK
  <2> HIDE DEF m0
  <2>4. Unsettled(t)'
    BY <2>1, <2>3 DEF Unsettled
  <2>5. \A u \in Tasks : u # t => (Unsettled(u)' => Unsettled(u))
    BY <1>1, <2>1, <2>3 DEF Unsettled, slotVars
  <2>6. \A u \in Tasks : Dead(u)' <=> Dead(u)
    BY <1>1 DEF Dead
  <2>7. \A u \in Tasks : gate[u] = "accepted" => gate'[u] = "accepted"
    BY <1>1, <2>2 DEF TypeOK
  <2>8. gate[t] # "accepted" /\ gate'[t] = "accepted"
    BY <1>1, <2>2 DEF TypeOK
  <2>9. t \notin published
    BY <2>8 DEF PublishedInv
  <2> QED BY <1>1, <2>2, <2>4, <2>5, <2>6, <2>7, <2>8, <2>9 DEF StepEffect
<1>3. CASE ~GatePublish(t)
  <2>1. UNCHANGED <<main, published>> /\ \A u \in Tasks : gate[u] = "accepted" => gate'[u] = "accepted"
    BY <1>1, <1>3 DEF TypeOK, Gate, GatePatch, GatePublishVanishes, GatePublishRaises
  <2>2. \A u \in Tasks : (Unsettled(u)' <=> Unsettled(u)) /\ (Dead(u)' <=> Dead(u))
    BY <1>1, <2>1 DEF Unsettled, Dead, slotVars
  <2> QED BY <1>1, <2>1, <2>2 DEF StepEffect
<1> QED BY <1>2, <1>3

LEMMA FetchEffect == ASSUME TypeOK, NEW s \in Slots, NEW m \in Msg, Fetch(s, m) PROVE StepEffect
<1>1. main[m] > 0 /\ stage[s] = "free" /\ \A n \in Msg : n # m => main'[n] = main[n]
  BY TakeCounts DEF Fetch, TypeOK
<1>2. /\ held'[s] = m
      /\ \A r \in Slots : r # s => stage'[r] = stage[r] /\ held'[r] = held[r]
  BY DEF Fetch, TypeOK
<1>3. UNCHANGED <<gate, published, retry, dlq, succeeded, failures, refused>>
  BY DEF Fetch, gateVars
<1>4. \A t \in Tasks : Unsettled(t)' => Unsettled(t)
  BY <1>1, <1>2, <1>3 DEF Unsettled
<1> QED BY <1>3, <1>4, QuietEffect

(* The slot a handler runs in, and the task it is about.                   *)
LEMMA HandlerSlot ==
    ASSUME TypeOK, NEW s \in Slots, Handler(s)
    PROVE  /\ stage[s] # "free" /\ held[s] \in Msg /\ held[s].task \in Tasks
           /\ Unsettled(held[s].task)
<1>1. stage[s] # "free"
  BY DEF Handler, Start, DropUndecodable, RaiseUnknown, PatchProcessing, Succeed, Fail, PatchDone,
     PatchFailure, Republish, RepublishRaises, Ack, Advance
<1> QED BY <1>1, HeldType DEF Unsettled

LEMMA AdvanceEffect ==
    ASSUME TypeOK, NEW s \in Slots, NEW from, NEW to, from # "free", Advance(s, from, to),
           succeeded' \in {succeeded, succeeded \cup {held[s].task}},
           failures' \in {failures, failures \cup {held[s]}}
    PROVE  StepEffect
<1>1. /\ stage[s] # "free" /\ \A r \in Slots : r # s => stage'[r] = stage[r]
      /\ UNCHANGED <<gate, published, main, retry, dlq, held, refused>>
  BY DEF Advance, TypeOK, gateVars
<1>2. \A t \in Tasks : Unsettled(t)' => Unsettled(t)
  BY <1>1 DEF Unsettled
<1>3. Unsettled(held[s].task)
  BY <1>1 DEF Unsettled
<1>4. \A t \in Tasks : Dead(t)' <=> Dead(t)
  BY <1>1 DEF Dead
<1> QED BY <1>1, <1>2, <1>3, <1>4 DEF StepEffect

LEMMA RepublishEffect == ASSUME TypeOK, NEW s \in Slots, Republish(s) PROVE StepEffect
<1> DEFINE m == held[s]
<1>1. stage[s] # "free" /\ m \in Msg /\ Unsettled(m.task)
  BY HandlerSlot DEF Handler
<1>2. /\ \A r \in Slots : r # s => stage'[r] = stage[r]
      /\ UNCHANGED <<gate, published, main, held, succeeded, failures, refused>>
  BY DEF Republish, TypeOK, gateVars
<1>3. CASE m.attempt < MaxAttempts /\ retry' = Put(retry, Again(m)) /\ UNCHANGED dlq
  <2>1. Again(m) \in Msg /\ Again(m).task = m.task /\ \A n \in Msg : n # Again(m) => retry'[n] = retry[n]
    BY <1>1, <1>3, RetryType, PutCounts DEF TypeOK
  <2>2. \A t \in Tasks : Unsettled(t)' => Unsettled(t)
    BY <1>1, <1>2, <2>1 DEF Unsettled
  <2> QED BY <1>2, <1>3, <2>2, QuietEffect
<1>4. CASE dlq' = Put(dlq, m) /\ UNCHANGED retry
  <2>1. dlq'[m] > 0 /\ \A n \in Msg : n # m => dlq'[n] = dlq[n]
    BY <1>1, <1>4, PutCounts DEF TypeOK
  <2>2. \A t \in Tasks : Unsettled(t)' => Unsettled(t)
    BY <1>1, <1>2, <1>4 DEF Unsettled
  <2>3. \A t \in Tasks : (Dead(t) => Dead(t)') /\ (Dead(t)' => Dead(t) \/ t = m.task)
    BY <1>1, <2>1 DEF Dead
  <2> QED BY <1>1, <1>2, <2>2, <2>3 DEF StepEffect
<1> QED BY <1>3, <1>4 DEF Republish

LEMMA ReleaseEffect ==
    ASSUME TypeOK, NEW s \in Slots, Release(s), refused \subseteq refused'
    PROVE  StepEffect
<1>1. /\ stage'[s] = "free"
      /\ \A r \in Slots : r # s => stage'[r] = stage[r] /\ held'[r] = held[r]
      /\ UNCHANGED <<gate, published, main, retry, dlq, succeeded, failures>>
  BY DEF Release, TypeOK, gateVars
<1>2. \A t \in Tasks : Unsettled(t)' => Unsettled(t)
  BY <1>1 DEF Unsettled
<1> QED BY <1>1, <1>2, QuietEffect

LEMMA HandlerEffect == ASSUME TypeOK, NEW s \in Slots, Handler(s) PROVE StepEffect
<1>1. CASE Start(s) \/ DropUndecodable(s) \/ RaiseUnknown(s) \/ PatchProcessing(s) \/ Succeed(s)
            \/ Fail(s) \/ PatchDone(s) \/ PatchFailure(s)
  BY <1>1, AdvanceEffect
  DEF Start, DropUndecodable, RaiseUnknown, PatchProcessing, Succeed, Fail, PatchDone, PatchFailure
<1>2. CASE Republish(s)
  BY <1>2, RepublishEffect
<1>3. CASE RepublishRaises(s) \/ Ack(s)
  <2>1. refused \subseteq refused'
    BY <1>3 DEF RepublishRaises, Ack
  <2> QED BY <1>3, <2>1, ReleaseEffect DEF RepublishRaises, Ack
<1> QED BY <1>1, <1>2, <1>3 DEF Handler

LEMMA RetryExpiresEffect == ASSUME TypeOK, NEW m \in Msg, RetryExpires(m) PROVE StepEffect
<1>1. /\ retry[m] > 0 /\ \A n \in Msg : n # m => main'[n] = main[n] /\ retry'[n] = retry[n]
      /\ UNCHANGED <<gate, published, stage, held, dlq, succeeded, failures, refused>>
  BY PutCounts, TakeCounts DEF RetryExpires, TypeOK, gateVars, slotVars
<1>2. \A t \in Tasks : Unsettled(t)' => Unsettled(t)
  BY <1>1 DEF Unsettled
<1> QED BY <1>1, <1>2, QuietEffect

(* What is requeued was in a slot.                                         *)
LEMMA LoseEffect ==
    ASSUME TypeOK, Lose, NEW S \in SUBSET Slots, main' = Requeued(S), refused \subseteq refused',
           UNCHANGED <<stage, held>> \/ \A s \in Slots : stage'[s] = "free"
    PROVE  StepEffect
<1>1. UNCHANGED <<gate, published, retry, dlq, succeeded, failures>>
  BY DEF Lose, gateVars
<1>2. \A m \in Msg : main'[m] > 0 => main[m] > 0 \/ \E s \in S : stage[s] # "free" /\ held[s] = m
  BY RequeuedCounts DEF TypeOK
<1>3. \A t \in Tasks : Unsettled(t)' => Unsettled(t)
  BY <1>1, <1>2 DEF Unsettled
<1> QED BY <1>1, <1>3, QuietEffect

LEMMA FaultEffect ==
    ASSUME TypeOK, ConnectionLost \/ WorkerCrash \/ Interrupt \/ WorkerStart
    PROVE  StepEffect
<1>1. CASE ConnectionLost \/ WorkerCrash
  BY <1>1, LoseEffect, StopType DEF ConnectionLost, WorkerCrash
<1>2. CASE Interrupt
  <2>1. Slots \ Running \in SUBSET Slots /\ main' = Requeued(Slots \ Running) /\ Lose /\ Stop
        /\ refused \subseteq refused'
    BY <1>2 DEF Interrupt
  <2> QED BY <2>1, LoseEffect, StopType
<1>3. CASE WorkerStart
  BY <1>3, QuietEffect DEF WorkerStart, gateVars, slotVars, Unsettled
<1> QED BY <1>1, <1>2, <1>3

LEMMA NextEffect == ASSUME TypeOK, PublishedInv, [Next]_vars PROVE StepEffect
<1>1. CASE UNCHANGED vars
  BY <1>1, QuietEffect DEF vars, Unsettled
<1>2. ASSUME NEW d \in Docs, RowRewritten(d) PROVE StepEffect
  BY <1>2, QuietEffect DEF RowRewritten, gateVars, slotVars, Unsettled
<1>3. ASSUME NEW c \in Calls, PatchLands(c) PROVE StepEffect
  BY <1>3, QuietEffect DEF PatchLands, gateVars, slotVars, Unsettled
<1> QED
  BY <1>1, <1>2, <1>3, GateEffect, FetchEffect, HandlerEffect, RetryExpiresEffect, FaultEffect DEF Next

LEMMA PublishedNext == ASSUME TypeOK, TypeOK', PublishedInv, StepEffect PROVE PublishedInv'
<1>1. \A t \in published' : gate'[t] = "accepted"
  BY DEF PublishedInv, StepEffect, TypeOK
<1>2. \A t \in Tasks : Unsettled(t)' \/ Dead(t)' => t \in published'
  BY DEF PublishedInv, StepEffect
<1>3. succeeded' \subseteq published' /\ \A m \in failures' : m.task \in published'
  BY DEF PublishedInv, StepEffect, TypeOK, Msg
<1> QED BY <1>1, <1>2, <1>3 DEF PublishedInv

LEMMA PublishedInit == Init => PublishedInv
BY DEF Init, PublishedInv, Empty, Unsettled, Dead

LEMMA PublishedAlways == Spec => []PublishedInv
<1>1. TypeOK /\ TypeOK' /\ PublishedInv /\ [Next]_vars => PublishedInv'
  BY NextEffect, PublishedNext
<1> QED BY <1>1, PublishedInit, TypeCorrect, PTL DEF Spec

-----------------------------------------------------------------------------
(* The refinement.                                                         *)

(* The five standings, told apart.                                         *)
LEMMA StandingIs ==
    ASSUME PublishedInv, NEW t \in Tasks
    PROVE  /\ t \notin published => Standing(t) = "new"
           /\ t \in succeeded => Standing(t) = "done"
           /\ t \in published \ succeeded /\ Unsettled(t) => Standing(t) = "owed"
           /\ t \in published \ succeeded /\ ~Unsettled(t) /\ Dead(t) => Standing(t) = "dead"
           /\ t \in published \ succeeded /\ ~Unsettled(t) /\ ~Dead(t) => Standing(t) = "discarded"
<1>1. succeeded \subseteq published
  BY DEF PublishedInv
<1> QED BY <1>1 DEF Standing, Dead

LEMMA StandingIsNext ==
    ASSUME PublishedInv', NEW t \in Tasks
    PROVE  /\ t \notin published' => Standing(t)' = "new"
           /\ t \in succeeded' => Standing(t)' = "done"
           /\ t \in published' \ succeeded' /\ Unsettled(t)' => Standing(t)' = "owed"
           /\ t \in published' \ succeeded' /\ ~Unsettled(t)' /\ Dead(t)' => Standing(t)' = "dead"
           /\ t \in published' \ succeeded' /\ ~Unsettled(t)' /\ ~Dead(t)' => Standing(t)' = "discarded"
<1>1. succeeded' \subseteq published'
  BY DEF PublishedInv
<1> QED BY <1>1 DEF Standing, Dead

(* A task that is in no queue, not dead and not done was dropped.          *)
LEMMA DiscardedIsExcused ==
    ASSUME TypeOK, AcceptedNotLost, NEW t \in published, t \notin succeeded, ~Unsettled(t), ~Dead(t)
    PROVE  t \in refused \/ KindOf[t] = "undecodable"
<1>1. ~Carried(t)
  BY DEF Carried, Unsettled, Dead, TypeOK
<1> QED BY <1>1 DEF AcceptedNotLost

LEMMA DiscardedIsExcusedNext ==
    ASSUME TypeOK', AcceptedNotLost', NEW t \in published', t \notin succeeded', ~Unsettled(t)', ~Dead(t)'
    PROVE  t \in refused' \/ KindOf[t] = "undecodable"
<1>1. ~Carried(t)'
  BY DEF Carried, Unsettled, Dead, TypeOK
<1> QED BY <1>1 DEF AcceptedNotLost

LEMMA LedgerInit == Init => Ledger!Init
<1> SUFFICES ASSUME Init PROVE Ledger!Init
  OBVIOUS
<1>1. \A t \in Tasks : Standing(t) = "new"
  BY PublishedInit, StandingIs DEF Init
<1> QED BY <1>1 DEF Init, Ledger!Init

(* What a step does to the standing of a task.                             *)
LEMMA LedgerMove ==
    ASSUME TypeOK, TypeOK', PublishedInv, PublishedInv', AcceptedNotLost', StepEffect, NEW t \in Tasks
    PROVE  /\ Standing(t)' \in Ledger!Standing
           /\ \/ Standing(t)' = Standing(t)
              \/ Standing(t) = "new" /\ Standing(t)' = "owed"
              \/ Standing(t) = "owed" /\ Standing(t)' \in {"done", "dead"}
              \/ /\ Standing(t) = "owed" /\ Standing(t)' = "discarded"
                 /\ t \in refused' \/ KindOf[t] = "undecodable"
<1>1. published \subseteq published' /\ succeeded \subseteq succeeded' /\ succeeded \subseteq published
  BY DEF StepEffect, PublishedInv
<1>2. CASE t \notin published
  <2>1. t \notin succeeded' /\ Standing(t) = "new"
    BY <1>1, <1>2, StandingIs DEF StepEffect, PublishedInv
  <2>2. t \in published' => Unsettled(t)'
    BY <1>2 DEF StepEffect
  <2>3. Standing(t)' \in {"new", "owed"}
    BY <2>1, <2>2, StandingIsNext
  <2> QED BY <2>1, <2>3 DEF Ledger!Standing
<1>3. CASE t \in succeeded
  <2>1. Standing(t) = "done" /\ Standing(t)' = "done"
    BY <1>1, <1>3, StandingIs, StandingIsNext
  <2> QED BY <2>1 DEF Ledger!Standing
<1>4. CASE t \in published \ succeeded /\ Unsettled(t)
  <2>1. Standing(t) = "owed" /\ t \in published'
    BY <1>1, <1>4, StandingIs
  <2>2. CASE t \in succeeded' \/ Unsettled(t)' \/ Dead(t)'
    BY <2>1, <2>2, StandingIsNext DEF Ledger!Standing
  <2>3. CASE t \notin succeeded' /\ ~Unsettled(t)' /\ ~Dead(t)'
    <3>1. Standing(t)' = "discarded"
      BY <2>1, <2>3, StandingIsNext
    <3>2. t \in refused' \/ KindOf[t] = "undecodable"
      BY <2>1, <2>3, DiscardedIsExcusedNext
    <3> QED BY <2>1, <3>1, <3>2 DEF Ledger!Standing
  <2> QED BY <2>2, <2>3
<1>5. CASE t \in published \ succeeded /\ ~Unsettled(t)
  <2>1. t \in published' \ succeeded' /\ ~Unsettled(t)' /\ (Dead(t)' <=> Dead(t))
    BY <1>1, <1>5 DEF StepEffect
  <2>2. Standing(t)' = Standing(t) /\ Standing(t) \in {"dead", "discarded"}
    BY <1>5, <2>1, StandingIs, StandingIsNext
  <2> QED BY <2>2 DEF Ledger!Standing
<1> QED BY <1>2, <1>3, <1>4, <1>5

LEMMA LedgerNext ==
    ASSUME TypeOK, TypeOK', PublishedInv, PublishedInv', AcceptedNotLost', [Next]_vars
    PROVE  [Ledger!Next]_(Ledger!vars)
<1>1. StepEffect
  BY NextEffect
<1>2. \A t \in Tasks : Ledger!Move(t)
  BY <1>1, LedgerMove DEF Ledger!Move
<1>3. [t \in Tasks |-> Standing(t)]' \in [Tasks -> Ledger!Standing]
  BY <1>1, LedgerMove
<1>4. refused \subseteq refused' /\ refused' \in SUBSET Tasks
  BY <1>1 DEF StepEffect, TypeOK
<1> QED BY <1>2, <1>3, <1>4 DEF Ledger!Next

(* The queue, with its copies, retries and lost connections, implements    *)
(* the ledger: a task the broker took is settled once and for all, and     *)
(* dropped only if a delivery was refused or its body is undecodable.      *)
THEOREM QueueImplementsLedger == Spec => ImplementsLedger
<1>1. TypeOK /\ TypeOK' /\ PublishedInv /\ PublishedInv' /\ AcceptedNotLost' /\ [Next]_vars
        => [Ledger!Next]_(Ledger!vars)
  BY LedgerNext
<1> QED
  BY <1>1, LedgerInit, TypeCorrect, PublishedAlways, NothingLost, PTL DEF Spec, ImplementsLedger, Ledger!Spec

-----------------------------------------------------------------------------
(* Until the first loss: a task is in one place.                           *)

Waiting(m) == main[m] + retry[m] + dlq[m]
Busy == {s \in Slots : stage[s] \notin {"free", "acking"}}

OneCopy ==
    /\ \A m \in Msg : Waiting(m) <= 1
    /\ \A m, n \in Msg : Waiting(m) > 0 /\ Waiting(n) > 0 /\ m.task = n.task => m = n
    /\ \A m \in Msg, s \in Busy : Waiting(m) > 0 => held[s].task # m.task
    /\ \A r, s \in Busy : held[r].task = held[s].task => r = s

(* Nothing of t is left but what will be dead-lettered or acknowledged.    *)
Resting(t) ==
    /\ \A m \in Msg : m.task = t => main[m] = 0 /\ retry[m] = 0
    /\ \A s \in Slots : stage[s] # "free" /\ held[s].task = t =>
          stage[s] = "acking" \/ (stage[s] = "publishing" /\ held[s].attempt >= MaxAttempts)

FinalInv == \A p \in Given : p.state \in Final => Resting(p.task)

CopyInv == losses = 0 => OneCopy /\ FinalInv

LEMMA WaitingType ==
    ASSUME TypeOK, NEW m \in Msg
    PROVE  /\ main[m] \in Nat /\ retry[m] \in Nat /\ dlq[m] \in Nat /\ Waiting(m) \in Nat
           /\ Waiting(m) > 0 <=> main[m] > 0 \/ retry[m] > 0 \/ dlq[m] > 0
BY DEF TypeOK, Waiting

LEMMA CopyInit == Init => CopyInv
BY DEF Init, Empty, CopyInv, OneCopy, Waiting, Busy, FinalInv, Final, Given, NoStatus

(* A task with a final status was published.                               *)
LEMMA FinalIsPublished ==
    ASSUME TypeOK, PublishedInv, ReportsInv, NEW p \in Given, p.state \in Final
    PROVE  p.task \in published /\ p.task \in Tasks /\ p.task # NoTask
<1>1. CASE p.state = "done"
  BY <1>1, QueueAssumption DEF ReportsInv, PublishedInv, TypeOK
<1>2. CASE p.state = "failed"
  <2>1. [task |-> p.task, attempt |-> 0] \in failures
    BY <1>2, QueueAssumption DEF ReportsInv, FailedEverywhere
  <2> QED BY <2>1, QueueAssumption DEF PublishedInv, TypeOK
<1> QED BY <1>1, <1>2 DEF Final

(* A status that was final before stays so if its task is left at rest.    *)
LEMMA FinalKept ==
    ASSUME FinalInv,
           \A p \in Given' : p \in Given \/ p.state \notin Final \/ Resting(p.task)',
           \A u : Resting(u) => Resting(u)'
    PROVE  FinalInv'
<1>1. \A p \in Given' : p.state \in Final => Resting(p.task)'
  BY DEF FinalInv
<1> QED BY <1>1 DEF FinalInv, Final, Resting

LEMMA GateCopy ==
    ASSUME IInv, PublishedInv, OneCopy, FinalInv, NEW t \in Tasks, Gate(t)
    PROVE  OneCopy' /\ FinalInv'
<1>1. TypeOK /\ TypeOK' /\ UNCHANGED <<retry, dlq, stage, held>>
  BY GateType DEF IInv, Gate, GatePatch, GatePublish, GatePublishVanishes, GatePublishRaises, slotVars
<1>2. Busy' = Busy
  BY <1>1 DEF Busy
<1>3. CASE GatePublish(t)
  <2> DEFINE m0 == [task |-> t, attempt |-> 0]
  <2>1. m0 \in Msg /\ m0.task = t
    BY QueueAssumption DEF Msg
  <2>2. main' = Put(main, m0) /\ UNCHANGED <<status, late, late>> /\ gate[t] = "patched"
    BY <1>3 DEF GatePublish
  <2>3. main'[m0] = main[m0] + 1 /\ \A m \in Msg : m # m0 => main'[m] = main[m]
    BY <1>1, <2>1, <2>2 DEF Put, TypeOK
  <2>4. t \notin published /\ ~Unsettled(t) /\ ~Dead(t)
    BY <2>2 DEF PublishedInv
  <2>5. /\ \A m \in Msg : m.task = t => Waiting(m) = 0
        /\ \A s \in Slots : stage[s] # "free" => held[s].task # t
    BY <1>1, <2>4, WaitingType DEF Unsettled, Dead
  <2> HIDE DEF m0
  <2>6. Waiting(m0)' = 1 /\ \A m \in Msg : m # m0 => Waiting(m)' = Waiting(m)
    BY <1>1, <2>1, <2>3, <2>5, WaitingType DEF Waiting
  <2>7. OneCopy'
    BY <1>1, <1>2, <2>1, <2>5, <2>6 DEF OneCopy, Busy
  <2>8. Given' = Given /\ \A p \in Given : p.state \in Final => p.task # t
    BY <1>1, <2>2, <2>4, FinalIsPublished DEF IInv, Given
  <2>9. FinalInv'
    BY <1>1, <2>1, <2>3, <2>8 DEF FinalInv, Resting
  <2> QED BY <2>7, <2>9
<1>4. CASE ~GatePublish(t)
  <2>1. main' = main
    BY <1>4 DEF Gate, GatePatch, GatePublishVanishes, GatePublishRaises
  <2>2. OneCopy'
    BY <1>1, <1>2, <2>1 DEF OneCopy, Waiting
  <2>3. \A p \in Given' : p \in Given \/ p.state = "queued"
    <3>1. CASE GatePatch(t)
      BY <1>1, <3>1, PatchEffect DEF GatePatch
    <3>2. CASE UNCHANGED <<status, late, late>>
      BY <3>2 DEF Given
    <3> QED BY <1>4, <3>1, <3>2 DEF Gate, GatePatch, GatePublishVanishes, GatePublishRaises
  <2>4. \A u : Resting(u) => Resting(u)'
    BY <1>1, <2>1 DEF Resting
  <2> QED BY <2>2, <2>3, <2>4, FinalKept DEF Final
<1> QED BY <1>3, <1>4

LEMMA FetchCopy ==
    ASSUME IInv, OneCopy, FinalInv, NEW s \in Slots, NEW m \in Msg, Fetch(s, m)
    PROVE  OneCopy' /\ FinalInv'
<1>1. TypeOK /\ TypeOK' /\ UNCHANGED <<status, late, retry, dlq>>
  BY FetchType DEF IInv, Fetch
<1>2. /\ stage'[s] = "fetched" /\ held'[s] = m /\ stage[s] = "free"
      /\ \A r \in Slots : r # s => stage'[r] = stage[r] /\ held'[r] = held[r]
  BY <1>1 DEF Fetch, TypeOK
<1>3. main[m] > 0 /\ main'[m] = main[m] - 1 /\ \A n \in Msg : n # m => main'[n] = main[n]
  BY <1>1 DEF Fetch, Take, TypeOK
<1>4. Waiting(m) = 1
  BY <1>1, <1>3, WaitingType DEF OneCopy
<1>5. Waiting(m)' = 0 /\ \A n \in Msg : n # m => Waiting(n)' = Waiting(n)
  BY <1>1, <1>3, <1>4, WaitingType DEF Waiting
<1>6. Busy' = Busy \cup {s}
  BY <1>2 DEF Busy
<1>7. \A r \in Busy : held[r].task # m.task /\ held'[r] = held[r]
  BY <1>2, <1>4 DEF OneCopy, Busy
<1>8. \A n \in Msg : n # m /\ n.task = m.task => Waiting(n) = 0
  BY <1>1, <1>4, WaitingType DEF OneCopy
<1>9. OneCopy'
  BY <1>2, <1>5, <1>6, <1>7, <1>8 DEF OneCopy
<1>10. \A u : Resting(u) => Resting(u)'
  BY <1>1, <1>2, <1>3 DEF Resting
<1> QED BY <1>1, <1>9, <1>10, FinalKept DEF Given

(* A handler that moves on has no copy of its task beside it.              *)
LEMMA AdvanceCopy ==
    ASSUME IInv, OneCopy, FinalInv, NEW s \in Slots,
           NEW from \in {"fetched", "started", "working", "worked", "failing"}, NEW to \in Stages \ {"free"},
           Advance(s, from, to),
           \A p \in Given' :
              \/ p \in Given
              \/ p.state \notin Final
              \/ /\ p.task = held[s].task
                 /\ to = "acking" \/ (to = "publishing" /\ held[s].attempt >= MaxAttempts)
    PROVE  OneCopy' /\ FinalInv'
<1>1. /\ TypeOK /\ stage[s] = from /\ stage'[s] = to
      /\ \A r \in Slots : r # s => stage'[r] = stage[r]
      /\ UNCHANGED <<main, retry, dlq, held>>
  BY DEF IInv, Advance, TypeOK
<1>2. s \in Busy /\ Busy' \subseteq Busy
  BY <1>1 DEF Busy
<1>3. OneCopy'
  BY <1>1, <1>2 DEF OneCopy, Waiting
<1>4. \A u : Resting(u) => Resting(u)'
  BY <1>1 DEF Resting
<1>5. ASSUME to = "acking" \/ (to = "publishing" /\ held[s].attempt >= MaxAttempts)
      PROVE  Resting(held[s].task)'
  <2>1. held[s] \in Msg
    BY <1>1, HeldType
  <2>2. \A m \in Msg : m.task = held[s].task => main[m] = 0 /\ retry[m] = 0
    BY <1>1, <1>2, WaitingType DEF OneCopy
  <2>3. \A r \in Slots : r # s /\ stage[r] # "free" /\ held[r].task = held[s].task => stage[r] = "acking"
    BY <1>2 DEF OneCopy, Busy
  <2> QED BY <1>1, <1>5, <2>2, <2>3 DEF Resting
<1>6. \A u : u = held[s].task /\ Resting(held[s].task)' => Resting(u)'
  BY <1>1 DEF Resting
<1> QED BY <1>3, <1>4, <1>5, <1>6, FinalKept

LEMMA RepublishCopy ==
    ASSUME IInv, OneCopy, FinalInv, NEW s \in Slots, Republish(s)
    PROVE  OneCopy' /\ FinalInv'
<1>0. PICK m \in Msg : m = held[s]
  BY HandlerSlot DEF IInv, Handler
<1>1. TypeOK /\ stage[s] = "publishing"
  BY DEF IInv, Republish
<1>2. /\ stage'[s] = "acking" /\ \A r \in Slots : r # s => stage'[r] = stage[r]
      /\ UNCHANGED <<status, late, main, held>>
  BY <1>1 DEF Republish, TypeOK
<1>3. s \in Busy /\ Busy' = Busy \ {s}
  BY <1>1, <1>2 DEF Busy
<1>4. \A n \in Msg : n.task = m.task => Waiting(n) = 0
  BY <1>0, <1>1, <1>3, WaitingType DEF OneCopy
<1>5. \A r \in Busy' : held[r].task # m.task
  BY <1>0, <1>3 DEF OneCopy
<1> DEFINE Lands(n) ==
             /\ n.task = m.task
             /\ Waiting(n)' = 1 /\ \A k \in Msg : k # n => Waiting(k)' = Waiting(k)
             /\ retry' = retry \/ m.attempt < MaxAttempts
             /\ \A k \in Msg : k.task # m.task => retry'[k] = retry[k]
<1>6. PICK n \in Msg : Lands(n)
  <2>1. CASE m.attempt < MaxAttempts /\ retry' = Put(retry, Again(m)) /\ UNCHANGED dlq
    <3>1. Again(m) \in Msg /\ Again(m).task = m.task
      BY <1>1, <2>1, RetryType
    <3>2. /\ retry'[Again(m)] = retry[Again(m)] + 1
          /\ \A k \in Msg : k # Again(m) => retry'[k] = retry[k]
      BY <1>1, <2>1, <3>1 DEF Put, TypeOK
    <3>3. Waiting(Again(m))' = 1 /\ \A k \in Msg : k # Again(m) => Waiting(k)' = Waiting(k)
      BY <1>1, <1>2, <1>4, <2>1, <3>1, <3>2, WaitingType DEF Waiting
    <3>4. Lands(Again(m))
      BY <2>1, <3>1, <3>2, <3>3
    <3> QED BY <3>1, <3>4
  <2>2. CASE dlq' = Put(dlq, m) /\ UNCHANGED retry
    <3>1. dlq'[m] = dlq[m] + 1 /\ \A k \in Msg : k # m => dlq'[k] = dlq[k]
      BY <1>1, <2>2 DEF Put, TypeOK
    <3>2. Waiting(m)' = 1 /\ \A k \in Msg : k # m => Waiting(k)' = Waiting(k)
      BY <1>1, <1>2, <1>4, <2>2, <3>1, WaitingType DEF Waiting
    <3>3. Lands(m)
      BY <2>2, <3>2
    <3> QED BY <1>1, <3>3
  <2> QED BY <1>0, <2>1, <2>2 DEF Republish
<1>7. OneCopy'
  BY <1>2, <1>3, <1>4, <1>5, <1>6 DEF OneCopy
<1>8. \A u : Resting(u) => Resting(u)'
  <2> SUFFICES ASSUME NEW u, Resting(u) PROVE Resting(u)'
    OBVIOUS
  <2>1. u = m.task => ~(m.attempt < MaxAttempts)
    BY <1>0, <1>1, QueueAssumption DEF Resting, Msg
  <2>2. \A k \in Msg : k.task = u => retry'[k] = retry[k]
    BY <1>6, <2>1
  <2>3. \A k \in Msg : k.task = u => main'[k] = 0 /\ retry'[k] = 0
    BY <1>2, <2>2 DEF Resting
  <2> QED BY <1>2, <2>3 DEF Resting
<1> QED BY <1>2, <1>7, <1>8, FinalKept DEF Given

LEMMA ReleaseCopy ==
    ASSUME IInv, OneCopy, FinalInv, NEW s \in Slots, Release(s)
    PROVE  OneCopy' /\ FinalInv'
<1>1. /\ stage'[s] = "free" /\ \A r \in Slots : r # s => stage'[r] = stage[r] /\ held'[r] = held[r]
      /\ UNCHANGED <<status, late, main, retry, dlq>>
  BY DEF Release, IInv, TypeOK
<1>2. Busy' \subseteq Busy \ {s} /\ \A r \in Busy' : held'[r] = held[r]
  BY <1>1 DEF Busy
<1>3. OneCopy'
  BY <1>1, <1>2 DEF OneCopy, Waiting
<1>4. \A u : Resting(u) => Resting(u)'
  BY <1>1 DEF Resting
<1> QED BY <1>1, <1>3, <1>4, FinalKept DEF Given

LEMMA HandlerCopy ==
    ASSUME IInv, OneCopy, FinalInv, NEW s \in Slots, Handler(s)
    PROVE  OneCopy' /\ FinalInv'
<1> USE DEF Stages, Final
<1>1. TypeOK /\ held[s] \in Msg /\ held[s].task \in Tasks
  BY HandlerSlot DEF IInv
<1>2. CASE Start(s)
  BY <1>2, AdvanceCopy DEF Start, Given
<1>3. CASE DropUndecodable(s)
  BY <1>3, AdvanceCopy DEF DropUndecodable, Given
<1>4. CASE RaiseUnknown(s)
  BY <1>4, AdvanceCopy DEF RaiseUnknown, Given
<1>5. CASE PatchProcessing(s)
  <2>1. \A p \in Given' : p \in Given \/ p.state = "processing"
    BY <1>1, <1>5, PatchEffect DEF PatchProcessing
  <2> QED BY <1>5, <2>1, AdvanceCopy DEF PatchProcessing
<1>6. CASE Succeed(s)
  BY <1>6, AdvanceCopy DEF Succeed, Given
<1>7. CASE Fail(s)
  BY <1>7, AdvanceCopy DEF Fail, Given
<1>8. CASE PatchDone(s)
  <2>1. \A p \in Given' : p \in Given \/ p.task = held[s].task
    BY <1>1, <1>8, PatchEffect DEF PatchDone
  <2> QED BY <1>8, <2>1, AdvanceCopy DEF PatchDone
<1>9. CASE PatchFailure(s)
  <2>1. \A p \in Given' :
          \/ p \in Given
          \/ p.state = "retrying"
          \/ p.task = held[s].task /\ held[s].attempt >= MaxAttempts
    BY <1>1, <1>9, PatchEffect DEF PatchFailure
  <2> QED BY <1>9, <2>1, AdvanceCopy DEF PatchFailure
<1>10. CASE Republish(s)
  BY <1>10, RepublishCopy
<1>11. CASE RepublishRaises(s) \/ Ack(s)
  BY <1>11, ReleaseCopy DEF RepublishRaises, Ack
<1> QED
  BY <1>2, <1>3, <1>4, <1>5, <1>6, <1>7, <1>8, <1>9, <1>10, <1>11 DEF Handler

LEMMA RetryExpiresCopy ==
    ASSUME IInv, OneCopy, FinalInv, NEW m \in Msg, RetryExpires(m)
    PROVE  OneCopy' /\ FinalInv'
<1>1. TypeOK /\ UNCHANGED <<status, late, dlq, stage, held>>
  BY DEF IInv, RetryExpires, slotVars
<1>2. /\ retry[m] > 0 /\ main'[m] = main[m] + 1 /\ retry'[m] = retry[m] - 1
      /\ \A n \in Msg : n # m => main'[n] = main[n] /\ retry'[n] = retry[n]
  BY <1>1 DEF RetryExpires, Put, Take, TypeOK
<1>3. \A n \in Msg : Waiting(n)' = Waiting(n)
  BY <1>1, <1>2, WaitingType DEF Waiting
<1>4. OneCopy'
  BY <1>1, <1>3 DEF OneCopy, Busy
<1>5. \A u : Resting(u) => Resting(u)'
  BY <1>1, <1>2 DEF Resting
<1> QED BY <1>1, <1>4, <1>5, FinalKept DEF Given

LEMMA RowRewrittenCopy ==
    ASSUME IInv, OneCopy, FinalInv, NEW d \in Docs, RowRewritten(d)
    PROVE  OneCopy' /\ FinalInv'
<1>1. TypeOK /\ UNCHANGED <<main, retry, dlq, stage, held>>
  BY DEF IInv, RowRewritten, slotVars
<1>2. OneCopy' /\ \A u : Resting(u) => Resting(u)'
  BY <1>1 DEF OneCopy, Waiting, Busy, Resting
<1>3. \A p \in Given' : p \in Given \/ p.state = "none"
  BY <1>1 DEF RowRewritten, TypeOK, NoStatus, Given
<1> QED BY <1>2, <1>3, FinalKept DEF Final

LEMMA PatchLandsCopy ==
    ASSUME IInv, OneCopy, FinalInv, NEW c \in Calls, PatchLands(c)
    PROVE  OneCopy' /\ FinalInv'
<1>1. TypeOK /\ UNCHANGED <<main, retry, dlq, stage, held>>
  BY DEF IInv, PatchLands, slotVars
<1>2. OneCopy' /\ \A u : Resting(u) => Resting(u)'
  BY <1>1 DEF OneCopy, Waiting, Busy, Resting
<1>3. \A p \in Given' : p \in Given \/ p.state = "none"
  BY <1>1, LandsEffect
<1> QED BY <1>2, <1>3, FinalKept DEF Final

(* Losses are counted and never forgotten.                                 *)
LEMMA NextLosses ==
    ASSUME TypeOK, [Next]_vars, losses' = 0
    PROVE  /\ losses = 0
           /\ \/ UNCHANGED vars \/ WorkerStart
              \/ \E t \in Tasks : Gate(t)
              \/ \E d \in Docs : RowRewritten(d)
              \/ \E c \in Calls : PatchLands(c)
              \/ \E s \in Slots, m \in Msg : Fetch(s, m)
              \/ \E s \in Slots : Handler(s)
              \/ \E m \in Msg : RetryExpires(m)
<1>1. ~Lose
  BY QueueAssumption DEF Lose, TypeOK
<1>2. losses' = losses
  BY <1>1 DEF Next, ConnectionLost, WorkerCrash, Interrupt, vars, WorkerStart, Gate, GatePatch, GatePublish,
     GatePublishVanishes, GatePublishRaises, RowRewritten, PatchLands, Fetch, RetryExpires, Handler, Start,
     DropUndecodable, RaiseUnknown, PatchProcessing, Succeed, Fail, PatchDone, PatchFailure, Republish,
     RepublishRaises, Ack, Release, Advance
<1> QED BY <1>1, <1>2 DEF Next, ConnectionLost, WorkerCrash, Interrupt

LEMMA CopyNext == IInv /\ PublishedInv /\ CopyInv /\ [Next]_vars => CopyInv'
<1> SUFFICES ASSUME IInv, PublishedInv, CopyInv, [Next]_vars, losses' = 0 PROVE OneCopy' /\ FinalInv'
  BY DEF CopyInv
<1>1. TypeOK
  BY DEF IInv
<1>2. losses = 0
  BY <1>1, NextLosses
<1>3. OneCopy /\ FinalInv
  BY <1>2 DEF CopyInv
<1>4. CASE UNCHANGED vars \/ WorkerStart
  BY <1>3, <1>4 DEF vars, WorkerStart, slotVars, OneCopy, Waiting, Busy, FinalInv, Given, Resting, Final
<1> QED
  BY <1>1, <1>3, <1>4, NextLosses, GateCopy, RowRewrittenCopy, PatchLandsCopy, FetchCopy, HandlerCopy, RetryExpiresCopy

LEMMA CopyAlways == Spec => []CopyInv
<1>1. QED
  BY CopyInit, CopyNext, InvAlways, PublishedAlways, PTL DEF Spec

(* A copy in a queue is the only one there, and names its message.         *)
LEMMA QueuedCopy ==
    ASSUME TypeOK, OneCopy, NEW m \in Msg, NEW i \in Nat
    PROVE  /\ i \in 1..main[m] => i = 1 /\ Waiting(m) = 1 /\ main[m] = 1
           /\ i \in 1..retry[m] => i = 1 /\ Waiting(m) = 1 /\ retry[m] = 1
           /\ i \in 1..dlq[m] => i = 1 /\ Waiting(m) = 1 /\ dlq[m] = 1
<1>1. PICK a \in Nat, b \in Nat, c \in Nat : a = main[m] /\ b = retry[m] /\ c = dlq[m]
  BY WaitingType
<1>2. a + b + c <= 1
  BY <1>1 DEF OneCopy, Waiting
<1>3. /\ i \in 1..a => i = 1 /\ a = 1 /\ a + b + c = 1
      /\ i \in 1..b => i = 1 /\ b = 1 /\ a + b + c = 1
      /\ i \in 1..c => i = 1 /\ c = 1 /\ a + b + c = 1
  BY <1>2
<1> QED BY <1>1, <1>3 DEF Waiting

LEMMA CopiesCoincide ==
    ASSUME TypeOK, OneCopy, NEW t \in Tasks, NEW x \in CopiesOf(t), NEW y \in CopiesOf(t)
    PROVE  x = y
<1> DEFINE Queued(z, m) ==
             \/ z = <<"main", m, 1>> /\ main[m] = 1
             \/ z = <<"retry", m, 1>> /\ retry[m] = 1
             \/ z = <<"dlq", m, 1>> /\ dlq[m] = 1
           InQueue(z) == \E m \in Msg : m.task = t /\ Waiting(m) = 1 /\ Queued(z, m)
           InSlot(z) == \E s \in Busy : held[s].task = t /\ z = <<"slot", s>>
<1>1. ASSUME NEW z \in CopiesOf(t) PROVE InQueue(z) \/ InSlot(z)
  <2>1. CASE \E m \in Msg : m.task = t /\ \E i \in 1..main[m] : z = <<"main", m, i>>
    BY <2>1, QueuedCopy
  <2>2. CASE \E m \in Msg : m.task = t /\ \E i \in 1..retry[m] : z = <<"retry", m, i>>
    BY <2>2, QueuedCopy
  <2>3. CASE \E m \in Msg : m.task = t /\ \E i \in 1..dlq[m] : z = <<"dlq", m, i>>
    BY <2>3, QueuedCopy
  <2>4. CASE InSlot(z)
    BY <2>4
  <2> QED BY <1>1, <2>1, <2>2, <2>3, <2>4 DEF CopiesOf, Busy
<1>2. CASE InQueue(x) /\ InQueue(y)
  <2>1. PICK m \in Msg : m.task = t /\ Waiting(m) = 1 /\ Queued(x, m)
    BY <1>2
  <2>2. PICK n \in Msg : n.task = t /\ Waiting(n) = 1 /\ Queued(y, n)
    BY <1>2
  <2>3. m = n
    BY <2>1, <2>2 DEF OneCopy
  <2>4. main[m] + retry[m] + dlq[m] = 1 /\ main[m] \in Nat /\ retry[m] \in Nat /\ dlq[m] \in Nat
    BY <2>1, WaitingType DEF Waiting
  <2> QED BY <2>1, <2>2, <2>3, <2>4
<1>3. CASE InSlot(x) /\ InSlot(y)
  BY <1>3 DEF OneCopy
<1>4. ~(InQueue(x) /\ InSlot(y)) /\ ~(InSlot(x) /\ InQueue(y))
  BY DEF OneCopy
<1> HIDE DEF InQueue, InSlot
<1> QED BY <1>1, <1>2, <1>3, <1>4

(* Until the first loss a task exists in one copy, for any prefetch,       *)
(* concurrency and attempt limit: retries duplicate nothing.               *)
THEOREM RetriesCopyNothing == Spec => []OneCopyUntilLoss
<1>1. TypeOK /\ CopyInv => OneCopyUntilLoss
  BY CopiesCoincide DEF CopyInv, OneCopyUntilLoss
<1> QED BY <1>1, TypeCorrect, CopyAlways, PTL

(* No write of the gate or of a handler follows a final status of its      *)
(* task: one that does was given up by its caller.                         *)
LateWrite(d) == \E c \in Calls : late[c] = status'[d] /\ late'[c] = NoStatus

LEMMA FinalStep ==
    ASSUME IInv, PublishedInv, CopyInv, [Next]_vars, losses = 0, NEW d \in Docs,
           status[d].state \in Final, status'[d] # status[d]
    PROVE  status'[d].task # status[d].task \/ LateWrite(d)
<1> DEFINE t == status[d].task
<1>1. TypeOK /\ Resting(t) /\ t \in published /\ t # NoTask
  <2>1. status[d] \in Given
    BY DEF Given
  <2> QED BY <2>1, FinalIsPublished DEF IInv, CopyInv, FinalInv
<1>2. ASSUME NEW u \in Tasks, NEW st, Patch(u, st), u # t PROVE status'[d].task # t
  <2>1. status'[d] \in {status[d], [state |-> st, task |-> u]}
    BY <1>1, <1>2 DEF Patch, TypeOK
  <2> QED BY <1>2, <2>1
<1>3. ASSUME NEW u \in Tasks, Gate(u) PROVE status'[d].task # t
  <2>1. gate[u] = "new" /\ Patch(u, "queued")
    BY <1>3 DEF Gate, GatePatch, GatePublish, GatePublishVanishes, GatePublishRaises
  <2>2. u # t
    BY <1>1, <2>1 DEF PublishedInv
  <2> QED BY <1>2, <2>1, <2>2
<1>4. ASSUME NEW s \in Slots, Handler(s) PROVE status'[d].task # t
  <2>1. held[s].task \in Tasks
    BY <1>1, <1>4, HandlerSlot
  <2>2. /\ stage[s] \in {"started", "worked", "failing"}
        /\ \E st : Patch(held[s].task, st)
    BY <1>4 DEF Handler, Start, DropUndecodable, RaiseUnknown, PatchProcessing, Succeed, Fail,
       PatchDone, PatchFailure, Republish, RepublishRaises, Ack, Release, Advance
  <2>3. held[s].task # t
    BY <1>1, <2>2 DEF Resting
  <2> QED BY <1>2, <2>1, <2>2, <2>3
<1>5. ASSUME NEW e \in Docs, RowRewritten(e) PROVE status'[d].task # t
  BY <1>1, <1>5 DEF RowRewritten, TypeOK, NoStatus
<1>6. ASSUME NEW c \in Calls, PatchLands(c) PROVE LateWrite(d)
  BY <1>1, <1>6 DEF PatchLands, TypeOK, LateWrite
<1>7. ~(UNCHANGED status)
  OBVIOUS
<1> QED
  BY <1>3, <1>4, <1>5, <1>6, <1>7 DEF Next, vars, Fetch, RetryExpires, ConnectionLost, WorkerCrash, Interrupt,
     Lose, WorkerStart

(* Until the first loss a final status stands, but for a late patch: the   *)
(* gate and the handlers write no more of a task that is settled           *)
(* (worker.py, _process_message).                                          *)
THEOREM FinalStands == Spec => FinalStatusStands
<1>1. IInv /\ PublishedInv /\ CopyInv /\ [Next]_vars =>
        [losses' = 0 =>
           \A d \in Docs :
              status[d].state \in {"done", "failed"} /\ status'[d] # status[d]
                 => \/ status'[d].task # status[d].task
                    \/ \E c \in Calls : late[c] = status'[d] /\ late'[c] = NoStatus]_vars
  <2> SUFFICES ASSUME IInv, PublishedInv, CopyInv, [Next]_vars, losses' = 0, NEW d \in Docs,
                      status[d].state \in Final, status'[d] # status[d]
               PROVE  status'[d].task # status[d].task \/ LateWrite(d)
    BY DEF Final, LateWrite
  <2>1. losses = 0
    BY NextLosses DEF IInv
  <2> QED BY <2>1, FinalStep
<1> QED BY <1>1, InvAlways, PublishedAlways, CopyAlways, PTL DEF Spec, FinalStatusStands

=============================================================================
