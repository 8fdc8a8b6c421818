----------------------------- MODULE GateProofs -----------------------------
(***************************************************************************)
(* What delete_all's answer says, for any documents, pages, numbers of     *)
(* documents at a time and failing calls, and whatever runs beside it; and *)
(* what comes with the answer to a question, for any lists that searches   *)
(* find, any sizes of texts and all settings.                              *)
(***************************************************************************)
EXTENDS RankingProofs, Chat, DeleteAll

USE DEF fixed

-----------------------------------------------------------------------------
(* DeleteAll.                                                              *)

-----------------------------------------------------------------------------
(* The inductive invariant.                                                *)

(* Tasks of a page there are only while it is being deleted; the single    *)
(* delete has a task, which does nothing before it comes.                  *)
TasksInv ==
    /\ Alone \in DOMAIN tasks
    /\ tasks[Alone].doc = NoDoc => tasks[Alone].at = "end"
    /\ pc # "deleting" => DOMAIN tasks = {Alone}
    /\ pc # "answered" => batches <= MaxBatches

(* What was stored and refreshed when the request came, and is still       *)
(* indexed, can be seen by the deletion of its chunks.                     *)
VisInv == (Start \cap has) \ young \subseteq vis

(* A document that has lost its row but not its chunks, which were there   *)
(* at first: a task of the page is about to delete them, or they are young *)
(* and the deletion of its chunks may have passed over them.               *)
OrphanInv ==
    \A d \in (Start \ ToSet(rows)) \cap has :
        \/ Partial \/ tasks[Alone].doc = d \/ d \in young
        \/ \E t \in DOMAIN tasks : InPage(t) /\ tasks[t].doc = d /\ tasks[t].at = "index"

(* One document at a time, with nothing beside it and nothing reported.    *)
Quiet == ~Partial /\ ~blind /\ concurrency = 1 /\ tasks[Alone].doc = NoDoc

(* A search finds no deleted document.                                     *)
Fresh == Start \cap vis \subseteq has

(* There are rows that the page does not have.                             *)
Beyond == \E d \in ToSet(rows) : \A t \in DOMAIN tasks : InPage(t) => tasks[t].doc # d

(* The last task of the page refreshes.                                    *)
LastRefreshes ==
    \E t \in DOMAIN tasks :
        /\ InPage(t) /\ tasks[t].refresh
        /\ \A u \in DOMAIN tasks : InPage(u) => u <= t
        /\ tasks[t].at = "end" => Fresh

(* The tasks of a page run one after the other.                            *)
OneByOne ==
    \A t, u \in DOMAIN tasks :
        InPage(t) /\ InPage(u) /\ u < t /\ tasks[t].at # "wait" => tasks[u].at = "end"

(* Another page is to come, or the last delete refreshes.                  *)
FreshInv ==
    /\ pc = "select" => total <= Len(rows)
    /\ pc \in {"count", "select"} => Fresh \/ rows # <<>>
    /\ pc = "deleting" => Beyond \/ LastRefreshes
    /\ pc = "answered" => Fresh

QuietInv == Quiet => FreshInv /\ OneByOne

IInv == TypeOK /\ TasksInv /\ CleanIsGone /\ VisInv /\ OrphanInv /\ QuietInv

-----------------------------------------------------------------------------
(* The rows.                                                               *)

(* What is left of a sequence without the element in one of its places.    *)
LEMMA RemoveAtFacts ==
    ASSUME NEW S, NEW s \in Seq(S), NEW p \in DOMAIN s
    PROVE  /\ RemoveAt(s, p) \in Seq(S)
           /\ Len(RemoveAt(s, p)) = Len(s) - 1
           /\ \A i \in 1..Len(s) - 1 : RemoveAt(s, p)[i] = IF i < p THEN s[i] ELSE s[i + 1]
<1> DEFINE a == SubSeq(s, 1, p - 1)
           b == SubSeq(s, p + 1, Len(s))
<1>1. a \in Seq(S) /\ Len(a) = p - 1 /\ \A i \in 1..p - 1 : a[i] = s[i]
  BY SubSeqProperties
<1>2. b \in Seq(S) /\ Len(b) = Len(s) - p /\ \A i \in 1..Len(s) - p : b[i] = s[p + i]
  BY SubSeqProperties
<1>3. a \o b = RemoveAt(s, p)
  BY DEF RemoveAt
<1> HIDE DEF a, b
<1>4. a \o b \in Seq(S) /\ Len(a \o b) = Len(a) + Len(b)
  BY <1>1, <1>2, ConcatProperties
<1>5. \A i \in 1..Len(a) + Len(b) : (a \o b)[i] = IF i <= Len(a) THEN a[i] ELSE b[i - Len(a)]
  BY <1>1, <1>2, ConcatProperties
<1>6. Len(a) + Len(b) = Len(s) - 1
  BY <1>1, <1>2
<1>7. ASSUME NEW i \in 1..Len(s) - 1 PROVE (a \o b)[i] = IF i < p THEN s[i] ELSE s[i + 1]
  <2>1. CASE i < p
    BY <1>1, <1>5, <1>6, <2>1
  <2>2. CASE ~(i < p)
    <3>1. (a \o b)[i] = b[i - (p - 1)]
      BY <1>1, <1>5, <1>6, <2>2
    <3>2. i - (p - 1) \in 1..Len(s) - p /\ p + (i - (p - 1)) = i + 1
      BY <2>2
    <3> QED BY <1>2, <2>2, <3>1, <3>2
  <2> QED BY <2>1, <2>2
<1> QED BY <1>3, <1>4, <1>6, <1>7

(* Of rows that are there once, the row of d goes and no other.            *)
LEMMA WithoutFacts ==
    ASSUME NEW d, rows \in Seq(Docs), IsInjective(rows)
    PROVE  /\ Without(d) \in Seq(Docs) /\ IsInjective(Without(d))
           /\ ToSet(Without(d)) = ToSet(rows) \ {d}
<1>1. CASE d \notin ToSet(rows)
  <2>1. Without(d) = rows
    BY <1>1 DEF Without, RemoveFirst, ToSet
  <2> QED BY <1>1, <2>1
<1>2. CASE d \in ToSet(rows)
  <2>1. PICK p \in DOMAIN rows : rows[p] = d
    BY <1>2 DEF ToSet
  <2> DEFINE I == {i \in 1..Len(rows) : rows[i] = d}
             s == RemoveAt(rows, p)
  <2>2. I = {p}
    BY <2>1 DEF IsInjective
  <2>3. Min(I) = p
    BY <2>2 DEF Min
  <2>4. Without(d) = s
    BY <2>1, <2>2, <2>3 DEF Without, RemoveFirst, SelectInSeq
  <2>5. /\ s \in Seq(Docs) /\ Len(s) = Len(rows) - 1
        /\ \A i \in 1..Len(rows) - 1 : s[i] = IF i < p THEN rows[i] ELSE rows[i + 1]
    BY RemoveAtFacts
  <2> HIDE DEF I, s
  <2>6. IsInjective(s)
    <3> SUFFICES ASSUME NEW i \in DOMAIN s, NEW j \in DOMAIN s, s[i] = s[j] PROVE i = j
      BY DEF IsInjective
    <3> DEFINE at(k) == IF k < p THEN k ELSE k + 1
    <3>1. at(i) \in DOMAIN rows /\ at(j) \in DOMAIN rows /\ s[i] = rows[at(i)] /\ s[j] = rows[at(j)]
      BY <2>5
    <3>2. at(i) = at(j)
      BY <3>1 DEF IsInjective
    <3> QED BY <2>5, <3>2
  <2>7. ASSUME NEW e \in ToSet(s) PROVE e \in ToSet(rows) /\ e # d
    <3>1. PICK i \in DOMAIN s : s[i] = e
      BY DEF ToSet
    <3> DEFINE k == IF i < p THEN i ELSE i + 1
    <3>2. k \in DOMAIN rows /\ k # p /\ rows[k] = e
      BY <2>5, <3>1
    <3> QED BY <2>1, <3>2 DEF IsInjective, ToSet
  <2>8. ASSUME NEW e \in ToSet(rows), e # d PROVE e \in ToSet(s)
    <3>1. PICK i \in DOMAIN rows : rows[i] = e
      BY DEF ToSet
    <3> DEFINE k == IF i < p THEN i ELSE i - 1
    <3>2. k \in DOMAIN s /\ s[k] = e
      BY <2>1, <2>5, <2>8, <3>1
    <3> QED BY <3>2 DEF ToSet
  <2> QED BY <2>4, <2>5, <2>6, <2>7, <2>8
<1> QED BY <1>1, <1>2

(* The first page are the first rows, as many as a batch has.              *)
LEMMA PageFacts ==
    ASSUME rows \in Seq(Docs)
    PROVE  LET page == Page(0, BatchSize)
           IN  /\ page \in Seq(Docs)
               /\ Len(page) <= BatchSize /\ Len(page) <= Len(rows)
               /\ Len(page) = BatchSize \/ Len(page) = Len(rows)
               /\ \A i \in 1..Len(page) : page[i] = rows[i]
<1> DEFINE n == Least(BatchSize, Len(rows))
<1>1. n \in Nat /\ n <= BatchSize /\ n <= Len(rows) /\ (n = BatchSize \/ n = Len(rows))
  BY DeleteAllAssumption DEF Least
<1>2. Page(0, BatchSize) = SubSeq(rows, 1, n)
  <2>1. 0 + BatchSize = BatchSize /\ 0 + 1 = 1
    BY DeleteAllAssumption
  <2> QED BY <2>1, Zenon DEF Page
<1> HIDE DEF n
<1>3. \A i \in 1..n : rows[i] \in Docs
  BY <1>1
<1>4. /\ SubSeq(rows, 1, n) \in Seq(Docs) /\ Len(SubSeq(rows, 1, n)) = n
      /\ \A i \in 1..n : SubSeq(rows, 1, n)[i] = rows[i]
  BY <1>1, <1>3, SubSeqProperties
<1> QED BY <1>1, <1>2, <1>4

-----------------------------------------------------------------------------
(* The tasks.                                                              *)

TaskType == [doc : Docs \cup {NoDoc}, refresh : BOOLEAN, at : Stages]

(* A task goes on to its next stage.                                       *)
LEMMA MoveFacts ==
    ASSUME TypeOK, NEW t \in DOMAIN tasks, NEW a \in Stages,
           tasks' = [tasks EXCEPT ![t].at = a]
    PROVE  /\ DOMAIN tasks' = DOMAIN tasks
           /\ \A u \in DOMAIN tasks : u # t => tasks'[u] = tasks[u]
           /\ \A u \in DOMAIN tasks : tasks'[u].doc = tasks[u].doc /\ tasks'[u].refresh = tasks[u].refresh
           /\ tasks'[t].at = a
           /\ \A u \in DOMAIN tasks : tasks'[u] \in TaskType
BY DEF TypeOK, TaskType

LEMMA Bounds ==
    /\ BatchSize \in Nat /\ BatchSize >= 1 /\ MaxBatches \in Nat /\ MaxBatches >= 1 /\ MaxFaults \in Nat
    /\ Alone \notin 1..BatchSize
BY DeleteAllAssumption

LEMMA TasksFinite == ASSUME TypeOK PROVE IsFiniteSet(Running)
<1>1. Running \subseteq 1..BatchSize
  BY DEF TypeOK, Running, InPage
<1>2. IsFiniteSet(1..BatchSize)
  BY Bounds, FS_Interval
<1> QED BY <1>1, <1>2, FS_Subset

LEMMA StartFacts == IsInjective(Stored) /\ Stored \in Seq(Docs) /\ Start \in SUBSET Docs
BY DeleteAllAssumption DEF Start, ToSet

LEMMA InitInv == Init => IInv
<1> SUFFICES ASSUME Init PROVE IInv OBVIOUS
<1>1. TypeOK
  <2>1. /\ rows \in Seq(Docs) /\ IsInjective(rows) /\ has \subseteq Docs /\ vis \subseteq Docs
        /\ stuck \subseteq Docs /\ young \subseteq Start \cap Young
    BY StartFacts, DeleteAllAssumption DEF Init
  <2>2. /\ pc \in {"count", "select", "deleting", "answered"}
        /\ degraded \subseteq Reports /\ blind \in BOOLEAN
    BY DEF Init
  <2>4. total \in Nat /\ batches \in 0..MaxBatches + 1 /\ faults \in 0..MaxFaults
    BY Bounds DEF Init
  <2>5. concurrency \in Nat \ {0}
    BY DEF Init
  <2>3. DOMAIN tasks = {Alone} /\ tasks[Alone] \in TaskType
    BY DEF Init, Task, TaskType, Stages
  <2> QED BY <2>1, <2>2, <2>3, <2>4, <2>5 DEF TypeOK, TaskType
<1>2. TasksInv
  BY DeleteAllAssumption DEF Init, TasksInv, Task
<1>3. CleanIsGone /\ VisInv /\ OrphanInv
  BY DEF Init, CleanIsGone, VisInv, OrphanInv, Start
<1>4. QuietInv
  BY DEF Init, QuietInv, FreshInv, OneByOne, Fresh, InPage
<1> QED BY <1>1, <1>2, <1>3, <1>4 DEF IInv

-----------------------------------------------------------------------------
(* The page.                                                               *)

(* A new page is asked for, or one too many.                               *)
LEMMA CountPageInv == ASSUME IInv, CountPage PROVE IInv'
<1> USE DEF IInv
<1>1. /\ pc = "count" /\ batches \in Nat /\ batches <= MaxBatches /\ batches' = batches + 1
      /\ UNCHANGED <<rows, has, vis, fixed, tasks, blind, faults>>
  BY DEF CountPage, TypeOK, TasksInv
<1>2. \/ /\ batches' > MaxBatches /\ pc' = "answered" /\ UNCHANGED total
         /\ degraded' = degraded \cup {"max_batches_reached"}
      \/ batches' <= MaxBatches /\ pc' = "select" /\ total' = Len(rows) /\ UNCHANGED degraded
  BY <1>1, Bounds DEF CountPage, Answer
<1>3. /\ batches' \in 0..MaxBatches + 1 /\ pc' \in {"count", "select", "deleting", "answered"}
      /\ total' \in Nat /\ degraded' \subseteq Reports
  <2>1. batches' \in 0..MaxBatches + 1
    BY <1>1, Bounds
  <2>2. total' \in Nat
    BY <1>2 DEF TypeOK
  <2>3. degraded' \subseteq Reports
    BY <1>2 DEF TypeOK, Reports
  <2> QED BY <1>2, <2>1, <2>2, <2>3
<1>4. TypeOK'
  BY <1>1, <1>3 DEF TypeOK
<1>5. TasksInv'
  BY <1>1, <1>2 DEF TasksInv
<1>6. VisInv' /\ CleanIsGone'
  BY <1>1, <1>2 DEF VisInv, CleanIsGone, Partial
<1>7. OrphanInv'
  BY <1>1, <1>2 DEF OrphanInv, Partial, InPage
<1>8. QuietInv'
  <2>1. CASE pc' = "answered"
    BY <1>2, <2>1 DEF QuietInv, Quiet, Partial
  <2>2. CASE pc' = "select"
    <3>1. Len(rows) \in Nat /\ Quiet = Quiet'
      BY <1>1, <1>2, <2>2 DEF TypeOK, Quiet, Partial
    <3> QED BY <1>1, <1>2, <2>2, <3>1 DEF QuietInv, FreshInv, OneByOne, Fresh, InPage
  <2> QED BY <1>2, <2>1, <2>2
<1> QED BY <1>4, <1>5, <1>6, <1>7, <1>8

(* A page that is not empty gets a task for each of its documents.         *)
LEMMA SelectPageInv == ASSUME IInv, SelectPage PROVE IInv'
<1> USE DEF IInv
<1> DEFINE page == Page(0, BatchSize)
<1>1. /\ pc = "select"
      /\ UNCHANGED <<rows, has, vis, total, batches, fixed, blind, faults>>
      /\ \/ page = <<>> /\ Answer({}) /\ UNCHANGED tasks
         \/ /\ page # <<>> /\ pc' = "deleting" /\ UNCHANGED degraded
            /\ tasks' = [t \in {Alone} \cup DOMAIN page |->
                           IF t = Alone THEN tasks[Alone] ELSE PageTasks(page)[t]]
  BY Zenon DEF SelectPage, ReadPage
<1>2. /\ page \in Seq(Docs) /\ Len(page) \in Nat
      /\ Len(page) <= BatchSize /\ Len(page) <= Len(rows)
      /\ Len(page) = BatchSize \/ Len(page) = Len(rows)
      /\ \A i \in 1..Len(page) : page[i] = rows[i]
      /\ BatchSize \in Nat /\ BatchSize >= 1
  BY PageFacts, DeleteAllAssumption DEF TypeOK
<1> DEFINE n == Len(page)
           known == IF total = 0 THEN n ELSE total
<1>3. PageTasks(page) = [i \in DOMAIN page |-> Task(page[i], known <= n /\ i = n, "wait")]
  BY DEF PageTasks
<1> HIDE DEF page
<1>4. CASE page = <<>>
  <2>1. rows = <<>>
    BY <1>2, <1>4 DEF TypeOK
  <2>2. /\ pc' = "answered" /\ UNCHANGED <<tasks, degraded>>
    BY <1>1, <1>4 DEF Answer
  <2>3. TypeOK' /\ TasksInv' /\ VisInv'
    BY <1>1, <2>2 DEF TypeOK, TasksInv, VisInv
  <2>4. CleanIsGone'
    BY <1>1, <2>1 DEF CleanIsGone, ToSet
  <2>5. OrphanInv'
    BY <1>1, <2>2 DEF OrphanInv, Partial, InPage
  <2>6. QuietInv'
    BY <1>1, <2>1, <2>2 DEF QuietInv, Quiet, FreshInv, OneByOne, Fresh, Partial, InPage
  <2> QED BY <2>3, <2>4, <2>5, <2>6
<1>5. CASE page # <<>>
  <2>1. /\ pc' = "deleting" /\ UNCHANGED degraded
        /\ tasks' = [t \in {Alone} \cup DOMAIN page |->
                       IF t = Alone THEN tasks[Alone] ELSE PageTasks(page)[t]]
    BY <1>1, <1>5
  <2>2. /\ DOMAIN tasks' = {Alone} \cup 1..n /\ Alone \notin 1..n /\ tasks'[Alone] = tasks[Alone]
        /\ \A i \in 1..n : tasks'[i] = Task(page[i], known <= n /\ i = n, "wait")
        /\ n \in 1..BatchSize
    BY <1>2, <1>3, <1>5, <2>1, DeleteAllAssumption
  <2>3. \A i \in 1..n : /\ tasks'[i].doc = page[i] /\ tasks'[i].at = "wait"
                        /\ tasks'[i].refresh = (known <= n /\ i = n)
                        /\ tasks'[i] \in TaskType
    <3> SUFFICES ASSUME NEW i \in 1..n
                 PROVE  /\ tasks'[i].doc = page[i] /\ tasks'[i].at = "wait"
                        /\ tasks'[i].refresh = (known <= n /\ i = n)
                        /\ tasks'[i] \in TaskType
      OBVIOUS
    <3>1. page[i] \in Docs
      BY <1>2
    <3> DEFINE last == known <= n /\ i = n
    <3>2. tasks'[i] = Task(page[i], last, "wait") /\ last \in BOOLEAN
      BY <2>2
    <3> HIDE DEF last
    <3>3. /\ tasks'[i].doc = page[i] /\ tasks'[i].at = "wait" /\ tasks'[i].refresh = last
          /\ tasks'[i] \in TaskType
      BY <3>1, <3>2 DEF Task, TaskType, Stages
    <3> QED BY <3>3 DEF last
  <2>4. TypeOK'
    <3>1. /\ \A t \in DOMAIN tasks' : t = Alone \/ t \in 1..BatchSize
          /\ \A t \in DOMAIN tasks' : tasks'[t] \in TaskType
      BY <1>2, <2>2, <2>3 DEF TypeOK, TasksInv, TaskType
    <3> QED BY <1>1, <2>1, <3>1 DEF TypeOK, TaskType
  <2>5. TasksInv' /\ VisInv' /\ CleanIsGone'
    BY <1>1, <2>1, <2>2 DEF TasksInv, VisInv, CleanIsGone
  <2>6. OrphanInv'
    BY <1>1, <2>1, <2>2 DEF TasksInv, OrphanInv, Partial, InPage
  <2>7. QuietInv'
    <3> SUFFICES ASSUME Quiet' PROVE FreshInv' /\ OneByOne'
      BY DEF QuietInv
    <3>1. total \in Nat /\ total <= Len(rows)
      BY <1>1, <2>1, <2>2 DEF TypeOK, Quiet, QuietInv, FreshInv, Partial
    <3>2. OneByOne'
      BY <2>2, <2>3 DEF OneByOne, InPage
    <3>3. CASE n < Len(rows)
      <4>1. n + 1 \in DOMAIN rows
        BY <1>2, <3>3 DEF TypeOK
      <4>2. \A i \in 1..n : page[i] # rows[n + 1]
        BY <1>2, <4>1 DEF TypeOK, IsInjective
      <4>3. Beyond'
        <5>1. rows[n + 1] \in ToSet(rows)'
          BY <1>1, <4>1 DEF ToSet
        <5>2. \A t \in DOMAIN tasks' : InPage(t) => tasks'[t].doc # rows[n + 1]
          BY <2>2, <2>3, <4>2 DEF InPage
        <5> QED BY <5>1, <5>2 DEF Beyond, InPage
      <4> QED BY <2>1, <3>2, <4>3 DEF FreshInv
    <3>4. CASE n = Len(rows)
      <4>1. known <= n
        BY <1>2, <3>1, <3>4
      <4>2. n \in DOMAIN tasks' /\ InPage(n) /\ tasks'[n].refresh /\ tasks'[n].at # "end"
        <5>1. n \in 1..n /\ n # Alone
          BY <2>2
        <5> QED BY <2>2, <2>3, <4>1, <5>1 DEF InPage
      <4>3. \A u \in DOMAIN tasks' : InPage(u) => u <= n
        BY <2>2 DEF InPage
      <4>4. LastRefreshes'
        BY <4>2, <4>3 DEF LastRefreshes, InPage
      <4> QED BY <2>1, <3>2, <4>4 DEF FreshInv
    <3> QED BY <1>2, <3>3, <3>4 DEF TypeOK
  <2> QED BY <2>4, <2>5, <2>6, <2>7
<1> QED BY <1>4, <1>5

(* A search that failed ends the request.                                  *)
LEMMA PageEndsInv == ASSUME IInv, PageUnsearched \/ PageFails PROVE IInv'
<1> USE DEF IInv
<1>1. /\ pc = "select" /\ pc' = "answered" /\ Fault
      /\ degraded' = degraded \/ degraded' = degraded \cup {"delete_all_failed"}
      /\ UNCHANGED <<rows, has, vis, total, batches, fixed, tasks>>
      /\ blind' \in BOOLEAN /\ (blind' \/ degraded' # {})
  BY DEF PageUnsearched, PageFails, Answer, TypeOK
<1>2. TypeOK'
  <2>1. faults' \in 0..MaxFaults
    BY <1>1, Bounds DEF TypeOK, Fault
  <2>2. degraded' \subseteq Reports
    BY <1>1 DEF TypeOK, Reports
  <2> QED BY <1>1, <2>1, <2>2 DEF TypeOK
<1>3. TasksInv' /\ VisInv' /\ CleanIsGone'
  BY <1>1 DEF TasksInv, VisInv, CleanIsGone, Partial
<1>4. OrphanInv'
  BY <1>1 DEF OrphanInv, Partial, InPage
<1>5. QuietInv'
  BY <1>1 DEF QuietInv, Quiet, Partial
<1> QED BY <1>2, <1>3, <1>4, <1>5

(* The page is done: all its documents are gone, or reported.              *)
LEMMA GatherInv == ASSUME IInv, Gather PROVE IInv'
<1> USE DEF IInv
<1>1. /\ pc = "deleting" /\ pc' = "count"
      /\ \A t \in DOMAIN tasks : InPage(t) => tasks[t].at = "end"
      /\ DOMAIN tasks' = {Alone} /\ tasks'[Alone] = tasks[Alone]
      /\ UNCHANGED <<rows, has, vis, total, batches, fixed, degraded, blind, faults>>
  BY DEF Gather
<1>2. TypeOK' /\ TasksInv' /\ VisInv' /\ CleanIsGone'
  BY <1>1 DEF TypeOK, TasksInv, VisInv, CleanIsGone
<1>3. OrphanInv'
  BY <1>1 DEF OrphanInv, Partial, InPage
<1>4. Quiet' => Fresh \/ rows # <<>>
  BY <1>1 DEF QuietInv, Quiet, FreshInv, Partial, Beyond, LastRefreshes, ToSet, TypeOK
<1>5. QuietInv'
  BY <1>1, <1>4 DEF QuietInv, FreshInv, OneByOne, Fresh, InPage
<1> QED BY <1>2, <1>3, <1>5

-----------------------------------------------------------------------------
(* One document.                                                           *)

(* A task that is not at its end has its document; one of a page is there  *)
(* only while the page is being deleted.                                   *)
LEMMA TaskFacts ==
    ASSUME IInv, NEW t \in DOMAIN tasks
    PROVE  /\ tasks[t] \in TaskType
           /\ InPage(t) => pc = "deleting" /\ t \in 1..BatchSize
           /\ ~InPage(t) /\ tasks[t].at # "end" => ~Quiet
BY DEF IInv, TypeOK, TasksInv, TaskType, InPage, Quiet

(* Of the tasks of a page, one that has entered goes on in its turn.       *)
LEMMA KeepsOrder ==
    ASSUME IInv, OneByOne, NEW t \in DOMAIN tasks, NEW a \in Stages \ {"wait"},
           tasks' = [tasks EXCEPT ![t].at = a], tasks[t].at \notin {"wait", "end"}
    PROVE  OneByOne'
BY MoveFacts DEF IInv, OneByOne, InPage

(* A task of the page that does not come to its end leaves those after it  *)
(* what they have to do.                                                   *)
LEMMA StaysFresh ==
    ASSUME IInv, NEW t \in DOMAIN tasks, NEW a \in Stages \ {"wait", "end"},
           tasks' = [tasks EXCEPT ![t].at = a], ToSet(rows) \ {tasks[t].doc} \subseteq ToSet(rows)',
           UNCHANGED <<has, vis, pc, total, batches, fixed, blind>>,
           degraded \subseteq degraded', pc = "deleting", Quiet => OneByOne', InPage(t)
    PROVE  QuietInv'
<1> USE DEF IInv
<1>1. /\ DOMAIN tasks' = DOMAIN tasks /\ Alone \in DOMAIN tasks
      /\ \A u \in DOMAIN tasks : u # t => tasks'[u] = tasks[u]
      /\ \A u \in DOMAIN tasks : tasks'[u].doc = tasks[u].doc /\ tasks'[u].refresh = tasks[u].refresh
      /\ tasks'[t].at = a
  BY MoveFacts DEF TasksInv
<1>2. Quiet' => Quiet
  BY <1>1 DEF Quiet, Partial
<1>3. Beyond => Beyond'
  BY <1>1 DEF Beyond, InPage
<1>4. LastRefreshes => LastRefreshes'
  BY <1>1 DEF LastRefreshes, Fresh, InPage
<1> QED BY <1>2, <1>3, <1>4 DEF QuietInv, FreshInv

(* The semaphore lets a task in.                                           *)
LEMMA EnterInv == ASSUME IInv, NEW t \in DOMAIN tasks, Enter(t) PROVE IInv'
<1> USE DEF IInv
<1>1. /\ InPage(t) /\ tasks[t].at = "wait" /\ Cardinality(Running) < concurrency
      /\ \A u \in DOMAIN tasks : InPage(u) /\ tasks[u].at = "wait" => t <= u
      /\ tasks' = [tasks EXCEPT ![t].at = "storage"] /\ "storage" \in Stages \ {"wait", "end"}
      /\ UNCHANGED <<rows, has, vis, pc, total, batches, fixed, degraded, blind, faults>>
  BY DEF Enter, Stages
<1>2. /\ DOMAIN tasks' = DOMAIN tasks /\ Alone \in DOMAIN tasks /\ t # Alone
      /\ \A u \in DOMAIN tasks : u # t => tasks'[u] = tasks[u]
      /\ \A u \in DOMAIN tasks : tasks'[u].doc = tasks[u].doc
      /\ tasks'[t].at = "storage"
      /\ \A u \in DOMAIN tasks : tasks'[u] \in TaskType
  BY <1>1, MoveFacts DEF TasksInv, InPage
<1>3. TypeOK'
  BY <1>1, <1>2 DEF TypeOK, TaskType
<1>4. TasksInv' /\ VisInv' /\ CleanIsGone'
  BY <1>1, <1>2 DEF TasksInv, VisInv, CleanIsGone, Partial
<1>5. OrphanInv'
  BY <1>1, <1>2 DEF OrphanInv, Partial, InPage
<1>6. Quiet => OneByOne'
  <2> SUFFICES ASSUME Quiet PROVE OneByOne'
    OBVIOUS
  <2>1. Running = {}
    <3>1. Cardinality(Running) \in Nat
      BY TasksFinite, FS_CardinalityType
    <3>2. Cardinality(Running) = 0
      BY <1>1, <3>1 DEF Quiet
    <3> QED BY <3>2, TasksFinite, FS_EmptySet
  <2>2. ASSUME NEW u \in DOMAIN tasks, InPage(u), u < t PROVE tasks[u].at = "end"
    <3>1. u \in Nat /\ t \in Nat
      BY <1>1, <2>2, TaskFacts
    <3>2. tasks[u].at \in Stages \ {"wait"}
      BY <1>1, <2>2, <3>1, TaskFacts DEF TaskType
    <3> QED BY <2>1, <2>2, <3>2 DEF Running, Stages
  <2>3. OneByOne
    BY DEF QuietInv
  <2> QED BY <1>1, <1>2, <2>2, <2>3 DEF OneByOne, InPage
<1>7. QuietInv'
  BY <1>1, <1>6, TaskFacts, StaysFresh
<1> QED BY <1>3, <1>4, <1>5, <1>7

(* The row goes, or does not; the task comes to the chunks.                *)
LEMMA StorageDeleteInv == ASSUME IInv, NEW t \in DOMAIN tasks, StorageDelete(t) PROVE IInv'
<1> USE DEF IInv
<1> DEFINE d == tasks[t].doc
<1>1. /\ tasks[t].at = "storage" /\ "index" \in Stages \ {"wait", "end"}
      /\ tasks' = [tasks EXCEPT ![t].at = "index"]
      /\ UNCHANGED <<has, vis, pc, total, batches, fixed, blind>>
      /\ rows' = rows \/ rows' = Without(d)
      /\ degraded' \in {degraded, degraded \cup {"storage_delete_failed"}}
      /\ Fault \/ UNCHANGED faults
  BY DEF StorageDelete, Stages
<1>2. /\ rows' \in Seq(Docs) /\ IsInjective(rows')
      /\ ToSet(rows)' \subseteq ToSet(rows) /\ ToSet(rows) \ {d} \subseteq ToSet(rows)'
  <2>1. CASE rows' = rows
    BY <2>1 DEF TypeOK
  <2>2. CASE rows' = Without(d)
    BY <2>2, WithoutFacts DEF TypeOK
  <2> QED BY <1>1, <2>1, <2>2
<1>3. /\ DOMAIN tasks' = DOMAIN tasks /\ Alone \in DOMAIN tasks
      /\ \A u \in DOMAIN tasks : u # t => tasks'[u] = tasks[u]
      /\ \A u \in DOMAIN tasks : tasks'[u].doc = tasks[u].doc
      /\ tasks'[t].at = "index"
      /\ \A u \in DOMAIN tasks : tasks'[u] \in TaskType
  BY <1>1, MoveFacts DEF TasksInv
<1>4. TypeOK'
  <2>1. faults' \in 0..MaxFaults
    BY <1>1, Bounds DEF TypeOK, Fault
  <2>2. degraded' \subseteq Reports
    BY <1>1 DEF TypeOK, Reports
  <2> QED BY <1>1, <1>2, <1>3, <2>1, <2>2 DEF TypeOK, TaskType
<1>5. TasksInv' /\ VisInv'
  BY <1>1, <1>3 DEF TasksInv, VisInv
<1>6. CleanIsGone'
  BY <1>1, <1>2 DEF CleanIsGone, Partial
<1>7. OrphanInv'
  <2> SUFFICES ASSUME NEW e \in (Start \ ToSet(rows)') \cap has
               PROVE  \/ Partial' \/ tasks'[Alone].doc = e \/ e \in young'
                      \/ \E u \in DOMAIN tasks' : InPage(u) /\ tasks'[u].doc = e /\ tasks'[u].at = "index"
    BY <1>1 DEF OrphanInv, InPage
  <2>1. CASE e \in ToSet(rows)
    BY <1>2, <1>3, <2>1 DEF InPage
  <2>2. CASE e \notin ToSet(rows)
    BY <1>1, <1>3, <2>2 DEF OrphanInv, Partial, InPage
  <2> QED BY <2>1, <2>2
<1>8. QuietInv'
  <2>1. CASE InPage(t)
    <3>1. Quiet => OneByOne'
      BY <1>1, KeepsOrder DEF QuietInv
    <3> QED BY <1>1, <1>2, <2>1, <3>1, TaskFacts, StaysFresh
  <2>2. CASE ~InPage(t)
    <3>1. ~Quiet
      BY <1>1, <2>2, TaskFacts
    <3> QED BY <1>1, <1>3, <3>1 DEF QuietInv, Quiet, Partial
  <2> QED BY <2>1, <2>2
<1> QED BY <1>4, <1>5, <1>6, <1>7, <1>8

(* The chunks go, or a failure is reported.                                *)
LEMMA IndexDeleteInv == ASSUME IInv, NEW t \in DOMAIN tasks, IndexDelete(t) PROVE IInv'
<1> USE DEF IInv
<1> DEFINE d == tasks[t].doc
           left == has \ ({d} \cap vis)
<1>1. /\ tasks[t].at = "index" /\ "end" \in Stages \ {"wait"}
      /\ tasks' = [tasks EXCEPT ![t].at = "end"]
      /\ UNCHANGED <<rows, pc, total, batches, fixed, blind>>
      /\ degraded \subseteq degraded' /\ degraded' \subseteq degraded \cup Reports
      /\ \/ /\ has' = left /\ vis' = (IF tasks[t].refresh THEN left ELSE vis)
            /\ UNCHANGED faults
         \/ /\ Fault /\ has' \in {has, left} /\ UNCHANGED vis
            /\ InPage(t) => degraded' # {}
  BY DEF IndexDelete, Stages, Reports
<1>2. has' \subseteq has /\ vis' \subseteq vis \cup has /\ VisInv'
  BY <1>1 DEF VisInv
<1>3. /\ DOMAIN tasks' = DOMAIN tasks /\ Alone \in DOMAIN tasks
      /\ \A u \in DOMAIN tasks : u # t => tasks'[u] = tasks[u]
      /\ \A u \in DOMAIN tasks : tasks'[u].doc = tasks[u].doc /\ tasks'[u].refresh = tasks[u].refresh
      /\ tasks'[t].at = "end"
      /\ \A u \in DOMAIN tasks : tasks'[u] \in TaskType
  BY <1>1, MoveFacts DEF TasksInv
<1>4. TypeOK'
  <2>1. faults' \in 0..MaxFaults
    BY <1>1, Bounds DEF TypeOK, Fault
  <2>2. degraded' \subseteq Reports /\ has' \subseteq Docs /\ vis' \subseteq Docs
    BY <1>1, <1>2 DEF TypeOK
  <2> QED BY <1>1, <1>3, <2>1, <2>2 DEF TypeOK, TaskType
<1>5. TasksInv' /\ CleanIsGone'
  BY <1>1, <1>3 DEF TasksInv, CleanIsGone, Partial
<1>6. OrphanInv'
  <2> SUFFICES ASSUME NEW e \in (Start \ ToSet(rows)) \cap has'
               PROVE  \/ Partial' \/ tasks'[Alone].doc = e \/ e \in young'
                      \/ \E u \in DOMAIN tasks' : InPage(u) /\ tasks'[u].doc = e /\ tasks'[u].at = "index"
    BY <1>1 DEF OrphanInv, InPage
  <2>0. CASE e \in young
    BY <1>1, <2>0
  <2>1. e \notin young => e \in has /\ e \in vis
    BY <1>2, <1>1 DEF VisInv
  <2>2. CASE Partial \/ d # e
    BY <1>1, <1>2, <1>3, <2>2 DEF OrphanInv, Partial, InPage
  <2>3. CASE d = e
    BY <1>1, <1>3, <2>1, <2>3 DEF Partial, InPage
  <2> QED BY <2>0, <2>2, <2>3
<1>7. QuietInv'
  <2> SUFFICES ASSUME Quiet' PROVE FreshInv' /\ OneByOne'
    BY DEF QuietInv
  <2>1. Quiet /\ InPage(t) /\ pc = "deleting" /\ t \in Nat
    BY <1>1, <1>3, TaskFacts DEF Quiet, Partial
  <2>2. OneByOne /\ OneByOne'
    BY <1>1, <2>1, KeepsOrder DEF QuietInv
  <2>3. has' = left /\ vis' = (IF tasks[t].refresh THEN left ELSE vis)
    BY <1>1, <2>1 DEF Quiet, Partial
  <2>4. CASE Beyond
    <3>1. Beyond'
      BY <1>1, <1>3, <2>4 DEF Beyond, InPage
    <3> QED BY <1>1, <2>1, <2>2, <3>1 DEF FreshInv
  <2>5. CASE LastRefreshes
    <3>1. PICK l \in DOMAIN tasks :
             /\ InPage(l) /\ tasks[l].refresh
             /\ \A u \in DOMAIN tasks : InPage(u) => u <= l
      BY <2>5 DEF LastRefreshes
    <3>2. tasks'[l].at = "end" => Fresh'
      <4>1. CASE l = t
        BY <2>3, <3>1, <4>1 DEF Fresh
      <4>2. CASE l # t
        <5>1. l \in Nat /\ t <= l
          BY <2>1, <3>1, TaskFacts
        <5>2. tasks[l].at = "wait"
          BY <1>1, <2>1, <2>2, <3>1, <4>2, <5>1 DEF OneByOne
        <5> QED BY <1>3, <4>2, <5>2
      <4> QED BY <4>1, <4>2
    <3>3. LastRefreshes'
      BY <1>3, <3>1, <3>2 DEF LastRefreshes, InPage
    <3> QED BY <1>1, <2>1, <2>2, <3>3 DEF FreshInv
  <2> QED BY <2>1, <2>4, <2>5 DEF QuietInv, FreshInv
<1> QED BY <1>2, <1>4, <1>5, <1>6, <1>7

-----------------------------------------------------------------------------
(* What runs beside it.                                                    *)

LEMMA DeleteOneInv == ASSUME IInv, NEW d \in Docs, DeleteOne(d) PROVE IInv'
<1> USE DEF IInv
<1>1. /\ Alone \in DOMAIN tasks /\ DOMAIN tasks' = DOMAIN tasks
      /\ tasks[Alone].doc = NoDoc /\ d # NoDoc /\ tasks'[Alone].doc = d
      /\ tasks'[Alone] \in TaskType
      /\ \A u \in DOMAIN tasks : u # Alone => tasks'[u] = tasks[u]
      /\ UNCHANGED <<rows, has, vis, pc, total, batches, fixed, degraded, blind, faults>>
  BY DeleteAllAssumption DEF DeleteOne, TasksInv, Task, TaskType, Stages
<1>2. TypeOK'
  BY <1>1 DEF TypeOK, TaskType
<1>3. TasksInv' /\ VisInv' /\ CleanIsGone'
  BY <1>1 DEF TasksInv, VisInv, CleanIsGone, Partial
<1>4. OrphanInv'
  <2>1. NoDoc \notin Start
    BY StartFacts, DeleteAllAssumption
  <2> QED BY <1>1, <2>1 DEF OrphanInv, Partial, InPage
<1>5. QuietInv'
  BY <1>1 DEF QuietInv, Quiet
<1> QED BY <1>2, <1>3, <1>4, <1>5

LEMMA UploadInv == ASSUME IInv, NEW d \in Docs, Upload(d) PROVE IInv'
<1> USE DEF IInv
<1>1. /\ d \notin ToSet(rows) \cup has \cup Start /\ rows' = <<d>> \o rows /\ has' = has \cup {d}
      /\ UNCHANGED <<vis, pc, total, batches, fixed, tasks, degraded, blind, faults>>
  BY DEF Upload
<1>2. /\ rows' \in Seq(Docs) /\ Len(rows') = Len(rows) + 1 /\ Len(rows) \in Nat
      /\ rows'[1] = d /\ \A i \in 1..Len(rows) : rows'[i + 1] = rows[i]
  BY <1>1 DEF TypeOK
<1>3. \A i \in DOMAIN rows' : i = 1 \/ (i - 1 \in DOMAIN rows /\ rows'[i] = rows[i - 1])
  BY <1>2 DEF TypeOK
<1>4. ToSet(rows)' = ToSet(rows) \cup {d}
  <2>1. ASSUME NEW e \in ToSet(rows) PROVE e \in ToSet(rows')
    <3>1. PICK i \in DOMAIN rows : rows[i] = e
      BY DEF ToSet
    <3>2. i + 1 \in DOMAIN rows' /\ rows'[i + 1] = e
      BY <1>2, <3>1 DEF TypeOK
    <3> QED BY <3>2 DEF ToSet
  <2>2. d \in ToSet(rows')
    BY <1>2 DEF ToSet
  <2>3. ASSUME NEW e \in ToSet(rows'), e # d PROVE e \in ToSet(rows)
    BY <1>2, <1>3, <2>3 DEF ToSet
  <2> QED BY <2>1, <2>2, <2>3
<1>5. IsInjective(rows')
  <2> SUFFICES ASSUME NEW i \in DOMAIN rows', NEW j \in DOMAIN rows', rows'[i] = rows'[j] PROVE i = j
    BY DEF IsInjective
  <2>1. i \in Nat /\ j \in Nat /\ \A k \in DOMAIN rows : rows[k] # d
    BY <1>1, <1>2 DEF ToSet
  <2> QED BY <1>2, <1>3, <2>1 DEF TypeOK, IsInjective
<1>6. TypeOK'
  BY <1>1, <1>2, <1>5 DEF TypeOK
<1>7. TasksInv' /\ VisInv' /\ CleanIsGone'
  BY <1>1, <1>4 DEF TasksInv, VisInv, CleanIsGone, Partial
<1>8. OrphanInv'
  BY <1>1, <1>4 DEF OrphanInv, Partial, InPage
<1>9. QuietInv'
  <2>1. rows' # <<>>
    BY <1>2
  <2>2. (Quiet <=> Quiet') /\ (Fresh => Fresh') /\ (OneByOne => OneByOne')
    BY <1>1 DEF Quiet, Fresh, OneByOne, Partial, InPage
  <2>3. (Beyond => Beyond') /\ (LastRefreshes => LastRefreshes')
    BY <1>1, <1>4, <2>2 DEF Beyond, LastRefreshes, InPage
  <2>4. total <= Len(rows) => total' <= Len(rows')
    BY <1>1, <1>2 DEF TypeOK
  <2> QED BY <1>1, <2>1, <2>2, <2>3, <2>4 DEF QuietInv, FreshInv
<1> QED BY <1>6, <1>7, <1>8, <1>9

LEMMA IndexTaskInv == ASSUME IInv, NEW d \in Docs, IndexTask(d) PROVE IInv'
<1> USE DEF IInv
<1>1. /\ d \in young \ has /\ has' = has \cup {d}
      /\ UNCHANGED <<rows, vis, pc, total, batches, fixed, tasks, degraded, blind, faults>>
  BY DEF IndexTask
<1>2. TypeOK' /\ TasksInv' /\ VisInv' /\ CleanIsGone'
  BY <1>1 DEF TypeOK, TasksInv, VisInv, CleanIsGone, Partial
<1>3. OrphanInv'
  BY <1>1 DEF OrphanInv, Partial, InPage
<1>4. /\ Fresh => Fresh'
      /\ (Quiet' => Quiet) /\ (Beyond => Beyond') /\ (OneByOne => OneByOne')
      /\ LastRefreshes => LastRefreshes'
  BY <1>1 DEF Fresh, Quiet, Beyond, OneByOne, LastRefreshes, Partial, InPage
<1>5. QuietInv'
  BY <1>1, <1>4 DEF QuietInv, FreshInv
<1> QED BY <1>2, <1>3, <1>5

LEMMA RefreshInv == ASSUME IInv, Refresh PROVE IInv'
<1> USE DEF IInv, Refresh
<1>1. TypeOK' /\ TasksInv' /\ VisInv' /\ CleanIsGone'
  BY DEF TypeOK, TasksInv, VisInv, CleanIsGone, Partial
<1>2. OrphanInv'
  BY DEF OrphanInv, Partial, InPage
<1>3. Fresh' /\ (Quiet' => Quiet) /\ (Beyond => Beyond') /\ (OneByOne => OneByOne')
      /\ (LastRefreshes => LastRefreshes')
  BY DEF Fresh, Quiet, Beyond, OneByOne, LastRefreshes, Partial, InPage
<1>4. QuietInv'
  BY <1>3 DEF QuietInv, FreshInv
<1> QED BY <1>1, <1>2, <1>4

-----------------------------------------------------------------------------

LEMMA InvStep == IInv /\ [Next]_vars => IInv'
<1> SUFFICES ASSUME IInv, [Next]_vars PROVE IInv' OBVIOUS
<1>1. CASE UNCHANGED vars
  BY <1>1 DEF vars, IInv, TypeOK, TasksInv, CleanIsGone, VisInv, OrphanInv, QuietInv, Quiet, FreshInv,
     OneByOne, Fresh, Beyond, LastRefreshes, Partial, InPage
<1>2. CASE CountPage \/ SelectPage \/ PageUnsearched \/ PageFails \/ Gather
  BY <1>2, CountPageInv, SelectPageInv, PageEndsInv, GatherInv
<1>3. ASSUME NEW t \in DOMAIN tasks, DeleteTask(t) PROVE IInv'
  BY <1>3, EnterInv, StorageDeleteInv, IndexDeleteInv DEF DeleteTask
<1>4. ASSUME NEW d \in Docs, DeleteOne(d) \/ Upload(d) \/ IndexTask(d) PROVE IInv'
  BY <1>4, DeleteOneInv, UploadInv, IndexTaskInv
<1>5. CASE Refresh
  BY <1>5, RefreshInv
<1> QED BY <1>1, <1>2, <1>3, <1>4, <1>5 DEF Next, DeleteAllStep

LEMMA InvAlways == Spec => []IInv
BY InitInv, InvStep, PTL DEF Spec

-----------------------------------------------------------------------------
(* The theorems.                                                           *)

(* Each document has one row, and a page of tasks no more than a batch.    *)
THEOREM DeleteAllTypeCorrect == Spec => []TypeOK
<1>1. IInv => TypeOK
  BY DEF IInv
<1> QED BY <1>1, InvAlways, PTL

(* An answer that is not partial leaves no row of what was stored when     *)
(* the request came, unless storage could not be searched.                 *)
THEOREM CleanAnswersAreTrue == Spec => []CleanIsGone
<1>1. IInv => CleanIsGone
  BY DEF IInv
<1> QED BY <1>1, InvAlways, PTL

(* A document that has lost its row and kept its chunks makes the answer   *)
(* partial, unless its row went to the delete beside it, or its chunks     *)
(* were not written and refreshed when the request came.                   *)
THEOREM OrphansAreReported == Spec => []OrphansReported
<1>1. IInv => OrphansReported
  BY DEF IInv, OrphanInv, TasksInv, OrphansReported, InPage
<1> QED BY <1>1, InvAlways, PTL

(* One document at a time, with nothing beside it and nothing reported, no *)
(* document that was deleted is left to be found.                          *)
THEOREM NoneIsFound == Spec => []SearchSeesNone
<1>1. IInv => SearchSeesNone
  BY DEF IInv, QuietInv, Quiet, FreshInv, Fresh, SearchSeesNone
<1> QED BY <1>1, InvAlways, PTL

-----------------------------------------------------------------------------
(* Chat.                                                                   *)

LEMMA LimitsArePositive ==
    /\ TopK \in Nat \ {0} /\ RawTopK \in Nat \ {0} /\ Variants \in Nat \ {0} /\ MaxQueries \in Nat \ {0}
    /\ MinK \in Nat \ {0} /\ MaxK \in Nat \ {0} /\ RrfK \in Nat \ {0} /\ Unit \in Nat \ {0}
    /\ AnchorK \in Nat \ {0} /\ CapLow \in Nat \ {0} /\ CapHigh \in Nat /\ MaxSegment \in Nat \ {0}
    /\ PerChunk \in Nat \ {0} /\ MaxChars \in Nat \ {0} /\ Header \in Nat
BY ChatAssumption, Zenon

-----------------------------------------------------------------------------
(* Fusion of lists of chunks.                                              *)

(* What a list gives a chunk.                                              *)
ListPoints(list, c) == SumFunction([i \in {j \in DOMAIN list : list[j] = c} |-> Unit \div (RrfK + i)])

LEMMA ShareIsNat == \A i \in Nat : i # 0 => Unit \div (RrfK + i) \in Nat
<1> SUFFICES ASSUME NEW i \in Nat, i # 0 PROVE Unit \div (RrfK + i) \in Nat
  OBVIOUS
<1>1. PICK u \in Nat, k \in Nat : u = Unit /\ k = RrfK + i /\ k # 0
  BY ChatAssumption
<1>2. u \div k \in Nat
  BY <1>1
<1> QED BY <1>1, <1>2

LEMMA ListPointsAre ==
    ASSUME NEW list \in Seq(Chunks)
    PROVE  /\ \A c : ListPoints(list, c) \in Int
           /\ \A c : c \notin ToSet(list) => ListPoints(list, c) = 0
           /\ IsInjective(list) =>
                 \A i \in DOMAIN list : ListPoints(list, list[i]) = Unit \div (RrfK + i)
<1>1. PICK n \in Nat : n = Len(list) /\ DOMAIN list = 1..n
  OBVIOUS
<1>2. ASSUME NEW c PROVE ListPoints(list, c) \in Int
  <2> DEFINE J == {j \in DOMAIN list : list[j] = c}
             f == [i \in J |-> Unit \div (RrfK + i)]
  <2>1. IsFiniteSet(J)
    <3>1. J \in SUBSET (1..n) /\ IsFiniteSet(1..n)
      BY <1>1, Places
    <3> QED BY <3>1, FS_Subset
  <2>2. DOMAIN f = J /\ \A i \in J : f[i] \in Int
    <3>1. \A i \in J : i \in Nat /\ i # 0
      BY <1>1
    <3> QED BY <3>1, ShareIsNat
  <2>3. SumFunction(f) \in Int
    <3> HIDE DEF f, J
    <3> QED BY <2>1, <2>2, SumIsInt
  <2> QED BY <2>3 DEF ListPoints
<1>3. ASSUME NEW c, c \notin ToSet(list) PROVE ListPoints(list, c) = 0
  <2> DEFINE f == [i \in {j \in DOMAIN list : list[j] = c} |-> Unit \div (RrfK + i)]
  <2>1. DOMAIN f = {}
    BY <1>3 DEF ToSet
  <2>2. SumFunction(f) = 0
    <3> HIDE DEF f
    <3> QED BY <2>1, SumOfEmpty
  <2> QED BY <2>2 DEF ListPoints
<1>4. ASSUME IsInjective(list), NEW i \in DOMAIN list PROVE ListPoints(list, list[i]) = Unit \div (RrfK + i)
  <2> DEFINE J == {j \in DOMAIN list : list[j] = list[i]}
             f == [j \in J |-> Unit \div (RrfK + j)]
  <2>1. J = {i}
    BY <1>4 DEF IsInjective
  <2>2. i \in Nat /\ i # 0
    OBVIOUS
  <2>3. Unit \div (RrfK + i) \in Int
    BY <2>2, ShareIsNat
  <2> HIDE DEF J
  <2>4. DOMAIN f = {i} /\ f[i] = Unit \div (RrfK + i) /\ f[i] \in Int
    BY <2>1, <2>3
  <2>5. SumFunction(f) = f[i]
    <3> HIDE DEF f
    <3> QED BY <2>4, SumOfOne
  <2> QED BY <2>4, <2>5 DEF ListPoints, J
<1> QED BY <1>2, <1>3, <1>4

(* Points(lists)[c] is the sum of what the lists give.                     *)
PointsOf(lists) == RrfFusion(lists, [i \in DOMAIN lists |-> 1], RrfK, Unit)

LEMMA PointsAre ==
    ASSUME NEW n \in Nat, NEW lists \in [1..n -> Seq(Chunks)]
    PROVE  /\ DOMAIN PointsOf(lists) = Listed(lists)
           /\ \A c \in Listed(lists) :
                 /\ PointsOf(lists)[c] = SumFunction([s \in 1..n |-> ListPoints(lists[s], c)])
                 /\ PointsOf(lists)[c] \in Int
<1>1. DOMAIN PointsOf(lists) = Listed(lists)
  BY DEF PointsOf, RrfFusion
<1>2. ASSUME NEW c \in Listed(lists)
      PROVE  PointsOf(lists)[c] = SumFunction([s \in 1..n |-> ListPoints(lists[s], c)])
  <2> DEFINE Taken(s) == [i \in {j \in DOMAIN lists[s] : lists[s][j] = c} |-> [t \in DOMAIN lists |-> 1][s] * (Unit \div (RrfK + i))]
             Given(s) == [i \in {j \in DOMAIN lists[s] : lists[s][j] = c} |-> Unit \div (RrfK + i)]
  <2>1. PointsOf(lists)[c] = SumFunction([s \in DOMAIN lists |-> SumFunction(Taken(s))])
    BY DEF PointsOf, RrfFusion
  <2>2. ASSUME NEW s \in 1..n PROVE Taken(s) = Given(s)
    <3>1. [t \in DOMAIN lists |-> 1][s] = 1
      OBVIOUS
    <3>2. \A i \in DOMAIN lists[s] : 1 * (Unit \div (RrfK + i)) = Unit \div (RrfK + i)
      <4>1. \A i \in DOMAIN lists[s] : i \in Nat /\ i # 0
        OBVIOUS
      <4>2. \A i \in DOMAIN lists[s] : Unit \div (RrfK + i) \in Nat
        BY <4>1, ShareIsNat
      <4>3. \A m \in Nat : 1 * m = m
        OBVIOUS
      <4> QED BY <4>2, <4>3
    <3> QED BY <3>1, <3>2
  <2>3. \A s \in 1..n : SumFunction(Given(s)) = ListPoints(lists[s], c)
    BY DEF ListPoints
  <2> HIDE DEF Taken, Given
  <2>4. [s \in DOMAIN lists |-> SumFunction(Taken(s))] = [s \in 1..n |-> ListPoints(lists[s], c)]
    BY <2>2, <2>3
  <2> QED BY <2>1, <2>4
<1>3. ASSUME NEW c \in Listed(lists) PROVE SumFunction([s \in 1..n |-> ListPoints(lists[s], c)]) \in Int
  <2> DEFINE f == [s \in 1..n |-> ListPoints(lists[s], c)]
  <2>1. DOMAIN f = 1..n /\ IsFiniteSet(1..n)
    BY Places
  <2>2. \A s \in 1..n : f[s] \in Int
    BY ListPointsAre
  <2> HIDE DEF f
  <2>3. SumFunction(f) \in Int
    BY <2>1, <2>2, SumIsInt
  <2> QED BY <2>3 DEF f
<1> QED BY <1>1, <1>2, <1>3

(* The fused hits are the chunks of the lists, each with its points, the   *)
(* most first.                                                             *)
ScoredHits(lists) == {[id |-> c, score |-> PointsOf(lists)[c]] : c \in Listed(lists)}

FusedType(F, lists) ==
    /\ F \in Seq(ScoredHits(lists)) /\ IsInjective(F)
    /\ ToSet(Ids(F)) = ToSet(FlattenSeq(lists))
    /\ \A i, j \in DOMAIN F : i < j => F[i].score >= F[j].score

LEMMA FusedHolds ==
    ASSUME NEW n \in Nat \ {0}, NEW lists \in [1..n -> Seq(Chunks)]
    PROVE  FusedType(Fused(lists), lists)
<1> DEFINE T == Listed(lists)
           all == FlattenSeq(lists)
           D == Distinct(all)
           S == ScoredHits(lists)
           L == [i \in DOMAIN D |-> [id |-> D[i], score |-> PointsOf(lists)[D[i]]]]
           F == ByScore(L)
<1>1. lists \in [1..n -> Seq(T)]
  <2>1. ASSUME NEW i \in 1..n PROVE lists[i] \in Seq(T)
    <3>1. lists[i] \in Seq(Chunks) /\ ToSet(lists[i]) \subseteq T
      BY DEF Listed
    <3> QED BY <3>1, ListOf
  <2> QED BY <2>1
<1>2. all \in Seq(T)
  <2> HIDE DEF T
  <2> QED BY <1>1, FlattenedHolds
<1>3. D \in Seq(T) /\ IsInjective(D) /\ ToSet(D) = ToSet(all)
  <2> HIDE DEF T, all
  <2> QED BY <1>2, DistinctHolds
<1>4. Fused(lists) = F
  BY DEF Fused, ByScore, PointsOf
<1>5. \A h \in S : h.score \in Int
  <2>1. \A c \in Listed(lists) : PointsOf(lists)[c] \in Int
    BY PointsAre
  <2> QED BY <2>1 DEF ScoredHits
<1>6. \A c \in T : [id |-> c, score |-> PointsOf(lists)[c]] \in S
  BY DEF ScoredHits
<1>7. \A h \in S : h.id \in T /\ h = [id |-> h.id, score |-> PointsOf(lists)[h.id]]
  BY DEF ScoredHits
<1> HIDE DEF T, all, S, D
<1>8. L \in Seq(S) /\ Len(L) = Len(D) /\ DOMAIN L = DOMAIN D /\ \A i \in DOMAIN D : L[i].id = D[i]
  <2>1. PICK m \in Nat : m = Len(D) /\ DOMAIN D = 1..m /\ \A i \in 1..m : D[i] \in T
    BY <1>3
  <2>2. L \in [1..m -> S]
    BY <1>6, <2>1
  <2> QED BY <2>1, <2>2
<1>9. IsInjective(L)
  BY <1>3, <1>8 DEF IsInjective
<1> HIDE DEF L
<1>10. /\ F \in Seq(S) /\ Len(F) = Len(L) /\ ToSet(F) = ToSet(L) /\ IsInjective(F)
       /\ \A i, j \in DOMAIN L : i < j => F[i].score >= F[j].score
  BY <1>5, <1>8, <1>9, RankedByScore
<1> HIDE DEF F
<1>11. ToSet(Ids(F)) = ToSet(D)
  <2>1. \A i \in DOMAIN F : \E j \in DOMAIN L : F[i] = L[j]
    BY <1>10 DEF ToSet
  <2>2. \A j \in DOMAIN L : \E i \in DOMAIN F : F[i] = L[j]
    BY <1>10 DEF ToSet
  <2>3. DOMAIN Ids(F) = DOMAIN F /\ \A i \in DOMAIN F : Ids(F)[i] = F[i].id
    BY DEF Ids
  <2>4. \A i \in DOMAIN F : \E j \in DOMAIN D : Ids(F)[i] = D[j]
    BY <1>8, <2>1, <2>3
  <2>5. \A j \in DOMAIN D : \E i \in DOMAIN F : Ids(F)[i] = D[j]
    BY <1>8, <2>2, <2>3
  <2> QED BY <2>3, <2>4, <2>5 DEF ToSet
<1>12. DOMAIN F = DOMAIN L
  BY <1>8, <1>10
<1>13. ToSet(Ids(F)) = ToSet(FlattenSeq(lists))
  BY <1>3, <1>11 DEF all
<1>14. F \in Seq(ScoredHits(lists))
  BY <1>10 DEF S
<1> QED BY <1>4, <1>10, <1>12, <1>13, <1>14 DEF FusedType

(* What is kept of the fused hits.                                         *)
LEMMA FusedIds ==
    ASSUME NEW lists, Listed(lists) \subseteq Chunks, NEW F \in Seq(ScoredHits(lists)), IsInjective(F), NEW k \in Nat
    PROVE  /\ Ids(UpTo(F, k)) \in Seq(Chunks) /\ IsInjective(Ids(UpTo(F, k)))
           /\ Len(Ids(UpTo(F, k))) <= k
           /\ DOMAIN Ids(UpTo(F, k)) \subseteq DOMAIN F
           /\ \A i \in DOMAIN Ids(UpTo(F, k)) : Ids(UpTo(F, k))[i] = F[i].id
<1> DEFINE U == UpTo(F, k)
           S == ScoredHits(lists)
<1>1. F \in Seq(S) /\ IsInjective(F)
  OBVIOUS
<1>2. \A h \in S : h.id \in Chunks /\ h = [id |-> h.id, score |-> PointsOf(lists)[h.id]]
  BY DEF ScoredHits
<1> HIDE DEF S
<1>3. U \in Seq(S)
  BY <1>1, CutHolds
<1>4. /\ Len(U) <= k /\ Len(U) <= Len(F) /\ Len(U) \in Nat
      /\ \A i \in 1..Len(U) : U[i] = F[i]
      /\ IsInjective(U)
  BY <1>1, CutLength
<1> HIDE DEF U
<1>5. PICK m \in Nat : m = Len(U) /\ DOMAIN U = 1..m /\ \A i \in 1..m : U[i] \in S
  BY <1>3
<1>6. Ids(U) = [i \in 1..m |-> U[i].id]
  BY <1>5 DEF Ids
<1>7. Ids(U) \in Seq(Chunks) /\ Len(Ids(U)) = m /\ DOMAIN Ids(U) = 1..m
  <2>1. \A i \in 1..m : U[i].id \in Chunks
    BY <1>2, <1>5
  <2>2. Ids(U) \in [1..m -> Chunks]
    BY <1>6, <2>1
  <2> QED BY <2>2
<1>8. IsInjective(Ids(U))
  <2>1. ASSUME NEW i \in 1..m, NEW j \in 1..m, U[i].id = U[j].id PROVE i = j
    <3>1. U[i] = U[j]
      BY <1>2, <1>5, <2>1
    <3> QED BY <1>4, <1>5, <3>1 DEF IsInjective
  <2> QED BY <1>6, <1>7, <2>1 DEF IsInjective
<1>9. 1..m \subseteq DOMAIN F /\ \A i \in 1..m : Ids(U)[i] = F[i].id
  <2>1. PICK n \in Nat : n = Len(F) /\ DOMAIN F = 1..n
    BY <1>1
  <2> QED BY <1>4, <1>5, <1>6, <2>1
<1> QED BY <1>4, <1>5, <1>7, <1>8, <1>9 DEF U

-----------------------------------------------------------------------------
(* The anchor pass.                                                        *)

(* A later place is worth less, where the shares are whole.                *)
LEMMA ShareFallsBelow ==
    ASSUME NEW i \in Nat, i # 0, NEW j \in Nat, i < j, Unit % (RrfK + i) = 0, Unit % (RrfK + j) = 0
    PROVE  Unit \div (RrfK + j) < Unit \div (RrfK + i)
<1>1. PICK u \in Nat, k \in Nat, l \in Nat : u = Unit /\ k = RrfK + i /\ l = RrfK + j /\ k # 0 /\ k < l /\ u # 0
  BY ChatAssumption
<1>2. PICK q \in Nat, r \in Nat : q = u \div k /\ r = u \div l
  <2>1. u \div k \in Nat /\ u \div l \in Nat
    BY <1>1
  <2> QED BY <2>1
<1>3. Unit % (RrfK + i) = u % k /\ Unit % (RrfK + j) = u % l
  BY <1>1
<1>4. u = k * q /\ u = l * r
  <2>1. ASSUME NEW x \in Nat, NEW y \in Nat, y # 0, x % y = 0 PROVE x = y * (x \div y)
    BY <2>1
  <2>2. u % k = 0 /\ u % l = 0 /\ k # 0 /\ l # 0
    BY <1>1, <1>3
  <2>3. u = k * (u \div k) /\ u = l * (u \div l)
    BY <2>1, <2>2
  <2> QED BY <1>2, <2>3
<1>5. r < q
  <2> SUFFICES ASSUME q <= r PROVE FALSE
    OBVIOUS
  <2>1. k * q <= k * r
    BY <1>1, <1>2
  <2>2. r # 0
    BY <1>1, <1>4
  <2>3. k * r < l * r
    BY <1>1, <1>2, <2>2
  <2> QED BY <1>4, <2>1, <2>3
<1> QED BY <1>1, <1>2, <1>5

(* A list as long as the fusion has whole shares for.                      *)
Whole(list) ==
    /\ list \in Seq(Chunks) /\ IsInjective(list)
    /\ \A n \in DOMAIN list : Unit % (RrfK + n) = 0

LEMMA PointsOfTwo ==
    ASSUME NEW a \in Seq(Chunks), NEW b \in Seq(Chunks)
    PROVE  /\ Listed(<<a, b>>) = ToSet(a) \cup ToSet(b)
           /\ \A c \in ToSet(a) \cup ToSet(b) : PointsOf(<<a, b>>)[c] = ListPoints(a, c) + ListPoints(b, c)
<1> DEFINE lists == <<a, b>>
<1>1. lists \in [1..2 -> Seq(Chunks)] /\ DOMAIN lists = {1, 2} /\ lists[1] = a /\ lists[2] = b /\ 1..2 = {1, 2}
  OBVIOUS
<1> HIDE DEF lists
<1>2. Listed(lists) = ToSet(a) \cup ToSet(b)
  BY <1>1 DEF Listed
<1>3. ASSUME NEW c \in Listed(lists) PROVE PointsOf(lists)[c] = ListPoints(a, c) + ListPoints(b, c)
  <2> DEFINE f == [s \in 1..2 |-> ListPoints(lists[s], c)]
  <2>1. PointsOf(lists)[c] = SumFunction(f)
    <3>1. 2 \in Nat
      OBVIOUS
    <3> HIDE DEF f
    <3>2. PointsOf(lists)[c] = SumFunction([s \in 1..2 |-> ListPoints(lists[s], c)])
      BY <1>1, <3>1, PointsAre
    <3> QED BY <3>2 DEF f
  <2>2. DOMAIN f = {1, 2} /\ f[1] = ListPoints(a, c) /\ f[2] = ListPoints(b, c)
    BY <1>1
  <2>3. f[1] \in Int /\ f[2] \in Int /\ 1 # 2
    BY <2>2, ListPointsAre
  <2> HIDE DEF f
  <2>4. SumFunction(f) = f[1] + f[2]
    BY <2>2, <2>3, SumOfTwo
  <2> QED BY <2>1, <2>2, <2>4
<1> QED BY <1>2, <1>3 DEF lists

(* The place of a chunk that a list names once.                            *)
PlaceIn(list, c) == SelectInSeq(list, LAMBDA d : d = c)

LEMMA PlaceOf ==
    ASSUME NEW list \in Seq(Chunks), IsInjective(list), NEW i \in DOMAIN list, NEW c, list[i] = c
    PROVE  PlaceIn(list, c) = i
<1> DEFINE I == {j \in 1..Len(list) : list[j] = c}
<1>1. I = {i}
  BY DEF IsInjective
<1>2. PlaceIn(list, c) = IF I # {} THEN Min(I) ELSE 0
  BY DEF SelectInSeq, PlaceIn
<1> HIDE DEF I
<1>3. I \in SUBSET Nat /\ I # {}
  BY <1>1
<1>4. Min(I) \in I
  BY <1>3, MinIsLeast
<1> QED BY <1>1, <1>2, <1>3, <1>4

(* With whole shares, what one list alone has found is not before what any *)
(* list has put before that place.                                         *)
LEMMA NearerIsBefore ==
    ASSUME NEW a, Whole(a), NEW b, Whole(b), NEW F, FusedType(F, <<a, b>>),
           NEW i, NEW c, \/ i \in DOMAIN a /\ a[i] = c /\ c \notin ToSet(b)
                         \/ i \in DOMAIN b /\ b[i] = c /\ c \notin ToSet(a),
           NEW d \in ToSet(a) \cup ToSet(b), NEW j \in Nat, j < i,
           (j \in DOMAIN a /\ a[j] = d) \/ (j \in DOMAIN b /\ b[j] = d),
           NEW m \in DOMAIN F, F[m].id = c
    PROVE  \E n \in DOMAIN F : n < m /\ F[n].id = d
<1> DEFINE P == PointsOf(<<a, b>>)
           p == Unit \div (RrfK + i)
           q == Unit \div (RrfK + j)
<1>1. a \in Seq(Chunks) /\ b \in Seq(Chunks) /\ IsInjective(a) /\ IsInjective(b)
  BY DEF Whole
<1>2. i \in Nat /\ i # 0 /\ j # 0 /\ Unit % (RrfK + i) = 0 /\ Unit % (RrfK + j) = 0
  BY <1>1 DEF Whole
<1>3. p \in Nat /\ q \in Nat /\ p < q
  BY <1>2, ShareIsNat, ShareFallsBelow
<1>4. ListPoints(a, c) + ListPoints(b, c) = p
  <2>1. (ListPoints(a, c) = p /\ ListPoints(b, c) = 0) \/ (ListPoints(a, c) = 0 /\ ListPoints(b, c) = p)
    BY <1>1, ListPointsAre
  <2> HIDE DEF p
  <2> QED BY <1>3, <2>1
<1>5. c \in ToSet(a) \cup ToSet(b)
  BY DEF ToSet
<1>6. P[c] = p
  <2>1. P[c] = ListPoints(a, c) + ListPoints(b, c)
    BY <1>1, <1>5, PointsOfTwo
  <2> QED BY <1>4, <2>1
<1>7. P[d] \in Int /\ P[d] >= q
  <2>1. P[d] = ListPoints(a, d) + ListPoints(b, d)
    BY <1>1, PointsOfTwo
  <2>2. ASSUME NEW l \in Seq(Chunks), IsInjective(l) PROVE ListPoints(l, d) \in Nat
    <3>1. CASE d \notin ToSet(l)
      BY <2>2, <3>1, ListPointsAre
    <3>2. CASE d \in ToSet(l)
      <4>1. PICK n \in DOMAIN l : l[n] = d
        BY <3>2 DEF ToSet
      <4>2. n \in Nat /\ n # 0
        BY <2>2
      <4>3. ListPoints(l, d) = Unit \div (RrfK + n)
        BY <2>2, <4>1, ListPointsAre
      <4> QED BY <4>2, <4>3, ShareIsNat
    <3> QED BY <3>1, <3>2
  <2>3. ListPoints(a, d) \in Nat /\ ListPoints(b, d) \in Nat
    BY <1>1, <2>2
  <2>4. ListPoints(a, d) = q \/ ListPoints(b, d) = q
    BY <1>1, ListPointsAre
  <2> HIDE DEF P, q
  <2> QED BY <1>3, <2>1, <2>3, <2>4
<1>8. F \in Seq(ScoredHits(<<a, b>>)) /\ \A k \in DOMAIN F : F[k].score = P[F[k].id]
  <2>1. \A h \in ScoredHits(<<a, b>>) : h.score = P[h.id]
    BY DEF ScoredHits
  <2> HIDE DEF P
  <2> QED BY <2>1 DEF FusedType
<1> HIDE DEF P, p, q
<1>9. d \in ToSet(Ids(F))
  <2>1. FlattenSeq(<<a, b>>) = a \o b
    BY <1>1, FlattenOfTwo
  <2>2. ToSet(a \o b) = ToSet(a) \cup ToSet(b)
    BY <1>1, Joined2
  <2> QED BY <2>1, <2>2 DEF FusedType
<1>10. PICK n \in DOMAIN F : F[n].id = d
  BY <1>9 DEF ToSet, Ids
<1>11. F[n].score > F[m].score
  BY <1>3, <1>6, <1>7, <1>8, <1>10
<1>12. F[m].score \in Int /\ F[n].score \in Int
  BY <1>3, <1>6, <1>7, <1>8, <1>10
<1>13. ~(m <= n)
  <2>1. m = n \/ m < n \/ n < m
    BY <1>8
  <2>2. m < n => F[m].score >= F[n].score
    BY DEF FusedType
  <2>3. PICK x \in Int, y \in Int : x = F[m].score /\ y = F[n].score
    BY <1>12
  <2>4. y > x
    BY <1>11, <2>3
  <2>5. m # n
    BY <2>3, <2>4
  <2>6. ~(m < n)
    BY <2>2, <2>3, <2>4
  <2> QED BY <2>1, <2>5, <2>6, <1>8
<1> QED BY <1>8, <1>10, <1>13

(* What the merge keeps for one list, it keeps for both.                   *)
KeepsAhead(ids, both) ==
    LET Lost(c) == c \notin ToSet(ids)
        Place(l, c) == PlaceIn(both[l], c)
    IN  \A l \in 1..2, m \in 1..2 : \A c \in ToSet(both[l]) \ ToSet(both[3 - l]) : \A d \in ToSet(both[m]) :
           ~Lost(c) /\ Place(m, d) < Place(l, c) => ~Lost(d)

LEMMA AnchorHolds ==
    ASSUME NEW a, Whole(a), NEW b, Whole(b)
    PROVE  /\ AnchorMerge(a, b) \in Seq(Chunks) /\ IsInjective(AnchorMerge(a, b))
           /\ KeepsAhead(AnchorMerge(a, b), <<a, b>>)
<1> DEFINE both == <<a, b>>
           cap == Larger(CapLow, Smaller(CapHigh, Larger(Len(a), Larger(TopK, AnchorK))))
           F == Fused(both)
           ids == Ids(UpTo(F, cap))
<1>1. a \in Seq(Chunks) /\ b \in Seq(Chunks) /\ IsInjective(a) /\ IsInjective(b)
  BY DEF Whole
<1>2. both \in [1..2 -> Seq(Chunks)] /\ both[1] = a /\ both[2] = b
  BY <1>1
<1>3. cap \in Nat
  <2>1. CapLow \in Nat /\ CapHigh \in Nat /\ TopK \in Nat /\ AnchorK \in Nat /\ Len(a) \in Nat
    BY <1>1, LimitsArePositive
  <2> QED BY <2>1 DEF Larger, Smaller
<1> HIDE DEF cap
<1>4. Listed(both) \subseteq Chunks
  <2>1. ToSet(a) \subseteq Chunks /\ ToSet(b) \subseteq Chunks
    BY <1>1 DEF ToSet
  <2> QED BY <1>1, <2>1, PointsOfTwo
<1>5. FusedType(F, both)
  <2> HIDE DEF both
  <2>1. 2 \in Nat \ {0}
    OBVIOUS
  <2> QED BY <1>2, <2>1, FusedHolds
<1>6. AnchorMerge(a, b) = ids
  BY DEF AnchorMerge, cap
<1> HIDE DEF F
<1>7. /\ ids \in Seq(Chunks) /\ IsInjective(ids) /\ DOMAIN ids \subseteq DOMAIN F
      /\ \A i \in DOMAIN ids : ids[i] = F[i].id
  <2> HIDE DEF both
  <2>1. F \in Seq(ScoredHits(both)) /\ IsInjective(F)
    BY <1>5 DEF FusedType
  <2> QED BY <1>3, <1>4, <2>1, FusedIds
<1> HIDE DEF ids
<1>8. ASSUME NEW l \in 1..2, NEW m \in 1..2, NEW c \in ToSet(both[l]) \ ToSet(both[3 - l]), NEW d \in ToSet(both[m]),
             c \in ToSet(ids), PlaceIn(both[m], d) < PlaceIn(both[l], c)
      PROVE  d \in ToSet(ids)
  <2>1. PICK i \in DOMAIN both[l] : both[l][i] = c
    BY DEF ToSet
  <2>2. PICK j \in DOMAIN both[m] : both[m][j] = d
    BY DEF ToSet
  <2>3. both[l] \in Seq(Chunks) /\ IsInjective(both[l]) /\ both[m] \in Seq(Chunks) /\ IsInjective(both[m])
    BY <1>1, <1>2
  <2>4. PlaceIn(both[l], c) = i /\ PlaceIn(both[m], d) = j
    <3> HIDE DEF both
    <3> QED BY <2>1, <2>2, <2>3, PlaceOf
  <2>5. j < i /\ j \in Nat
    BY <1>8, <2>3, <2>4
  <2>6. PICK k \in DOMAIN ids : ids[k] = c
    BY <1>8 DEF ToSet
  <2>7. k \in DOMAIN F /\ F[k].id = c
    BY <1>7, <2>6
  <2>8. \/ i \in DOMAIN a /\ a[i] = c /\ c \notin ToSet(b)
        \/ i \in DOMAIN b /\ b[i] = c /\ c \notin ToSet(a)
    <3>1. l = 1 \/ l = 2
      OBVIOUS
    <3>2. CASE l = 1
      <4>1. 3 - l = 2
        BY <3>2
      <4> QED BY <1>2, <2>1, <3>2, <4>1
    <3>3. CASE l = 2
      <4>1. 3 - l = 1
        BY <3>3
      <4> QED BY <1>2, <2>1, <3>3, <4>1
    <3> QED BY <3>1, <3>2, <3>3
  <2>9. (j \in DOMAIN a /\ a[j] = d) \/ (j \in DOMAIN b /\ b[j] = d)
    <3>1. m = 1 \/ m = 2
      OBVIOUS
    <3> QED BY <1>2, <2>2, <3>1
  <2>10. d \in ToSet(a) \cup ToSet(b)
    BY <2>9 DEF ToSet
  <2>11. \E n \in DOMAIN F : n < k /\ F[n].id = d
    BY <1>5, <2>5, <2>7, <2>8, <2>9, <2>10, NearerIsBefore
  <2>12. PICK n \in DOMAIN F : n < k /\ F[n].id = d
    BY <2>11
  <2>13. n \in DOMAIN ids
    <3>1. PICK u \in Nat : DOMAIN ids = 1..u
      BY <1>7
    <3>2. n \in Nat /\ n # 0
      <4>1. F \in Seq(ScoredHits(both))
        BY <1>5 DEF FusedType
      <4> QED BY <4>1
    <3> QED BY <2>12, <3>1, <3>2
  <2> QED BY <1>7, <2>12, <2>13 DEF ToSet
<1>9. KeepsAhead(ids, both)
  <2> HIDE DEF both
  <2> QED BY <1>8 DEF KeepsAhead
<1> QED BY <1>6, <1>7, <1>9

-----------------------------------------------------------------------------
(* The query's variants.                                                   *)

LEMMA MultiQueryHolds ==
    ASSUME NEW n \in Nat \ {0}, NEW lists \in [1..n -> Seq(Chunks)]
    PROVE  /\ MultiQuery(lists) \in Seq(Chunks) /\ IsInjective(MultiQuery(lists))
           /\ Len(MultiQuery(lists)) <= RawTopK
<1> DEFINE F == Fused(lists)
           S == ScoredHits(lists)
           list == UpTo(F, RawTopK)
           scores == [i \in DOMAIN list |-> list[i].score]
           k == IF set.adaptive /\ Len(list) > 1 THEN AdaptiveK(scores, MinK, MaxK, TopK) ELSE Len(list)
<1>1. Listed(lists) \subseteq Chunks
  BY DEF Listed, ToSet
<1>2. F \in Seq(S) /\ IsInjective(F)
  BY FusedHolds DEF FusedType
<1>3. \A h \in S : h.score \in Int
  <2>1. \A c \in Listed(lists) : PointsOf(lists)[c] \in Int
    BY PointsAre
  <2> QED BY <2>1 DEF ScoredHits
<1>4. RawTopK \in Nat /\ TopK \in Nat \ {0} /\ MinK \in Nat \ {0} /\ MaxK \in Nat \ {0}
  BY LimitsArePositive
<1> HIDE DEF F, S
<1>5. list \in Seq(S)
  BY <1>2, <1>4, CutHolds
<1>6. Len(list) <= RawTopK /\ IsInjective(list) /\ Len(list) \in Nat
  BY <1>2, <1>4, CutLength
<1>7. MultiQuery(lists) = Ids(UpTo(list, k))
  BY DEF MultiQuery, F
<1> HIDE DEF list
<1>8. scores \in Seq(Int)
  <2>1. PICK m \in Nat : m = Len(list) /\ DOMAIN list = 1..m /\ \A i \in 1..m : list[i] \in S
    BY <1>5
  <2>2. scores \in [1..m -> Int]
    BY <1>3, <2>1
  <2> QED BY <2>2
<1> HIDE DEF scores
<1>9. k \in Nat
  <2>1. AdaptiveK(scores, MinK, MaxK, TopK) \in Nat
    <3>1. scores # <<>> => TopK # 0
      BY <1>4
    <3> QED BY <1>4, <1>8, <3>1, AdaptiveKHolds
  <2> QED BY <1>6, <2>1
<1> HIDE DEF k
<1>10. Ids(UpTo(list, k)) \in Seq(Chunks) /\ IsInjective(Ids(UpTo(list, k)))
  BY <1>1, <1>5, <1>6, <1>9, FusedIds DEF S
<1>11. Len(Ids(UpTo(list, k))) <= RawTopK
  <2>1. Len(UpTo(list, k)) <= Len(list) /\ Len(UpTo(list, k)) \in Nat /\ DOMAIN UpTo(list, k) = 1..Len(UpTo(list, k))
    BY <1>5, <1>9, CutLength
  <2>2. Len(Ids(UpTo(list, k))) = Len(UpTo(list, k))
    BY <2>1 DEF Ids
  <2> QED BY <1>4, <1>6, <2>1, <2>2
<1> QED BY <1>7, <1>10, <1>11

-----------------------------------------------------------------------------
(* Blocks: hits with a text, each chunk once.                              *)

Block == [id : Chunks, size : Nat \ {0}]
Blocks(hs) == hs \in Seq(Block) /\ IsInjective(Ids(hs))

LEMMA BlocksApart ==
    ASSUME NEW hs \in Seq(Block)
    PROVE  /\ Ids(hs) \in Seq(Chunks) /\ Len(Ids(hs)) = Len(hs) /\ DOMAIN Ids(hs) = DOMAIN hs
           /\ \A i \in DOMAIN hs : Ids(hs)[i] = hs[i].id
           /\ IsInjective(Ids(hs)) <=> \A i, j \in DOMAIN hs : hs[i].id = hs[j].id => i = j
           /\ IsInjective(Ids(hs)) => IsInjective(hs)
           /\ DocsIn(hs) \in Seq(STRING) /\ Len(DocsIn(hs)) = Len(hs)
<1>1. PICK n \in Nat : n = Len(hs) /\ DOMAIN hs = 1..n /\ \A i \in 1..n : hs[i] \in Block
  OBVIOUS
<1>2. \A i \in 1..n : hs[i].id \in Chunks /\ DocOf[hs[i].id] \in STRING
  <2>1. DocOf \in [Chunks -> STRING]
    BY ChatAssumption
  <2> QED BY <1>1, <2>1 DEF Block
<1>3. Ids(hs) \in [1..n -> Chunks] /\ \A i \in 1..n : Ids(hs)[i] = hs[i].id
  BY <1>1, <1>2 DEF Ids
<1>4. DocsIn(hs) \in [1..n -> STRING]
  BY <1>1, <1>2 DEF DocsIn
<1>5. IsInjective(Ids(hs)) <=> \A i, j \in 1..n : hs[i].id = hs[j].id => i = j
  BY <1>3 DEF IsInjective
<1>6. IsInjective(Ids(hs)) => IsInjective(hs)
  BY <1>1, <1>5 DEF IsInjective
<1>7. Ids(hs) \in Seq(Chunks) /\ Len(Ids(hs)) = n /\ DOMAIN Ids(hs) = 1..n
  BY <1>3
<1>8. DocsIn(hs) \in Seq(STRING) /\ Len(DocsIn(hs)) = n
  BY <1>4
<1> QED BY <1>1, <1>3, <1>5, <1>6, <1>7, <1>8

(* The hits that stand for a list of chunks.                               *)
LEMMA TakenAreBlocks ==
    ASSUME NEW ids \in Seq(Chunks), IsInjective(ids)
    PROVE  LET hs == [i \in DOMAIN ids |-> Hit(ids[i])] IN Blocks(hs) /\ Ids(hs) = ids /\ Len(hs) = Len(ids)
<1> DEFINE hs == [i \in DOMAIN ids |-> Hit(ids[i])]
<1>1. PICK n \in Nat : n = Len(ids) /\ DOMAIN ids = 1..n /\ ids \in [1..n -> Chunks]
  OBVIOUS
<1>2. \A c \in Chunks : Hit(c) \in Block /\ Hit(c).id = c
  BY ChatAssumption DEF Hit, Block
<1>3. hs \in [1..n -> Block] /\ \A i \in 1..n : hs[i].id = ids[i]
  BY <1>1, <1>2
<1>4. Ids(hs) = ids
  BY <1>1, <1>3 DEF Ids
<1> QED BY <1>1, <1>3, <1>4 DEF Blocks

(* Those of a document.                                                    *)
LEMMA OfDocHolds ==
    ASSUME NEW ids \in Seq(Chunks), IsInjective(ids), NEW d
    PROVE  Blocks(OfDoc(ids, d)) /\ \A i \in DOMAIN OfDoc(ids, d) : DocOf[OfDoc(ids, d)[i].id] = d
<1> DEFINE K == {i \in DOMAIN ids : DocOf[ids[i]] = d}
           own == At(ids, K)
           hs == [i \in DOMAIN own |-> Hit(own[i])]
<1>1. K \in SUBSET (1..Len(ids))
  OBVIOUS
<1>2. \A i \in K : DocOf[ids[i]] = d
  OBVIOUS
<1> HIDE DEF K
<1>3. own \in Seq(Chunks) /\ IsInjective(own) /\ ToSet(own) = {ids[i] : i \in K}
  BY <1>1, PickedItems
<1>4. OfDoc(ids, d) = hs
  BY DEF OfDoc, K
<1> HIDE DEF own
<1>5. Blocks(hs) /\ Ids(hs) = own /\ Len(hs) = Len(own)
  BY <1>3, TakenAreBlocks
<1>6. ASSUME NEW i \in DOMAIN hs PROVE DocOf[hs[i].id] = d
  <2>1. hs[i].id = own[i] /\ i \in DOMAIN own
    BY <1>5 DEF Ids
  <2>2. own[i] \in ToSet(own)
    BY <2>1 DEF ToSet
  <2> QED BY <1>2, <1>3, <2>1, <2>2
<1> QED BY <1>4, <1>5, <1>6

(* Blocks of different chunks, one list behind the other.                  *)
LEMMA JoinedBlocks ==
    ASSUME NEW a, Blocks(a), NEW b, Blocks(b), \A i \in DOMAIN a, j \in DOMAIN b : a[i].id # b[j].id
    PROVE  Blocks(a \o b)
<1> DEFINE all == a \o b
<1>1. a \in Seq(Block) /\ b \in Seq(Block)
  BY DEF Blocks
<1>2. IsInjective(a) /\ IsInjective(b) /\ IsInjective(Ids(a)) /\ IsInjective(Ids(b))
  BY <1>1, BlocksApart DEF Blocks
<1>3. \A g \in ToSet(a), h \in ToSet(b) : g.id # h.id
  BY DEF ToSet
<1>4. \A g, h \in ToSet(a) : g.id = h.id => g = h
  <2> SUFFICES ASSUME NEW g \in ToSet(a), NEW h \in ToSet(a), g.id = h.id PROVE g = h
    OBVIOUS
  <2>1. PICK i \in DOMAIN a, j \in DOMAIN a : g = a[i] /\ h = a[j]
    BY DEF ToSet
  <2>2. i = j
    BY <1>1, <1>2, <2>1, BlocksApart
  <2> QED BY <2>1, <2>2
<1>5. \A g, h \in ToSet(b) : g.id = h.id => g = h
  <2> SUFFICES ASSUME NEW g \in ToSet(b), NEW h \in ToSet(b), g.id = h.id PROVE g = h
    OBVIOUS
  <2>1. PICK i \in DOMAIN b, j \in DOMAIN b : g = b[i] /\ h = b[j]
    BY DEF ToSet
  <2>2. i = j
    BY <1>1, <1>2, <2>1, BlocksApart
  <2> QED BY <2>1, <2>2
<1>6. /\ all \in Seq(Block) /\ ToSet(all) = ToSet(a) \cup ToSet(b)
      /\ IsInjective(all)
  <2>1. ToSet(a) \cap ToSet(b) = {}
    BY <1>3
  <2> QED BY <1>1, <1>2, <2>1, Joined2
<1> HIDE DEF all
<1>7. \A i, j \in DOMAIN all : all[i].id = all[j].id => i = j
  <2> SUFFICES ASSUME NEW i \in DOMAIN all, NEW j \in DOMAIN all, all[i].id = all[j].id PROVE i = j
    OBVIOUS
  <2>1. all[i] \in ToSet(all) /\ all[j] \in ToSet(all)
    BY DEF ToSet
  <2>2. all[i] = all[j]
    BY <1>3, <1>4, <1>5, <1>6, <2>1
  <2> QED BY <1>6, <2>2 DEF IsInjective
<1>8. Blocks(all)
  BY <1>6, <1>7, BlocksApart DEF Blocks
<1> QED BY <1>8 DEF all

(* More hits, ahead of what there is.                                      *)
LEMMA AheadHolds ==
    ASSUME NEW extra, Blocks(extra), NEW hs, Blocks(hs)
    PROVE  Blocks(Ahead(extra, hs))
<1> DEFINE K == {i \in DOMAIN hs : hs[i].id \notin ToSet(Ids(extra))}
           rest == At(hs, K)
<1>1. extra \in Seq(Block) /\ hs \in Seq(Block)
  BY DEF Blocks
<1>2. IsInjective(hs) /\ \A i, j \in DOMAIN hs : hs[i].id = hs[j].id => i = j
  BY <1>1, BlocksApart DEF Blocks
<1>3. K \in SUBSET (1..Len(hs)) /\ \A i \in K : hs[i].id \notin ToSet(Ids(extra))
  BY <1>1
<1>4. Ahead(extra, hs) = extra \o rest
  BY DEF Ahead
<1> HIDE DEF K
<1>5. rest \in Seq(Block) /\ IsInjective(rest) /\ ToSet(rest) = {hs[i] : i \in K}
  BY <1>1, <1>2, <1>3, PickedItems
<1> HIDE DEF rest
<1>6. \A m \in DOMAIN rest : \E i \in K : rest[m] = hs[i]
  BY <1>5 DEF ToSet
<1>7. \A m, n \in DOMAIN rest : rest[m].id = rest[n].id => m = n
  <2> SUFFICES ASSUME NEW m \in DOMAIN rest, NEW n \in DOMAIN rest, rest[m].id = rest[n].id PROVE m = n
    OBVIOUS
  <2>1. PICK i \in K : rest[m] = hs[i]
    BY <1>6
  <2>2. PICK j \in K : rest[n] = hs[j]
    BY <1>6
  <2>3. i = j
    BY <1>2, <1>3, <2>1, <2>2, <1>1
  <2> QED BY <1>5, <2>1, <2>2, <2>3 DEF IsInjective
<1>8. Blocks(rest)
  BY <1>5, <1>7, BlocksApart DEF Blocks
<1>9. \A m \in DOMAIN extra, n \in DOMAIN rest : extra[m].id # rest[n].id
  <2>1. \A m \in DOMAIN extra : extra[m].id \in ToSet(Ids(extra))
    BY DEF ToSet, Ids
  <2> QED BY <1>3, <1>6, <2>1
<1>10. Blocks(extra \o rest)
  BY <1>8, <1>9, JoinedBlocks
<1> QED BY <1>4, <1>10

LEMMA NoBlocks == Blocks(<<>>)
<1>1. <<>> \in Seq(Block) /\ DOMAIN <<>> = {}
  OBVIOUS
<1> QED BY <1>1, BlocksApart DEF Blocks

(* More of a document or two.                                              *)
Extra(docs, rs) == FlattenSeq([i \in DOMAIN docs |-> OfDoc(rs[i].ids, docs[i])])

LEMMA ExtraHolds ==
    ASSUME NEW S, NEW docs \in Seq(S), IsInjective(docs), Len(docs) <= 2, NEW rs \in [DOMAIN docs -> Reply]
    PROVE  Blocks(Extra(docs, rs))
<1> DEFINE x(i) == OfDoc(rs[i].ids, docs[i])
           seqs == [i \in DOMAIN docs |-> x(i)]
<1>1. PICK n \in Nat : n = Len(docs) /\ DOMAIN docs = 1..n
  OBVIOUS
<1>2. ASSUME NEW i \in 1..n PROVE Blocks(x(i)) /\ \A m \in DOMAIN x(i) : DocOf[x(i)[m].id] = docs[i]
  <2>1. rs[i].ids \in Seq(Chunks) /\ IsInjective(rs[i].ids)
    BY <1>1, ChatAssumption DEF Reply
  <2> QED BY <2>1, OfDocHolds
<1> HIDE DEF x
<1>3. CASE n = 0
  <2>1. seqs = <<>>
    BY <1>1, <1>3
  <2>2. Blocks(FlattenSeq(<<>>))
    BY FlattenOfNone, NoBlocks
  <2> QED BY <2>1, <2>2 DEF Extra, x
<1>4. CASE n = 1
  <2>1. seqs = <<x(1)>> /\ 1 \in 1..n
    BY <1>1, <1>4
  <2>2. Blocks(x(1)) /\ x(1) \in Seq(Block)
    BY <1>2, <2>1 DEF Blocks
  <2>3. FlattenSeq(<<x(1)>>) = x(1)
    BY <2>2, FlattenOfOne
  <2> HIDE DEF seqs
  <2>4. Blocks(FlattenSeq(seqs))
    BY <2>1, <2>2, <2>3
  <2> QED BY <2>4 DEF Extra, x, seqs
<1>5. CASE n = 2
  <2>1. seqs = <<x(1), x(2)>> /\ 1 \in 1..n /\ 2 \in 1..n
    BY <1>1, <1>5
  <2>2. Blocks(x(1)) /\ x(1) \in Seq(Block) /\ Blocks(x(2)) /\ x(2) \in Seq(Block)
    BY <1>2, <2>1 DEF Blocks
  <2>3. FlattenSeq(<<x(1), x(2)>>) = x(1) \o x(2)
    BY <2>2, FlattenOfTwo
  <2>4. docs[1] # docs[2]
    BY <1>1, <2>1 DEF IsInjective
  <2>5. \A i \in DOMAIN x(1), j \in DOMAIN x(2) : x(1)[i].id # x(2)[j].id
    BY <1>2, <2>1, <2>4
  <2>6. Blocks(x(1) \o x(2))
    BY <2>2, <2>5, JoinedBlocks
  <2> HIDE DEF seqs
  <2>7. Blocks(FlattenSeq(seqs))
    BY <2>1, <2>3, <2>6
  <2> QED BY <2>7 DEF Extra, x, seqs
<1>6. n = 0 \/ n = 1 \/ n = 2
  BY <1>1
<1> QED BY <1>3, <1>4, <1>5, <1>6

-----------------------------------------------------------------------------
(* The context.                                                            *)

LEMMA LongIsPositive == \A h \in Block : Long(h) \in Nat \ {0}
<1> SUFFICES ASSUME NEW h \in Block PROVE Long(h) \in Nat \ {0}
  OBVIOUS
<1>1. h.size \in Nat \ {0} /\ PerChunk \in Nat \ {0}
  BY LimitsArePositive DEF Block
<1> QED BY <1>1 DEF Long, Smaller

(* The hits of a document in the order of their chunks.                    *)
ByIndex(list) == Ranked(list, LAMBDA g, h : Index[g.id] < Index[h.id])

LEMMA RankedByIndex ==
    ASSUME NEW S, NEW list \in Seq(S), \A h \in S : Index[h.id] \in Int
    PROVE  ByIndex(list) \in Seq(S) /\ Len(ByIndex(list)) = Len(list)
<1> DEFINE f == [h \in S |-> 0 - Index[h.id]]
           l == ByValue(list, f)
<1>1. \A h \in S : f[h] \in Int
  OBVIOUS
<1>2. PICK n \in Nat : n = Len(list) /\ DOMAIN list = 1..n /\ \A i \in 1..n : list[i] \in S
  OBVIOUS
<1>3. \A g, h \in S : f[g] > f[h] <=> Index[g.id] < Index[h.id]
  OBVIOUS
<1>4. ByIndex(list) = l
  <2> DEFINE Ahead1(i) == {j \in 1..n : Index[list[j].id] < Index[list[i].id] \/ (j < i /\ ~(Index[list[i].id] < Index[list[j].id]))}
             Nearer(i) == {j \in 1..n : f[list[j]] > f[list[i]] \/ (j < i /\ ~(f[list[i]] > f[list[j]]))}
             p == [m \in 1..n |-> CHOOSE i \in 1..n : Cardinality(Ahead1(i)) = m - 1]
             q == [m \in 1..n |-> CHOOSE i \in 1..n : Cardinality(Nearer(i)) = m - 1]
  <2> HIDE DEF f
  <2>1. \A i \in 1..n : Ahead1(i) = Nearer(i)
    BY <1>2, <1>3
  <2>2. ByIndex(list) = [m \in 1..n |-> list[p[m]]]
    BY <1>2 DEF ByIndex, Ranked
  <2>3. l = [m \in 1..n |-> list[q[m]]]
    BY <1>2 DEF ByValue, Ranked
  <2> HIDE DEF Ahead1, Nearer
  <2>4. \A m \in 1..n : p[m] = q[m]
    BY <2>1
  <2> HIDE DEF p, q, l
  <2> QED BY <2>2, <2>3, <2>4
<1> HIDE DEF f
<1>5. l \in Seq(S) /\ Len(l) = Len(list)
  BY <1>1, RankedByValue
<1> QED BY <1>4, <1>5

KeysIn(hs) == [i \in DOMAIN hs |-> Key(hs[i].id)]

(* A segment: some hits of one key, and one at least.                      *)
Segment(hs, k) == UpTo(ByIndex(At(hs, {i \in DOMAIN hs : Key(hs[i].id) = k})), MaxSegment)

LEMMA SegmentHolds ==
    ASSUME NEW hs \in Seq(Block), NEW k \in ToSet(KeysIn(hs))
    PROVE  /\ Segment(hs, k) \in Seq({h \in Block : Key(h.id) = k})
           /\ Len(Segment(hs, k)) # 0
<1> DEFINE S == {h \in Block : Key(h.id) = k}
           K == {i \in DOMAIN hs : Key(hs[i].id) = k}
           own == At(hs, K)
           list == ByIndex(own)
<1>1. K \in SUBSET (1..Len(hs)) /\ K # {} /\ \A i \in K : hs[i] \in S
  BY DEF ToSet, KeysIn
<1>2. \A h \in S : Index[h.id] \in Int
  BY ChatAssumption DEF Block
<1>3. MaxSegment \in Nat \ {0}
  BY LimitsArePositive
<1>4. Segment(hs, k) = UpTo(list, MaxSegment)
  BY DEF Segment
<1> HIDE DEF K, S
<1>5. own \in Seq(Block) /\ ToSet(own) = {hs[i] : i \in K} /\ own # <<>>
  <2>1. own \in Seq(Block) /\ ToSet(own) = {hs[i] : i \in K} /\ (own = <<>> <=> K = {})
    BY <1>1, PickedItems
  <2> QED BY <1>1, <2>1
<1>6. own \in Seq(S)
  <2>1. ToSet(own) \subseteq S
    BY <1>1, <1>5
  <2> QED BY <1>5, <2>1, ListOf
<1> HIDE DEF own
<1>7. list \in Seq(S) /\ Len(list) = Len(own)
  BY <1>2, <1>6, RankedByIndex
<1>8. Len(own) # 0 /\ Len(own) \in Nat
  BY <1>5
<1> HIDE DEF list
<1>9. UpTo(list, MaxSegment) \in Seq(S)
  BY <1>3, <1>7, CutHolds
<1>10. Len(UpTo(list, MaxSegment)) = MaxSegment \/ UpTo(list, MaxSegment) = list
  BY <1>3, <1>7, CutLength
<1> QED BY <1>3, <1>4, <1>7, <1>8, <1>9, <1>10 DEF S

LEMMA StitchedHolds == ASSUME NEW hs, Blocks(hs) PROVE Blocks(Stitched(hs))
<1> DEFINE S == ToSet(KeysIn(hs))
           keys == Distinct(KeysIn(hs))
           G(i) == Segment(hs, keys[i])
           block(i) == [id |-> G(i)[1].id, size |-> SumFunction([n \in DOMAIN G(i) |-> Long(G(i)[n])])]
<1>1. hs \in Seq(Block)
  BY DEF Blocks
<1>2. keys \in Seq(S) /\ IsInjective(keys) /\ ToSet(keys) = S
  <2>1. PICK n \in Nat : n = Len(hs) /\ DOMAIN hs = 1..n
    BY <1>1
  <2>2. KeysIn(hs) \in [1..n -> S]
    BY <2>1 DEF KeysIn, ToSet
  <2>3. KeysIn(hs) \in Seq(S)
    BY <2>2
  <2> QED BY <2>3, DistinctHolds
<1>3. Stitched(hs) = [i \in DOMAIN keys |-> block(i)]
  BY DEF Stitched, Segment, ByIndex, KeysIn
<1>4. PICK m \in Nat : m = Len(keys) /\ DOMAIN keys = 1..m
  BY <1>2
<1> HIDE DEF keys, S
<1>5. ASSUME NEW i \in 1..m PROVE block(i) \in Block /\ Key(block(i).id) = keys[i]
  <2> DEFINE T == {h \in Block : Key(h.id) = keys[i]}
             e == [n \in DOMAIN G(i) |-> Long(G(i)[n])]
  <2>1. keys[i] \in ToSet(KeysIn(hs))
    BY <1>2, <1>4 DEF ToSet, S
  <2>2. G(i) \in Seq(T) /\ Len(G(i)) # 0
    BY <1>1, <2>1, SegmentHolds
  <2> HIDE DEF G
  <2>3. PICK n \in Nat \ {0} : n = Len(G(i)) /\ DOMAIN G(i) = 1..n /\ \A j \in 1..n : G(i)[j] \in T
    BY <2>2
  <2>4. e \in [1..n -> Nat \ {0}]
    BY <2>3, LongIsPositive
  <2>5. G(i)[1] \in T
    BY <2>3
  <2> HIDE DEF e
  <2>6. SumFunction(e) \in Nat \ {0}
    BY <2>4, SumIsPositive
  <2>7. block(i) = [id |-> G(i)[1].id, size |-> SumFunction(e)]
    BY DEF e
  <2> HIDE DEF block
  <2> QED BY <2>5, <2>6, <2>7 DEF Block
<1> HIDE DEF block, G
<1>6. Stitched(hs) \in Seq(Block) /\ DOMAIN Stitched(hs) = 1..m /\ \A i \in 1..m : Key(Stitched(hs)[i].id) = keys[i]
  <2>1. Stitched(hs) \in [1..m -> Block]
    BY <1>3, <1>4, <1>5
  <2> QED BY <1>3, <1>4, <1>5, <2>1
<1>7. \A i, j \in 1..m : Stitched(hs)[i].id = Stitched(hs)[j].id => i = j
  BY <1>2, <1>4, <1>6 DEF IsInjective
<1> QED BY <1>6, <1>7, BlocksApart DEF Blocks

(* Hits, the blocks of a prompt and the documents of the sources that go   *)
(* together: a block for each hit, within the budget, with the number of a *)
(* source that is the hit's, and at most one source beyond, the last.      *)
ContextFits(ks, ps, ss) ==
    /\ ps = [i \in DOMAIN ks |-> [id |-> ks[i].id, ref |-> Ref(ss, ks[i].id), size |-> Long(ks[i])]]
    /\ SumFunction([i \in DOMAIN ks |-> Header + Long(ks[i])]) <= MaxChars
    /\ ToSet(DocsIn(ks)) \subseteq ToSet(ss)
    /\ \A i \in DOMAIN ss : i < Len(ss) => ss[i] \in ToSet(DocsIn(ks))

(* The blocks of a prompt.                                                 *)
PromptBlock == [id : Chunks, ref : Nat, size : Nat \ {0}]
Prompts == Seq(PromptBlock)

(* A list is a function from the numbers up to some n.                     *)
LEMMA ListItems ==
    ASSUME NEW S
    PROVE  /\ \A n \in Nat : \A s \in [1..n -> S] : s \in Seq(S) /\ Len(s) = n
           /\ \A s \in Seq(S) : \A i \in DOMAIN s : s[i] \in S
OBVIOUS

(* What fits goes on to, while nothing of it changes.                      *)
LEMMA FitsStill ==
    ASSUME ContextFits(kept, prompt, sources), UNCHANGED <<set, kept, prompt, sources>>
    PROVE  ContextFits(kept, prompt, sources)'
BY DEF ContextFits, Long, Factoid

(* The number of a source is its place.                                    *)
LEMMA RefNames ==
    ASSUME NEW S, NEW ss \in Seq(S), NEW c
    PROVE  /\ Ref(ss, c) \in Nat
           /\ DocOf[c] \in ToSet(ss) => Ref(ss, c) \in DOMAIN ss /\ ss[Ref(ss, c)] = DocOf[c]
<1> DEFINE I == {j \in 1..Len(ss) : ss[j] = DocOf[c]}
<1>1. Ref(ss, c) = IF I # {} THEN Min(I) ELSE 0
  BY DEF SelectInSeq, Ref
<1>2. I \in SUBSET Nat /\ I \in SUBSET DOMAIN ss /\ \A j \in I : ss[j] = DocOf[c]
  OBVIOUS
<1>3. DocOf[c] \in ToSet(ss) => I # {}
  BY DEF ToSet
<1> HIDE DEF I
<1>4. I # {} => Min(I) \in I
  BY <1>2, MinIsLeast
<1>5. CASE I # {}
  <2>1. Ref(ss, c) \in I
    BY <1>1, <1>4, <1>5
  <2> QED BY <1>2, <2>1
<1>6. CASE I = {}
  <2>1. Ref(ss, c) = 0
    BY <1>1, <1>6
  <2> QED BY <1>3, <1>6, <2>1
<1> QED BY <1>5, <1>6

LEMMA PromptHolds ==
    ASSUME NEW ks, Blocks(ks), NEW ss \in Seq(STRING), NEW ps, ContextFits(ks, ps, ss)
    PROVE  ps \in Prompts
<1>1. PICK n \in Nat : DOMAIN ks = 1..n /\ \A i \in 1..n : ks[i] \in Block
  BY DEF Blocks
<1>2. \A i \in 1..n : Ref(ss, ks[i].id) \in Nat
  BY RefNames
<1>3. \A i \in 1..n : Long(ks[i]) \in Nat \ {0} /\ ks[i].id \in Chunks
  BY <1>1, LongIsPositive DEF Block
<1>4. ps \in [1..n -> PromptBlock]
  BY <1>1, <1>2, <1>3 DEF ContextFits, PromptBlock
<1> QED BY <1>4, ListItems DEF Prompts

(* The sources of the blocks up to one that did not fit.                   *)
LEMMA SourcesHold ==
    ASSUME NEW blocks \in Seq(Block), NEW k \in 0..Len(blocks)
    PROVE  LET ks == SubSeq(blocks, 1, k)
               ss == Distinct(DocsIn(UpTo(blocks, k + 1)))
           IN  /\ ss \in Seq(STRING) /\ IsInjective(ss)
               /\ ToSet(DocsIn(ks)) \subseteq ToSet(ss)
               /\ Len(ss) <= Cardinality(ToSet(DocsIn(ks))) + 1
               /\ \A i \in DOMAIN ss : i < Len(ss) => ss[i] \in ToSet(DocsIn(ks))
<1> DEFINE ks == SubSeq(blocks, 1, k)
           first == UpTo(blocks, k + 1)
           ss == Distinct(DocsIn(first))
           D == Distinct(DocsIn(ks))
<1>0. PICK S : S = STRING
  OBVIOUS
<1>1. PICK n \in Nat : n = Len(blocks) /\ DOMAIN blocks = 1..n /\ \A i \in 1..n : blocks[i] \in Block
  OBVIOUS
<1>2. k \in Nat /\ k <= n
  BY <1>1
<1>3. ks = [i \in 1..k |-> blocks[i]]
  BY <1>1, <1>2
<1>4. ks \in Seq(Block) /\ Len(ks) = k /\ DOMAIN ks = 1..k
  <2>0. \A i \in 1..k : i \in 1..n
    BY <1>2
  <2> HIDE DEF ks
  <2>1. ks \in [1..k -> Block]
    BY <1>1, <1>3, <2>0
  <2> QED BY <1>2, <2>1
<1>5. first \in Seq(Block)
  BY <1>2, CutHolds
<1> HIDE DEF ks
<1>6. DocsIn(ks) \in Seq(S) /\ DocsIn(first) \in Seq(S)
  <2> HIDE DEF first
  <2> QED BY <1>0, <1>4, <1>5, BlocksApart
<1>7. D \in Seq(S) /\ IsInjective(D) /\ ToSet(D) = ToSet(DocsIn(ks))
  BY <1>6, DistinctHolds
<1>8. ss \in Seq(S) /\ IsInjective(ss) /\ ToSet(ss) = ToSet(DocsIn(first))
  <2> HIDE DEF first
  <2> QED BY <1>6, DistinctHolds
<1>9. Cardinality(ToSet(DocsIn(ks))) = Len(D) /\ Len(D) \in Nat
  <2> HIDE DEF D
  <2> QED BY <1>7, LengthOfDistinct
<1>10. CASE k = n
  <2>1. first = blocks /\ ks = blocks
    <3>1. first = SubSeq(blocks, 1, n)
      BY <1>1, <1>10 DEF UpTo
    <3>2. SubSeq(blocks, 1, n) = [i \in 1..n |-> blocks[i]]
      BY <1>1
    <3>3. blocks = [i \in 1..n |-> blocks[i]]
      BY <1>1
    <3> QED BY <1>3, <1>10, <3>1, <3>2, <3>3
  <2>2. ss = D
    BY <2>1
  <2>3. \A i \in DOMAIN D : D[i] \in ToSet(D)
    BY DEF ToSet
  <2> HIDE DEF ss, D, first
  <2> QED BY <1>0, <1>7, <1>8, <1>9, <2>2, <2>3 DEF ss, first, ks
<1>11. CASE k # n
  <2> DEFINE c == DocOf[blocks[k + 1].id]
  <2>1. k + 1 \in 1..n /\ k + 1 <= n /\ k + 1 \in Nat
    BY <1>2, <1>11
  <2>2. c \in S
    <3>1. blocks[k + 1].id \in Chunks
      BY <1>1, <2>1 DEF Block
    <3> QED BY <1>0, <3>1, ChatAssumption
  <2>3. first = [i \in 1..k + 1 |-> blocks[i]]
    <3>1. first = SubSeq(blocks, 1, k + 1)
      BY <1>1, <2>1 DEF UpTo
    <3> QED BY <1>1, <2>1, <3>1
  <2>4. DocsIn(first) = [i \in 1..k + 1 |-> DocOf[blocks[i].id]]
    BY <2>3 DEF DocsIn
  <2>5. DocsIn(ks) = [i \in 1..k |-> DocOf[blocks[i].id]]
    BY <1>3, <1>4 DEF DocsIn
  <2>6. DocsIn(first) = Append(DocsIn(ks), c)
    <3> HIDE DEF first
    <3>1. PICK a \in Seq(S) : a = DocsIn(ks)
      BY <1>6
    <3>2. PICK b \in Seq(S) : b = DocsIn(first)
      BY <1>6
    <3>3. Len(a) = k /\ Len(b) = k + 1
      BY <1>2, <2>1, <2>4, <2>5, <3>1, <3>2
    <3>4. \A i \in 1..k : b[i] = a[i]
      BY <1>2, <2>4, <2>5, <3>1, <3>2
    <3>5. b[k + 1] = c
      BY <2>1, <2>4, <3>2
    <3> HIDE DEF c
    <3>6. b = Append(a, c)
      <4>1. PICK e \in Seq(S) : e = Append(a, c)
        BY <2>2, <3>1, AppendProperties
      <4>2. Len(e) = k + 1 /\ (\A i \in 1..k : e[i] = a[i]) /\ e[k + 1] = c
        <5>1. /\ Len(Append(a, c)) = Len(a) + 1 /\ Append(a, c)[Len(a) + 1] = c
              /\ \A i \in 1..Len(a) : Append(a, c)[i] = a[i]
          BY <2>2, <3>1
        <5> QED BY <3>3, <4>1, <5>1
      <4>3. \A i \in 1..k + 1 : i \in 1..k \/ i = k + 1
        BY <1>2
      <4>4. \A i \in 1..Len(b) : b[i] = e[i]
        BY <3>3, <3>4, <3>5, <4>2, <4>3
      <4> QED BY <3>3, <4>1, <4>2, <4>4, SeqEqual
    <3> QED BY <3>1, <3>2, <3>6
  <2> HIDE DEF c
  <2>7. ss = More(D, c)
    <3> HIDE DEF first
    <3> QED BY <1>6, <2>2, <2>6, DistinctOfMore
  <2>8. ss = D \/ ss = Append(D, c)
    BY <2>7 DEF More
  <2> HIDE DEF ss, D
  <2>9. PICK m \in Nat : m = Len(D) /\ DOMAIN D = 1..m
    BY <1>7
  <2>10. PICK e : e = Append(D, c)
    OBVIOUS
  <2>11. e \in Seq(S) /\ Len(e) = m + 1 /\ \A i \in 1..m : e[i] = D[i]
    <3>1. /\ Append(D, c) \in Seq(S) /\ Len(Append(D, c)) = Len(D) + 1
          /\ \A i \in 1..Len(D) : Append(D, c)[i] = D[i]
      BY <1>7, <2>2
    <3> QED BY <2>9, <2>10, <3>1
  <2>12. DOMAIN e = 1..m + 1
    BY <2>11
  <2>13. (Len(ss) = m \/ Len(ss) = m + 1) /\ DOMAIN ss = 1..Len(ss) /\ \A i \in 1..m : ss[i] = D[i]
    BY <1>7, <2>8, <2>9, <2>10, <2>11, <2>12
  <2>14. Len(ss) <= Len(D) + 1 /\ \A i \in DOMAIN ss : i < Len(ss) => i \in DOMAIN D /\ ss[i] = D[i]
    <3>1. PICK w \in Nat : w = Len(ss) /\ (w = m \/ w = m + 1)
      <4>1. m \in Nat /\ m + 1 \in Nat
        BY <2>9
      <4> QED BY <2>13, <4>1
    <3>2. \A i \in 1..w : i < w => i \in 1..m
      BY <2>9, <3>1
    <3>3. w <= m + 1
      BY <2>9, <3>1
    <3> QED BY <2>9, <2>13, <3>1, <3>2, <3>3
  <2>15. ToSet(D) \subseteq ToSet(ss)
    <3>1. \A i \in DOMAIN D : i \in DOMAIN ss /\ ss[i] = D[i]
      <4>1. 1..m \subseteq 1..m /\ 1..m \subseteq 1..m + 1
        BY <2>9
      <4>2. 1..m \subseteq 1..Len(ss)
        <5>1. CASE Len(ss) = m
          BY <5>1
        <5>2. CASE Len(ss) = m + 1
          BY <4>1, <5>2
        <5> QED BY <2>13, <5>1, <5>2
      <4> QED BY <2>9, <2>13, <4>2
    <3> QED BY <3>1 DEF ToSet
  <2>16. \A i \in DOMAIN D : D[i] \in ToSet(D)
    BY DEF ToSet
  <2> QED BY <1>0, <1>7, <1>8, <1>9, <2>14, <2>15, <2>16 DEF ss, ks
<1> QED BY <1>0, <1>10, <1>11

LEMMA BuiltHolds ==
    ASSUME NEW hs, Blocks(hs)
    PROVE  LET b == Built(hs)
           IN  /\ Blocks(b.kept) /\ b.sources \in Seq(STRING) /\ IsInjective(b.sources)
               /\ b.prompt \in Prompts /\ ContextFits(b.kept, b.prompt, b.sources)
<1> DEFINE blocks == IF set.stitch = "no" THEN hs ELSE Stitched(hs)
           Total(n) == SumFunction([i \in 1..n |-> Header + Long(blocks[i])])
           T == {n \in 0..Len(blocks) : Total(n) <= MaxChars}
           k == Max(T)
           ks == SubSeq(blocks, 1, k)
           ss == Distinct(DocsIn(UpTo(blocks, k + 1)))
           ps == [i \in 1..k |-> [id |-> blocks[i].id, ref |-> Ref(ss, blocks[i].id), size |-> Long(blocks[i])]]
<1>1. Blocks(blocks)
  BY StitchedHolds
<1>2. Built(hs).kept = ks /\ Built(hs).sources = ss /\ Built(hs).prompt = ps
  BY DEF Built
<1> HIDE DEF blocks
<1>3. blocks \in Seq(Block) /\ IsInjective(Ids(blocks)) /\ Len(blocks) \in Nat
  BY <1>1 DEF Blocks
<1>4. Total(0) = 0
  <2> DEFINE f == [i \in 1..0 |-> Header + Long(blocks[i])]
  <2>1. DOMAIN f = {}
    OBVIOUS
  <2> HIDE DEF f
  <2>2. SumFunction(f) = 0
    BY <2>1, SumOfEmpty
  <2> QED BY <2>2 DEF f
<1> HIDE DEF Total
<1>5. T \in SUBSET (0..Len(blocks)) /\ 0 \in T
  BY <1>3, <1>4, LimitsArePositive
<1>6. k \in T
  <2> HIDE DEF T
  <2> QED BY <1>3, <1>5, MaxIsMost
<1>7. k \in 0..Len(blocks) /\ Total(k) <= MaxChars
  BY <1>6
<1> HIDE DEF k, T
<1>8. /\ ss \in Seq(STRING) /\ IsInjective(ss)
      /\ ToSet(DocsIn(ks)) \subseteq ToSet(ss)
      /\ Len(ss) <= Cardinality(ToSet(DocsIn(ks))) + 1
      /\ \A i \in DOMAIN ss : i < Len(ss) => ss[i] \in ToSet(DocsIn(ks))
  BY <1>3, <1>7, SourcesHold
<1>9. PICK n \in Nat : n = Len(blocks) /\ DOMAIN blocks = 1..n /\ \A i \in 1..n : blocks[i] \in Block
  BY <1>3
<1>10. k \in Nat /\ k <= n
  BY <1>7, <1>9
<1>11. ks = [i \in 1..k |-> blocks[i]]
  BY <1>3, <1>9, <1>10
<1>12. ks \in Seq(Block) /\ DOMAIN ks = 1..k
  <2>0. \A i \in 1..k : i \in 1..n
    BY <1>10
  <2> HIDE DEF ks
  <2>1. ks \in [1..k -> Block]
    BY <1>9, <1>11, <2>0
  <2> QED BY <1>10, <2>1
<1>13. Blocks(ks)
  <2>1. \A i, j \in DOMAIN blocks : blocks[i].id = blocks[j].id => i = j
    BY <1>3, BlocksApart
  <2>2. \A i, j \in 1..k : ks[i].id = ks[j].id => i = j
    <3> SUFFICES ASSUME NEW i \in 1..k, NEW j \in 1..k, ks[i].id = ks[j].id PROVE i = j
      OBVIOUS
    <3>1. i \in 1..n /\ j \in 1..n
      BY <1>10
    <3> QED BY <1>9, <1>11, <2>1, <3>1
  <2> HIDE DEF ks
  <2> QED BY <1>12, <2>2, BlocksApart DEF Blocks
<1>14. SumFunction([i \in DOMAIN ks |-> Header + Long(ks[i])]) = Total(k)
  <2>1. \A i \in 1..k : Header + Long(ks[i]) = Header + Long(blocks[i])
    BY <1>11
  <2>2. [i \in DOMAIN ks |-> Header + Long(ks[i])] = [i \in 1..k |-> Header + Long(blocks[i])]
    BY <1>12, <2>1
  <2> QED BY <2>2 DEF Total
<1>15. ps = [i \in DOMAIN ks |-> [id |-> ks[i].id, ref |-> Ref(ss, ks[i].id), size |-> Long(ks[i])]]
  <2>1. \A i \in 1..k : ks[i] = blocks[i]
    BY <1>11
  <2> HIDE DEF ks, ss
  <2> QED BY <1>12, <2>1
<1> HIDE DEF ks, ss, ps
<1>16. ContextFits(ks, ps, ss)
  BY <1>7, <1>8, <1>14, <1>15 DEF ContextFits
<1>17. ps \in Prompts
  BY <1>8, <1>13, <1>16, PromptHolds
<1> QED BY <1>2, <1>8, <1>13, <1>16, <1>17

-----------------------------------------------------------------------------
(* The inductive invariant.                                                *)

ChatStages == {"retrieve", "variants", "anchor", "expand", "context", "llm", "redo", "answered", "failed"}

(* The hits and the blocks are of different chunks, and the flag tells of  *)
(* what was heard.                                                         *)
BlocksInv ==
    /\ set \in Settings /\ stage \in ChatStages
    /\ Blocks(hits) /\ Blocks(kept) /\ prompt \in Prompts /\ shown \in Prompts
    /\ sources \in Seq(STRING) /\ IsInjective(sources)
    /\ merged \in Seq(Lists \cup Seq(Chunks))
    /\ partial \in BOOLEAN /\ heard = partial

(* The hits the anchor is merged with have whole shares, and what it keeps *)
(* of them it keeps in order.                                              *)
AnchorInv ==
    /\ stage \in {"variants", "anchor"} => Whole(Ids(hits))
    /\ stage \in {"retrieve", "variants", "anchor"} => merged = <<>>
    /\ stage = "expand" /\ merged # <<>> => KeepsAhead(Ids(hits), merged)

(* From the first context on there is one that fits, and an answer was     *)
(* written from its prompt.                                                *)
ContextInv ==
    /\ stage \in {"llm", "redo", "answered"} => ContextFits(kept, prompt, sources)
    /\ stage \in {"redo", "answered"} => shown = prompt

ChatIInv == BlocksInv /\ AnchorInv /\ ContextInv

LEMMA InitChat == ChatInit => ChatIInv
<1> SUFFICES ASSUME ChatInit PROVE ChatIInv
  OBVIOUS
<1>1. /\ set \in Settings /\ stage = "retrieve"
      /\ hits = <<>> /\ partial = FALSE /\ heard = FALSE /\ merged = <<>>
      /\ kept = <<>> /\ prompt = <<>> /\ sources = <<>> /\ shown = <<>>
  BY DEF ChatInit
<1>2. BlocksInv
  <2>1. <<>> \in Prompts /\ <<>> \in Seq(STRING) /\ <<>> \in Seq(Lists \cup Seq(Chunks))
    BY DEF Prompts
  <2>2. IsInjective(<<>>)
    <3>1. DOMAIN <<>> = {}
      OBVIOUS
    <3> QED BY <3>1 DEF IsInjective
  <2> QED BY <1>1, <2>1, <2>2, NoBlocks DEF BlocksInv, ChatStages
<1>3. AnchorInv /\ ContextInv
  BY <1>1 DEF AnchorInv, ContextInv
<1> QED BY <1>2, <1>3 DEF ChatIInv

LEMMA FailKeeps == ChatIInv /\ Fail /\ UNCHANGED set => ChatIInv'
BY DEF ChatIInv, Fail, BlocksInv, AnchorInv, ContextInv, ChatStages

LEMMA SearchKeeps ==
    ASSUME NEW next \in {"variants", "anchor"}, ChatIInv, FirstSearch(next)
    PROVE  ChatIInv'
<1>1. CASE Fail
  BY <1>1, FailKeeps DEF FirstSearch
<1>2. CASE \E r \in Reply :
             Take(r.ids) /\ Flag(r.partial) /\ stage' = next /\ UNCHANGED <<kept, prompt, sources, shown, merged>>
  <2>1. PICK r \in Reply :
             Take(r.ids) /\ Flag(r.partial) /\ stage' = next /\ UNCHANGED <<kept, prompt, sources, shown, merged>>
    BY <1>2
  <2>2. BlocksInv /\ AnchorInv /\ stage = "retrieve" /\ UNCHANGED set
    BY DEF ChatIInv, FirstSearch
  <2>3. r.ids \in Lists /\ r.ids \in Seq(Chunks) /\ IsInjective(r.ids) /\ r.partial \in BOOLEAN
    BY ChatAssumption DEF Reply
  <2>4. Whole(r.ids)
    BY <2>3, ChatAssumption DEF Whole
  <2>5. Blocks(hits') /\ Ids(hits') = r.ids
    <3>1. hits' = [i \in DOMAIN r.ids |-> Hit(r.ids[i])]
      BY <2>1 DEF Take
    <3> QED BY <2>3, <3>1, TakenAreBlocks
  <2>6. BlocksInv'
    BY <2>1, <2>2, <2>3, <2>5 DEF BlocksInv, Flag, ChatStages
  <2>7. AnchorInv' /\ ContextInv'
    BY <2>1, <2>2, <2>4, <2>5 DEF AnchorInv, ContextInv
  <2> QED BY <2>6, <2>7 DEF ChatIInv
<1> QED BY <1>1, <1>2 DEF FirstSearch

LEMMA RetrieveKeeps == ChatIInv /\ (Retrieve \/ StreamRetrieve) => ChatIInv'
<1>1. ChatIInv /\ Retrieve => ChatIInv'
  <2> SUFFICES ASSUME ChatIInv, Retrieve PROVE ChatIInv'
    OBVIOUS
  <2>1. PICK next \in {"variants", "anchor"} : FirstSearch(next)
    BY DEF Retrieve
  <2> QED BY <2>1, SearchKeeps
<1>2. ChatIInv /\ StreamRetrieve => ChatIInv'
  BY SearchKeeps DEF StreamRetrieve
<1> QED BY <1>1, <1>2

LEMMA VariantsKeep == ChatIInv /\ VariantSearches => ChatIInv'
<1> SUFFICES ASSUME ChatIInv, VariantSearches PROVE ChatIInv'
  OBVIOUS
<1>1. PICK v \in 1..Variants, hint \in 0..1 :
         \E rs \in [1..Smaller(MaxQueries, v + hint) -> Reply] :
              /\ Take(MultiQuery(<<Ids(hits)>> \o [i \in DOMAIN rs |-> rs[i].ids]))
              /\ partial' = (partial \/ \E i \in DOMAIN rs : rs[i].partial)
              /\ heard' = (heard \/ \E i \in DOMAIN rs : rs[i].partial)
  <2>1. \E v \in 1..Variants, hint \in 0..(IF set.twoPass /\ Cardinality(ToSet(DocsIn(hits))) < MinDocs THEN 1 ELSE 0) :
         \E rs \in [1..Smaller(MaxQueries, v + hint) -> Reply] :
              /\ Take(MultiQuery(<<Ids(hits)>> \o [i \in DOMAIN rs |-> rs[i].ids]))
              /\ partial' = (partial \/ \E i \in DOMAIN rs : rs[i].partial)
              /\ heard' = (heard \/ \E i \in DOMAIN rs : rs[i].partial)
    BY DEF VariantSearches
  <2>2. ASSUME NEW p PROVE 0..(IF p THEN 1 ELSE 0) \subseteq 0..1
    OBVIOUS
  <2> QED BY <2>1, <2>2
<1>2. PICK m \in Nat : m = Smaller(MaxQueries, v + hint)
  BY LimitsArePositive DEF Smaller
<1>3. PICK rs \in [1..m -> Reply] :
              /\ Take(MultiQuery(<<Ids(hits)>> \o [i \in DOMAIN rs |-> rs[i].ids]))
              /\ partial' = (partial \/ \E i \in DOMAIN rs : rs[i].partial)
              /\ heard' = (heard \/ \E i \in DOMAIN rs : rs[i].partial)
  BY <1>1, <1>2
<1>4. /\ BlocksInv /\ AnchorInv /\ stage = "variants" /\ stage' = "anchor"
      /\ UNCHANGED <<set, kept, prompt, sources, shown, merged>>
  BY DEF ChatIInv, VariantSearches
<1> DEFINE more == [i \in DOMAIN rs |-> rs[i].ids]
           lists == <<Ids(hits)>> \o more
           ids == MultiQuery(lists)
<1>5. lists \in [1..m + 1 -> Seq(Chunks)]
  <2>1. more \in [1..m -> Seq(Chunks)]
    BY ChatAssumption DEF Reply
  <2>2. Ids(hits) \in Seq(Chunks)
    BY <1>4, BlocksApart DEF BlocksInv, Blocks
  <2> HIDE DEF more
  <2>3. <<Ids(hits)>> \in Seq(Seq(Chunks)) /\ Len(<<Ids(hits)>>) = 1
    BY <2>2
  <2>4. more \in Seq(Seq(Chunks)) /\ Len(more) = m
    BY <2>1
  <2>5. lists \in Seq(Seq(Chunks)) /\ Len(lists) = 1 + m
    BY <2>3, <2>4, ConcatProperties
  <2> HIDE DEF lists
  <2>6. PICK S : S = Seq(Chunks)
    OBVIOUS
  <2>7. lists \in Seq(S) /\ Len(lists) = m + 1
    BY <2>5, <2>6
  <2> QED BY <2>6, <2>7
<1>6. ids \in Seq(Chunks) /\ IsInjective(ids) /\ Len(ids) <= RawTopK
  <2> HIDE DEF lists
  <2>1. m + 1 \in Nat \ {0}
    OBVIOUS
  <2> QED BY <1>5, <2>1, MultiQueryHolds
<1>7. hits' = [i \in DOMAIN ids |-> Hit(ids[i])]
  BY <1>3 DEF Take
<1> HIDE DEF ids, lists, more
<1>8. Whole(ids)
  <2>1. \A n \in DOMAIN ids : n \in 1..RawTopK
    BY <1>6, LimitsArePositive
  <2> QED BY <1>6, <2>1, ChatAssumption DEF Whole
<1>9. Blocks(hits') /\ Ids(hits') = ids
  BY <1>6, <1>7, TakenAreBlocks
<1>10. partial' \in BOOLEAN /\ heard' = partial'
  BY <1>3, <1>4 DEF BlocksInv
<1>11. BlocksInv'
  BY <1>4, <1>9, <1>10 DEF BlocksInv, ChatStages
<1>12. AnchorInv' /\ ContextInv'
  BY <1>4, <1>8, <1>9 DEF AnchorInv, ContextInv
<1> QED BY <1>11, <1>12 DEF ChatIInv

LEMMA AnchorKeeps == ChatIInv /\ Anchor => ChatIInv'
<1> SUFFICES ASSUME ChatIInv, Anchor PROVE ChatIInv'
  OBVIOUS
<1>1. /\ BlocksInv /\ AnchorInv /\ stage = "anchor" /\ stage' = "expand"
      /\ UNCHANGED <<set, kept, prompt, sources, shown>>
  BY DEF ChatIInv, Anchor
<1>2. CASE UNCHANGED <<hits, partial, merged, heard>>
  <2>1. BlocksInv'
    BY <1>1, <1>2 DEF BlocksInv, ChatStages
  <2>2. AnchorInv' /\ ContextInv'
    BY <1>1, <1>2 DEF AnchorInv, ContextInv
  <2> QED BY <2>1, <2>2 DEF ChatIInv
<1>3. CASE \E r \in Reply :
                /\ r.ids # <<>>
                /\ Take(AnchorMerge(Ids(hits), r.ids))
                /\ merged' = <<Ids(hits), r.ids>>
                /\ partial' = (partial \/ r.partial)
                /\ heard' = (heard \/ r.partial)
  <2>1. PICK r \in Reply :
                /\ Take(AnchorMerge(Ids(hits), r.ids))
                /\ merged' = <<Ids(hits), r.ids>>
                /\ partial' = (partial \/ r.partial)
                /\ heard' = (heard \/ r.partial)
    BY <1>3
  <2> DEFINE ids == AnchorMerge(Ids(hits), r.ids)
  <2>2. r.ids \in Lists /\ r.ids \in Seq(Chunks) /\ IsInjective(r.ids) /\ r.partial \in BOOLEAN
    BY ChatAssumption DEF Reply
  <2>3. Whole(r.ids) /\ Whole(Ids(hits))
    BY <1>1, <2>2, ChatAssumption DEF Whole, AnchorInv
  <2>4. ids \in Seq(Chunks) /\ IsInjective(ids) /\ KeepsAhead(ids, <<Ids(hits), r.ids>>)
    BY <2>3, AnchorHolds
  <2>5. hits' = [i \in DOMAIN ids |-> Hit(ids[i])]
    BY <2>1 DEF Take
  <2> HIDE DEF ids
  <2>6. Blocks(hits') /\ Ids(hits') = ids
    BY <2>4, <2>5, TakenAreBlocks
  <2>7. merged' \in Seq(Lists \cup Seq(Chunks))
    <3>1. Ids(hits) \in Seq(Chunks)
      BY <2>3 DEF Whole
    <3>2. PICK T : T = Lists \cup Seq(Chunks)
      OBVIOUS
    <3>3. Ids(hits) \in T /\ r.ids \in T
      BY <2>2, <3>1, <3>2
    <3> QED BY <2>1, <3>2, <3>3
  <2>8. BlocksInv'
    BY <1>1, <2>1, <2>2, <2>6, <2>7 DEF BlocksInv, ChatStages
  <2>9. AnchorInv' /\ ContextInv'
    BY <1>1, <2>1, <2>4, <2>6 DEF AnchorInv, ContextInv
  <2> QED BY <2>8, <2>9 DEF ChatIInv
<1> QED BY <1>2, <1>3 DEF Anchor

LEMMA ExpandKeeps == ChatIInv /\ Expand => ChatIInv'
<1> SUFFICES ASSUME ChatIInv, Expand PROVE ChatIInv'
  OBVIOUS
<1>1. /\ BlocksInv /\ stage = "expand" /\ stage' = "context" /\ merged' = <<>>
      /\ UNCHANGED <<set, partial, kept, prompt, sources, shown, heard>>
  BY DEF ChatIInv, Expand
<1>2. Blocks(hits')
  <2>1. CASE hits' = hits
    BY <1>1, <2>1 DEF BlocksInv
  <2>2. CASE \E r \in Reply : hits' = Ahead(OfDoc(r.ids, DocOf[hits[1].id]), hits)
    <3>1. PICK r \in Reply : hits' = Ahead(OfDoc(r.ids, DocOf[hits[1].id]), hits)
      BY <2>2
    <3>2. r.ids \in Seq(Chunks) /\ IsInjective(r.ids)
      BY ChatAssumption DEF Reply
    <3>3. Blocks(OfDoc(r.ids, DocOf[hits[1].id])) /\ Blocks(hits)
      BY <1>1, <3>2, OfDocHolds DEF BlocksInv
    <3> QED BY <3>1, <3>3, AheadHolds
  <2> QED BY <2>1, <2>2 DEF Expand
<1>3. <<>> \in Seq(Lists \cup Seq(Chunks))
  OBVIOUS
<1>4. BlocksInv'
  BY <1>1, <1>2, <1>3 DEF BlocksInv, ChatStages
<1>5. AnchorInv' /\ ContextInv'
  BY <1>1 DEF AnchorInv, ContextInv
<1> QED BY <1>4, <1>5 DEF ChatIInv

LEMMA ContextKeeps == ChatIInv /\ Context => ChatIInv'
<1> SUFFICES ASSUME ChatIInv, Context PROVE ChatIInv'
  OBVIOUS
<1>1. /\ BlocksInv /\ stage = "context" /\ stage' = "llm"
      /\ kept' = Built(hits).kept /\ prompt' = Built(hits).prompt /\ sources' = Built(hits).sources
      /\ UNCHANGED <<set, hits, partial, shown, merged, heard>>
  BY DEF ChatIInv, Context
<1> DEFINE b == Built(hits)
<1>2. /\ Blocks(b.kept) /\ b.sources \in Seq(STRING) /\ IsInjective(b.sources)
      /\ b.prompt \in Prompts /\ ContextFits(b.kept, b.prompt, b.sources)
  BY <1>1, BuiltHolds DEF BlocksInv
<1>3. kept' = b.kept /\ prompt' = b.prompt /\ sources' = b.sources
  BY <1>1
<1> HIDE DEF b
<1>4. BlocksInv'
  BY <1>1, <1>2, <1>3 DEF BlocksInv, ChatStages
<1>5. AnchorInv' /\ ContextInv'
  <2>1. ContextFits(kept, prompt, sources)'
    BY <1>1, <1>2, <1>3 DEF ContextFits, Long, Factoid
  <2> QED BY <1>1, <2>1 DEF AnchorInv, ContextInv
<1> QED BY <1>4, <1>5 DEF ChatIInv

LEMMA AnswerKeeps == ChatIInv /\ (Llm \/ Stream) => ChatIInv'
<1> SUFFICES ASSUME ChatIInv, Llm \/ Stream PROVE ChatIInv'
  OBVIOUS
<1>1. BlocksInv /\ ContextInv /\ stage = "llm" /\ UNCHANGED set
  BY DEF ChatIInv, Llm, Stream
<1>2. CASE Fail
  BY <1>1, <1>2, FailKeeps
<1>3. CASE shown' = prompt /\ stage' \in {"answered", "redo"} /\ UNCHANGED <<hits, partial, kept, prompt, sources, merged, heard>>
  <2>1. prompt \in Prompts
    BY <1>1 DEF BlocksInv
  <2>2. BlocksInv'
    BY <1>1, <1>3, <2>1 DEF BlocksInv, ChatStages
  <2>3. AnchorInv' /\ ContextInv'
    BY <1>1, <1>3, FitsStill DEF AnchorInv, ContextInv
  <2> QED BY <2>2, <2>3 DEF ChatIInv
<1> QED BY <1>2, <1>3 DEF Llm, Stream

LEMMA RedoKeeps == ChatIInv /\ Redo => ChatIInv'
<1> SUFFICES ASSUME ChatIInv, Redo PROVE ChatIInv'
  OBVIOUS
<1> DEFINE docs == UpTo(Distinct(DocsIn(kept)), 2)
           b(rs) == Built(Ahead(Extra(docs, rs), kept))
<1>1. BlocksInv /\ AnchorInv /\ ContextInv /\ stage = "redo" /\ UNCHANGED set
  BY DEF ChatIInv, Redo
<1>2. PICK rs \in [DOMAIN docs -> Reply] :
         \/ Fail
         \/ /\ stage' = "answered" /\ UNCHANGED <<hits, partial, merged, heard>>
            /\ UNCHANGED <<kept, prompt, sources, shown>> \/ Swap(b(rs))
  BY DEF Redo, Extra
<1>3. CASE Fail
  BY <1>1, <1>3, FailKeeps
<1>4. CASE stage' = "answered" /\ UNCHANGED <<hits, partial, merged, heard, kept, prompt, sources, shown>>
  <2>1. BlocksInv'
    BY <1>1, <1>4 DEF BlocksInv, ChatStages
  <2>2. AnchorInv' /\ ContextInv'
    BY <1>1, <1>4, FitsStill DEF AnchorInv, ContextInv
  <2> QED BY <2>1, <2>2 DEF ChatIInv
<1>5. CASE stage' = "answered" /\ UNCHANGED <<hits, partial, merged, heard>> /\ Swap(b(rs))
  <2>1. docs \in Seq(STRING) /\ IsInjective(docs) /\ Len(docs) <= 2
    <3> DEFINE all == Distinct(DocsIn(kept))
    <3>1. DocsIn(kept) \in Seq(STRING)
      BY <1>1, BlocksApart DEF BlocksInv, Blocks
    <3>2. all \in Seq(STRING) /\ IsInjective(all)
      BY <3>1, DistinctHolds
    <3>3. 2 \in Nat
      OBVIOUS
    <3> HIDE DEF all
    <3>4. UpTo(all, 2) \in Seq(STRING)
      BY <3>2, <3>3, CutHolds
    <3>5. Len(UpTo(all, 2)) <= 2 /\ IsInjective(UpTo(all, 2))
      BY <3>2, <3>3, CutLength
    <3> QED BY <3>4, <3>5 DEF all
  <2> HIDE DEF docs
  <2>2. Blocks(Extra(docs, rs)) /\ Blocks(kept)
    BY <1>1, <2>1, ExtraHolds DEF BlocksInv
  <2>3. Blocks(Ahead(Extra(docs, rs), kept))
    BY <2>2, AheadHolds
  <2>4. /\ Blocks(b(rs).kept) /\ b(rs).sources \in Seq(STRING) /\ IsInjective(b(rs).sources)
        /\ b(rs).prompt \in Prompts /\ ContextFits(b(rs).kept, b(rs).prompt, b(rs).sources)
    BY <2>3, BuiltHolds
  <2> HIDE DEF b
  <2>5. kept' = b(rs).kept /\ prompt' = b(rs).prompt /\ sources' = b(rs).sources /\ shown' = b(rs).prompt
    BY <1>5 DEF Swap
  <2>6. shown' \in Prompts
    BY <2>4, <2>5
  <2>7. BlocksInv'
    BY <1>1, <1>5, <2>4, <2>5, <2>6 DEF BlocksInv, ChatStages
  <2>8. ContextFits(kept, prompt, sources)'
    BY <1>1, <2>4, <2>5 DEF ContextFits, Long, Factoid
  <2>9. AnchorInv' /\ ContextInv'
    BY <1>1, <1>5, <2>5, <2>8 DEF AnchorInv, ContextInv
  <2> QED BY <2>7, <2>9 DEF ChatIInv
<1> QED BY <1>2, <1>3, <1>4, <1>5

LEMMA ChatStep == ChatIInv /\ [ChatNext]_chatVars => ChatIInv'
<1> SUFFICES ASSUME ChatIInv, [ChatNext]_chatVars PROVE ChatIInv'
  OBVIOUS
<1>1. CASE UNCHANGED chatVars
  <2>1. BlocksInv'
    BY <1>1 DEF chatVars, ChatIInv, BlocksInv
  <2>2. AnchorInv'
    BY <1>1 DEF chatVars, ChatIInv, AnchorInv
  <2>3. ContextInv'
    BY <1>1, FitsStill DEF chatVars, ChatIInv, ContextInv
  <2> QED BY <2>1, <2>2, <2>3 DEF ChatIInv
<1> QED BY <1>1, RetrieveKeeps, VariantsKeep, AnchorKeeps, ExpandKeeps, ContextKeeps, AnswerKeeps, RedoKeeps DEF ChatNext

(* Whatever the searches find, and whichever of them fail, hits and blocks *)
(* stay apart and every context fits (gate/app/main.py, rag.py).           *)
LEMMA ChatInvAlways == ChatSpec => []ChatIInv
BY InitChat, ChatStep, PTL DEF ChatSpec

(* A chunk is among the hits, and in the context, once, and a document     *)
(* among the sources.                                                      *)
THEOREM ChatTypeCorrect == ChatSpec => []ChatTypeOK
<1>1. ChatIInv => ChatTypeOK
  <2> SUFFICES ASSUME ChatIInv PROVE ChatTypeOK
    OBVIOUS
  <2>1. BlocksInv
    BY DEF ChatIInv
  <2>2. Ids(hits) \in Seq(Chunks) /\ IsInjective(Ids(hits)) /\ IsInjective(Ids(kept))
    BY <2>1, BlocksApart DEF BlocksInv, Blocks
  <2>3. ToSet(Ids(hits)) \subseteq Chunks
    BY <2>2 DEF ToSet
  <2>4. \A bs \in {prompt, shown} : \A i \in DOMAIN bs : bs[i] \in [id : Chunks, ref : Nat, size : Nat \ {0}]
    <3>1. prompt \in Prompts /\ shown \in Prompts
      BY <2>1 DEF BlocksInv
    <3>2. \A bs \in {prompt, shown} : \A i \in DOMAIN bs : bs[i] \in PromptBlock
      BY <3>1, ListItems DEF Prompts
    <3> QED BY <3>2 DEF PromptBlock
  <2> QED BY <2>1, <2>2, <2>3, <2>4 DEF ChatTypeOK, BlocksInv, ChatStages
<1> QED BY <1>1, ChatInvAlways, PTL

(* The context returned with an answer is, block for block, the prompt it  *)
(* was written from, cut in the prompt no more than a short question has   *)
(* it; the prompt is within the budget; and where sources are returned its *)
(* numbers are the context's and name the documents, with at most one      *)
(* source more, the last (build_context_blocks; the rebuilds of chat).     *)
THEOREM ContextIsAlwaysTheAnswers == ChatSpec => []ContextIsTheAnswers
<1>1. ChatIInv => ContextIsTheAnswers
  <2> SUFFICES ASSUME ChatIInv, stage = "answered" PROVE ContextIsTheAnswers
    BY DEF ContextIsTheAnswers
  <2>1. ContextFits(kept, prompt, sources) /\ shown = prompt
    BY DEF ChatIInv, ContextInv
  <2>2. PICK n \in Nat : n = Len(kept) /\ DOMAIN kept = 1..n /\ \A i \in 1..n : kept[i] \in Block
    BY DEF ChatIInv, BlocksInv, Blocks
  <2>3. sources \in Seq(STRING) /\ shown \in Prompts
    BY DEF ChatIInv, BlocksInv
  <2>4. DOMAIN shown = 1..n /\ \A i \in 1..n : shown[i] = [id |-> kept[i].id, ref |-> Ref(sources, kept[i].id), size |-> Long(kept[i])]
    BY <2>1, <2>2 DEF ContextFits
  <2>5. DOMAIN Returned = 1..n /\ \A i \in 1..n : Returned[i] = [id |-> kept[i].id, ref |-> Ref(Cited, kept[i].id), size |-> kept[i].size]
    BY <2>2 DEF Returned
  <2>6. Len(Returned) = n /\ Len(shown) = n
    <3>1. Returned \in [1..n -> ToSet(Returned)]
      BY <2>5 DEF Returned, ToSet
    <3>2. shown \in [1..n -> PromptBlock]
      <4>1. shown \in [DOMAIN shown -> PromptBlock]
        BY <2>3, LenProperties DEF Prompts
      <4> QED BY <2>4, <4>1
    <3> QED BY <2>2, <3>1, <3>2, ListItems
  <2>7. \A i \in 1..n : shown[i].id = Returned[i].id /\ shown[i].size = Long(Returned[i])
    BY <2>4, <2>5 DEF Long
  <2>8. SumFunction([i \in DOMAIN shown |-> Header + shown[i].size]) <= MaxChars
    <3>1. [i \in DOMAIN shown |-> Header + shown[i].size] = [i \in DOMAIN kept |-> Header + Long(kept[i])]
      BY <2>2, <2>4
    <3> QED BY <2>1, <3>1 DEF ContextFits
  <2>9. ASSUME set.cited
        PROVE  /\ \A i \in 1..n : shown[i].ref = Returned[i].ref /\ Cited[shown[i].ref] = DocOf[Returned[i].id]
               /\ \A i \in DOMAIN Cited : i < Len(Cited) => Cited[i] \in ToSet(DocsIn(kept))
    <3>1. Cited = sources
      BY <2>9 DEF Cited
    <3>2. \A i \in 1..n : DocOf[kept[i].id] \in ToSet(sources)
      <4>1. \A i \in 1..n : DocOf[kept[i].id] \in ToSet(DocsIn(kept))
        BY <2>2 DEF ToSet, DocsIn
      <4> QED BY <2>1, <4>1 DEF ContextFits
    <3>3. \A i \in 1..n : sources[Ref(sources, kept[i].id)] = DocOf[kept[i].id]
      BY <2>3, <3>2, RefNames
    <3> QED BY <2>1, <2>4, <2>5, <3>1, <3>3 DEF ContextFits
  <2> QED BY <2>4, <2>6, <2>7, <2>8, <2>9 DEF ContextIsTheAnswers
<1> QED BY <1>1, ChatInvAlways, PTL

(* The anchor's hits displace none that a list has put before them, and    *)
(* the flag tells of every partial reply (_apply_bm25_anchor_pass).        *)
THEOREM AnchorAlwaysCounts == ChatSpec => []AnchorCounts
<1>1. ChatIInv => AnchorCounts
  <2> SUFFICES ASSUME ChatIInv PROVE AnchorCounts
    OBVIOUS
  <2>1. stage = "expand" /\ merged # <<>> => KeepsAhead(Ids(hits), merged)
    BY DEF ChatIInv, AnchorInv
  <2>2. partial <=> heard
    BY DEF ChatIInv, BlocksInv
  <2> QED BY <2>1, <2>2, Zenon DEF KeepsAhead, PlaceIn, AnchorCounts
<1> QED BY <1>1, ChatInvAlways, PTL

=============================================================================
