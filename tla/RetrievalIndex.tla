--------------------------- MODULE RetrievalIndex ---------------------------
(***************************************************************************)
(* retrieval: the chunks of the documents in OpenSearch and their vectors  *)
(* in Qdrant (service/app/clients), under the upserts and deletes of       *)
(* service/app/indexing_logic.py.                                          *)
(*                                                                         *)
(* Each call to a store runs in a thread: requests interleave between      *)
(* calls, and a request that is cancelled leaves the call it is in behind. *)
(* OpenSearch is searched, and deleted from by query, as of its last       *)
(* refresh; Qdrant is written with wait=True and read as it is.            *)
(*                                                                         *)
(* A version of a chunk is named by the upsert that writes it.  The        *)
(* look-up of unchanged chunks finds none at this commit (point ids are    *)
(* UUIDs, retrieve_many wants integers), so that every chunk is embedded.  *)
(* A store that is not configured counts as one whose calls fail.          *)
(***************************************************************************)
EXTENDS Naturals, FiniteSets

CONSTANTS
    Chunks,        \* chunk ids
    Requests,      \* upserts and deletes, each made once
    KindOf,        \* "upsert", "delete" (by document ids) or "delete_chunk"
    Targets,       \* the chunks of an upsert, or of the documents to delete
    Refreshing,    \* the requests with `refresh`
    MaxFaulty,     \* bound: requests whose calls fail or fall short, or that are abandoned
    NoVersion      \* the store does not have the chunk

ASSUME IndexAssumption ==
    /\ KindOf \in [Requests -> {"upsert", "delete", "delete_chunk"}]
    /\ Targets \in [Requests -> SUBSET Chunks]
    /\ Refreshing \subseteq Requests
    /\ MaxFaulty \in Nat
    /\ NoVersion \notin Requests

Upserts == {r \in Requests : KindOf[r] = "upsert"}
Deletes == Requests \ Upserts

VARIABLES
    os,            \* the version of each chunk in OpenSearch
    seen,          \* the same, as of the last refresh
    vec,           \* the version of each chunk's point in Qdrant
    step,          \* how far each request has come, or its answer
    vectors,       \* the chunks an upsert has embedded and not written yet
    partial,       \* the requests with `partial` set
    late,          \* what a store may still serve of calls nobody waits for:
                   \* store, request, chunks
    short,         \* history: per upsert, the chunks for which the embedder answered
                   \* no vector, without failing
    before         \* history: per request, those that had wholly ended when
                   \* it came to its first store

histories == <<short, before>>
vars == <<os, seen, vec, step, vectors, partial, late, histories>>

Stores == {"os", "vec"}
Ends == {"ok", "partial", "abandoned"}

TypeOK ==
    /\ os \in [Chunks -> Upserts \cup {NoVersion}]
    /\ seen \in [Chunks -> Upserts \cup {NoVersion}]
    /\ vec \in [Chunks -> Upserts \cup {NoVersion}]
    /\ step \in [Requests -> {"new", "embedded", "half"} \cup Ends]
    /\ vectors \in [Requests -> SUBSET Chunks]
    /\ \A r \in Requests : vectors[r] # {} => r \in Upserts /\ step[r] \in {"embedded", "half"}
    /\ partial \subseteq {r \in Requests : step[r] # "ok"}
    /\ late \subseteq Stores \X Requests \X SUBSET Chunks
    /\ short \in [Requests -> SUBSET Chunks] /\ before \in [Requests -> SUBSET Requests]

Init ==
    /\ os = [c \in Chunks |-> NoVersion] /\ seen = os /\ vec = os
    /\ step = [r \in Requests |-> "new"]
    /\ vectors = [r \in Requests |-> {}]
    /\ partial = {} /\ late = {}
    /\ short = vectors /\ before = [r \in Requests |-> {}]

-----------------------------------------------------------------------------
(* What a call does to its store, when it concerns the chunks C.           *)

(* delete_by_query takes what the last refresh has shown, and passes over  *)
(* what was written since (conflicts="proceed").                           *)
Found(r, C) ==
    IF KindOf[r] = "delete" THEN {c \in C : seen[c] = os[c]} ELSE C

Written(store, r, C) ==
    [c \in Chunks |-> IF c \notin C THEN store[c] ELSE IF r \in Upserts THEN r ELSE NoVersion]

(* Slip: a delete passes `refresh` on to nobody.                           *)
ServeOsUnseen(r, C) ==
    /\ os' = Written(os, r, Found(r, C))
    /\ seen' = IF r \in Refreshing \cap Upserts THEN os' ELSE seen

ServeOs(r, C) ==
    /\ os' = Written(os, r, Found(r, C))
    /\ seen' = IF r \in Refreshing THEN os' ELSE seen

ServeVec(r, C) == vec' = Written(vec, r, C)

(* The requests that have ended, with no call under way.                   *)
Settled ==
    {q \in Requests : step[q] \in Ends /\ \A s \in Stores, C \in SUBSET Chunks : <<s, q, C>> \notin late}

-----------------------------------------------------------------------------
(* Steps of a request.                                                     *)

MayFail(r) ==
    Cardinality({r} \cup partial \cup {q \in Requests : step[q] = "abandoned" \/ short[q] # {}}) <= MaxFaulty

(* Slip: a batch that fails is not reported.                               *)
EmbedQuietly(r) ==
    /\ r \in Upserts /\ step[r] = "new" /\ Targets[r] # {}
    /\ \E C, lost \in SUBSET Targets[r] :
          /\ C \cap lost = {} /\ (C = Targets[r] \/ MayFail(r))
          /\ vectors' = [vectors EXCEPT ![r] = C]
          /\ short' = [short EXCEPT ![r] = lost]
    /\ step' = [step EXCEPT ![r] = "embedded"]
    /\ UNCHANGED <<os, seen, vec, partial, late, before>>

(* Batches are embedded one by one or side by side: any of them may fail.  *)
(* A batch may also be answered with fewer vectors than it has texts: they *)
(* are paired off as they come, and the chunks left over have none.        *)
Embed(r) ==
    /\ r \in Upserts /\ step[r] = "new" /\ Targets[r] # {}
    /\ \E C, lost \in SUBSET Targets[r] :
          /\ C \cap lost = {} /\ (C = Targets[r] \/ MayFail(r))
          /\ vectors' = [vectors EXCEPT ![r] = C]
          /\ short' = [short EXCEPT ![r] = lost]
          /\ partial' = IF C \cup lost = Targets[r] THEN partial ELSE partial \cup {r}
    /\ step' = [step EXCEPT ![r] = "embedded"]
    /\ UNCHANGED <<os, seen, vec, late, before>>

(* An upsert without chunks is refused, and touches neither store.         *)
NoChunks(r) ==
    /\ r \in Upserts /\ step[r] = "new" /\ Targets[r] = {}
    /\ step' = [step EXCEPT ![r] = "partial"]
    /\ UNCHANGED <<os, seen, vec, vectors, partial, late, histories>>

AtOs(r) ==
    /\ step[r] = IF r \in Upserts THEN "embedded" ELSE "new"
    /\ step' = [step EXCEPT ![r] = "half"]
    /\ before' = [before EXCEPT ![r] = Settled]
    /\ UNCHANGED <<vec, vectors, short>>

CallOs(r) ==
    /\ AtOs(r)
    /\ ServeOs(r, Targets[r])
    /\ UNCHANGED <<partial, late>>

(* The call raises, or its answer reports items that failed: any of the    *)
(* chunks are served, at once or after the client has stopped waiting.     *)
CallOsFails(r) ==
    /\ MayFail(r) /\ AtOs(r)
    /\ partial' = partial \cup {r}
    /\ \E C \in SUBSET Targets[r] : late' = late \cup {<<"os", r, C>>}
    /\ UNCHANGED <<os, seen>>

(* The second store comes whatever became of the first, and then the       *)
(* answer.  An upsert writes the chunks it has vectors for.                *)
Pointed(r) == IF r \in Upserts THEN vectors[r] ELSE Targets[r]

CallVec(r) ==
    /\ step[r] = "half"
    /\ step' = [step EXCEPT ![r] = IF r \in partial THEN "partial" ELSE "ok"]
    /\ ServeVec(r, Pointed(r))
    /\ vectors' = [vectors EXCEPT ![r] = {}]
    /\ UNCHANGED <<os, seen, partial, late, histories>>

(* Slip: the error of the second store is answered ok.                     *)
CallVecFailsOk(r) ==
    /\ MayFail(r) /\ step[r] = "half"
    /\ step' = [step EXCEPT ![r] = "ok"]
    /\ vectors' = [vectors EXCEPT ![r] = {}]
    /\ \E C \in SUBSET Pointed(r) : late' = late \cup {<<"vec", r, C>>}
    /\ UNCHANGED <<os, seen, vec, partial, histories>>

CallVecFails(r) ==
    /\ MayFail(r) /\ step[r] = "half"
    /\ step' = [step EXCEPT ![r] = "partial"]
    /\ partial' = partial \cup {r}
    /\ vectors' = [vectors EXCEPT ![r] = {}]
    /\ \E C \in SUBSET Pointed(r) : late' = late \cup {<<"vec", r, C>>}
    /\ UNCHANGED <<os, seen, vec, histories>>

(* The upsert runs into the 900 s of index_upsert, or the service dies:    *)
(* the call it is in may still be served, and no other follows.            *)
Abandon(r) ==
    /\ MayFail(r) /\ step[r] \in {"embedded", "half"}
    /\ step' = [step EXCEPT ![r] = "abandoned"]
    /\ vectors' = [vectors EXCEPT ![r] = {}]
    /\ \E C \in SUBSET Targets[r] :
          late' = late \cup (IF step[r] = "embedded" THEN {<<"os", r, C>>}
                             ELSE {<<"vec", r, C \cap Pointed(r)>>})
    /\ UNCHANGED <<os, seen, vec, partial, histories>>

-----------------------------------------------------------------------------
(* The stores.                                                             *)

(* A call nobody waits for is served.                                      *)
Land(s, r, C) ==
    /\ <<s, r, C>> \in late
    /\ late' = late \ {<<s, r, C>>}
    /\ IF s = "os" THEN ServeOs(r, C) /\ UNCHANGED vec
                   ELSE ServeVec(r, C) /\ UNCHANGED <<os, seen>>
    /\ UNCHANGED <<step, vectors, partial, histories>>

(* The index is refreshed every second.                                    *)
Refresh ==
    /\ seen' = os
    /\ UNCHANGED <<os, vec, step, vectors, partial, late, histories>>

Request(r) ==
    \/ Embed(r) \/ NoChunks(r) \/ CallOs(r) \/ CallOsFails(r)
    \/ CallVec(r) \/ CallVecFails(r) \/ Abandon(r)

Next ==
    \/ \E r \in Requests : Request(r)
    \/ \E s \in Stores, r \in Requests, C \in SUBSET Chunks : Land(s, r, C)
    \/ Refresh

Spec == Init /\ [][Next]_vars

-----------------------------------------------------------------------------
(* Properties.                                                             *)

(* No request but r has come to the chunk since, or has been about it when *)
(* r came to it.                                                           *)
Alone(r, c) ==
    \A q \in Requests \ {r} :
        c \in Targets[q] => step[q] = "new" \/ q \in before[r]

(* An upsert that answers ok serves its chunks from both stores, until     *)
(* another request comes to them: no earlier version survives in the store *)
(* that was written second, and no vector is missing behind an ok but one  *)
(* that the embedder left out of its answer.                               *)
LatestServed ==
    \A r \in Upserts : step[r] = "ok" =>
        \A c \in Targets[r] : Alone(r, c) =>
            /\ os[c] = r /\ (vec[c] = r \/ c \in short[r])
            /\ r \in Refreshing => seen[c] = r

(* A delete that answers ok leaves no version that was there before it in  *)
(* Qdrant, and in OpenSearch only one that was upserted without `refresh`  *)
(* and then deleted by query.  A delete with `refresh`, as those of the    *)
(* gate and the worker, is seen by the next search.                        *)
DeletedGone ==
    \A r \in Deletes : step[r] = "ok" =>
        \A c \in Targets[r], u \in before[r] \cap Upserts :
            /\ vec[c] # u
            /\ u \in Refreshing \/ KindOf[r] = "delete_chunk" =>
                  /\ os[c] # u
                  /\ r \in Refreshing => seen[c] # u

=============================================================================
