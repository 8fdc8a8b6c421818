-------------------------- MODULE RetrievalProofs ---------------------------
(***************************************************************************)
(* What an ok answer of the index promises, for any chunks, requests and   *)
(* number of failures; and what the hits of a search are like, for any     *)
(* answers of the engines and the reranker and all settings.               *)
(***************************************************************************)
EXTENDS RankingProofs, Search, RetrievalIndex

USE DEF histories

-----------------------------------------------------------------------------
(* RetrievalIndex.                                                         *)

-----------------------------------------------------------------------------
(* The inductive invariant.                                                *)

(* What a request found settled stays settled.                             *)
BeforeInv ==
    \A r \in Requests :
        /\ before[r] \subseteq Settled
        /\ before[r] # {} => step[r] \notin {"new", "embedded"}

(* Only a request that does not answer ok leaves calls behind.             *)
LateInv ==
    \A s \in Stores, q \in Requests, C \in SUBSET Chunks : <<s, q, C>> \in late =>
        /\ step[q] \in Ends \cup {"half"}
        /\ q \in partial \/ step[q] = "abandoned"
        /\ C \subseteq Targets[q]

VectorsInv ==
    \A r \in Requests :
        /\ vectors[r] \subseteq Targets[r]
        /\ r \in Upserts /\ r \notin partial /\ step[r] \in {"embedded", "half"}
              => Targets[r] \subseteq vectors[r] \cup short[r]

(* A version that was refreshed once is visible as long as it is there.    *)
SeenInv ==
    \A c \in Chunks : os[c] \in Refreshing => seen[c] = os[c]

(* Half way, the promise holds of OpenSearch already.                      *)
HalfServed ==
    \A r \in Upserts : step[r] = "half" /\ r \notin partial =>
        \A c \in Targets[r] : Alone(r, c) =>
            os[c] = r /\ (r \in Refreshing => seen[c] = r)

HalfGone ==
    \A r \in Deletes : step[r] = "half" /\ r \notin partial =>
        \A c \in Targets[r], u \in before[r] \cap Upserts :
            u \in Refreshing \/ KindOf[r] = "delete_chunk" =>
                os[c] # u /\ (r \in Refreshing => seen[c] # u)

IInv ==
    /\ TypeOK /\ BeforeInv /\ LateInv /\ VectorsInv /\ SeenInv
    /\ HalfServed /\ LatestServed /\ HalfGone /\ DeletedGone

-----------------------------------------------------------------------------
(* One request at a time.                                                  *)

(* A step of q, or the service of a call that q has left behind.           *)
By(q) == Request(q) \/ \E s \in Stores, C \in SUBSET Chunks : Land(s, q, C)

LEMMA NextIsBy == Next <=> (\E q \in Requests : By(q)) \/ Refresh
BY DEF Next, By

(* What a served call does to one chunk.                                   *)
LEMMA WrittenIs ==
    ASSUME NEW store, NEW r, NEW C, NEW c \in Chunks
    PROVE  Written(store, r, C)[c] =
              IF c \notin C THEN store[c] ELSE IF r \in Upserts THEN r ELSE NoVersion
BY DEF Written

LEMMA FoundIn ==
    ASSUME NEW r \in Requests, NEW C
    PROVE  Found(r, C) \subseteq C /\ (KindOf[r] # "delete" => Found(r, C) = C)
BY DEF Found

(* What the service of an OpenSearch call changes, and what it does not.   *)
LEMMA ServeOsIs ==
    ASSUME TypeOK, SeenInv, NEW r \in Requests, NEW C \in SUBSET Chunks, ServeOs(r, C)
    PROVE  /\ os' \in [Chunks -> Upserts \cup {NoVersion}]
           /\ seen' \in [Chunks -> Upserts \cup {NoVersion}]
           /\ SeenInv'
           /\ \A c \in Chunks : /\ c \notin C => os'[c] = os[c]
                              /\ os'[c] \in {os[c], NoVersion} \cup ({r} \cap Upserts)
                              /\ seen'[c] \in {seen[c], os'[c]}
<1>1. os' \in [Chunks -> Upserts \cup {NoVersion}]
  BY DEF ServeOs, Written, TypeOK
<1>2. seen' \in [Chunks -> Upserts \cup {NoVersion}]
  BY <1>1 DEF ServeOs, TypeOK
<1>3. ASSUME NEW c \in Chunks
      PROVE  os'[c] = IF c \notin Found(r, C) THEN os[c] ELSE IF r \in Upserts THEN r ELSE NoVersion
  BY WrittenIs DEF ServeOs
<1>4. Found(r, C) \subseteq C
  BY FoundIn
<1>5. ASSUME NEW c \in Chunks, os'[c] \in Refreshing
      PROVE  seen'[c] = os'[c]
  <2>1. CASE r \in Refreshing
    BY <2>1 DEF ServeOs
  <2>2. CASE r \notin Refreshing
    <3>1. seen' = seen /\ os'[c] # r /\ os'[c] # NoVersion
      BY <2>2, <1>5, IndexAssumption DEF ServeOs
    <3>2. os'[c] = os[c]
      BY <3>1, <1>3
    <3>3. QED
      BY <3>1, <3>2, <1>5 DEF SeenInv
  <2>3. QED
    BY <2>1, <2>2
<1>6. SeenInv'
  BY <1>5 DEF SeenInv
<1>7. QED
  BY <1>1, <1>2, <1>3, <1>4, <1>6 DEF ServeOs

LEMMA ServeVecIs ==
    ASSUME TypeOK, NEW r \in Requests, NEW C \in SUBSET Chunks, ServeVec(r, C)
    PROVE  /\ vec' \in [Chunks -> Upserts \cup {NoVersion}]
           /\ \A c \in Chunks : /\ c \notin C => vec'[c] = vec[c]
                              /\ vec'[c] \in {vec[c], NoVersion} \cup ({r} \cap Upserts)
<1>1. vec' \in [Chunks -> Upserts \cup {NoVersion}]
  BY DEF ServeVec, Written, TypeOK
<1>2. QED
  BY <1>1, WrittenIs DEF ServeVec

(* A step of q leaves the stores alone outside its chunks, and puts only   *)
(* its own version or none.                                                *)
Confined(q) ==
    /\ SeenInv'
    /\ \A c \in Chunks :
          /\ c \notin Targets[q] => os'[c] = os[c] /\ vec'[c] = vec[c]
          /\ os'[c] \in {os[c], NoVersion} \cup ({q} \cap Upserts)
          /\ vec'[c] \in {vec[c], NoVersion} \cup ({q} \cap Upserts)
          /\ seen'[c] \in {seen[c], os'[c]}

(* It changes nothing of the other requests.                               *)
OnlyOf(q) ==
    /\ \A r \in Requests \ {q} :
          /\ step'[r] = step[r] /\ vectors'[r] = vectors[r] /\ before'[r] = before[r] /\ short'[r] = short[r]
          /\ r \in partial' <=> r \in partial
          /\ \A s \in Stores, C \in SUBSET Chunks : <<s, r, C>> \in late' <=> <<s, r, C>> \in late
    /\ q \notin Settled
    /\ step'[q] # "new"

LEMMA ByConfined ==
    ASSUME TypeOK, LateInv, VectorsInv, SeenInv, NEW q \in Requests, By(q)
    PROVE  Confined(q)
<1>1. CASE Embed(q) \/ NoChunks(q) \/ CallOsFails(q) \/ CallVecFails(q) \/ Abandon(q)
  <2>1. UNCHANGED <<os, seen, vec>>
    BY <1>1 DEF Embed, NoChunks, CallOsFails, CallVecFails, Abandon, AtOs
  <2>2. QED
    BY <2>1 DEF Confined, SeenInv
<1>2. CASE CallOs(q)
  <2>1. ServeOs(q, Targets[q]) /\ UNCHANGED vec /\ Targets[q] \in SUBSET Chunks
    BY <1>2, IndexAssumption DEF CallOs, AtOs
  <2>2. QED
    BY <2>1, ServeOsIs DEF Confined
<1>3. CASE CallVec(q)
  <2>1. ServeVec(q, Pointed(q)) /\ UNCHANGED <<os, seen>>
    BY <1>3 DEF CallVec
  <2>2. Pointed(q) \in SUBSET Chunks /\ Pointed(q) \subseteq Targets[q]
    BY IndexAssumption DEF Pointed, VectorsInv
  <2>3. QED
    BY <2>1, <2>2, ServeVecIs DEF Confined, SeenInv
<1>4. ASSUME NEW s \in Stores, NEW C \in SUBSET Chunks, Land(s, q, C)
      PROVE  Confined(q)
  <2>1. C \subseteq Targets[q]
    BY <1>4 DEF Land, LateInv
  <2>2. CASE s = "os"
    <3>1. ServeOs(q, C) /\ UNCHANGED vec
      BY <1>4, <2>2 DEF Land
    <3>2. QED
      BY <2>1, <3>1, ServeOsIs DEF Confined
  <2>3. CASE s # "os"
    <3>1. ServeVec(q, C) /\ UNCHANGED <<os, seen>>
      BY <1>4, <2>3 DEF Land
    <3>2. QED
      BY <2>1, <3>1, ServeVecIs DEF Confined, SeenInv
  <2>4. QED
    BY <2>2, <2>3
<1>5. QED
  BY <1>1, <1>2, <1>3, <1>4 DEF By, Request

LEMMA ByOnlyOf ==
    ASSUME TypeOK, LateInv, NEW q \in Requests, By(q)
    PROVE  OnlyOf(q)
<1>1. CASE Embed(q)
  BY <1>1 DEF Embed, OnlyOf, TypeOK, Settled, Ends
<1>2. CASE NoChunks(q)
  BY <1>2 DEF NoChunks, OnlyOf, TypeOK, Settled, Ends
<1>3. CASE CallOs(q)
  BY <1>3 DEF CallOs, AtOs, OnlyOf, TypeOK, Settled, Ends
<1>4. CASE CallOsFails(q)
  BY <1>4 DEF CallOsFails, AtOs, OnlyOf, TypeOK, Settled, Ends
<1>5. CASE CallVec(q)
  BY <1>5 DEF CallVec, OnlyOf, TypeOK, Settled, Ends
<1>6. CASE CallVecFails(q)
  BY <1>6 DEF CallVecFails, OnlyOf, TypeOK, Settled, Ends
<1>7. CASE Abandon(q)
  BY <1>7 DEF Abandon, OnlyOf, TypeOK, Settled, Ends
<1>8. ASSUME NEW s \in Stores, NEW C \in SUBSET Chunks, Land(s, q, C)
      PROVE  OnlyOf(q)
  <2>1. q \notin Settled /\ step[q] # "new"
    BY <1>8 DEF Land, LateInv, Settled, Ends
  <2>2. QED
    BY <1>8, <2>1 DEF Land, OnlyOf
<1>9. QED
  BY <1>1, <1>2, <1>3, <1>4, <1>5, <1>6, <1>7, <1>8 DEF By, Request

LEMMA SettledStays ==
    ASSUME NEW q \in Requests, OnlyOf(q)
    PROVE  Settled \subseteq Settled'
BY DEF OnlyOf, Settled

(* Whoever is alone with a chunk after another request's step was so       *)
(* before, and the step is not about the chunk.                            *)
LEMMA AloneBefore ==
    ASSUME BeforeInv, NEW q \in Requests, OnlyOf(q),
           NEW r \in Requests, r # q, NEW c \in Chunks, Alone(r, c)'
    PROVE  Alone(r, c) /\ c \notin Targets[q]
<1>1. q \notin before[r] /\ before'[r] = before[r]
  BY DEF BeforeInv, OnlyOf
<1>2. c \notin Targets[q]
  BY <1>1 DEF Alone, OnlyOf
<1>3. QED
  BY <1>1, <1>2 DEF Alone, OnlyOf

-----------------------------------------------------------------------------
(* The parts of the invariant, one by one.                                 *)

LEMMA InitInv == Init => IInv
<1> SUFFICES ASSUME Init PROVE IInv
  OBVIOUS
<1>1. TypeOK
  BY DEF Init, TypeOK
<1>2. BeforeInv /\ LateInv /\ VectorsInv /\ SeenInv
  BY DEF Init, BeforeInv, LateInv, VectorsInv, SeenInv
<1>3. HalfServed /\ LatestServed /\ HalfGone /\ DeletedGone
  BY DEF Init, HalfServed, LatestServed, HalfGone, DeletedGone, Deletes, Upserts
<1>4. QED
  BY <1>1, <1>2, <1>3 DEF IInv

LEMMA ByType ==
    ASSUME TypeOK, LateInv, VectorsInv, SeenInv, NEW q \in Requests, By(q)
    PROVE  TypeOK'
<1>0. Targets[q] \in SUBSET Chunks /\ Settled \in SUBSET Requests /\ Pointed(q) \in SUBSET Chunks
  BY IndexAssumption DEF Settled, Pointed, VectorsInv
<1>1. CASE Embed(q)
  BY <1>0, <1>1 DEF Embed, TypeOK, Ends
<1>2. CASE NoChunks(q)
  BY <1>2 DEF NoChunks, TypeOK, Ends
<1>3. CASE CallOs(q)
  <2>1. ServeOs(q, Targets[q])
    BY <1>3 DEF CallOs
  <2>2. QED
    BY <1>0, <1>3, <2>1, ServeOsIs DEF CallOs, AtOs, TypeOK, Ends
<1>4. CASE CallOsFails(q)
  BY <1>0, <1>4 DEF CallOsFails, AtOs, TypeOK, Ends, Stores
<1>5. CASE CallVec(q)
  <2>1. ServeVec(q, Pointed(q))
    BY <1>5 DEF CallVec
  <2>2. QED
    BY <1>0, <1>5, <2>1, ServeVecIs DEF CallVec, TypeOK, Ends
<1>6. CASE CallVecFails(q)
  BY <1>0, <1>6 DEF CallVecFails, TypeOK, Ends, Stores
<1>7. CASE Abandon(q)
  BY <1>0, <1>7 DEF Abandon, TypeOK, Ends, Stores
<1>8. ASSUME NEW s \in Stores, NEW C \in SUBSET Chunks, Land(s, q, C)
      PROVE  TypeOK'
  <2>1. CASE s = "os"
    <3>1. ServeOs(q, C)
      BY <1>8, <2>1 DEF Land
    <3>2. QED
      BY <1>8, <2>1, <3>1, ServeOsIs DEF Land, TypeOK
  <2>2. CASE s # "os"
    <3>1. ServeVec(q, C)
      BY <1>8, <2>2 DEF Land
    <3>2. QED
      BY <1>8, <2>2, <3>1, ServeVecIs DEF Land, TypeOK
  <2>3. QED
    BY <2>1, <2>2
<1>9. QED
  BY <1>1, <1>2, <1>3, <1>4, <1>5, <1>6, <1>7, <1>8 DEF By, Request

LEMMA ByBefore ==
    ASSUME TypeOK, BeforeInv, NEW q \in Requests, By(q), OnlyOf(q)
    PROVE  BeforeInv'
<1>1. Settled \subseteq Settled'
  BY SettledStays
<1>2. CASE AtOs(q)
  BY <1>1, <1>2 DEF AtOs, BeforeInv, OnlyOf, TypeOK
<1>3. CASE Embed(q) \/ NoChunks(q)
  <2>1. before' = before /\ step[q] = "new"
    BY <1>3 DEF Embed, NoChunks
  <2>2. before[q] = {}
    BY <2>1 DEF BeforeInv
  <2>3. QED
    BY <1>1, <2>1, <2>2 DEF BeforeInv, OnlyOf
<1>4. CASE CallVec(q) \/ CallVecFails(q) \/ Abandon(q)
  <2>1. before' = before /\ step'[q] \in Ends
    BY <1>4 DEF CallVec, CallVecFails, Abandon, TypeOK, Ends
  <2>2. QED
    BY <1>1, <2>1 DEF BeforeInv, OnlyOf, Ends
<1>5. ASSUME NEW s \in Stores, NEW C \in SUBSET Chunks, Land(s, q, C)
      PROVE  BeforeInv'
  BY <1>1, <1>5 DEF Land, BeforeInv
<1>6. QED
  BY <1>2, <1>3, <1>4, <1>5 DEF By, Request, CallOs, CallOsFails

LEMMA ByLate ==
    ASSUME TypeOK, LateInv, VectorsInv, NEW q \in Requests, By(q), OnlyOf(q)
    PROVE  LateInv'
<1>1. ASSUME NEW s \in Stores, NEW r \in Requests, NEW C \in SUBSET Chunks, <<s, r, C>> \in late', r # q
      PROVE  /\ step'[r] \in Ends \cup {"half"}
             /\ r \in partial' \/ step'[r] = "abandoned"
             /\ C \subseteq Targets[r]
  BY <1>1 DEF LateInv, OnlyOf
<1>2. ASSUME NEW s \in Stores, NEW C \in SUBSET Chunks, <<s, q, C>> \in late'
      PROVE  /\ step'[q] \in Ends \cup {"half"}
             /\ q \in partial' \/ step'[q] = "abandoned"
             /\ C \subseteq Targets[q]
  <2>1. CASE Embed(q) \/ NoChunks(q)
    BY <1>2, <2>1 DEF Embed, NoChunks, LateInv, Ends
  <2>2. CASE CallOs(q)
    BY <1>2, <2>2 DEF CallOs, AtOs, LateInv, TypeOK, Ends
  <2>3. CASE CallOsFails(q)
    BY <1>2, <2>3 DEF CallOsFails, AtOs, LateInv, TypeOK
  <2>4. CASE CallVec(q)
    BY <1>2, <2>4 DEF CallVec, LateInv, TypeOK, Ends
  <2>5. CASE CallVecFails(q)
    BY <1>2, <2>5 DEF CallVecFails, Pointed, VectorsInv, LateInv, TypeOK, Ends
  <2>6. CASE Abandon(q)
    BY <1>2, <2>6 DEF Abandon, LateInv, TypeOK, Ends
  <2>7. CASE \E z \in Stores, D \in SUBSET Chunks : Land(z, q, D)
    BY <1>2, <2>7 DEF Land, LateInv
  <2>8. QED
    BY <2>1, <2>2, <2>3, <2>4, <2>5, <2>6, <2>7 DEF By, Request
<1>3. QED
  BY <1>1, <1>2 DEF LateInv

LEMMA ByVectors ==
    ASSUME TypeOK, VectorsInv, NEW q \in Requests, By(q), OnlyOf(q)
    PROVE  VectorsInv'
<1>1. /\ vectors'[q] \subseteq Targets[q]
      /\ q \in Upserts /\ q \notin partial' /\ step'[q] \in {"embedded", "half"}
            => Targets[q] \subseteq vectors'[q] \cup short'[q]
  <2>1. CASE Embed(q)
    BY <2>1 DEF Embed, TypeOK
  <2>2. CASE NoChunks(q)
    BY <2>2 DEF NoChunks, VectorsInv, TypeOK
  <2>3. CASE CallOs(q) \/ CallOsFails(q)
    BY <2>3 DEF CallOs, CallOsFails, AtOs, VectorsInv, TypeOK
  <2>4. CASE CallVec(q) \/ CallVecFails(q) \/ Abandon(q)
    BY <2>4 DEF CallVec, CallVecFails, Abandon, TypeOK
  <2>5. CASE \E z \in Stores, D \in SUBSET Chunks : Land(z, q, D)
    BY <2>5 DEF Land, VectorsInv
  <2>6. QED
    BY <2>1, <2>2, <2>3, <2>4, <2>5 DEF By, Request
<1>2. QED
  BY <1>1 DEF VectorsInv, OnlyOf

-----------------------------------------------------------------------------
(* The promises.                                                           *)

(* The step of another request disturbs neither promise to an upsert.      *)
LEMMA OthersServed ==
    ASSUME TypeOK, BeforeInv, HalfServed, LatestServed,
           NEW q \in Requests, OnlyOf(q), Confined(q), NEW r \in Upserts, r # q
    PROVE  /\ step'[r] = "half" /\ r \notin partial' =>
                 \A c \in Targets[r] : Alone(r, c)' => os'[c] = r /\ (r \in Refreshing => seen'[c] = r)
           /\ step'[r] = "ok" =>
                 \A c \in Targets[r] : Alone(r, c)' =>
                     os'[c] = r /\ (vec'[c] = r \/ c \in short'[r]) /\ (r \in Refreshing => seen'[c] = r)
<1>1. step'[r] = step[r] /\ (r \in partial' <=> r \in partial) /\ short'[r] = short[r]
  BY DEF OnlyOf, Upserts
<1>2. ASSUME NEW c \in Targets[r], Alone(r, c)'
      PROVE  Alone(r, c) /\ os'[c] = os[c] /\ vec'[c] = vec[c] /\ seen'[c] \in {seen[c], os[c]}
  <2>1. c \in Chunks /\ r \in Requests
    BY IndexAssumption DEF Upserts
  <2>2. QED
    BY <1>2, <2>1, AloneBefore DEF Confined
<1>3. QED
  BY <1>1, <1>2 DEF HalfServed, LatestServed

LEMMA ByHalfServed ==
    ASSUME IInv, NEW q \in Requests, By(q), OnlyOf(q), Confined(q)
    PROVE  HalfServed'
<1> USE DEF IInv
<1>1. ASSUME q \in Upserts, step'[q] = "half", q \notin partial', NEW c \in Targets[q], Alone(q, c)'
      PROVE  os'[c] = q /\ (q \in Refreshing => seen'[c] = q)
  <2>1. CASE CallOs(q)
    <3>1. ServeOs(q, Targets[q]) /\ c \in Chunks /\ Found(q, Targets[q]) = Targets[q]
      BY <1>1, <2>1, FoundIn, IndexAssumption DEF CallOs, Upserts
    <3>2. os'[c] = q
      BY <1>1, <3>1, WrittenIs DEF ServeOs
    <3>3. QED
      BY <3>1, <3>2 DEF ServeOs
  <2>2. CASE CallOsFails(q)
    BY <1>1, <2>2 DEF CallOsFails
  <2>3. CASE Embed(q) \/ NoChunks(q) \/ CallVec(q) \/ CallVecFails(q) \/ Abandon(q)
    BY <1>1, <2>3 DEF Embed, NoChunks, CallVec, CallVecFails, Abandon, TypeOK
  <2>4. CASE \E s \in Stores, C \in SUBSET Chunks : Land(s, q, C)
    <3>1. (q \in partial /\ partial' = partial) \/ step'[q] = "abandoned"
      BY <2>4 DEF Land, LateInv
    <3>2. QED
      BY <1>1, <3>1
  <2>5. QED
    BY <2>1, <2>2, <2>3, <2>4 DEF By, Request
<1>2. QED
  BY <1>1, OthersServed DEF HalfServed

LEMMA ByLatestServed ==
    ASSUME IInv, NEW q \in Requests, By(q), OnlyOf(q), Confined(q)
    PROVE  LatestServed'
<1> USE DEF IInv
<1>1. ASSUME q \in Upserts, step'[q] = "ok", NEW c \in Targets[q], Alone(q, c)'
      PROVE  os'[c] = q /\ (vec'[c] = q \/ c \in short'[q]) /\ (q \in Refreshing => seen'[c] = q)
  <2>1. CASE CallVec(q)
    <3>1. q \notin partial /\ step[q] = "half" /\ c \in Chunks
      BY <1>1, <2>1, IndexAssumption DEF CallVec, TypeOK
    <3>2. vec'[c] = q \/ c \in short'[q]
      BY <1>1, <2>1, <3>1, WrittenIs DEF CallVec, ServeVec, Pointed, VectorsInv
    <3>3. Alone(q, c) /\ UNCHANGED <<os, seen>>
      BY <1>1, <2>1 DEF Alone, CallVec, OnlyOf
    <3>4. QED
      BY <1>1, <3>1, <3>2, <3>3 DEF HalfServed
  <2>2. CASE Embed(q) \/ NoChunks(q) \/ CallOs(q) \/ CallOsFails(q) \/ CallVecFails(q) \/ Abandon(q)
    BY <1>1, <2>2 DEF Embed, NoChunks, CallOs, CallOsFails, AtOs, CallVecFails, Abandon, TypeOK
  <2>3. CASE \E s \in Stores, C \in SUBSET Chunks : Land(s, q, C)
    <3>1. step'[q] # "ok"
      BY <2>3 DEF Land, LateInv, TypeOK
    <3>2. QED
      BY <1>1, <3>1
  <2>4. QED
    BY <2>1, <2>2, <2>3 DEF By, Request
<1>2. QED
  BY <1>1, OthersServed DEF LatestServed

(* No step brings a settled version back.                                  *)
LEMMA SettledGone ==
    ASSUME NEW q \in Requests, OnlyOf(q), Confined(q), NEW u \in Settled \cap Upserts, NEW c \in Chunks
    PROVE  /\ os[c] # u => os'[c] # u
           /\ vec[c] # u => vec'[c] # u
           /\ os[c] # u /\ seen[c] # u => seen'[c] # u
<1>1. u # q /\ u # NoVersion
  BY IndexAssumption DEF OnlyOf, Upserts
<1>2. QED
  BY <1>1 DEF Confined

LEMMA OthersGone ==
    ASSUME TypeOK, BeforeInv, HalfGone, DeletedGone,
           NEW q \in Requests, OnlyOf(q), Confined(q), NEW r \in Deletes, r # q,
           NEW c \in Targets[r], NEW u \in before'[r] \cap Upserts
    PROVE  /\ step'[r] = "half" /\ r \notin partial' =>
                 (u \in Refreshing \/ KindOf[r] = "delete_chunk" =>
                     os'[c] # u /\ (r \in Refreshing => seen'[c] # u))
           /\ step'[r] = "ok" =>
                 /\ vec'[c] # u
                 /\ u \in Refreshing \/ KindOf[r] = "delete_chunk" =>
                        os'[c] # u /\ (r \in Refreshing => seen'[c] # u)
<1>1. /\ step'[r] = step[r] /\ (r \in partial' <=> r \in partial)
      /\ u \in before[r] \cap Upserts /\ u \in Settled /\ c \in Chunks
  BY IndexAssumption DEF OnlyOf, Deletes, BeforeInv
<1>2. /\ os[c] # u => os'[c] # u
      /\ vec[c] # u => vec'[c] # u
      /\ os[c] # u /\ seen[c] # u => seen'[c] # u
  BY <1>1, SettledGone
<1>3. CASE step[r] = "half" /\ r \notin partial
  BY <1>1, <1>2, <1>3 DEF HalfGone
<1>4. CASE step[r] = "ok"
  BY <1>1, <1>2, <1>4 DEF DeletedGone
<1>5. QED
  BY <1>1, <1>3, <1>4

LEMMA ByHalfGone ==
    ASSUME IInv, NEW q \in Requests, By(q), OnlyOf(q), Confined(q)
    PROVE  HalfGone'
<1> USE DEF IInv
<1>1. ASSUME q \in Deletes, step'[q] = "half", q \notin partial',
             NEW c \in Targets[q], NEW u \in before'[q] \cap Upserts,
             u \in Refreshing \/ KindOf[q] = "delete_chunk"
      PROVE  os'[c] # u /\ (q \in Refreshing => seen'[c] # u)
  <2>1. CASE CallOs(q)
    <3>1. /\ ServeOs(q, Targets[q]) /\ c \in Chunks
          /\ q \notin Upserts /\ KindOf[q] \in {"delete", "delete_chunk"}
      BY <1>1, <2>1, IndexAssumption DEF CallOs, Deletes, Upserts
    <3>2. CASE c \in Found(q, Targets[q])
      <4>1. os'[c] = NoVersion /\ u # NoVersion
        BY <3>1, <3>2, WrittenIs, IndexAssumption DEF ServeOs, Upserts
      <4>2. QED
        BY <3>1, <4>1 DEF ServeOs
    <3>3. CASE c \notin Found(q, Targets[q])
      <4>1. u \in Refreshing /\ seen[c] # os[c]
        BY <1>1, <3>1, <3>3 DEF Found
      <4>2. os[c] # u /\ os'[c] = os[c]
        BY <3>1, <3>3, <4>1, WrittenIs DEF SeenInv, ServeOs
      <4>3. QED
        BY <3>1, <4>2 DEF ServeOs
    <3>4. QED
      BY <3>2, <3>3
  <2>2. CASE CallOsFails(q)
    BY <1>1, <2>2 DEF CallOsFails
  <2>3. CASE Embed(q) \/ NoChunks(q) \/ CallVec(q) \/ CallVecFails(q) \/ Abandon(q)
    BY <1>1, <2>3 DEF Embed, NoChunks, CallVec, CallVecFails, Abandon, TypeOK
  <2>4. CASE \E s \in Stores, C \in SUBSET Chunks : Land(s, q, C)
    <3>1. (q \in partial /\ partial' = partial) \/ step'[q] = "abandoned"
      BY <2>4 DEF Land, LateInv
    <3>2. QED
      BY <1>1, <3>1
  <2>5. QED
    BY <2>1, <2>2, <2>3, <2>4 DEF By, Request
<1>2. QED
  BY <1>1, OthersGone DEF HalfGone

LEMMA ByDeletedGone ==
    ASSUME IInv, NEW q \in Requests, By(q), OnlyOf(q), Confined(q)
    PROVE  DeletedGone'
<1> USE DEF IInv
<1>1. ASSUME q \in Deletes, step'[q] = "ok",
             NEW c \in Targets[q], NEW u \in before'[q] \cap Upserts
      PROVE  /\ vec'[c] # u
             /\ u \in Refreshing \/ KindOf[q] = "delete_chunk" =>
                    os'[c] # u /\ (q \in Refreshing => seen'[c] # u)
  <2>1. CASE CallVec(q)
    <3>1. /\ q \notin partial /\ step[q] = "half" /\ c \in Chunks /\ q \notin Upserts
          /\ u # NoVersion /\ UNCHANGED <<os, seen, before>>
      BY <1>1, <2>1, IndexAssumption DEF CallVec, TypeOK, Deletes, Upserts
    <3>2. vec'[c] = NoVersion
      BY <2>1, <3>1, WrittenIs DEF CallVec, ServeVec, Pointed
    <3>3. QED
      BY <1>1, <3>1, <3>2 DEF HalfGone
  <2>2. CASE Embed(q) \/ NoChunks(q) \/ CallOs(q) \/ CallOsFails(q) \/ CallVecFails(q) \/ Abandon(q)
    BY <1>1, <2>2 DEF Embed, NoChunks, CallOs, CallOsFails, AtOs, CallVecFails, Abandon, TypeOK
  <2>3. CASE \E s \in Stores, C \in SUBSET Chunks : Land(s, q, C)
    <3>1. step'[q] # "ok"
      BY <2>3 DEF Land, LateInv, TypeOK
    <3>2. QED
      BY <1>1, <3>1
  <2>4. QED
    BY <2>1, <2>2, <2>3 DEF By, Request
<1>2. QED
  BY <1>1, OthersGone DEF DeletedGone

-----------------------------------------------------------------------------
(* Every step, and every behaviour.                                        *)

LEMMA RefreshInv ==
    ASSUME IInv, Refresh
    PROVE  IInv'
<1> USE DEF IInv
<1>1. TypeOK'
  BY DEF Refresh, TypeOK
<1>2. BeforeInv' /\ LateInv' /\ VectorsInv' /\ SeenInv'
  BY DEF Refresh, BeforeInv, Settled, LateInv, VectorsInv, SeenInv
<1>3. HalfServed' /\ LatestServed'
  BY DEF Refresh, HalfServed, LatestServed, Alone
<1>4. HalfGone' /\ DeletedGone'
  BY DEF Refresh, HalfGone, DeletedGone
<1>5. QED
  BY <1>1, <1>2, <1>3, <1>4

LEMMA NextInv == IInv /\ [Next]_vars => IInv'
<1> SUFFICES ASSUME IInv, [Next]_vars PROVE IInv'
  OBVIOUS
<1>1. CASE UNCHANGED vars
  BY <1>1 DEF vars, IInv, TypeOK, BeforeInv, Settled, LateInv, VectorsInv, SeenInv,
     HalfServed, LatestServed, Alone, HalfGone, DeletedGone
<1>2. CASE Refresh
  BY <1>2, RefreshInv
<1>3. ASSUME NEW q \in Requests, By(q)
      PROVE  IInv'
  <2>1. OnlyOf(q) /\ Confined(q)
    BY <1>3, ByOnlyOf, ByConfined DEF IInv
  <2>2. TypeOK' /\ BeforeInv' /\ LateInv' /\ VectorsInv' /\ SeenInv'
    BY <1>3, <2>1, ByType, ByBefore, ByLate, ByVectors DEF IInv, Confined
  <2>3. HalfServed' /\ LatestServed' /\ HalfGone' /\ DeletedGone'
    BY <1>3, <2>1, ByHalfServed, ByLatestServed, ByHalfGone, ByDeletedGone
  <2>4. QED
    BY <2>2, <2>3 DEF IInv
<1>4. QED
  BY <1>1, <1>2, <1>3, NextIsBy

LEMMA InvAlways == Spec => []IInv
<1>1. QED
  BY InitInv, NextInv, PTL DEF Spec

(* The stores hold versions of upserts, and a request that answers ok has  *)
(* had no failure.                                                         *)
THEOREM IndexTypeCorrect == Spec => []TypeOK
<1>1. IInv => TypeOK
  BY DEF IInv
<1>2. QED
  BY <1>1, InvAlways, PTL

(* Behind an ok, both stores serve what was upserted until another request *)
(* comes to it.                                                            *)
THEOREM OkServed == Spec => []LatestServed
<1>1. IInv => LatestServed
  BY DEF IInv
<1>2. QED
  BY <1>1, InvAlways, PTL

(* Behind an ok, nothing that was there before a delete is left in Qdrant, *)
(* nor in OpenSearch if it was refreshed.                                  *)
THEOREM OkGone == Spec => []DeletedGone
<1>1. IInv => DeletedGone
  BY DEF IInv
<1>2. QED
  BY <1>1, InvAlways, PTL

-----------------------------------------------------------------------------
(* Search.                                                                 *)

-----------------------------------------------------------------------------
(* The inductive invariant.                                                *)

(* Hits of one kind are in the order of their scores: reranked or not, and *)
(* those without a page once they were put behind.                         *)
Deduped == req.onePerPage /\ pc \in {"pages", "cut", "answered"}
Alike(c, d, R, paged) == (c \in R <=> d \in R) /\ (paged => PageOf[c] # NoPage /\ PageOf[d] # NoPage)
SortedBy(list, s, R, paged) ==
    \A i, j \in DOMAIN list : i < j /\ Alike(list[i], list[j], R, paged) => s[list[i]] >= s[list[j]]

PageKeyOf(c) == IF PageOf[c] = NoPage THEN <<c>> ELSE <<DocOf[c], PageOf[c]>>
PagesApart(list) == \A c, d \in ToSet(list) : PageKeyOf(c) = PageKeyOf(d) => c = d

ScoreType(s) == DOMAIN s \subseteq Hits /\ \A c \in DOMAIN s : s[c] \in Int

(* The hits have scores, and no hit comes twice.                           *)
HitsInv ==
    /\ req \in Queries
    /\ pc \in {"fetch", "fuse", "rerank", "dedupe", "pages", "cut", "answered"}
    /\ \A e \in Engines : found[e] \in Answers[e] \cup {<<>>}
    /\ ScoreType(score)
    /\ out \in Seq(DOMAIN score) /\ IsInjective(out)
    /\ text \in [Hits -> {"chunk", "page"}]
    /\ rerank \in {"skipped", "do", "applied", "failed", "unavailable"}
    /\ reranked \subseteq DOMAIN score /\ (pc \in {"fetch", "fuse", "rerank"} => reranked = {})
    /\ degraded \subseteq Engines
    /\ pc = "answered" => uncut \in Seq(DOMAIN score) /\ ToSet(out) \subseteq ToSet(uncut)

(* No stage before the cuts loses the last hit.                            *)
SomeInv == pc \in {"rerank", "dedupe", "pages", "cut"} /\ out = <<>> => DOMAIN score = {}

OrderInv == pc \in {"rerank", "dedupe", "pages", "cut"} => SortedBy(out, score, reranked, Deduped)

PageInv == Deduped => PagesApart(out)

SearchIInv == HitsInv /\ SomeInv /\ OrderInv /\ PageInv /\ Limits /\ CutsKeepTheBest

-----------------------------------------------------------------------------
(* What an engine may answer.                                              *)

Item == [id : Hits, score : Int]
AnswerOK(a) ==
    /\ a \in Seq(Item)
    /\ \A i, j \in DOMAIN a : a[i].id = a[j].id => i = j
    /\ \A i, j \in DOMAIN a : i < j => a[i].score >= a[j].score

LEMMA AnswersAreOK == \A e \in Engines : \A a \in Answers[e] \cup {<<>>} : AnswerOK(a)
<1> SUFFICES ASSUME NEW e \in Engines, NEW a \in Answers[e] \cup {<<>>} PROVE AnswerOK(a)
  OBVIOUS
<1>1. CASE a = <<>>
  <2>1. a \in Seq(Item) /\ Len(a) = 0
    BY <1>1
  <2>2. DOMAIN a = {}
    BY <2>1
  <2> QED BY <2>1, <2>2 DEF AnswerOK
<1>2. CASE a \in Answers[e]
  <2>1. a \in Seq(Item)
    BY <1>2, SearchAssumption DEF Item
  <2>2. IsInjective([i \in DOMAIN a |-> a[i].id]) /\ \A i, j \in DOMAIN a : i < j => a[i].score >= a[j].score
    BY <1>2, SearchAssumption
  <2>3. \A i, j \in DOMAIN a : a[i].id = a[j].id => i = j
    BY <2>2 DEF IsInjective
  <2> QED BY <2>1, <2>2, <2>3 DEF AnswerOK
<1> QED BY <1>1, <1>2

LEMMA AnswerFacts ==
    ASSUME NEW a, AnswerOK(a)
    PROVE  /\ Ids(a) \in Seq(Hits) /\ IsInjective(Ids(a)) /\ Len(Ids(a)) = Len(a)
           /\ DOMAIN Ids(a) = DOMAIN a /\ \A i \in DOMAIN a : Ids(a)[i] = a[i].id
           /\ ToSet(Ids(a)) \subseteq Hits
           /\ ScoreType(ScoreIn(a)) /\ DOMAIN ScoreIn(a) = ToSet(Ids(a))
           /\ \A i \in DOMAIN a : a[i].id \in DOMAIN ScoreIn(a) /\ ScoreIn(a)[a[i].id] = a[i].score
<1>0. a \in Seq(Item)
  BY DEF AnswerOK
<1>1. PICK n \in Nat : n = Len(a) /\ DOMAIN a = 1..n /\ \A i \in 1..n : a[i] \in Item
  BY <1>0
<1>2. \A i \in 1..n : a[i].id \in Hits /\ a[i].score \in Int
  BY <1>1 DEF Item
<1>3. Ids(a) = [i \in 1..n |-> a[i].id]
  BY <1>1 DEF Ids
<1>4. Ids(a) \in Seq(Hits) /\ Len(Ids(a)) = n /\ DOMAIN Ids(a) = 1..n /\ \A i \in 1..n : Ids(a)[i] = a[i].id
  BY <1>2, <1>3
<1>5. IsInjective(Ids(a))
  BY <1>1, <1>4 DEF IsInjective, AnswerOK
<1>6. ToSet(Ids(a)) \subseteq Hits /\ \A i \in 1..n : a[i].id \in ToSet(Ids(a))
  BY <1>2, <1>4 DEF ToSet
<1>7. DOMAIN ScoreIn(a) = ToSet(Ids(a))
  BY DEF ScoreIn
<1>8. ASSUME NEW i \in 1..n PROVE ScoreIn(a)[a[i].id] = a[i].score
  <2>1. ScoreIn(a)[a[i].id] = a[CHOOSE j \in DOMAIN a : a[j].id = a[i].id].score
    BY <1>6 DEF ScoreIn
  <2> DEFINE k == CHOOSE j \in DOMAIN a : a[j].id = a[i].id
  <2>2. k \in DOMAIN a /\ a[k].id = a[i].id
    BY <1>1
  <2>3. k = i
    BY <1>1, <2>2 DEF AnswerOK
  <2> QED BY <2>1, <2>3
<1>9. \A c \in DOMAIN ScoreIn(a) : ScoreIn(a)[c] \in Int
  <2> SUFFICES ASSUME NEW c \in DOMAIN ScoreIn(a) PROVE ScoreIn(a)[c] \in Int
    OBVIOUS
  <2>1. PICK i \in 1..n : c = a[i].id
    BY <1>4, <1>7 DEF ToSet
  <2> QED BY <1>2, <1>8, <2>1
<1>10. ScoreType(ScoreIn(a))
  BY <1>6, <1>7, <1>9 DEF ScoreType
<1> QED BY <1>1, <1>4, <1>5, <1>6, <1>7, <1>8, <1>10

-----------------------------------------------------------------------------
(* Fusion.                                                                 *)

(* What a place of a list is worth, and what a hit's place is.             *)
LEMMA ShareType ==
    ASSUME NEW w \in Nat, NEW i \in Nat, i # 0
    PROVE  w * (Unit \div (RrfK + i)) \in Nat
<1>1. PICK u \in Nat, k \in Nat : u = Unit /\ k = RrfK + i /\ k # 0
  BY SearchAssumption
<1>2. u \div k \in Nat
  BY <1>1
<1>3. PICK q \in Nat : q = u \div k
  BY <1>2
<1>4. w * q \in Nat
  OBVIOUS
<1> QED BY <1>1, <1>3, <1>4

LEMMA ShareFalls ==
    ASSUME NEW w \in Nat, NEW i \in Nat, i # 0, NEW j \in Nat, i < j
    PROVE  w * (Unit \div (RrfK + j)) <= w * (Unit \div (RrfK + i))
<1>1. PICK u \in Nat, k \in Nat, l \in Nat : u = Unit /\ k = RrfK + i /\ l = RrfK + j /\ k # 0 /\ k < l
  BY SearchAssumption
<1>2. PICK q \in Nat, r \in Nat : q = u \div k /\ r = u \div l
  <2>1. u \div k \in Nat /\ u \div l \in Nat
    BY <1>1
  <2> QED BY <2>1
<1>3. l * r <= u /\ u < k * (q + 1)
  BY <1>1, <1>2
<1>4. r <= q
  <2> SUFFICES ASSUME r >= q + 1 PROVE FALSE
    BY <1>2
  <2>1. k * (q + 1) <= l * r
    BY <1>1
  <2> QED BY <1>1, <1>3, <2>1
<1>5. w * r <= w * q
  BY <1>4
<1> QED BY <1>1, <1>2, <1>5

(* A source's points for a hit.                                            *)
RankPoints(list, w, c) ==
    SumFunction([i \in {j \in DOMAIN list : list[j] = c} |-> w * (Unit \div (RrfK + i))])

LEMMA RankPointsAre ==
    ASSUME NEW list \in Seq(Hits), IsInjective(list), NEW w \in Nat
    PROVE  /\ \A i \in DOMAIN list : RankPoints(list, w, list[i]) = w * (Unit \div (RrfK + i))
           /\ \A c : c \notin ToSet(list) => RankPoints(list, w, c) = 0
           /\ \A c : RankPoints(list, w, c) \in Nat
<1>1. ASSUME NEW i \in DOMAIN list
      PROVE  RankPoints(list, w, list[i]) = w * (Unit \div (RrfK + i)) /\ w * (Unit \div (RrfK + i)) \in Nat
  <2> DEFINE J == {j \in DOMAIN list : list[j] = list[i]}
             f == [j \in J |-> w * (Unit \div (RrfK + j))]
  <2>1. J = {i}
    BY DEF IsInjective
  <2>2. i \in Nat /\ i # 0
    OBVIOUS
  <2>3. w * (Unit \div (RrfK + i)) \in Nat
    BY <2>2, ShareType
  <2> HIDE DEF J
  <2>4. DOMAIN f = {i} /\ f[i] = w * (Unit \div (RrfK + i)) /\ f[i] \in Int
    BY <2>1, <2>3
  <2>5. SumFunction(f) = f[i]
    <3> HIDE DEF f
    <3> QED BY <2>4, SumOfOne
  <2>6. RankPoints(list, w, list[i]) = SumFunction(f)
    BY DEF RankPoints, J
  <2> QED BY <2>3, <2>4, <2>5, <2>6
<1>2. ASSUME NEW c, c \notin ToSet(list) PROVE RankPoints(list, w, c) = 0
  <2> DEFINE J == {j \in DOMAIN list : list[j] = c}
             f == [j \in J |-> w * (Unit \div (RrfK + j))]
  <2>1. J = {}
    BY <1>2 DEF ToSet
  <2>2. DOMAIN f = {}
    BY <2>1
  <2>3. SumFunction(f) = 0
    <3> HIDE DEF f
    <3> QED BY <2>2, SumOfEmpty
  <2> QED BY <2>3 DEF RankPoints
<1>3. ASSUME NEW c PROVE RankPoints(list, w, c) \in Nat
  <2>1. CASE c \in ToSet(list)
    <3>1. PICK i \in DOMAIN list : list[i] = c
      BY <2>1 DEF ToSet
    <3> QED BY <1>1, <3>1
  <2>2. CASE c \notin ToSet(list)
    BY <1>2, <2>2
  <2> QED BY <2>1, <2>2
<1> QED BY <1>1, <1>2, <1>3

(* What is ranked before has at least as many points.                      *)
LEMMA RankPointsFall ==
    ASSUME NEW list \in Seq(Hits), IsInjective(list), NEW w \in Nat,
           NEW c, NEW d, d \in ToSet(list) => \E i, j \in DOMAIN list : i < j /\ list[i] = c /\ list[j] = d
    PROVE  RankPoints(list, w, d) <= RankPoints(list, w, c)
<1>1. CASE d \notin ToSet(list)
  <2>1. RankPoints(list, w, d) = 0 /\ RankPoints(list, w, c) \in Nat
    BY <1>1, RankPointsAre
  <2> QED BY <2>1
<1>2. CASE d \in ToSet(list)
  <2>1. PICK i \in DOMAIN list : \E j \in DOMAIN list : i < j /\ list[i] = c /\ list[j] = d
    BY <1>2
  <2>2. PICK j \in DOMAIN list : i < j /\ list[i] = c /\ list[j] = d
    BY <2>1
  <2>3. i \in Nat /\ i # 0 /\ j \in Nat
    OBVIOUS
  <2>4. RankPoints(list, w, c) = w * (Unit \div (RrfK + i)) /\ RankPoints(list, w, d) = w * (Unit \div (RrfK + j))
    BY <2>2, RankPointsAre
  <2> QED BY <2>2, <2>3, <2>4, ShareFalls
<1> QED BY <1>1, <1>2

(* A source's share of a score, relative to its best.                      *)
BestIn(s) == Max({s[c] : c \in DOMAIN s})
ScorePoints(s, w, c) ==
    IF c \in DOMAIN s /\ BestIn(s) > 0 THEN w * ((Unit * s[c]) \div BestIn(s)) ELSE 0

LEMMA BestIsInt ==
    ASSUME NEW a, AnswerOK(a), NEW c \in DOMAIN ScoreIn(a)
    PROVE  BestIn(ScoreIn(a)) \in Int
<1> DEFINE s == ScoreIn(a)
           f == [i \in 1..Len(a) |-> a[i].score]
           T == {f[i] : i \in 1..Len(a)}
<1>1. Len(a) \in Nat /\ DOMAIN a = 1..Len(a) /\ \A i \in 1..Len(a) : f[i] = a[i].score /\ f[i] \in Int
  <2>1. a \in Seq(Item)
    BY DEF AnswerOK
  <2>2. \A i \in 1..Len(a) : a[i] \in Item
    BY <2>1
  <2>3. \A i \in 1..Len(a) : a[i].score \in Int
    BY <2>2 DEF Item
  <2> QED BY <2>1, <2>3
<1> HIDE DEF f, s
<1>2. /\ DOMAIN s = ToSet(Ids(a)) /\ DOMAIN Ids(a) = DOMAIN a
      /\ \A i \in DOMAIN a : Ids(a)[i] = a[i].id /\ a[i].id \in DOMAIN s /\ s[a[i].id] = a[i].score
  BY AnswerFacts DEF s
<1>3. \A d \in DOMAIN s : \E i \in 1..Len(a) : d = a[i].id
  BY <1>1, <1>2 DEF ToSet
<1>4. {s[d] : d \in DOMAIN s} = T
  <2>1. \A d \in DOMAIN s : \E i \in 1..Len(a) : s[d] = f[i]
    BY <1>1, <1>2, <1>3
  <2>2. \A i \in 1..Len(a) : \E d \in DOMAIN s : s[d] = f[i]
    BY <1>1, <1>2
  <2> QED BY <2>1, <2>2
<1>5. 1..Len(a) # {} /\ 1..Len(a) \in SUBSET (1..Len(a))
  BY <1>3 DEF s
<1>6. Max(T) \in T
  BY <1>1, <1>5, MaxOfInts
<1>7. Max(T) \in Int
  BY <1>1, <1>6
<1> QED BY <1>4, <1>7 DEF BestIn, s

LEMMA ScorePointsType ==
    ASSUME NEW a, AnswerOK(a), NEW w \in Nat, NEW c
    PROVE  /\ ScorePoints(ScoreIn(a), w, c) \in Int
           /\ (c \in DOMAIN ScoreIn(a) => ScoreIn(a)[c] >= 0) => ScorePoints(ScoreIn(a), w, c) >= 0
<1>1. CASE ~(c \in DOMAIN ScoreIn(a) /\ BestIn(ScoreIn(a)) > 0)
  BY <1>1 DEF ScorePoints
<1>2. CASE c \in DOMAIN ScoreIn(a) /\ BestIn(ScoreIn(a)) > 0
  <2>1. PICK b \in Int, x \in Int, u \in Nat : b = BestIn(ScoreIn(a)) /\ x = ScoreIn(a)[c] /\ u = Unit /\ b > 0
    BY <1>2, BestIsInt, AnswerFacts, SearchAssumption DEF ScoreType
  <2>2. PICK y \in Int : y = u * x /\ (x >= 0 => y >= 0)
    BY <2>1
  <2>3. y \div b \in Int /\ (y >= 0 => y \div b >= 0)
    BY <2>1
  <2>4. PICK q \in Int : q = y \div b /\ (y >= 0 => q >= 0)
    BY <2>3
  <2>5. w * q \in Int /\ (q >= 0 => w * q >= 0)
    OBVIOUS
  <2>6. ScorePoints(ScoreIn(a), w, c) = w * q
    BY <1>2, <2>1, <2>2, <2>4 DEF ScorePoints
  <2> QED BY <1>2, <2>1, <2>2, <2>4, <2>5, <2>6
<1> QED BY <1>1, <1>2

LEMMA ScorePointsFall ==
    ASSUME NEW a, AnswerOK(a), NEW w \in Nat, NEW c, NEW d,
           d \in DOMAIN ScoreIn(a) => c \in DOMAIN ScoreIn(a) /\ ScoreIn(a)[c] >= ScoreIn(a)[d],
           c \in DOMAIN ScoreIn(a) => ScoreIn(a)[c] >= 0
    PROVE  ScorePoints(ScoreIn(a), w, d) <= ScorePoints(ScoreIn(a), w, c)
<1>1. CASE ~(d \in DOMAIN ScoreIn(a) /\ BestIn(ScoreIn(a)) > 0)
  <2>1. ScorePoints(ScoreIn(a), w, d) = 0
    BY <1>1 DEF ScorePoints
  <2>2. ScorePoints(ScoreIn(a), w, c) \in Int /\ ScorePoints(ScoreIn(a), w, c) >= 0
    BY ScorePointsType
  <2> QED BY <2>1, <2>2
<1>2. CASE d \in DOMAIN ScoreIn(a) /\ BestIn(ScoreIn(a)) > 0
  <2>1. PICK b \in Int, x \in Int, y \in Int, u \in Nat :
           b = BestIn(ScoreIn(a)) /\ x = ScoreIn(a)[c] /\ y = ScoreIn(a)[d] /\ u = Unit /\ b > 0 /\ x >= y
    BY <1>2, BestIsInt, AnswerFacts, SearchAssumption DEF ScoreType
  <2>2. PICK v \in Int, z \in Int : v = u * x /\ z = u * y /\ v >= z
    <3>1. u * x \in Int /\ u * y \in Int /\ u * x >= u * y
      BY <2>1
    <3> QED BY <3>1
  <2>3. v \div b \in Int /\ z \div b \in Int /\ z \div b <= v \div b
    BY <2>1, <2>2
  <2>4. PICK q \in Int, r \in Int : q = v \div b /\ r = z \div b /\ r <= q
    BY <2>3
  <2>5. w * r <= w * q
    BY <2>4
  <2>6. ScorePoints(ScoreIn(a), w, c) = w * q /\ ScorePoints(ScoreIn(a), w, d) = w * r
    BY <1>2, <2>1, <2>2, <2>4 DEF ScorePoints
  <2> QED BY <2>5, <2>6
<1> QED BY <1>1, <1>2

LEMMA RrfAt ==
    ASSUME NEW R, NEW c \in Listed(R)
    PROVE  RrfFusion(R, Weight, RrfK, Unit)[c] = SumFunction([s \in DOMAIN R |-> RankPoints(R[s], Weight[s], c)])
BY DEF RrfFusion, RankPoints

LEMMA ScoreAt ==
    ASSUME NEW T, NEW c \in UNION {DOMAIN T[s] : s \in DOMAIN T}
    PROVE  ScoreFusion(T, Weight, Unit)[c] = SumFunction([s \in DOMAIN T |-> ScorePoints(T[s], Weight[s], c)])
BY DEF ScoreFusion, ScorePoints, BestIn

LEMMA FoundIsOK == HitsInv => \A e \in Engines : AnswerOK(found[e])
BY AnswersAreOK DEF HitsInv

LEMMA EnginesAreTwo == IsFiniteSet(Engines) /\ "bm25" \in Engines /\ "vector" \in Engines
<1>1. IsFiniteSet({"bm25"})
  BY FS_Singleton
<1>2. IsFiniteSet({"bm25"} \cup {"vector"})
  BY <1>1, FS_AddElement
<1>3. {"bm25"} \cup {"vector"} = Engines
  BY DEF Engines
<1> QED BY <1>2, <1>3 DEF Engines

InOf(e) == ToSet(Ids(found[e]))
RankSum(c) == SumFunction([e \in Engines |-> RankPoints(Ids(found[e]), Weight[e], c)])
ScoreSum(c) == SumFunction([e \in Engines |-> ScorePoints(ScoreIn(found[e]), Weight[e], c)])

LEMMA SumsAreInt == HitsInv => \A c : RankSum(c) \in Int /\ ScoreSum(c) \in Int
<1> SUFFICES ASSUME HitsInv, NEW c PROVE RankSum(c) \in Int /\ ScoreSum(c) \in Int
  OBVIOUS
<1> DEFINE f == [e \in Engines |-> RankPoints(Ids(found[e]), Weight[e], c)]
           g == [e \in Engines |-> ScorePoints(ScoreIn(found[e]), Weight[e], c)]
<1>1. ASSUME NEW e \in Engines PROVE f[e] \in Int /\ g[e] \in Int
  <2>1. AnswerOK(found[e]) /\ Weight[e] \in Nat
    BY FoundIsOK, SearchAssumption
  <2>2. Ids(found[e]) \in Seq(Hits) /\ IsInjective(Ids(found[e]))
    BY <2>1, AnswerFacts
  <2>3. RankPoints(Ids(found[e]), Weight[e], c) \in Nat
    BY <2>1, <2>2, RankPointsAre
  <2>4. ScorePoints(ScoreIn(found[e]), Weight[e], c) \in Int
    BY <2>1, ScorePointsType
  <2> QED BY <2>3, <2>4
<1>2. DOMAIN f = Engines /\ DOMAIN g = Engines
  OBVIOUS
<1>3. SumFunction(f) \in Int /\ SumFunction(g) \in Int
  <2> HIDE DEF f, g
  <2> QED BY <1>1, <1>2, EnginesAreTwo, SumIsInt
<1> QED BY <1>3 DEF RankSum, ScoreSum

LEMMA FusedIs ==
    ASSUME HitsInv, req.mode = "hybrid"
    PROVE  /\ DOMAIN Fused = InOf("bm25") \cup InOf("vector")
           /\ \E a \in 0..2 : \A c \in DOMAIN Fused : Fused[c] = a * RankSum(c) + (2 - a) * ScoreSum(c)
<1> DEFINE R == [e \in Engines |-> Ids(found[e])]
           T == [e \in Engines |-> ScoreIn(found[e])]
           rrf == RrfFusion(R, Weight, RrfK, Unit)
           sc == ScoreFusion(T, Weight, Unit)
           a == Larger(0, Smaller(2, req.half))
<1>1. Fused = HybridFusion(R, T, Weight, RrfK, req.half, Unit)
  BY DEF Fused
<1>2. Fused = [c \in DOMAIN rrf |-> a * rrf[c] + (2 - a) * sc[c]]
  BY <1>1 DEF HybridFusion
<1>3. a \in 0..2
  <2>1. req.half \in 0..2
    BY SearchAssumption DEF HitsInv, RequestType
  <2> QED BY <2>1 DEF Larger, Smaller
<1> HIDE DEF a
<1>4. DOMAIN R = Engines /\ DOMAIN T = Engines /\ \A e \in Engines : R[e] = Ids(found[e]) /\ T[e] = ScoreIn(found[e])
  OBVIOUS
<1>5. \A e \in Engines : DOMAIN ScoreIn(found[e]) = InOf(e)
  BY FoundIsOK, AnswerFacts DEF InOf
<1> HIDE DEF R, T
<1>6. Listed(R) = InOf("bm25") \cup InOf("vector")
  BY <1>4 DEF Listed, Engines, InOf
<1>7. UNION {DOMAIN T[s] : s \in DOMAIN T} = InOf("bm25") \cup InOf("vector")
  BY <1>4, <1>5 DEF Engines
<1>8. DOMAIN rrf = InOf("bm25") \cup InOf("vector")
  BY <1>6 DEF RrfFusion
<1>9. ASSUME NEW c \in DOMAIN rrf PROVE rrf[c] = RankSum(c) /\ sc[c] = ScoreSum(c)
  <2>1. rrf[c] = SumFunction([s \in DOMAIN R |-> RankPoints(R[s], Weight[s], c)])
    BY <1>6, <1>8, <1>9, RrfAt
  <2>2. sc[c] = SumFunction([s \in DOMAIN T |-> ScorePoints(T[s], Weight[s], c)])
    BY <1>7, <1>8, <1>9, ScoreAt
  <2>3. [s \in DOMAIN R |-> RankPoints(R[s], Weight[s], c)] = [e \in Engines |-> RankPoints(Ids(found[e]), Weight[e], c)]
    BY <1>4
  <2>4. [s \in DOMAIN T |-> ScorePoints(T[s], Weight[s], c)] = [e \in Engines |-> ScorePoints(ScoreIn(found[e]), Weight[e], c)]
    BY <1>4
  <2> QED BY <2>1, <2>2, <2>3, <2>4 DEF RankSum, ScoreSum
<1> HIDE DEF rrf, sc
<1>10. DOMAIN Fused = DOMAIN rrf
  BY <1>2
<1>11. \A c \in DOMAIN Fused : Fused[c] = a * RankSum(c) + (2 - a) * ScoreSum(c)
  BY <1>2, <1>9, <1>10
<1> QED BY <1>3, <1>8, <1>10, <1>11

LEMMA FusedType == HitsInv => ScoreType(Fused)
<1> SUFFICES ASSUME HitsInv PROVE ScoreType(Fused)
  OBVIOUS
<1>1. CASE req.mode = "hybrid"
  <2>1. DOMAIN Fused \subseteq Hits
    <3>1. \A e \in Engines : InOf(e) \subseteq Hits
      BY FoundIsOK, AnswerFacts DEF InOf
    <3> QED BY <1>1, <3>1, EnginesAreTwo, FusedIs
  <2>2. PICK a \in 0..2 : \A c \in DOMAIN Fused : Fused[c] = a * RankSum(c) + (2 - a) * ScoreSum(c)
    BY <1>1, FusedIs
  <2>3. ASSUME NEW c \in DOMAIN Fused PROVE Fused[c] \in Int
    <3>1. PICK u \in Int, v \in Int : u = RankSum(c) /\ v = ScoreSum(c)
      BY SumsAreInt
    <3>2. a * u + (2 - a) * v \in Int
      OBVIOUS
    <3> QED BY <2>2, <3>1, <3>2
  <2> QED BY <2>1, <2>3 DEF ScoreType
<1>2. CASE req.mode # "hybrid"
  <2>1. req.mode \in Engines
    BY <1>2, SearchAssumption DEF HitsInv, RequestType
  <2>2. Fused = ScoreIn(found[req.mode])
    BY <1>2 DEF Fused
  <2> QED BY <2>1, <2>2, FoundIsOK, AnswerFacts
<1> QED BY <1>1, <1>2

LEMMA AgreementHolds == HitsInv => AgreementKept
<1> DEFINE Before(e, c, d) == \E i, j \in DOMAIN found[e] : i < j /\ found[e][i].id = c /\ found[e][j].id = d
<1> SUFFICES ASSUME HitsInv, req.mode = "hybrid",
                    NEW c \in InOf("bm25") \cup InOf("vector"), NEW d \in InOf("bm25") \cup InOf("vector"),
                    \A e \in Engines : d \in InOf(e) => Before(e, c, d),
                    \A e \in Engines : c \in InOf(e) => ScoreIn(found[e])[c] >= 0
             PROVE  Fused[c] >= Fused[d]
  BY DEF AgreementKept, InOf
<1> DEFINE f(x) == [e \in Engines |-> RankPoints(Ids(found[e]), Weight[e], x)]
           g(x) == [e \in Engines |-> ScorePoints(ScoreIn(found[e]), Weight[e], x)]
<1>1. ASSUME NEW e \in Engines
      PROVE  /\ f(d)[e] \in Int /\ f(c)[e] \in Int /\ f(d)[e] <= f(c)[e]
             /\ g(d)[e] \in Int /\ g(c)[e] \in Int /\ g(d)[e] <= g(c)[e]
  <2>1. AnswerOK(found[e]) /\ Weight[e] \in Nat
    BY FoundIsOK, SearchAssumption
  <2>2. /\ Ids(found[e]) \in Seq(Hits) /\ IsInjective(Ids(found[e])) /\ DOMAIN Ids(found[e]) = DOMAIN found[e]
        /\ \A i \in DOMAIN found[e] : Ids(found[e])[i] = found[e][i].id
        /\ DOMAIN ScoreIn(found[e]) = InOf(e)
        /\ \A i \in DOMAIN found[e] : found[e][i].id \in DOMAIN ScoreIn(found[e])
                                      /\ ScoreIn(found[e])[found[e][i].id] = found[e][i].score
    BY <2>1, AnswerFacts DEF InOf
  <2>3. d \in InOf(e) => \E i, j \in DOMAIN Ids(found[e]) : i < j /\ Ids(found[e])[i] = c /\ Ids(found[e])[j] = d
    <3> SUFFICES ASSUME d \in InOf(e)
                 PROVE  \E i, j \in DOMAIN Ids(found[e]) : i < j /\ Ids(found[e])[i] = c /\ Ids(found[e])[j] = d
      OBVIOUS
    <3>1. PICK i \in DOMAIN found[e] : \E j \in DOMAIN found[e] : i < j /\ found[e][i].id = c /\ found[e][j].id = d
      OBVIOUS
    <3>2. PICK j \in DOMAIN found[e] : i < j /\ found[e][i].id = c /\ found[e][j].id = d
      BY <3>1
    <3> QED BY <2>2, <3>2
  <2>4. RankPoints(Ids(found[e]), Weight[e], d) <= RankPoints(Ids(found[e]), Weight[e], c)
    BY <2>1, <2>2, <2>3, RankPointsFall DEF InOf
  <2>5. RankPoints(Ids(found[e]), Weight[e], d) \in Int /\ RankPoints(Ids(found[e]), Weight[e], c) \in Int
    BY <2>1, <2>2, RankPointsAre
  <2>6. d \in DOMAIN ScoreIn(found[e]) => c \in DOMAIN ScoreIn(found[e]) /\ ScoreIn(found[e])[c] >= ScoreIn(found[e])[d]
    <3> SUFFICES ASSUME d \in InOf(e)
                 PROVE  c \in DOMAIN ScoreIn(found[e]) /\ ScoreIn(found[e])[c] >= ScoreIn(found[e])[d]
      BY <2>2
    <3>1. PICK i \in DOMAIN found[e] : \E j \in DOMAIN found[e] : i < j /\ found[e][i].id = c /\ found[e][j].id = d
      OBVIOUS
    <3>2. PICK j \in DOMAIN found[e] : i < j /\ found[e][i].id = c /\ found[e][j].id = d
      BY <3>1
    <3>3. found[e][i].score >= found[e][j].score
      BY <2>1, <3>2 DEF AnswerOK
    <3> QED BY <2>2, <3>2, <3>3
  <2>7. c \in DOMAIN ScoreIn(found[e]) => ScoreIn(found[e])[c] >= 0
    BY <2>2
  <2>8. ScorePoints(ScoreIn(found[e]), Weight[e], d) <= ScorePoints(ScoreIn(found[e]), Weight[e], c)
    BY <2>1, <2>6, <2>7, ScorePointsFall
  <2>9. ScorePoints(ScoreIn(found[e]), Weight[e], d) \in Int /\ ScorePoints(ScoreIn(found[e]), Weight[e], c) \in Int
    BY <2>1, ScorePointsType
  <2> QED BY <2>4, <2>5, <2>8, <2>9
<1>2. \A x : DOMAIN f(x) = Engines /\ DOMAIN g(x) = Engines /\ SumFunction(f(x)) = RankSum(x) /\ SumFunction(g(x)) = ScoreSum(x)
  BY DEF RankSum, ScoreSum
<1> HIDE DEF f, g
<1>3. RankSum(d) <= RankSum(c)
  <2>1. SumFunction(f(d)) <= SumFunction(f(c))
    BY <1>1, <1>2, EnginesAreTwo, SumIsBelow
  <2> QED BY <1>2, <2>1
<1>4. ScoreSum(d) <= ScoreSum(c)
  <2>1. SumFunction(g(d)) <= SumFunction(g(c))
    BY <1>1, <1>2, EnginesAreTwo, SumIsBelow
  <2> QED BY <1>2, <2>1
<1>5. PICK a \in 0..2 : \A x \in DOMAIN Fused : Fused[x] = a * RankSum(x) + (2 - a) * ScoreSum(x)
  BY FusedIs
<1>6. Fused[c] = a * RankSum(c) + (2 - a) * ScoreSum(c) /\ Fused[d] = a * RankSum(d) + (2 - a) * ScoreSum(d)
  BY <1>5, FusedIs
<1>7. PICK u \in Int, v \in Int, x \in Int, y \in Int : u = RankSum(c) /\ v = ScoreSum(c) /\ x = RankSum(d) /\ y = ScoreSum(d)
  BY SumsAreInt
<1>8. a * x + (2 - a) * y <= a * u + (2 - a) * v
  <2>1. x <= u /\ y <= v
    BY <1>3, <1>4, <1>7
  <2>2. a = 0 \/ a = 1 \/ a = 2
    OBVIOUS
  <2> QED BY <2>1, <2>2
<1> QED BY <1>6, <1>7, <1>8

-----------------------------------------------------------------------------
(* The steps.                                                              *)

LEMMA InitSearch == SearchInit => SearchIInv
<1> SUFFICES ASSUME SearchInit PROVE SearchIInv
  OBVIOUS
<1> USE DEF SearchInit
<1>1. DOMAIN score = {} /\ out = <<>> /\ pc = "fetch"
  OBVIOUS
<1>2. ScoreType(score)
  BY <1>1 DEF ScoreType
<1>3. out \in Seq(DOMAIN score) /\ IsInjective(out)
  BY <1>1 DEF IsInjective
<1>4. \A e \in Engines : found[e] \in Answers[e] \cup {<<>>}
  OBVIOUS
<1>5. text \in [Hits -> {"chunk", "page"}]
  OBVIOUS
<1>6. HitsInv
  BY <1>2, <1>3, <1>4, <1>5 DEF HitsInv
<1> QED BY <1>1, <1>6 DEF SearchIInv, SomeInv, OrderInv, PageInv, Deduped, Limits, CutsKeepTheBest

(* A stage that is not the last.                                           *)
LEMMA StageKeeps ==
    ASSUME HitsInv', SomeInv', OrderInv', PageInv', pc' # "answered"
    PROVE  SearchIInv'
BY DEF SearchIInv, Limits, CutsKeepTheBest

LEMMA FetchKeeps == SearchIInv /\ Fetch => SearchIInv'
<1> SUFFICES ASSUME SearchIInv, Fetch PROVE SearchIInv'
  OBVIOUS
<1>1. HitsInv /\ pc' = "fuse" /\ UNCHANGED <<req, score, out, rerank, reranked, text, uncut>> /\ pc = "fetch"
  BY DEF SearchIInv, Fetch
<1>2. PICK down \in SUBSET Asked : \E b \in Heard("bm25", down), v \in Heard("vector", down) :
          /\ degraded' = down
          /\ found' = [e \in Engines |-> IF e = "bm25" THEN b ELSE v]
  BY DEF Fetch
<1>3. PICK b \in Heard("bm25", down), v \in Heard("vector", down) :
          /\ degraded' = down
          /\ found' = [e \in Engines |-> IF e = "bm25" THEN b ELSE v]
  BY <1>2
<1>4. b \in Answers["bm25"] \cup {<<>>} /\ v \in Answers["vector"] \cup {<<>>}
  BY DEF Heard
<1>5. \A e \in Engines : found'[e] \in Answers[e] \cup {<<>>}
  BY <1>3, <1>4 DEF Engines
<1>6. down \subseteq Engines
  BY <1>1, SearchAssumption DEF Asked, HitsInv, RequestType
<1>7. HitsInv'
  BY <1>1, <1>3, <1>5, <1>6 DEF HitsInv
<1> QED BY <1>1, <1>7, StageKeeps DEF SomeInv, OrderInv, PageInv, Deduped

(* The hits in an order of their fused scores.                             *)
LEMMA OrdersFall ==
    ASSUME HitsInv, NEW p \in Orders
    PROVE  /\ p \in Seq(DOMAIN Fused) /\ IsInjective(p) /\ (p = <<>> => DOMAIN Fused = {})
           /\ \A i, j \in DOMAIN p : i < j => Fused[p[i]] >= Fused[p[j]]
<1>1. ScoreType(Fused)
  BY FusedType
<1>2. CASE req.mode = "hybrid"
  <2> DEFINE S == DOMAIN Fused
             n == Cardinality(S)
  <2>1. IsFiniteSet(S)
    <3>1. \A e \in Engines : IsFiniteSet(InOf(e))
      <4> SUFFICES ASSUME NEW e \in Engines PROVE IsFiniteSet(InOf(e))
        OBVIOUS
      <4>1. Ids(found[e]) \in Seq(Hits) /\ IsInjective(Ids(found[e]))
        BY FoundIsOK, AnswerFacts
      <4> QED BY <4>1, LengthOfDistinct DEF InOf
    <3>2. IsFiniteSet(InOf("bm25") \cup InOf("vector"))
      BY <3>1, EnginesAreTwo, FS_Union
    <3> QED BY <1>2, <3>2, FusedIs
  <2>2. n \in Nat /\ (n = 0 => S = {})
    BY <2>1, FS_CardinalityType, FS_EmptySet
  <2>3. /\ p \in [1..n -> S] /\ IsInjective(p)
        /\ \A i \in 1..n - 1 : Fused[p[i]] >= Fused[p[i + 1]]
    BY <1>2 DEF Orders
  <2> HIDE DEF n
  <2>4. p \in Seq(S) /\ Len(p) = n /\ DOMAIN p = 1..n
    BY <2>2, <2>3
  <2>5. p = <<>> => S = {}
    BY <2>2, <2>4
  <2> DEFINE f == [i \in 1..n |-> Fused[p[i]]]
  <2>6. \A i \in 1..n : f[i] \in Int /\ f[i] = Fused[p[i]]
    BY <1>1, <2>3 DEF ScoreType
  <2>7. \A i \in 1..n - 1 : f[i] >= f[i + 1]
    <3>1. \A i \in 1..n - 1 : i \in 1..n /\ i + 1 \in 1..n
      BY <2>2
    <3> QED BY <2>3, <3>1
  <2>8. \A i, j \in 1..n : i < j => f[i] >= f[j]
    <3> HIDE DEF f
    <3> QED BY <2>2, <2>6, <2>7, FallsThroughout
  <2> HIDE DEF f
  <2>9. \A i, j \in DOMAIN p : i < j => Fused[p[i]] >= Fused[p[j]]
    BY <2>4, <2>6, <2>8
  <2> QED BY <2>3, <2>4, <2>5, <2>9
<1>3. CASE req.mode # "hybrid"
  <2>1. req.mode \in Engines
    BY <1>3, SearchAssumption DEF HitsInv, RequestType
  <2> DEFINE a == found[req.mode]
  <2>2. Fused = ScoreIn(a) /\ p = Ids(a)
    BY <1>3 DEF Fused, Orders
  <2>3. AnswerOK(a)
    BY <2>1, FoundIsOK
  <2> HIDE DEF a
  <2>4. /\ Ids(a) \in Seq(Hits) /\ IsInjective(Ids(a)) /\ Len(Ids(a)) = Len(a)
        /\ DOMAIN Ids(a) = DOMAIN a /\ \A i \in DOMAIN a : Ids(a)[i] = a[i].id
        /\ DOMAIN ScoreIn(a) = ToSet(Ids(a))
        /\ \A i \in DOMAIN a : ScoreIn(a)[a[i].id] = a[i].score
    BY <2>3, AnswerFacts
  <2>5. p \in Seq(DOMAIN Fused)
    BY <2>2, <2>4, ListOf
  <2>6. p = <<>> => DOMAIN Fused = {}
    BY <2>2, <2>4 DEF ToSet
  <2>7. \A i, j \in DOMAIN p : i < j => Fused[p[i]] >= Fused[p[j]]
    BY <2>2, <2>3, <2>4 DEF AnswerOK
  <2> QED BY <2>2, <2>4, <2>5, <2>6, <2>7
<1> QED BY <1>2, <1>3

LEMMA FuseKeeps == SearchIInv /\ Fuse => SearchIInv'
<1> SUFFICES ASSUME SearchIInv, Fuse PROVE SearchIInv'
  OBVIOUS
<1> DEFINE do == WantRerank /\ req.client
           pre == IF do THEN Larger(TopK, Larger(Candidates, RerankMax)) ELSE TopK
<1>1. HitsInv /\ pc = "fuse" /\ pc' = "rerank" /\ score' = Fused /\ UNCHANGED <<req, reranked, text, degraded, uncut>>
  BY DEF SearchIInv, Fuse
<1>2. rerank' \in {"do", "unavailable", "skipped"} /\ found' = [e \in Engines |-> <<>>]
  BY DEF Fuse
<1>3. PICK p \in Orders : out' = UpTo(p, pre)
  BY DEF Fuse
<1>4. pre \in Nat /\ pre # 0
  BY SearchAssumption DEF Larger
<1> HIDE DEF pre
<1>5. /\ p \in Seq(DOMAIN Fused) /\ IsInjective(p) /\ (p = <<>> => DOMAIN Fused = {})
      /\ \A i, j \in DOMAIN p : i < j => Fused[p[i]] >= Fused[p[j]]
  BY <1>1, OrdersFall
<1>6. PICK q : q = UpTo(p, pre)
  OBVIOUS
<1>7. /\ q \in Seq(DOMAIN Fused) /\ IsInjective(q) /\ (Len(q) = pre \/ q = p)
      /\ DOMAIN q = 1..Len(q) /\ Len(q) \in Nat /\ Len(q) <= Len(p) /\ \A i \in 1..Len(q) : q[i] = p[i]
  BY <1>4, <1>5, <1>6, CutHolds, CutLength
<1>8. q = <<>> => DOMAIN Fused = {}
  BY <1>4, <1>5, <1>7
<1>9. \A i, j \in DOMAIN q : i < j => Fused[q[i]] >= Fused[q[j]]
  <2>1. \A i \in DOMAIN q : i \in DOMAIN p /\ q[i] = p[i]
    BY <1>5, <1>7
  <2> QED BY <1>5, <2>1
<1>10. out' = q
  BY <1>3, <1>6
<1>11. HitsInv'
  <2>1. reranked' = {}
    BY <1>1 DEF HitsInv
  <2>2. \A e \in Engines : found'[e] \in Answers[e] \cup {<<>>}
    BY <1>2
  <2>3. ScoreType(Fused)
    BY <1>1, FusedType
  <2> QED BY <1>1, <1>2, <1>7, <1>10, <2>1, <2>2, <2>3 DEF HitsInv
<1>12. SomeInv'
  BY <1>1, <1>8, <1>10 DEF SomeInv
<1>13. OrderInv'
  BY <1>1, <1>9, <1>10 DEF OrderInv, SortedBy
<1> QED BY <1>1, <1>11, <1>12, <1>13, StageKeeps DEF PageInv, Deduped

(* The reranker's order.                                                   *)
RerankedBefore(r, c, d) ==
    \/ c \in DOMAIN r /\ d \notin DOMAIN r
    \/ {c, d} \subseteq DOMAIN r /\ r[c] > r[d]
    \/ {c, d} \subseteq DOMAIN r /\ r[c] = r[d] /\ score[c] > score[d]
    \/ {c, d} \cap DOMAIN r = {} /\ score[c] > score[d]

RerankedOrder(r) ==
    Ranked(out, LAMBDA c, d :
        \/ c \in DOMAIN r /\ d \notin DOMAIN r
        \/ {c, d} \subseteq DOMAIN r /\ r[c] > r[d]
        \/ {c, d} \subseteq DOMAIN r /\ r[c] = r[d] /\ score[c] > score[d]
        \/ {c, d} \cap DOMAIN r = {} /\ score[c] > score[d])

LEMMA RerankedHolds ==
    ASSUME NEW S, \A c \in S : score[c] \in Int, out \in Seq(S), NEW r, \A c \in DOMAIN r : r[c] \in Int
    PROVE  LET l == RerankedOrder(r)
           IN  /\ l \in Seq(S) /\ Len(l) = Len(out) /\ ToSet(l) = ToSet(out)
               /\ IsInjective(out) => IsInjective(l)
               /\ \A i, j \in DOMAIN l : i < j => ~RerankedBefore(r, l[j], l[i])
<1>1. PICK n \in Nat : n = Len(out) /\ DOMAIN out = 1..n /\ \A i \in 1..n : out[i] \in S
  OBVIOUS
<1> DEFINE B(c, d) == RerankedBefore(r, c, d)
           Ahead(i) == {j \in 1..n : B(out[j], out[i]) \/ (j < i /\ ~B(out[i], out[j]))}
           A == [i \in 1..n |-> Ahead(i)]
           p == [m \in 1..n |-> CHOOSE i \in 1..n : Cardinality(Ahead(i)) = m - 1]
           l == RerankedOrder(r)
<1>2. l = [m \in 1..n |-> out[p[m]]]
  BY <1>1 DEF RerankedOrder, Ranked, RerankedBefore
<1>3. \A c, d, e \in S : /\ ~B(c, c)
                         /\ B(c, d) => ~B(d, c)
                         /\ B(c, d) /\ B(d, e) => B(c, e)
                         /\ B(c, e) => B(c, d) \/ B(d, e)
  <2> SUFFICES ASSUME NEW c \in S, NEW d \in S, NEW e \in S
               PROVE  /\ ~B(c, c)
                      /\ B(c, d) => ~B(d, c)
                      /\ B(c, d) /\ B(d, e) => B(c, e)
                      /\ B(c, e) => B(c, d) \/ B(d, e)
    OBVIOUS
  <2>1. score[c] \in Int /\ score[d] \in Int /\ score[e] \in Int
    OBVIOUS
  <2>2. (c \in DOMAIN r => r[c] \in Int) /\ (d \in DOMAIN r => r[d] \in Int) /\ (e \in DOMAIN r => r[e] \in Int)
    OBVIOUS
  <2>3. \A x, y : {x, y} \subseteq DOMAIN r <=> x \in DOMAIN r /\ y \in DOMAIN r
    OBVIOUS
  <2>4. \A x, y : {x, y} \cap DOMAIN r = {} <=> x \notin DOMAIN r /\ y \notin DOMAIN r
    OBVIOUS
  <2>5. \A x, y \in {c, d, e} :
           B(x, y) <=> \/ x \in DOMAIN r /\ y \notin DOMAIN r
                       \/ x \in DOMAIN r /\ y \in DOMAIN r /\ (r[x] > r[y] \/ (r[x] = r[y] /\ score[x] > score[y]))
                       \/ x \notin DOMAIN r /\ y \notin DOMAIN r /\ score[x] > score[y]
    BY <2>3, <2>4 DEF RerankedBefore
  <2> HIDE DEF B
  <2>6. ~B(c, c)
    BY <2>1, <2>2, <2>5
  <2>7. B(c, d) => ~B(d, c)
    BY <2>1, <2>2, <2>5
  <2>8. B(c, d) /\ B(d, e) => B(c, e)
    BY <2>1, <2>2, <2>5
  <2>9. B(c, e) => B(c, d) \/ B(d, e)
    BY <2>1, <2>2, <2>5
  <2> QED BY <2>6, <2>7, <2>8, <2>9
<1> HIDE DEF B
<1>4. StrictOrder(A, n)
  <2>1. \A i \in 1..n : i \notin Ahead(i)
    BY <1>1, <1>3
  <2>2. \A i, j \in 1..n : i # j => i \in Ahead(j) \/ j \in Ahead(i)
    BY <1>1, <1>3
  <2>3. \A i, j, k \in 1..n : k \in Ahead(j) /\ j \in Ahead(i) => k \in Ahead(i)
    <3> SUFFICES ASSUME NEW i \in 1..n, NEW j \in 1..n, NEW k \in 1..n, k \in Ahead(j), j \in Ahead(i)
                 PROVE  B(out[k], out[i]) \/ (k < i /\ ~B(out[i], out[k]))
      OBVIOUS
    <3>1. out[i] \in S /\ out[j] \in S /\ out[k] \in S
      BY <1>1
    <3>2. PICK x \in S, y \in S, z \in S : x = out[i] /\ y = out[j] /\ z = out[k]
      BY <3>1
    <3>3. (B(z, y) \/ (k < j /\ ~B(y, z))) /\ (B(y, x) \/ (j < i /\ ~B(x, y)))
      BY <3>2
    <3>4. B(z, x) \/ (k < i /\ ~B(x, z))
      BY <1>3, <3>3
    <3> QED BY <3>2, <3>4
  <2>4. A \in [1..n -> SUBSET (1..n)] /\ \A i \in 1..n : A[i] = Ahead(i)
    OBVIOUS
  <2> HIDE DEF A, Ahead
  <2> QED BY <2>1, <2>2, <2>3, <2>4 DEF StrictOrder
<1>5. \A i, j \in 1..n : i \in A[j] => ~B(out[j], out[i])
  BY <1>1, <1>3
<1>6. \A i \in 1..n : A[i] = Ahead(i)
  OBVIOUS
<1> HIDE DEF A, Ahead, l
<1>7. \A m \in 1..n : p[m] \in 1..n /\ Cardinality(A[p[m]]) = m - 1
  <2>1. \A m \in 1..n : \E i \in 1..n : Cardinality(Ahead(i)) = m - 1
    BY <1>4, <1>6, RanksAreTaken
  <2>2. \A m \in 1..n : p[m] \in 1..n /\ Cardinality(Ahead(p[m])) = m - 1
    BY <2>1
  <2> QED BY <1>6, <2>2
<1>8. p \in [1..n -> 1..n]
  BY <1>7
<1> HIDE DEF p
<1>9. InOrder(l, out, n, A)
  BY <1>2, <1>4, <1>7, <1>8, PlacesInOrder
<1> DEFINE R == {cd \in S \X S : B(cd[1], cd[2])}
<1>10. \A i, j \in 1..n : i \in A[j] => <<out[j], out[i]>> \notin R
  BY <1>5
<1>11. \A c, d \in S : <<c, d>> \notin R => ~B(c, d)
  OBVIOUS
<1> HIDE DEF R
<1>12. PICK list \in Seq(S) : list = out
  OBVIOUS
<1>13. InOrder(l, list, Len(list), A) /\ Agrees(list, A, R)
  BY <1>1, <1>9, <1>10, <1>12 DEF Agrees
<1>14. /\ l \in Seq(S) /\ Len(l) = Len(list) /\ ToSet(l) = ToSet(list)
       /\ IsInjective(list) => IsInjective(l)
       /\ Respects(l, R)
  BY <1>13, InOrderOf
<1>15. \A a, b \in DOMAIN l : a < b => ~B(l[b], l[a])
  <2>1. \A a \in DOMAIN l : l[a] \in S
    BY <1>14
  <2> QED BY <1>11, <1>14, <2>1 DEF Respects
<1> QED BY <1>1, <1>12, <1>14, <1>15 DEF l, B

LEMMA RerankKeeps == SearchIInv /\ Rerank => SearchIInv'
<1> SUFFICES ASSUME SearchIInv, Rerank PROVE SearchIInv'
  OBVIOUS
<1>1. HitsInv /\ SomeInv /\ OrderInv /\ pc = "rerank" /\ pc' = "dedupe" /\ UNCHANGED <<req, found, text, degraded, uncut>>
  BY DEF SearchIInv, Rerank
<1>2. reranked = {} /\ ~Deduped /\ ~Deduped' /\ ScoreType(score) /\ out \in Seq(DOMAIN score) /\ IsInjective(out)
  BY <1>1 DEF HitsInv, Deduped
<1>3. CASE UNCHANGED <<score, out, reranked>> /\ rerank' \in {rerank, "failed"}
  <2>1. HitsInv'
    BY <1>1, <1>3 DEF HitsInv
  <2>2. SomeInv'
    BY <1>1, <1>3 DEF SomeInv
  <2>3. OrderInv'
    BY <1>1, <1>2, <1>3 DEF OrderInv, SortedBy, Alike, Deduped
  <2> QED BY <1>1, <1>2, <2>1, <2>2, <2>3, StageKeeps DEF PageInv
<1>4. CASE out # <<>> /\ \E r \in RerankAnswers : Applied(r)
  <2>1. PICK r \in RerankAnswers : Applied(r)
    BY <1>4
  <2>2. DOMAIN r \subseteq DOMAIN score /\ \A c \in DOMAIN r : r[c] \in Int
    <3>1. PICK T \in SUBSET ToSet(UpTo(out, RerankMax)) : r \in [T -> RerankScores]
      BY DEF RerankAnswers
    <3>2. ToSet(UpTo(out, RerankMax)) \subseteq ToSet(out)
      BY <1>2, SearchAssumption, CutLength
    <3>3. ToSet(out) \subseteq DOMAIN score
      BY <1>2 DEF ToSet
    <3>4. RerankScores \subseteq Int
      BY SearchAssumption
    <3> QED BY <3>1, <3>2, <3>3, <3>4
  <2>3. reranked' = DOMAIN r /\ rerank' = "applied" /\ score' = Rescored(r) /\ out' = RerankedOrder(r)
    BY <2>1 DEF Applied, RerankedOrder
  <2>4. DOMAIN score' = DOMAIN score /\ \A c \in DOMAIN score : score'[c] = IF c \in DOMAIN r THEN r[c] ELSE score[c]
    BY <2>2, <2>3 DEF Rescored
  <2>5. /\ out' \in Seq(DOMAIN score) /\ Len(out') = Len(out) /\ IsInjective(out')
        /\ \A i, j \in DOMAIN out' : i < j => ~RerankedBefore(r, out'[j], out'[i])
    <3>1. \A c \in DOMAIN score : score[c] \in Int
      BY <1>2 DEF ScoreType
    <3> QED BY <1>2, <2>2, <2>3, <3>1, RerankedHolds
  <2>6. HitsInv'
    <3>1. ScoreType(score')
      BY <1>2, <2>2, <2>4 DEF ScoreType
    <3> QED BY <1>1, <2>2, <2>3, <2>4, <2>5, <3>1 DEF HitsInv
  <2>7. SomeInv'
    BY <1>2, <1>4, <2>5 DEF SomeInv
  <2>8. OrderInv'
    <3> SUFFICES ASSUME NEW i \in DOMAIN out', NEW j \in DOMAIN out', i < j,
                        out'[i] \in DOMAIN r <=> out'[j] \in DOMAIN r
                 PROVE  score'[out'[i]] >= score'[out'[j]]
      BY <2>3 DEF OrderInv, SortedBy, Alike
    <3>1. PICK c \in DOMAIN score, d \in DOMAIN score : c = out'[i] /\ d = out'[j]
      BY <2>5
    <3>2. ~RerankedBefore(r, d, c)
      BY <2>5, <3>1
    <3>3. score[c] \in Int /\ score[d] \in Int
      BY <1>2 DEF ScoreType
    <3>4. CASE c \in DOMAIN r /\ d \in DOMAIN r
      <4>1. ~(r[d] > r[c]) /\ r[c] \in Int /\ r[d] \in Int
        BY <2>2, <3>2, <3>4 DEF RerankedBefore
      <4> QED BY <2>4, <3>1, <3>4, <4>1
    <3>5. CASE c \notin DOMAIN r /\ d \notin DOMAIN r
      <4>1. ~(score[d] > score[c])
        BY <3>2, <3>5 DEF RerankedBefore
      <4> QED BY <2>4, <3>1, <3>3, <3>5, <4>1
    <3> QED BY <3>1, <3>4, <3>5
  <2> QED BY <1>1, <1>2, <2>6, <2>7, <2>8, StageKeeps DEF PageInv
<1> QED BY <1>3, <1>4 DEF Rerank

LEMMA DedupeKeeps == SearchIInv /\ Dedupe => SearchIInv'
<1> SUFFICES ASSUME SearchIInv, Dedupe PROVE SearchIInv'
  OBVIOUS
<1>1. /\ HitsInv /\ SomeInv /\ OrderInv /\ pc = "dedupe" /\ pc' = "pages"
      /\ UNCHANGED <<req, found, score, rerank, reranked, text, degraded, uncut>>
      /\ out' = IF req.onePerPage THEN OnePerPage(out, score, DocOf, PageOf, NoPage) ELSE out
  BY DEF SearchIInv, Dedupe
<1>2. ~Deduped /\ Deduped' = req.onePerPage /\ ScoreType(score) /\ out \in Seq(DOMAIN score) /\ IsInjective(out)
  <2>1. req.onePerPage \in BOOLEAN
    BY <1>1, SearchAssumption DEF HitsInv, RequestType
  <2> QED BY <1>1, <2>1 DEF HitsInv, Deduped
<1>3. CASE ~req.onePerPage
  <2>1. HitsInv'
    BY <1>1, <1>3 DEF HitsInv
  <2>2. SomeInv'
    BY <1>1, <1>3 DEF SomeInv
  <2>3. OrderInv'
    BY <1>1, <1>2, <1>3 DEF OrderInv, SortedBy, Alike, Deduped
  <2> QED BY <1>1, <1>2, <1>3, <2>1, <2>2, <2>3, StageKeeps DEF PageInv
<1>4. CASE req.onePerPage
  <2> DEFINE R == OnePerPage(out, score, DocOf, PageOf, NoPage)
             HasPage(c) == PageOf[c] # NoPage
  <2>1. /\ R \in Seq(DOMAIN score) /\ IsInjective(R) /\ ToSet(R) \subseteq ToSet(out)
        /\ out # <<>> => R # <<>>
        /\ \A c, d \in ToSet(R) : HasPage(c) /\ HasPage(d) /\ DocOf[c] = DocOf[d] /\ PageOf[c] = PageOf[d] => c = d
        /\ \A i, j \in DOMAIN R : i < j /\ HasPage(R[i]) /\ HasPage(R[j]) => score[R[i]] >= score[R[j]]
    <3>1. \A c \in DOMAIN score : score[c] \in Int
      BY <1>2 DEF ScoreType
    <3> QED BY <1>2, <3>1, OnePerPageHolds
  <2>2. out' = R
    BY <1>1, <1>4
  <2> HIDE DEF R
  <2>3. HitsInv'
    BY <1>1, <2>1, <2>2 DEF HitsInv
  <2>4. SomeInv'
    BY <1>1, <2>1, <2>2 DEF SomeInv
  <2>5. OrderInv'
    BY <1>1, <1>2, <1>4, <2>1, <2>2 DEF OrderInv, SortedBy, Alike
  <2>6. PagesApart(R)
    <3> SUFFICES ASSUME NEW c \in ToSet(R), NEW d \in ToSet(R), PageKeyOf(c) = PageKeyOf(d) PROVE c = d
      BY DEF PagesApart
    <3>1. CASE HasPage(c) /\ HasPage(d)
      BY <2>1, <3>1 DEF PageKeyOf
    <3>2. CASE ~HasPage(c) /\ ~HasPage(d)
      BY <3>2 DEF PageKeyOf
    <3>3. ASSUME NEW x, NEW y, NEW z PROVE <<x>> # <<y, z>>
      <4>1. Len(<<x>>) # Len(<<y, z>>)
        OBVIOUS
      <4> QED BY <4>1
    <3>4. CASE HasPage(c) /\ ~HasPage(d)
      BY <3>3, <3>4 DEF PageKeyOf
    <3>5. CASE ~HasPage(c) /\ HasPage(d)
      BY <3>3, <3>5 DEF PageKeyOf
    <3> QED BY <3>1, <3>2, <3>4, <3>5
  <2>7. PageInv'
    BY <2>2, <2>6 DEF PageInv, PagesApart, PageKeyOf
  <2> QED BY <1>1, <2>3, <2>4, <2>5, <2>7, StageKeeps
<1>5. req.onePerPage \in BOOLEAN
  BY <1>1, SearchAssumption DEF HitsInv, RequestType
<1> QED BY <1>3, <1>4, <1>5

LEMMA PagesKeep == SearchIInv /\ ParentPages => SearchIInv'
<1> SUFFICES ASSUME SearchIInv, ParentPages PROVE SearchIInv'
  OBVIOUS
<1>1. /\ HitsInv /\ SomeInv /\ OrderInv /\ PageInv /\ pc = "pages" /\ pc' = "cut"
      /\ UNCHANGED <<req, found, score, out, rerank, reranked, degraded, uncut>>
  BY DEF SearchIInv, ParentPages
<1>2. text' \in [Hits -> {"chunk", "page"}]
  <2>1. PICK got : text' = [c \in Hits |->
                      IF c \in ToSet(out) /\ <<DocOf[c], PageOf[c]>> \in got THEN "page" ELSE text[c]]
    BY DEF ParentPages
  <2> QED BY <1>1, <2>1 DEF HitsInv
<1>3. HitsInv'
  BY <1>1, <1>2 DEF HitsInv
<1>4. SomeInv' /\ OrderInv' /\ PageInv'
  BY <1>1 DEF SomeInv, OrderInv, SortedBy, Alike, PageInv, PagesApart, PageKeyOf, Deduped
<1> QED BY <1>1, <1>3, <1>4, StageKeeps

(* The cuts keep a first part of the grouped hits: as many as asked for,   *)
(* and one at least.                                                       *)
Shortened(list) ==
    LET k == AdaptiveK([i \in DOMAIN list |-> score[list[i]]], MinK, MaxK, Len(list))
    IN  UpTo(IF req.adaptive THEN UpTo(list, k) ELSE list, TopK)

LEMMA ShortenedHolds ==
    ASSUME NEW S, \A c \in S : score[c] \in Int, NEW list \in Seq(S)
    PROVE  LET l == Shortened(list)
           IN  /\ l \in Seq(S) /\ Len(l) <= TopK /\ Len(l) <= Len(list)
               /\ \A i \in 1..Len(l) : l[i] = list[i]
               /\ list # <<>> => l # <<>>
               /\ ToSet(l) \subseteq ToSet(list)
               /\ IsInjective(list) => IsInjective(l)
<1> DEFINE scores == [i \in DOMAIN list |-> score[list[i]]]
           k == AdaptiveK(scores, MinK, MaxK, Len(list))
           first == IF req.adaptive THEN UpTo(list, k) ELSE list
           l == UpTo(first, TopK)
<1>1. PICK n \in Nat : n = Len(list) /\ DOMAIN list = 1..n /\ \A i \in 1..n : list[i] \in S
  OBVIOUS
<1>2. scores \in Seq(Int) /\ Len(scores) = n
  <2>1. scores \in [1..n -> Int]
    BY <1>1
  <2> QED BY <2>1
<1>3. (scores = <<>> <=> n = 0) /\ (list = <<>> <=> n = 0)
  BY <1>1, <1>2
<1>4. MinK \in Nat \ {0} /\ MaxK \in Nat \ {0} /\ TopK \in Nat \ {0}
  BY SearchAssumption
<1> HIDE DEF scores
<1>5. k \in Nat /\ (n # 0 => k # 0)
  BY <1>1, <1>2, <1>3, <1>4, AdaptiveKHolds
<1> HIDE DEF k
<1>6. /\ first \in Seq(S) /\ Len(first) <= n /\ (n # 0 => Len(first) # 0)
      /\ \A i \in 1..Len(first) : first[i] = list[i]
      /\ ToSet(first) \subseteq ToSet(list) /\ (IsInjective(list) => IsInjective(first))
  <2>1. UpTo(list, k) \in Seq(S)
    BY <1>5, CutHolds
  <2>2. /\ Len(UpTo(list, k)) <= n
        /\ Len(UpTo(list, k)) = k \/ UpTo(list, k) = list
        /\ \A i \in 1..Len(UpTo(list, k)) : UpTo(list, k)[i] = list[i]
        /\ ToSet(UpTo(list, k)) \subseteq ToSet(list)
        /\ IsInjective(list) => IsInjective(UpTo(list, k))
    BY <1>1, <1>5, CutLength
  <2>3. n # 0 => Len(UpTo(list, k)) # 0
    BY <1>1, <1>5, <2>2
  <2>4. CASE req.adaptive
    BY <2>1, <2>2, <2>3, <2>4
  <2>5. CASE ~req.adaptive
    BY <1>1, <2>5
  <2> QED BY <2>4, <2>5
<1> HIDE DEF first
<1>7. l \in Seq(S)
  BY <1>4, <1>6, CutHolds
<1>8. /\ Len(l) <= TopK /\ Len(l) <= Len(first)
      /\ Len(l) = TopK \/ l = first
      /\ \A i \in 1..Len(l) : l[i] = first[i]
      /\ ToSet(l) \subseteq ToSet(first)
      /\ IsInjective(first) => IsInjective(l)
  BY <1>4, <1>6, CutLength
<1>9. Shortened(list) = l
  BY DEF Shortened, first, k, scores
<1> HIDE DEF l
<1>10. n # 0 => l # <<>>
  BY <1>4, <1>6, <1>7, <1>8
<1>11. \A i \in 1..Len(l) : l[i] = list[i]
  BY <1>6, <1>7, <1>8
<1>12. Len(l) <= n
  BY <1>6, <1>7, <1>8
<1> QED BY <1>1, <1>3, <1>6, <1>7, <1>8, <1>9, <1>10, <1>11, <1>12

LEMMA CutKeeps == SearchIInv /\ Cut => SearchIInv'
<1> SUFFICES ASSUME SearchIInv, Cut PROVE SearchIInv'
  OBVIOUS
<1> DEFINE grouped == IF req.group THEN GroupByDoc(out, DocOf, MaxPerDoc) ELSE out
           S == DOMAIN score
<1>1. /\ HitsInv /\ SomeInv /\ OrderInv /\ PageInv /\ pc = "cut" /\ pc' = "answered"
      /\ UNCHANGED <<req, found, score, rerank, reranked, text, degraded>>
      /\ uncut' = grouped
  BY DEF SearchIInv, Cut
<1>2. out' = Shortened(grouped)
  BY DEF Cut, Shortened
<1>3. ScoreType(score) /\ out \in Seq(S) /\ IsInjective(out) /\ (\A c \in S : score[c] \in Int)
  BY <1>1 DEF HitsInv, ScoreType
<1>4. MaxPerDoc \in Nat \ {0}
  BY SearchAssumption
<1>5. req.group => Grouped(grouped, S, out, DocOf, MaxPerDoc)
  BY <1>3, <1>4, GroupHolds
<1>6. /\ grouped \in Seq(S) /\ IsInjective(grouped) /\ ToSet(grouped) \subseteq ToSet(out)
      /\ out # <<>> => grouped # <<>>
      /\ \A a, b \in DOMAIN grouped : a < b => \E i, j \in DOMAIN out : i < j /\ grouped[a] = out[i] /\ grouped[b] = out[j]
  <2>1. CASE req.group
    BY <1>5, <2>1 DEF Grouped
  <2>2. CASE ~req.group
    BY <1>3, <2>2
  <2> QED BY <2>1, <2>2
<1> HIDE DEF grouped
<1>7. PICK l : l = Shortened(grouped)
  OBVIOUS
<1>8. /\ l \in Seq(S) /\ Len(l) <= TopK /\ Len(l) <= Len(grouped)
      /\ \A i \in 1..Len(l) : l[i] = grouped[i]
      /\ grouped # <<>> => l # <<>>
      /\ ToSet(l) \subseteq ToSet(grouped)
      /\ IsInjective(l)
  BY <1>3, <1>6, <1>7, ShortenedHolds
<1>9. out' = l
  BY <1>2, <1>7
<1>10. HitsInv'
  BY <1>1, <1>6, <1>8, <1>9 DEF HitsInv
<1>11. SomeInv' /\ OrderInv'
  BY <1>1 DEF SomeInv, OrderInv
<1>12. PageInv'
  BY <1>1, <1>6, <1>8, <1>9 DEF PageInv, Deduped, PagesApart, PageKeyOf
<1>13. Limits'
  <2>1. req.group => \A c \in ToSet(l) : Cardinality({d \in ToSet(l) : DocOf[d] = DocOf[c]}) <= MaxPerDoc
    <3> SUFFICES ASSUME req.group, NEW c \in ToSet(l)
                 PROVE  Cardinality({d \in ToSet(l) : DocOf[d] = DocOf[c]}) <= MaxPerDoc
      OBVIOUS
    <3> DEFINE A == {d \in ToSet(l) : DocOf[d] = DocOf[c]}
               B == {d \in ToSet(grouped) : DocOf[d] = DocOf[c]}
    <3>1. c \in ToSet(grouped) /\ A \in SUBSET B
      BY <1>8
    <3>2. IsFiniteSet(B) /\ Cardinality(B) <= MaxPerDoc
      BY <1>5, <3>1 DEF Grouped
    <3> HIDE DEF A, B
    <3>3. /\ IsFiniteSet(A) /\ Cardinality(A) <= Cardinality(B)
          /\ Cardinality(A) \in Nat /\ Cardinality(B) \in Nat
      BY <3>1, <3>2, FS_Subset, FS_CardinalityType
    <3>4. Cardinality(A) <= MaxPerDoc
      BY <1>4, <3>2, <3>3
    <3> QED BY <3>4 DEF A
  <2>2. req.onePerPage => PagesApart(l)
    BY <1>1, <1>6, <1>8 DEF PageInv, Deduped, PagesApart
  <2>3. l = <<>> => DOMAIN score = {}
    BY <1>1, <1>6, <1>8 DEF SomeInv
  <2> QED BY <1>1, <1>8, <1>9, <2>1, <2>2, <2>3 DEF Limits, PagesApart, PageKeyOf
<1>14. CutsKeepTheBest'
  <2> SUFFICES ASSUME reranked = {} \/ ToSet(grouped) \subseteq reranked,
                      req.onePerPage => \A c \in ToSet(grouped) : PageOf[c] # NoPage,
                      NEW c \in ToSet(l), NEW d \in ToSet(grouped) \ ToSet(l)
               PROVE  score[c] >= score[d]
    BY <1>1, <1>9 DEF CutsKeepTheBest
  <2>1. PICK a \in DOMAIN l : c = l[a]
    BY DEF ToSet
  <2>2. PICK b \in DOMAIN grouped : d = grouped[b]
    BY DEF ToSet
  <2>3. PICK m \in Nat, n \in Nat : m = Len(l) /\ n = Len(grouped) /\ DOMAIN l = 1..m /\ DOMAIN grouped = 1..n /\ m <= n
    BY <1>6, <1>8
  <2>4. ~(b \in 1..m)
    <3>1. b \in 1..m => grouped[b] \in ToSet(l)
      BY <1>8, <2>3 DEF ToSet
    <3> QED BY <2>2, <3>1
  <2>5. a < b /\ a \in DOMAIN grouped /\ c = grouped[a]
    BY <1>8, <2>1, <2>2, <2>3, <2>4
  <2>6. PICK i \in DOMAIN out : \E j \in DOMAIN out : i < j /\ c = out[i] /\ d = out[j]
    BY <1>6, <2>2, <2>5
  <2>7. PICK j \in DOMAIN out : i < j /\ c = out[i] /\ d = out[j]
    BY <2>6
  <2>8. c \in ToSet(grouped) /\ d \in ToSet(grouped)
    BY <1>8
  <2>9. SortedBy(out, score, reranked, Deduped)
    BY <1>1 DEF OrderInv
  <2>10. Alike(c, d, reranked, Deduped)
    BY <2>8 DEF Alike, Deduped
  <2> QED BY <2>7, <2>9, <2>10 DEF SortedBy
<1> QED BY <1>10, <1>11, <1>12, <1>13, <1>14 DEF SearchIInv

-----------------------------------------------------------------------------
(* The theorems.                                                           *)

LEMMA SearchStep == SearchIInv /\ [SearchNext]_searchVars => SearchIInv'
<1> SUFFICES ASSUME SearchIInv, [SearchNext]_searchVars PROVE SearchIInv'
  OBVIOUS
<1>1. CASE UNCHANGED searchVars
  BY <1>1 DEF searchVars, SearchIInv, HitsInv, SomeInv, OrderInv, PageInv, Deduped, SortedBy, Alike,
              PagesApart, PageKeyOf, Limits, CutsKeepTheBest
<1> QED BY <1>1, FetchKeeps, FuseKeeps, RerankKeeps, DedupeKeeps, PagesKeep, CutKeeps DEF SearchNext

(* Whatever the engines and the reranker answer, and whichever of them     *)
(* fail, a search keeps its hits apart and in order (search_logic.py).     *)
LEMMA SearchInvAlways == SearchSpec => []SearchIInv
BY InitSearch, SearchStep, PTL DEF SearchSpec

(* Every hit of a search has a score and a text, and comes once.           *)
THEOREM SearchTypeCorrect == SearchSpec => []SearchTypeOK
<1>1. SearchIInv => SearchTypeOK
  <2> SUFFICES ASSUME SearchIInv PROVE SearchTypeOK
    OBVIOUS
  <2>1. HitsInv
    BY DEF SearchIInv
  <2>2. DOMAIN score \subseteq Hits /\ ToSet(out) \subseteq DOMAIN score
    BY <2>1 DEF HitsInv, ScoreType, ToSet
  <2>3. \A c \in ToSet(out) : text[c] \in {"chunk", "page"}
    BY <2>1, <2>2 DEF HitsInv
  <2> QED BY <2>1, <2>2, <2>3 DEF HitsInv, SearchTypeOK
<1> QED BY <1>1, SearchInvAlways, PTL

(* What both engines agree on, the fusion keeps: for any lists, scores and *)
(* weights, and any mixture of the two ways to fuse (fusion.py).           *)
THEOREM AgreementIsKept == SearchSpec => []AgreementKept
<1>1. SearchIInv => AgreementKept
  BY AgreementHolds DEF SearchIInv
<1> QED BY <1>1, SearchInvAlways, PTL

(* The answer is within top_k and the limits per document and page, and is *)
(* empty only if no engine found a thing (search_logic.py).                *)
THEOREM LimitsHold == SearchSpec => []Limits
<1>1. SearchIInv => Limits
  BY DEF SearchIInv
<1> QED BY <1>1, SearchInvAlways, PTL

(* The grouping, adaptive-k and top_k leave out nothing that is better     *)
(* than what they keep (search_logic.py).                                  *)
THEOREM CutsAreFair == SearchSpec => []CutsKeepTheBest
<1>1. SearchIInv => CutsKeepTheBest
  BY DEF SearchIInv
<1> QED BY <1>1, SearchInvAlways, PTL

=============================================================================
