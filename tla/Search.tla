------------------------------- MODULE Search -------------------------------
(***************************************************************************)
(* retrieval: one search (service/app/search_logic.py), from the answers   *)
(* of OpenSearch and Qdrant through fusion, rerank, page deduplication,    *)
(* parent pages, grouping and the final cut.  Every call to another        *)
(* service may fail: a search goes on with what it has, and says so.       *)
(*                                                                         *)
(* A hit is the chunk's id; scores, texts and the lists are kept apart.    *)
(***************************************************************************)
EXTENDS Ranking

CONSTANTS
    Hits,          \* chunk ids
    DocOf,         \* the chunk's doc_id
    PageOf,        \* the page of its locator, or NoPage
    NoPage,
    Queries,       \* a request with the settings that apply to it
    Answers,       \* what each engine may find: lists of chunks and scores
    RerankScores,  \* what a reranker may say of a chunk
    TopK, Candidates, RerankMax,   \* top_k, retrieval_candidates, rerank_max_candidates
    MaxPerDoc, MinK, MaxK,         \* max_chunks_per_doc, adaptive_k_min and _max
    MaxIntersection,               \* rerank_auto_min_intersection
    RrfK, Weight, Unit             \* of the fusion

Engines == {"bm25", "vector"}

RequestType ==
    [mode : Engines \cup {"hybrid"}, asked : {"yes", "no", "left"}, policy : {"disabled", "always", "auto"},
     long : BOOLEAN, client : BOOLEAN, half : 0..2,
     onePerPage : BOOLEAN, parents : BOOLEAN, group : BOOLEAN, adaptive : BOOLEAN]

(* An engine's list is best first, and names a chunk once: the ids in both *)
(* engines are the chunk's, or are made from it.                           *)
ASSUME SearchAssumption ==
    /\ DocOf \in [Hits -> STRING] /\ PageOf \in [Hits -> Nat \cup {NoPage}]
    /\ Queries \subseteq RequestType
    /\ Answers \in [Engines -> SUBSET Seq([id : Hits, score : Int])]
    /\ \A e \in Engines : \A a \in Answers[e] :
          /\ IsInjective([i \in DOMAIN a |-> a[i].id])
          /\ \A i, j \in DOMAIN a : i < j => a[i].score >= a[j].score
    /\ RerankScores \subseteq Int
    /\ \A n \in {TopK, Candidates, RerankMax, MaxPerDoc, MinK, MaxK, RrfK, Unit} : n \in Nat \ {0}
    /\ Weight \in [Engines -> Nat] /\ MaxIntersection \in Nat

VARIABLES
    req,           \* the request
    pc,            \* the stage that comes next
    found,         \* what the engines have answered
    score,         \* the score of each hit
    out,           \* the hits
    rerank,        \* what becomes of the rerank: as rerank_outcome
    reranked,      \* the hits with a rerank_score
    text,          \* whose text a hit carries: its own, or its page's
    degraded,      \* the engines that have failed
    uncut          \* history: the hits before the final cut

searchVars == <<req, pc, found, score, out, rerank, reranked, text, degraded, uncut>>

Ids(list) == [i \in DOMAIN list |-> list[i].id]
ScoreIn(list) == [c \in ToSet(Ids(list)) |-> list[CHOOSE i \in DOMAIN list : list[i].id = c].score]

SearchTypeOK ==
    /\ req \in Queries
    /\ pc \in {"fetch", "fuse", "rerank", "dedupe", "pages", "cut", "answered"}
    /\ \A e \in Engines : found[e] \in Answers[e] \cup {<<>>}
    /\ \A c \in ToSet(out) : c \in DOMAIN score /\ text[c] \in {"chunk", "page"}
    /\ IsInjective(out) /\ ToSet(out) \subseteq Hits
    /\ rerank \in {"skipped", "do", "applied", "failed", "unavailable"}
    /\ reranked \subseteq Hits
    /\ degraded \subseteq Engines
    /\ ToSet(out) \subseteq ToSet(uncut) \/ pc # "answered"

SearchInit ==
    /\ req \in Queries /\ pc = "fetch"
    /\ found = [e \in Engines |-> <<>>]
    /\ score = [c \in {} |-> 0] /\ out = <<>> /\ uncut = <<>>
    /\ rerank = "skipped" /\ reranked = {}
    /\ text = [c \in Hits |-> "chunk"]
    /\ degraded = {}

-----------------------------------------------------------------------------
(* The stages.                                                             *)

Asked == IF req.mode = "hybrid" THEN Engines ELSE {req.mode}

(* What an engine is heard to say: hits with their scores, best first.     *)
Heard(e, down) == IF e \in Asked \ down THEN Answers[e] ELSE {<<>>}

(* The engines are asked side by side, and each may fail on its own: the   *)
(* embedding of the query is part of the vector search.                    *)
Fetch ==
    /\ pc = "fetch" /\ pc' = "fuse"
    /\ \E down \in SUBSET Asked : \E b \in Heard("bm25", down), v \in Heard("vector", down) :
          /\ degraded' = down
          /\ found' = [e \in Engines |-> IF e = "bm25" THEN b ELSE v]
    /\ UNCHANGED <<req, score, out, rerank, reranked, text, uncut>>

(* In auto mode: when the query is long and the engines disagree.          *)
WantRerank ==
    LET b == ToSet(Ids(found["bm25"]))
        v == ToSet(Ids(found["vector"]))
    IN  \/ req.asked = "yes"
        \/ /\ req.asked = "left" /\ req.policy = "always"
        \/ /\ req.asked = "left" /\ req.policy = "auto" /\ req.long
           /\ b \cup v # {}
           /\ b # {} /\ v # {} => Cardinality(b \cap v) <= MaxIntersection

Fused ==
    IF req.mode = "hybrid"
      THEN HybridFusion([e \in Engines |-> Ids(found[e])], [e \in Engines |-> ScoreIn(found[e])],
                        Weight, RrfK, req.half, Unit)
      ELSE ScoreIn(found[req.mode])

(* Slip: a hit of both engines comes up twice.                             *)
OrdersTwice ==
    IF req.mode # "hybrid" THEN {Ids(found[req.mode])} ELSE {Ids(found["bm25"]) \o Ids(found["vector"])}

(* By fused score; the order of ties is that of a set of strings.          *)
Orders ==
    LET S == DOMAIN Fused
    IN  IF req.mode # "hybrid" THEN {Ids(found[req.mode])}
        ELSE {p \in [1..Cardinality(S) -> S] :
                 /\ IsInjective(p)
                 /\ \A i \in 1..Cardinality(S) - 1 : Fused[p[i]] >= Fused[p[i + 1]]}

Fuse ==
    LET do  == WantRerank /\ req.client
        pre == IF do THEN Larger(TopK, Larger(Candidates, RerankMax)) ELSE TopK
    IN  /\ pc = "fuse" /\ pc' = "rerank"
        /\ score' = Fused
        /\ \E p \in Orders : out' = UpTo(p, pre)
        /\ rerank' = IF do THEN "do" ELSE IF WantRerank THEN "unavailable" ELSE "skipped"
        /\ found' = [e \in Engines |-> <<>>]
        /\ UNCHANGED <<req, reranked, text, degraded, uncut>>

(* The reranker is shown the first candidates, and scores some of them:    *)
(* those without a text are not sent, and its answer may pass over others. *)
RerankAnswers == UNION {[S -> RerankScores] : S \in SUBSET ToSet(UpTo(out, RerankMax))}

(* The scores, with the reranker's in place of those it has given.        *)
Rescored(r) == [c \in DOMAIN score |-> IF c \in DOMAIN r THEN r[c] ELSE score[c]]

(* Slip: the scores are taken over and the hits left as they were.         *)
AppliedUnsorted(r) ==
    /\ reranked' = DOMAIN r /\ rerank' = "applied"
    /\ score' = Rescored(r)
    /\ UNCHANGED out

(* A scored hit comes before one without, and has the reranker's score.    *)
Applied(r) ==
    /\ reranked' = DOMAIN r /\ rerank' = "applied"
    /\ score' = Rescored(r)
    /\ out' = Ranked(out, LAMBDA c, d :
                 \/ c \in DOMAIN r /\ d \notin DOMAIN r
                 \/ {c, d} \subseteq DOMAIN r /\ r[c] > r[d]
                 \/ {c, d} \subseteq DOMAIN r /\ r[c] = r[d] /\ score[c] > score[d]
                 \/ {c, d} \cap DOMAIN r = {} /\ score[c] > score[d])

(* A reranker that fails, or is late, leaves the hits as they are.         *)
Rerank ==
    /\ pc = "rerank" /\ pc' = "dedupe"
    /\ IF rerank = "do" /\ out # <<>>
         THEN \/ \E r \in RerankAnswers : Applied(r)
              \/ rerank' = "failed" /\ UNCHANGED <<score, out, reranked>>
         ELSE UNCHANGED <<score, out, rerank, reranked>>
    /\ UNCHANGED <<req, found, text, degraded, uncut>>

Dedupe ==
    /\ pc = "dedupe" /\ pc' = "pages"
    /\ out' = IF req.onePerPage THEN OnePerPage(out, score, DocOf, PageOf, NoPage) ELSE out
    /\ UNCHANGED <<req, found, score, rerank, reranked, text, degraded, uncut>>

(* Each page is looked up by itself, in OpenSearch, and in Qdrant if that  *)
(* fails or has nothing.                                                   *)
PagesFound ==
    LET Pages == {<<DocOf[c], PageOf[c]>> : c \in {d \in ToSet(out) : PageOf[d] # NoPage}}
    IN  {os \cup qdrant : os \in SUBSET Pages, qdrant \in SUBSET Pages}

(* A page that is found in neither leaves the chunk its own text.          *)
ParentPages ==
    /\ pc = "pages" /\ pc' = "cut"
    /\ \E got \in IF req.parents THEN PagesFound ELSE {{}} :
          text' = [c \in Hits |->
                      IF c \in ToSet(out) /\ <<DocOf[c], PageOf[c]>> \in got THEN "page" ELSE text[c]]
    /\ UNCHANGED <<req, found, score, out, rerank, reranked, degraded, uncut>>

(* Grouped by document, cut at the steepest drop and at top_k.             *)
Cut ==
    LET grouped == IF req.group THEN GroupByDoc(out, DocOf, MaxPerDoc) ELSE out
        k == AdaptiveK([i \in DOMAIN grouped |-> score[grouped[i]]], MinK, MaxK, Len(grouped))
    IN  /\ pc = "cut" /\ pc' = "answered"
        /\ uncut' = grouped
        /\ out' = UpTo(IF req.adaptive THEN UpTo(grouped, k) ELSE grouped, TopK)
        /\ UNCHANGED <<req, found, score, rerank, reranked, text, degraded>>

SearchNext == Fetch \/ Fuse \/ Rerank \/ Dedupe \/ ParentPages \/ Cut
SearchSpec == SearchInit /\ [][SearchNext]_searchVars

-----------------------------------------------------------------------------
(* Properties.                                                             *)

(* Fusion keeps what the engines agree on: a chunk that every engine that  *)
(* found the other one ranks before it is not fused below it, unless its   *)
(* own score somewhere else is negative (fusion.py).                       *)
AgreementKept ==
    pc = "fuse" /\ req.mode = "hybrid" =>
        LET In(e) == ToSet(Ids(found[e]))
            Before(e, c, d) == \E i, j \in DOMAIN found[e] : i < j /\ found[e][i].id = c /\ found[e][j].id = d
        IN  \A c, d \in In("bm25") \cup In("vector") :
               (/\ \A e \in Engines : d \in In(e) => Before(e, c, d)
                /\ \A e \in Engines : c \in In(e) => ScoreIn(found[e])[c] >= 0) => Fused[c] >= Fused[d]

(* However the stages are combined, the answer stays within every limit    *)
(* that is asked for, at most one hit carries the text of a page, and it   *)
(* is empty only if no engine has found anything.                          *)
Limits ==
    LET PageKey(c) == IF PageOf[c] = NoPage THEN <<c>> ELSE <<DocOf[c], PageOf[c]>>
    IN  pc = "answered" =>
           /\ Len(out) <= TopK
           /\ req.group => \A c \in ToSet(out) : Cardinality({d \in ToSet(out) : DocOf[d] = DocOf[c]}) <= MaxPerDoc
           /\ req.onePerPage => \A c, d \in ToSet(out) : PageKey(c) = PageKey(d) => c = d
           /\ out = <<>> => DOMAIN score = {}

(* What the cuts leave out is not better than what they keep, as long as   *)
(* the hits have scores of one kind and no hit without a page was moved    *)
(* behind those that have one.                                             *)
CutsKeepTheBest ==
    pc = "answered" /\ (reranked = {} \/ ToSet(uncut) \subseteq reranked)
      /\ ~(req.onePerPage /\ \E c \in ToSet(uncut) : PageOf[c] = NoPage) =>
        \A c \in ToSet(out), d \in ToSet(uncut) \ ToSet(out) : score[c] >= score[d]

=============================================================================
