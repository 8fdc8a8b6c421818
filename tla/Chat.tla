--------------------------------- MODULE Chat ---------------------------------
(***************************************************************************)
(* gate: one question (gate/app/main.py, chat and chat_stream), through    *)
(* the searches that find its hits, the context that is built from them    *)
(* (gate/app/rag.py) and the LLM, with the expansions for short factual    *)
(* questions.  Every search may fail.  The searches of the query's         *)
(* variants, the anchor and the expansions are let go when they do, the    *)
(* first search and the LLM are not.                                       *)
(*                                                                         *)
(* A hit is a chunk and the length of its text, which grows when chunks    *)
(* are stitched.  A block of the prompt is the hit's text, cut for a short *)
(* factual question, behind the number of its source.                      *)
(***************************************************************************)
EXTENDS Ranking

CONSTANTS
    Chunks,
    DocOf,         \* the chunk's document, which stands for the key of its source
    PageOf,        \* the page it is on
    Index,         \* its chunk_index
    Size,          \* the length of its text
    Header,        \* the length of what a block has beside its text
    PerChunk,      \* 1200: as much of a text goes into the context of a short factual question
    Lists,         \* what a search may find, best first
    Settings,      \* the settings and the kind of question of a run
    TopK, RawTopK, \* top_k, and the wider one of multi-query
    Variants, MaxQueries, MinDocs,   \* variants of a query; multi_query_max_queries; two_pass_min_unique_docs
    MinK, MaxK,    \* adaptive_k_min and _max
    RrfK, Unit,    \* of both fusions
    AnchorK,       \* bm25_anchor_top_k
    CapLow, CapHigh,    \* 20 and 80: the merged list is cut between them
    MaxSegment,    \* segment_stitching_max_chunks
    MaxChars       \* max_context_chars

SettingType ==
    [endpoint : {"chat", "stream"}, multi : BOOLEAN, twoPass : BOOLEAN, adaptive : BOOLEAN,
     anchor : BOOLEAN, stitch : {"no", "document", "page"}, cited : BOOLEAN, short : BOOLEAN]

(* A list names a chunk once (search_logic.py), and the shares of all the  *)
(* places that are fused are whole numbers of units.                       *)
ASSUME ChatAssumption ==
    /\ DocOf \in [Chunks -> STRING] /\ PageOf \in [Chunks -> Nat] /\ Index \in [Chunks -> Nat] /\ Size \in [Chunks -> Nat \ {0}]
    /\ Lists \subseteq Seq(Chunks) /\ Settings \subseteq SettingType
    /\ \A n \in {TopK, RawTopK, Variants, MaxQueries, MinK, MaxK, RrfK, Unit, AnchorK, CapLow, MaxSegment, PerChunk, MaxChars} :
          n \in Nat \ {0}
    /\ Header \in Nat /\ MinDocs \in Nat /\ CapHigh \in Nat /\ CapHigh >= CapLow
    /\ \A s \in Lists : IsInjective(s)
    /\ \A n \in 1..RawTopK : Unit % (RrfK + n) = 0
    /\ \A s \in Lists : \A n \in DOMAIN s : Unit % (RrfK + n) = 0

VARIABLES
    set,        \* the settings
    stage,      \* the stage that comes next
    hits,       \* the hits, best first
    partial,    \* the flag of the answer
    kept,       \* the hits of the context, their texts uncut
    prompt,     \* the blocks of context_text
    sources,    \* the documents of its sources; the ref is the place
    shown,      \* history: the prompt the answer was written from
    merged,     \* history: the lists the anchor pass has merged, until the hits change again
    heard       \* history: a search of the passes before the context was partial

chatVars == <<set, stage, hits, partial, kept, prompt, sources, shown, merged, heard>>

Hit(c) == [id |-> c, size |-> Size[c]]
Ids(hs) == [i \in DOMAIN hs |-> hs[i].id]
DocsIn(hs) == [i \in DOMAIN hs |-> DocOf[hs[i].id]]

(* Questions for a short fact, whose answer goes without sources, are      *)
(* treated in their own way.                                               *)
Factoid == set.short /\ ~set.cited

(* What a search may answer.  One that fails and is let go is as one that  *)
(* finds nothing: the lists include the empty one.                         *)
Reply == [ids : Lists, partial : BOOLEAN]

ChatTypeOK ==
    /\ set \in Settings
    /\ stage \in {"retrieve", "variants", "anchor", "expand", "context", "llm", "redo", "answered", "failed"}
    /\ ToSet(Ids(hits)) \subseteq Chunks /\ IsInjective(Ids(hits))
    /\ IsInjective(Ids(kept)) /\ IsInjective(sources)
    /\ partial \in BOOLEAN /\ heard \in BOOLEAN /\ merged \in Seq(Lists \cup Seq(Chunks))
    /\ \A bs \in {prompt, shown} : \A i \in DOMAIN bs :
          bs[i] \in [id : Chunks, ref : Nat, size : Nat \ {0}]

ChatInit ==
    /\ set \in Settings /\ stage = "retrieve"
    /\ hits = <<>> /\ partial = FALSE /\ heard = FALSE /\ merged = <<>>
    /\ kept = <<>> /\ prompt = <<>> /\ sources = <<>> /\ shown = <<>>

-----------------------------------------------------------------------------
(* Fusion.                                                                 *)

(* By reciprocal rank over the lists; ties stay as they are first seen.    *)
Fused(lists) ==
    LET points == RrfFusion(lists, [i \in DOMAIN lists |-> 1], RrfK, Unit)
    IN  Ranked([i \in DOMAIN Distinct(FlattenSeq(lists)) |->
                   [id |-> Distinct(FlattenSeq(lists))[i], score |-> points[Distinct(FlattenSeq(lists))[i]]]],
               LAMBDA g, h : g.score > h.score)

MultiQuery(lists) ==
    LET list == UpTo(Fused(lists), RawTopK)
        k == IF set.adaptive /\ Len(list) > 1
               THEN AdaptiveK([i \in DOMAIN list |-> list[i].score], MinK, MaxK, TopK) ELSE Len(list)
    IN  Ids(UpTo(list, k))

(* Slip: the anchor's hits are put behind, and cut at the limit of hits.   *)
AnchorMergeBehind(base, anchor) == UpTo(Distinct(base \o anchor), Larger(Len(base), TopK))

AnchorMerge(base, anchor) ==
    LET cap == Larger(CapLow, Smaller(CapHigh, Larger(Len(base), Larger(TopK, AnchorK))))
    IN  Ids(UpTo(Fused(<<base, anchor>>), cap))

-----------------------------------------------------------------------------
(* The context (build_context_blocks).                                     *)

(* As much of a text as goes into the prompt.                              *)
Long(h) == IF Factoid THEN Smaller(h.size, PerChunk) ELSE h.size

(* What is stitched: the hits of a document, or of a page of it.           *)
Key(c) == <<DocOf[c], IF set.stitch = "page" THEN PageOf[c] ELSE 0>>

(* They become one, in the order of their chunks and at the place of the   *)
(* first, with as many texts as a segment takes.                           *)
Stitched(hs) ==
    LET keys == Distinct([i \in DOMAIN hs |-> Key(hs[i].id)])
        Group(k) == UpTo(Ranked(At(hs, {i \in DOMAIN hs : Key(hs[i].id) = k}),
                                LAMBDA g, h : Index[g.id] < Index[h.id]), MaxSegment)
    IN  [i \in DOMAIN keys |-> [id |-> Group(keys[i])[1].id,
                                size |-> SumFunction([n \in DOMAIN Group(keys[i]) |-> Long(Group(keys[i])[n])])]]

(* The number of a chunk's source: its place, and 0 when there is none.    *)
Ref(docs, c) == SelectInSeq(docs, LAMBDA d : d = DocOf[c])

(* Blocks go in until one does not fit.  That one has its source already.  *)
Built(hs) ==
    LET blocks == IF set.stitch = "no" THEN hs ELSE Stitched(hs)
        Fits(k) == SumFunction([i \in 1..k |-> Header + Long(blocks[i])]) <= MaxChars
        k == Max({n \in 0..Len(blocks) : Fits(n)})
        docs == Distinct(DocsIn(UpTo(blocks, k + 1)))
    IN  [kept |-> SubSeq(blocks, 1, k), sources |-> docs,
         prompt |-> [i \in 1..k |-> [id |-> blocks[i].id, ref |-> Ref(docs, blocks[i].id), size |-> Long(blocks[i])]]]

-----------------------------------------------------------------------------
(* The stages.                                                             *)

Fail == stage' = "failed" /\ UNCHANGED <<hits, partial, kept, prompt, sources, shown, merged, heard>>

Take(ids) == hits' = [i \in DOMAIN ids |-> Hit(ids[i])]
Flag(flag) == partial' = flag /\ heard' = flag

(* The first search.  A timeout or an error of it is the answer.           *)
FirstSearch(next) ==
    /\ stage = "retrieve" /\ UNCHANGED set
    /\ \/ Fail
       \/ \E r \in Reply :
             Take(r.ids) /\ Flag(r.partial) /\ stage' = next /\ UNCHANGED <<kept, prompt, sources, shown, merged>>

Retrieve ==
    set.endpoint = "chat" /\ FirstSearch(IF set.multi \/ set.twoPass THEN "variants" ELSE "anchor")

(* The streaming endpoint has neither variants nor expansions.             *)
StreamRetrieve == set.endpoint = "stream" /\ FirstSearch("anchor")

(* The variants of the query, and one more when the hits are of few        *)
(* documents, are searched for side by side; the first query is so again.  *)
(* Those that fail are dropped, and not told.                              *)
VariantSearches ==
    LET narrow == set.twoPass /\ Cardinality(ToSet(DocsIn(hits))) < MinDocs
    IN  /\ stage = "variants" /\ stage' = "anchor"
        /\ \E v \in 1..Variants, hint \in 0..(IF narrow THEN 1 ELSE 0) :
           \E rs \in [1..Smaller(MaxQueries, v + hint) -> Reply] :
              /\ Take(MultiQuery(<<Ids(hits)>> \o [i \in DOMAIN rs |-> rs[i].ids]))
              /\ partial' = (partial \/ \E i \in DOMAIN rs : rs[i].partial)
              /\ heard' = (heard \/ \E i \in DOMAIN rs : rs[i].partial)
        /\ UNCHANGED <<set, kept, prompt, sources, shown, merged>>

(* A search by keywords, merged in; nothing changes when it fails or finds *)
(* nothing.                                                                *)
Anchor ==
    /\ stage = "anchor" /\ stage' = "expand"
    /\ \/ UNCHANGED <<hits, partial, merged, heard>>
       \/ /\ set.anchor
          /\ \E r \in Reply :
                /\ r.ids # <<>>
                /\ Take(AnchorMerge(Ids(hits), r.ids))
                /\ merged' = <<Ids(hits), r.ids>>
                /\ partial' = (partial \/ r.partial)
                /\ heard' = (heard \/ r.partial)
    /\ UNCHANGED <<set, kept, prompt, sources, shown>>

OfDoc(ids, d) ==
    LET own == At(ids, {i \in DOMAIN ids : DocOf[ids[i]] = d})
    IN  [i \in DOMAIN own |-> Hit(own[i])]

(* Slip: a chunk found again comes twice.                                  *)
AheadTwice(extra, hs) == extra \o hs

(* The extra hits go first; a chunk found again stays where it is first.   *)
Ahead(extra, hs) ==
    extra \o At(hs, {i \in DOMAIN hs : hs[i].id \notin ToSet(Ids(extra))})

(* A short factual question: more of the first hit's document.             *)
Expand ==
    /\ stage = "expand" /\ stage' = "context" /\ merged' = <<>>
    /\ \/ UNCHANGED hits
       \/ /\ set.endpoint = "chat" /\ Factoid /\ hits # <<>>
          /\ \E r \in Reply : hits' = Ahead(OfDoc(r.ids, DocOf[hits[1].id]), hits)
    /\ UNCHANGED <<set, partial, kept, prompt, sources, shown, heard>>

Context ==
    /\ stage = "context" /\ stage' = "llm"
    /\ kept' = Built(hits).kept /\ prompt' = Built(hits).prompt /\ sources' = Built(hits).sources
    /\ UNCHANGED <<set, hits, partial, shown, merged, heard>>

(* A raising LLM ends the request.  An answer that is not in the context   *)
(* is tried for again, where the question is a short factual one.          *)
Llm ==
    /\ stage = "llm" /\ set.endpoint = "chat" /\ UNCHANGED set
    /\ \/ Fail
       \/ /\ shown' = prompt
          /\ stage' \in {"answered"} \cup (IF Factoid THEN {"redo"} ELSE {})
          /\ UNCHANGED <<hits, partial, kept, prompt, sources, merged, heard>>

(* The context is sent, and then the answer, or what there is of it and an *)
(* error behind it.                                                        *)
Stream ==
    /\ stage = "llm" /\ set.endpoint = "stream" /\ UNCHANGED set
    /\ \/ Fail
       \/ /\ shown' = prompt /\ stage' = "answered"
          /\ UNCHANGED <<hits, partial, kept, prompt, sources, merged, heard>>

(* Slip: the context stays that of the first answer.                       *)
SwapOldContext(b) == UNCHANGED kept /\ prompt' = b.prompt /\ sources' = b.sources /\ shown' = b.prompt

(* Context, prompt, sources and answer change together.                    *)
Swap(b) == kept' = b.kept /\ prompt' = b.prompt /\ sources' = b.sources /\ shown' = b.prompt

(* More of the first two documents of the context, put before it; then the *)
(* LLM again, whose answer counts when it is in its context.               *)
Redo ==
    LET docs == UpTo(Distinct(DocsIn(kept)), 2)
    IN  /\ stage = "redo" /\ UNCHANGED set
        /\ \E rs \in [DOMAIN docs -> Reply] :
              LET extra == FlattenSeq([i \in DOMAIN docs |-> OfDoc(rs[i].ids, docs[i])])
                  b == Built(Ahead(extra, kept))
              IN  \/ extra # <<>> /\ Fail
                  \/ /\ stage' = "answered" /\ UNCHANGED <<hits, partial, merged, heard>>
                     /\ \/ UNCHANGED <<kept, prompt, sources, shown>>
                        \/ extra # <<>> /\ Swap(b)

ChatNext ==
    \/ Retrieve \/ StreamRetrieve \/ VariantSearches \/ Anchor \/ Expand
    \/ Context \/ Llm \/ Stream \/ Redo

ChatSpec == ChatInit /\ [][ChatNext]_chatVars

-----------------------------------------------------------------------------
(* What is returned, and what an answer promises.                          *)

(* The sources go with the answer only where they are asked for; the texts *)
(* of the context are returned uncut.                                      *)
Cited == IF set.cited THEN sources ELSE <<>>
Returned == [i \in DOMAIN kept |-> [id |-> kept[i].id, ref |-> Ref(Cited, kept[i].id), size |-> kept[i].size]]

(* The context that is returned with an answer is block for block the      *)
(* prompt that answer was written from, with no more cut off in the prompt *)
(* than a short factual question has it, and the prompt keeps the budget.  *)
(* Where sources are returned the numbers the LLM has seen are those of    *)
(* the context's, and name its documents; at most one source, the last, is *)
(* of a block that did not fit (build_context_blocks, main.py:887-935).    *)
ContextIsTheAnswers ==
    stage = "answered" =>
        /\ Len(Returned) = Len(shown)
        /\ \A i \in DOMAIN shown : shown[i].id = Returned[i].id /\ shown[i].size = Long(Returned[i])
        /\ SumFunction([i \in DOMAIN shown |-> Header + shown[i].size]) <= MaxChars
        /\ set.cited =>
              /\ \A i \in DOMAIN shown :
                    shown[i].ref = Returned[i].ref /\ Cited[shown[i].ref] = DocOf[Returned[i].id]
              /\ \A i \in DOMAIN Cited : i < Len(Cited) => Cited[i] \in ToSet(DocsIn(kept))

(* The anchor pass is there to keep exact matches from being dropped, and  *)
(* drops no other hit for them: a hit that one list only has found is kept *)
(* only with every hit that either list has put before that place.  And an *)
(* answer's flag tells of the partial replies of all the lists merged.     *)
AnchorCounts ==
    /\ stage = "expand" /\ merged # <<>> =>
          LET Lost(c) == c \notin ToSet(Ids(hits))
              Place(l, c) == SelectInSeq(merged[l], LAMBDA d : d = c)
          IN  \A l \in 1..2, m \in 1..2 : \A c \in ToSet(merged[l]) \ ToSet(merged[3 - l]) : \A d \in ToSet(merged[m]) :
                 ~Lost(c) /\ Place(m, d) < Place(l, c) => ~Lost(d)
    /\ partial <=> heard

=============================================================================
