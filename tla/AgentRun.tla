------------------------------- MODULE AgentRun -------------------------------
(***************************************************************************)
(* agent-search: one request (agent-search/app/main.py, _run_agent) from   *)
(* plan to done.  Every call of the LLM may raise, and only some of them   *)
(* are guarded by the budget; the gate's client never raises and answers a *)
(* failed call with an empty, partial result, but an empty and unflagged   *)
(* one when the gate answers that its retrieval failed.  The endpoint that *)
(* consumes the run sends its events on and may end it at any time.        *)
(*                                                                         *)
(* A hit is a chunk with a score and has a text; a context is the list of  *)
(* its chunks.  Queries, passages and answers have no content here.        *)
(***************************************************************************)
EXTENDS Ranking

CONSTANTS
    Chunks, DocOf,   \* chunk ids and their doc_id
    Reasons,         \* what a reply may name as degraded
    Replies,         \* what gate.chat may return of a retrieval
    Modes,           \* retrieval modes a plan may ask for
    Options,         \* what a request and the environment may ask for
    FactMax,         \* max_fact_queries
    MergeCap, RetryCap,       \* max(12, top_k), and for the doubled top_k
    BlockLimit,      \* blocks of a prompt: its limit, or what max_chars holds
    MinHits, MinScore,        \* AGENT_QUALITY_MIN_HITS and _MIN_SCORE
    RetryQueries,    \* the most searches of a retry
    ToolRounds       \* max_tool_rounds

(* `ok` is the gate's own word, which the client drops: no definition but  *)
(* a property reads it.                                                    *)
Reply == [ok : BOOLEAN, hits : Seq([id : Chunks, score : Int]), context : Seq(Chunks),
          partial : BOOLEAN, degraded : SUBSET Reasons]

GateError ==
    [ok |-> FALSE, hits |-> <<>>, context |-> <<>>, partial |-> TRUE, degraded |-> {"gate_error"}]

(* The gate's retrieval raised or timed out: it answers 200 with ok: false *)
(* and without a retrieval, of which the client makes a clean empty one.   *)
NoRetrieval ==
    [ok |-> FALSE, hits |-> <<>>, context |-> <<>>, partial |-> FALSE, degraded |-> {}]

Gate == Replies \cup {GateError, NoRetrieval}

(* The switches after payload, preset and environment: HyDE may be left to *)
(* the plan, fact queries to the quality of the hits.                      *)
OptionType ==
    [budget : Nat, hyde : {"yes", "no", "plan"}, hydeNum : 1..7, facts : {"yes", "no", "poor"},
     retry : BOOLEAN, tools : BOOLEAN]

(* The gate names a chunk once (TypeOK of Chat).                           *)
ASSUME AgentAssumption ==
    /\ DocOf \in [Chunks -> STRING] /\ Replies \subseteq Reply /\ Options \subseteq OptionType
    /\ \A n \in {MergeCap, RetryCap, BlockLimit, RetryQueries, ToolRounds} : n \in Nat \ {0}
    /\ "hybrid" \in Modes /\ "gate_error" \in Reasons /\ FactMax \in Nat /\ MinHits \in Nat /\ MinScore \in Int
    /\ \A r \in Replies : r.ok /\ IsInjective([i \in DOMAIN r.hits |-> r.hits[i].id])

(* A gate asked for sources that stitches no segments (its default): the   *)
(* context are the first of the hits.                                      *)
ASSUME ContextAssumption ==
    \A r \in Replies : \A i \in DOMAIN r.context : i \in DOMAIN r.hits /\ r.context[i] = r.hits[i].id

VARIABLES
    opt,        \* the request's options
    mode,       \* the plan's retrieval mode; a retry searches in "hybrid"
    pc,         \* the stage that comes next
    asked,      \* llm_calls: how often the budget was asked
    sent,       \* history: the requests the LLM has been sent
    queries,    \* the searches the stage is about to make; 0: one, with a timeout
    round,      \* rounds of the answer with tools
    pass,       \* "first", or "retry"
    found,      \* the pass's reply: hits, context, flags
    read,       \* history: the replies of the pass
    prompt,     \* the pass's prompt: its blocks, numbered, with their documents
    answer,     \* what a done event would say of the last answer written; history:
                \* the replies it was written from, and the pass that wrote it
    out         \* the events the client has got, but for traces and tokens

vars == <<opt, mode, pc, asked, sent, queries, round, pass, found, read, prompt, answer, out>>

NoAnswer == [prompt |-> <<>>, sources |-> {}, context |-> <<>>, partial |-> FALSE, degraded |-> {},
             mode |-> "hybrid", read |-> {}, by |-> "first"]

Stages == {"plan", "language", "hyde", "search", "facts", "factSearch", "context", "answer", "assess",
           "incomplete", "retryHyde", "keywords", "finish"}

TypeOK ==
    /\ opt \in Options /\ mode \in Modes
    /\ pc \in Stages \cup {"ended", "left"}
    /\ asked \in Nat /\ sent \in Nat
    /\ queries \in 0..Larger(7, Larger(FactMax, RetryQueries)) /\ round \in 0..ToolRounds
    /\ pass \in {"first", "retry"}
    /\ found \in Reply /\ IsInjective([i \in DOMAIN found.hits |-> found.hits[i].id])
    /\ read \subseteq Gate
    /\ Len(prompt) <= BlockLimit
    /\ answer.sources \subseteq [ref : Nat \ {0}, doc : {DocOf[c] : c \in Chunks}]
    /\ \A i \in DOMAIN out : out[i] \in {"retrieval", "done", "error"}

Init ==
    /\ opt \in Options /\ pc = "plan" /\ pass = "first" /\ mode = "hybrid"
    /\ asked = 0 /\ sent = 0 /\ queries = 0 /\ round = 0
    /\ found = GateError /\ read = {} /\ prompt = <<>>
    /\ answer = NoAnswer /\ out = <<>>

-----------------------------------------------------------------------------
(* Hits and contexts.                                                      *)

Ids(hits) == [i \in DOMAIN hits |-> hits[i].id]

QualityIsPoor(r) ==
    \/ Len(r.hits) < MinHits \/ r.partial \/ r.degraded # {}
    \/ r.hits # <<>> /\ r.hits[1].score < MinScore

(* Slip: a chunk found twice stays twice.                                  *)
MergeHitsTwice(rs, cap) ==
    UpTo(Ranked(FlattenSeq([i \in DOMAIN rs |-> rs[i].hits]), LAMBDA g, h : g.score > h.score), cap)

(* One hit per chunk, in the place where it is first seen, with its best   *)
(* score; then the best of them.                                           *)
MergeHits(rs, cap) ==
    LET all    == FlattenSeq([i \in DOMAIN rs |-> rs[i].hits])
        Of(c)  == {i \in DOMAIN all : all[i].id = c}
        firsts == Distinct(Ids(all))
        best   == [i \in DOMAIN firsts |->
                     [id |-> firsts[i], score |-> Max({all[j].score : j \in Of(firsts[i])})]]
    IN  UpTo(Ranked(best, LAMBDA g, h : g.score > h.score), cap)

(* The chunks of the hits, with the text of the contexts where they have it. *)
ContextFromHits(hits) == Ids(hits)

(* Numbered by place, which is what the prompt's numbers are to mean.      *)
SourcesFromContext(context) == {[ref |-> i, doc |-> DocOf[context[i]]] : i \in DOMAIN context}

BuildContext(hits) == [i \in 1..Smaller(BlockLimit, Len(hits)) |-> DocOf[hits[i].id]]

Merged(rs, cap) ==
    LET hits == MergeHits(rs, cap)
    IN  [ok |-> \A i \in DOMAIN rs : rs[i].ok, hits |-> hits, context |-> ContextFromHits(hits),
         partial |-> \E i \in DOMAIN rs : rs[i].partial,
         degraded |-> UNION {rs[i].degraded : i \in DOMAIN rs}]

-----------------------------------------------------------------------------
(* The budget and the ways on.                                             *)

(* Slip: the count is taken before the question is counted.                *)
GrantedLate == asked <= opt.budget

(* Every question to the budget counts, and so does a refused one.         *)
Granted == asked + 1 <= opt.budget

AskLlm(n) == Granted /\ asked' = asked + 1 /\ sent' = sent + n
Refused == ~Granted /\ asked' = asked + 1 /\ UNCHANGED sent
NotAsked == UNCHANGED <<asked, sent>>

data == <<pass, found, read, prompt, answer>>

To(stage, n) == pc' = stage /\ queries' = n /\ UNCHANGED <<round, out, data>>

(* An exception, or an error event: the last event of the run.             *)
Raised == pc' = "ended" /\ out' = Append(out, "error") /\ UNCHANGED <<queries, round, data>>

-----------------------------------------------------------------------------
(* The stages.                                                             *)

(* The plan without the LLM, like one that cannot be read, is hybrid.      *)
Plan ==
    /\ pc = "plan" /\ UNCHANGED opt
    /\ \/ AskLlm(1) /\ Raised /\ UNCHANGED mode
       \/ AskLlm(1) /\ To("language", 0) /\ mode' \in Modes
       \/ Refused /\ To("language", 0) /\ mode' = "hybrid"

Language ==
    /\ pc = "language" /\ UNCHANGED <<opt, mode>>
    /\ \/ AskLlm(1) /\ (Raised \/ To("hyde", 0))
       \/ Refused /\ To("hyde", 0)

(* The plan without the LLM asks for no HyDE.  All passages are asked for  *)
(* at once, on one grant; blank ones are not searched for.                 *)
Hyde ==
    LET MayWant == opt.hyde = "yes" \/ (opt.hyde = "plan" /\ opt.budget > 0)
    IN  /\ pc = "hyde" /\ UNCHANGED <<opt, mode>>
        /\ \/ /\ MayWant /\ AskLlm(opt.hydeNum)
              /\ \/ Raised
                 \/ opt.hydeNum = 1 /\ To("search", 0)
                 \/ opt.hydeNum > 1 /\ \E n \in 1..opt.hydeNum : To("search", n)
           \/ MayWant /\ Refused /\ To("search", 0)
           \/ opt.hyde # "yes" /\ NotAsked /\ To("search", 0)

(* A retry reads the first of its replies only.                            *)
Reads(rs) ==
    IF pass = "retry" \/ queries = 0
      THEN found' = rs[1] /\ read' = {rs[1]}
      ELSE found' = Merged(rs, MergeCap) /\ read' = ToSet(rs)

(* Slip: the gate's timeout sends its error event and the run goes on.     *)
SearchGoesOn ==
    /\ pc = "search" /\ UNCHANGED <<opt, mode>> /\ NotAsked
    /\ \E rs \in [1..Larger(1, queries) -> Gate] : Reads(rs)
    /\ pc' = "facts" /\ UNCHANGED <<queries, round, pass, prompt, answer>>
    /\ out' \in {out} \cup (IF queries = 0 THEN {Append(out, "error")} ELSE {})

Search ==
    /\ pc = "search" /\ UNCHANGED <<opt, mode>> /\ NotAsked
    /\ \/ /\ (\E rs \in [1..Larger(1, queries) -> Gate] : Reads(rs))
          /\ pc' = "facts" /\ UNCHANGED <<queries, round, pass, prompt, answer, out>>
       \/ queries = 0 /\ Raised

Facts ==
    LET Wants == pass = "retry" \/ opt.facts = "yes" \/ (opt.facts = "poor" /\ QualityIsPoor(found))
    IN  /\ pc = "facts" /\ UNCHANGED <<opt, mode>>
        /\ \/ /\ Wants /\ AskLlm(1)
              /\ \/ Raised
                 \/ To("context", 0)
                 \/ \E n \in 1..FactMax : To("factSearch", n)
           \/ Wants /\ Refused /\ To("context", 0)
           \/ ~Wants /\ NotAsked /\ To("context", 0)

Cap == IF pass = "first" THEN MergeCap ELSE RetryCap

FactSearch ==
    /\ pc = "factSearch" /\ pc' = "context"
    /\ \E rs \in [1..queries -> Gate] :
          /\ found' = Merged(<<found>> \o rs, Cap)
          /\ read' = read \cup ToSet(rs)
    /\ UNCHANGED <<opt, mode, asked, sent, queries, round, pass, prompt, answer, out>>

(* What has been retrieved is told before the prompt is known to be empty; *)
(* without a prompt the first pass ends, and a retry leaves the answer be. *)
Context ==
    /\ pc = "context"
    /\ found' = [found EXCEPT !.context = IF @ = <<>> THEN ContextFromHits(found.hits) ELSE @]
    /\ prompt' = BuildContext(found.hits)
    /\ \/ prompt' # <<>> /\ pc' = "answer"
       \/ prompt' = <<>> /\ pass = "retry" /\ pc' = "finish"
       \/ prompt' = <<>> /\ pass = "first" /\ pc' = IF opt.tools THEN "answer" ELSE "ended"
    /\ out' = out \o IF pc' = "ended" THEN <<"retrieval", "error">> ELSE <<"retrieval">>
    /\ UNCHANGED <<opt, mode, asked, sent, queries, round, pass, read, answer>>

(* Slip: a retry's answer goes with the sources of the first.              *)
WrittenOldSources ==
    [prompt |-> prompt, context |-> found.context, mode |-> mode, read |-> read, by |-> pass,
     sources |-> IF pass = "retry" THEN answer.sources ELSE SourcesFromContext(found.context),
     partial |-> found.partial, degraded |-> found.degraded]

(* Slip: a retry's answer goes with the flags of the first.                *)
WrittenOldFlags ==
    [prompt |-> prompt, sources |-> SourcesFromContext(found.context), context |-> found.context,
     mode |-> mode, read |-> read, by |-> pass,
     partial |-> IF pass = "retry" THEN answer.partial ELSE found.partial,
     degraded |-> IF pass = "retry" THEN answer.degraded ELSE found.degraded]

(* A retry's answer takes everything from the retry but the mode.          *)
Written ==
    [prompt |-> prompt, sources |-> SourcesFromContext(found.context), context |-> found.context,
     partial |-> found.partial, degraded |-> found.degraded, mode |-> mode, read |-> read, by |-> pass]

(* A reply that calls tools, answered with what they gave; what the last   *)
(* round replies is an answer whatever it calls.                           *)
AnotherRound ==
    /\ opt.tools /\ round + 1 < ToolRounds /\ round' = round + 1
    /\ UNCHANGED <<pc, queries, out, data>>

(* Never asks the budget.  A stream that times out leaves what it has, or  *)
(* a placeholder.                                                          *)
Answer ==
    /\ pc = "answer" /\ sent' = sent + 1 /\ UNCHANGED <<opt, mode, asked>>
    /\ \/ Raised
       \/ AnotherRound
       \/ /\ answer' = Written /\ round' = 0
          /\ pc' = IF pass = "first" THEN "assess" ELSE "finish"
          /\ UNCHANGED <<queries, out, pass, found, read, prompt>>

Assess ==
    /\ pc = "assess" /\ UNCHANGED <<opt, mode>>
    /\ \/ AskLlm(1) /\ (Raised \/ To("incomplete", 0) \/ To("finish", 0))
       \/ Refused /\ To("finish", 0)

(* The budget is asked before the switch is looked at.                     *)
Incomplete ==
    /\ pc = "incomplete" /\ asked' = asked + 1
    /\ IF Granted /\ opt.retry THEN pc' = "retryHyde" /\ pass' = "retry"
                               ELSE pc' = "finish" /\ UNCHANGED pass
    /\ UNCHANGED <<opt, mode, sent, queries, round, found, read, prompt, answer, out>>

RetryHyde ==
    /\ pc = "retryHyde" /\ UNCHANGED <<opt, mode>>
    /\ \/ AskLlm(1) /\ (Raised \/ To("keywords", 0))
       \/ Refused /\ To("keywords", 0)

(* One search for the question or its passage, and one for each term or    *)
(* keyword it does not contain.                                            *)
Keywords ==
    /\ pc = "keywords" /\ UNCHANGED <<opt, mode>>
    /\ \/ AskLlm(1) /\ (Raised \/ \E n \in 1..RetryQueries : To("search", n))
       \/ Refused /\ \E n \in 1..RetryQueries : To("search", n)

Finish ==
    /\ pc = "finish" /\ pc' = "ended" /\ out' = Append(out, "done")
    /\ UNCHANGED <<opt, mode, asked, sent, queries, round, data>>

-----------------------------------------------------------------------------
(* The endpoint.                                                           *)

(* The deadline of the request, or of the wait for its next event.         *)
TimeOut ==
    /\ pc \in Stages /\ Raised
    /\ UNCHANGED <<opt, mode, asked, sent>>

(* The client of the stream disconnects.                                   *)
Leave ==
    /\ pc \in Stages /\ pc' = "left"
    /\ UNCHANGED <<opt, mode, asked, sent, queries, round, out, data>>

Next ==
    \/ Plan \/ Language \/ Hyde \/ Search \/ Facts \/ FactSearch \/ Context
    \/ Answer \/ Assess \/ Incomplete \/ RetryHyde \/ Keywords \/ Finish
    \/ TimeOut \/ Leave

Spec == Init /\ [][Next]_vars

-----------------------------------------------------------------------------
(* What a run promises.                                                    *)

Done == out # <<>> /\ Last(out) = "done"

(* A client that stays gets one last event, done or error, and nothing     *)
(* after it, however the run ends: a raising LLM, a gate that times out,   *)
(* no context, or the endpoint's deadline.                                 *)
OneEnding ==
    /\ pc = "ended" => out # <<>> /\ Last(out) \in {"done", "error"}
    /\ \A i \in DOMAIN out : out[i] \in {"done", "error"} => i = Len(out) /\ pc = "ended"

(* What the budget does bound: the LLM gets no more requests than its      *)
(* budget, the further HyDE passages sent on one grant, the rounds of the  *)
(* answer, and with a retry, which pays a grant of its own, the rounds of  *)
(* the second answer but one.  "Max LLM calls per request", as             *)
(* docs/AGENT_SEARCH.md:27 has it, would be sent <= opt.budget.            *)
CallsBounded ==
    LET rounds == IF opt.tools THEN ToolRounds ELSE 1
    IN  sent <= opt.budget + (opt.hydeNum - 1) + rounds + (IF opt.retry THEN rounds - 1 ELSE 0)

(* A block of the answer's prompt and the source with its number name the  *)
(* same document, whichever searches were merged and whichever pass wrote  *)
(* the answer: docstring of sources_from_context and the prompt ANSWER_SYSTEM. *)
CitationsAgree ==
    Done => \A n \in DOMAIN answer.prompt, s \in answer.sources : s.ref = n => s.doc = answer.prompt[n]

(* The mode the searches of an answer were made in.                        *)
SearchedIn(a) == IF a.by = "retry" THEN "hybrid" ELSE mode

(* The flags and the context of a done event are those of the searches     *)
(* its answer was written from, and a retry mixes nothing of the first     *)
(* pass into them.  Two exceptions: a failure of these searches goes       *)
(* unsaid if the gate answers that its retrieval failed, and the mode is   *)
(* the plan's, also of an answer whose searches a retry made in another.   *)
(* A retry's searches but the first are not read: their hits are lost, and *)
(* their failures.                                                         *)
DoneIsOnePass ==
    Done =>
        /\ answer.partial <=> \E r \in answer.read : r.partial
        /\ answer.degraded = UNION {r.degraded : r \in answer.read}
        /\ ToSet(answer.context) \subseteq UNION {ToSet(Ids(r.hits)) \cup ToSet(r.context) : r \in answer.read}
        /\ (\E r \in answer.read : ~r.ok) => answer.partial \/ NoRetrieval \in answer.read
        /\ answer.mode = SearchedIn(answer) \/ answer.by = "retry"

=============================================================================
