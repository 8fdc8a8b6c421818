---------------------------- MODULE AgentRunProofs ----------------------------
(***************************************************************************)
(* What a request may cost, how it ends, and what its answer comes with,   *)
(* for any options, replies and bounds.                                    *)
(***************************************************************************)
EXTENDS AgentRun, RankingProofs

-----------------------------------------------------------------------------
(* The inductive invariant.                                                *)

Early == {"plan", "language", "hyde"}
Written1 == {"assess", "incomplete"}
Rounds == IF opt.tools THEN ToolRounds ELSE 1

(* Where a run stands: how far it has come tells the pass and the round.   *)
StageInv ==
    /\ opt \in Options /\ opt \in OptionType
    /\ pc \in Stages \cup {"ended", "left"} /\ pass \in {"first", "retry"}
    /\ asked \in Nat /\ sent \in Nat /\ queries \in Nat /\ round \in Nat /\ round < Rounds
    /\ pass = "retry" => opt.retry
    /\ pc \in Early \cup Written1 => pass = "first"
    /\ pc \in Stages \ {"answer"} => round = 0

(* Of the questions the budget was asked it has granted those within it.   *)
Grants == IF asked < opt.budget THEN asked ELSE opt.budget

(* What the LLM has been sent beyond the grants: HyDE's further passages,  *)
(* on the grant of the retry the rounds of its answer but one, and the     *)
(* rounds of the answer of this pass.                                      *)
HydeExtra   == IF pc \in Early THEN 0 ELSE opt.hydeNum - 1
RetryExtra  == IF pass = "retry" THEN Rounds - 1 ELSE 0
AnswerExtra ==
    IF pc = "answer" THEN round
    ELSE IF pc \in Written1 \cup {"finish", "ended", "left"} THEN Rounds ELSE 0

Extra == HydeExtra + RetryExtra + AnswerExtra

CostInv == sent <= Grants + Extra

(* No event but the last of a run that has ended is its last.              *)
EndInv ==
    /\ out \in Seq({"retrieval", "done", "error"})
    /\ pc # "ended" => \A i \in 1..Len(out) : out[i] = "retrieval"
    /\ pc = "ended" =>
          /\ Len(out) > 0 /\ out[Len(out)] \in {"done", "error"}
          /\ \A i \in 1..Len(out) : i # Len(out) => out[i] = "retrieval"

(* The context of a pass are its first hits, and its prompt is made of     *)
(* them: so are the prompt and the sources of an answer.                   *)
FoundInv ==
    /\ DOMAIN found = {"ok", "hits", "context", "partial", "degraded"}
    /\ \A i \in DOMAIN found.context : found.context[i] = found.hits[i].id
    /\ pc = "answer" => \A n \in DOMAIN prompt : prompt[n] = DocOf[found.hits[n].id]

AnswerInv ==
    \A n \in DOMAIN answer.prompt, s \in answer.sources : s.ref = n => s.doc = answer.prompt[n]

(* The flags of a pass, once it has searched, are those of what it read.   *)
FlagsOf(p, d, rs) ==
    /\ p <=> \E r \in rs : r.partial
    /\ d = UNION {r.degraded : r \in rs}

FlagsInv ==
    /\ pc \notin Early \cup {"search", "ended", "left"} => FlagsOf(found.partial, found.degraded, read)
    /\ FlagsOf(answer.partial, answer.degraded, answer.read)

(* The chunks a reply names, and some replies together.                    *)
Names(r) == ToSet(Ids(r.hits)) \cup ToSet(r.context)
Told(rs) == UNION {Names(r) : r \in rs}

(* A reply that names a chunk once.                                        *)
Fine(r) == r \in Reply /\ IsInjective(Ids(r.hits))

MostQueries == Larger(7, Larger(FactMax, RetryQueries))

SourcesType == [ref : Nat \ {0}, doc : {DocOf[c] : c \in Chunks}]

(* Hits and context of a pass name what its replies name, and an answer's  *)
(* context what the replies name that it was written from.                 *)
ListInv ==
    /\ queries \in 0..MostQueries
    /\ Fine(found) /\ read \subseteq Gate /\ Names(found) \subseteq Told(read)
    /\ Len(prompt) \in Nat /\ Len(prompt) <= BlockLimit
    /\ answer.sources \subseteq SourcesType
    /\ ToSet(answer.context) \subseteq Told(answer.read)
    /\ answer.read \subseteq Gate

(* An answer, once there is one, is given the plan's mode.                 *)
Answered == pc \in Written1 \cup {"finish"} \/ pass = "retry" \/ Done

ModeInv == mode \in Modes /\ (Answered => answer.mode = mode)

IInv == StageInv /\ CostInv /\ EndInv /\ FoundInv /\ AnswerInv /\ FlagsInv /\ ListInv /\ ModeInv

-----------------------------------------------------------------------------
(* What a request may cost.                                                *)

Asked1 == AskLlm(1) \/ Refused \/ NotAsked

LEMMA RoundsType == StageInv => Rounds \in Nat /\ Rounds >= 1
BY AgentAssumption DEF StageInv, Rounds

CostTypes ==
    /\ HydeExtra \in Nat /\ RetryExtra \in Nat /\ AnswerExtra \in Nat /\ Extra \in Nat
    /\ Grants \in Nat /\ sent \in Nat /\ asked \in Nat /\ opt.hydeNum \in 1..7 /\ opt.budget \in Nat

LEMMA ExtraTypes == StageInv => CostTypes
<1> SUFFICES ASSUME StageInv PROVE CostTypes
  OBVIOUS
<1>1. opt.hydeNum \in 1..7 /\ opt.budget \in Nat
  BY DEF StageInv, OptionType
<1>2. HydeExtra \in Nat
  BY <1>1 DEF HydeExtra
<1>3. RetryExtra \in Nat /\ AnswerExtra \in Nat
  BY RoundsType DEF RetryExtra, AnswerExtra, StageInv
<1>4. Grants \in Nat /\ sent \in Nat /\ asked \in Nat
  BY <1>1 DEF Grants, StageInv
<1>5. Extra \in Nat
  BY <1>2, <1>3 DEF Extra
<1> QED BY <1>1, <1>2, <1>3, <1>4, <1>5 DEF CostTypes

LEMMA ExtraTypesNext == StageInv' => CostTypes'
BY ExtraTypes, PTL

(* A question that is granted pays for one request.                        *)
LEMMA AskCost ==
    ASSUME StageInv, opt' = opt
    PROVE  /\ \A n \in Nat : AskLlm(n) => asked' \in Nat /\ sent' = sent + n /\ Grants' = Grants + 1
           /\ Refused => asked' \in Nat /\ sent' = sent /\ Grants' \in Nat /\ Grants <= Grants'
           /\ NotAsked => asked' \in Nat /\ sent' = sent /\ Grants' = Grants
<1> DEFINE b == opt.budget
<1>1. b \in Nat /\ asked \in Nat
  BY ExtraTypes DEF CostTypes
<1>2. /\ Grants = (IF asked < b THEN asked ELSE b) /\ Grants' = (IF asked' < b THEN asked' ELSE b)
      /\ Granted <=> asked + 1 <= b
  BY DEF Grants, Granted
<1> HIDE DEF b
<1> QED BY <1>1, <1>2 DEF AskLlm, Refused, NotAsked

(* What is sent is paid for by grants, or by what may be sent beyond them. *)
LEMMA CostSum ==
    ASSUME StageInv, CostInv, StageInv', sent' + Grants + Extra <= sent + Grants' + Extra'
    PROVE  CostInv'
<1>1. /\ Extra \in Nat /\ Grants \in Nat /\ sent \in Nat
      /\ Extra' \in Nat /\ Grants' \in Nat /\ sent' \in Nat
  BY ExtraTypes, ExtraTypesNext DEF CostTypes
<1>2. PICK s \in Nat, g \in Nat, x \in Nat : s = sent /\ g = Grants /\ x = Extra
  BY <1>1
<1>3. PICK t \in Nat, h \in Nat, y \in Nat : t = sent' /\ h = Grants' /\ y = Extra'
  BY <1>1
<1>4. s <= g + x /\ t + g + x <= s + h + y
  BY <1>2, <1>3 DEF CostInv
<1>5. t <= h + y
  BY <1>4
<1> QED BY <1>3, <1>5 DEF CostInv

(* A stage that asks for one request at most, and leaves what may be sent  *)
(* beyond the grants as it was, or higher.                                 *)
LEMMA CheapCost ==
    ASSUME StageInv, CostInv, UNCHANGED <<opt, pass, round>>, Asked1, queries' \in Nat,
           pc \in Stages, pc' \in Stages \cup {"ended", "left"},
           pc = "answer" => pc' \in {"ended", "left"},
           pc' \in Early => pc \in Early,
           pc' \in Early \cup Written1 => pc \in Early \cup Written1,
           pc \in Written1 \cup {"finish"} => pc' \in Written1 \cup {"finish", "ended", "left"}
    PROVE  StageInv' /\ CostInv'
<1>1. CostTypes
  BY ExtraTypes
<1>2. /\ asked' \in Nat /\ sent' \in Nat /\ Grants' \in Nat /\ sent' + Grants <= sent + Grants'
  <2>1. CASE AskLlm(1)
    BY <1>1, <2>1, AskCost DEF CostTypes
  <2>2. CASE Refused
    BY <1>1, <2>2, AskCost DEF CostTypes
  <2>3. CASE NotAsked
    BY <1>1, <2>3, AskCost DEF CostTypes
  <2> QED BY <2>1, <2>2, <2>3 DEF Asked1
<1>3. Rounds' = Rounds /\ Rounds \in Nat /\ Rounds >= 1
  BY RoundsType DEF Rounds
<1>4. StageInv'
  <2>1. opt' \in Options /\ opt' \in OptionType /\ (pass' = "retry" => opt'.retry) /\ pass' \in {"first", "retry"}
    BY Zenon DEF StageInv
  <2>2. round' \in Nat /\ round' < Rounds' /\ (pc' \in Stages \ {"answer"} => round' = 0)
    BY <1>3 DEF StageInv, Stages
  <2>3. pc' \in Early \cup Written1 => pass' = "first"
    BY DEF StageInv
  <2> QED BY <1>2, <2>1, <2>2, <2>3 DEF StageInv
<1>5. CostTypes'
  BY <1>4, ExtraTypesNext
<1>6. HydeExtra <= HydeExtra'
  BY <1>1, <1>5 DEF HydeExtra, CostTypes
<1>7. RetryExtra <= RetryExtra'
  BY <1>1, <1>3 DEF RetryExtra, CostTypes
<1>8. AnswerExtra <= AnswerExtra'
  BY <1>3 DEF AnswerExtra, StageInv, Stages, Early, Written1
<1>9. Extra <= Extra'
  <2>1. PICK h \in Nat, r \in Nat, a \in Nat : h = HydeExtra /\ r = RetryExtra /\ a = AnswerExtra
    BY <1>1 DEF CostTypes
  <2>2. PICK i \in Nat, q \in Nat, b \in Nat : i = HydeExtra' /\ q = RetryExtra' /\ b = AnswerExtra'
    BY <1>5 DEF CostTypes
  <2>3. h <= i /\ r <= q /\ a <= b
    BY <1>6, <1>7, <1>8, <2>1, <2>2
  <2>4. h + r + a <= i + q + b
    BY <2>3
  <2> QED BY <2>1, <2>2, <2>4 DEF Extra
<1>10. sent' + Grants + Extra <= sent + Grants' + Extra'
  <2>1. PICK s \in Nat, g \in Nat, x \in Nat : s = sent /\ g = Grants /\ x = Extra
    BY <1>1 DEF CostTypes
  <2>2. PICK t \in Nat, h \in Nat, y \in Nat : t = sent' /\ h = Grants' /\ y = Extra'
    BY <1>5 DEF CostTypes
  <2>3. t + g <= s + h /\ x <= y
    BY <1>2, <1>9, <2>1, <2>2
  <2>4. t + g + x <= s + h + y
    BY <2>3
  <2> QED BY <2>1, <2>2, <2>4
<1> QED BY <1>4, <1>10, CostSum

(* Every stage but HyDE's, the answer and the retry's grant is cheap.      *)
LEMMA CheapStages ==
    ASSUME StageInv, CostInv,
           \/ Plan \/ Language \/ Search \/ Facts \/ FactSearch \/ Context \/ Assess
           \/ RetryHyde \/ Keywords \/ Finish \/ TimeOut \/ Leave
    PROVE  StageInv' /\ CostInv'
<1> USE DEF Stages, Early, Written1, Asked1, To, Raised, data
<1>1. queries \in Nat /\ FactMax \in Nat /\ RetryQueries \in Nat
  BY AgentAssumption DEF StageInv
<1>2. CASE Plan \/ Language \/ Assess \/ RetryHyde
  BY <1>1, <1>2, CheapCost DEF Plan, Language, Assess, RetryHyde
<1>3. CASE Search
  BY <1>1, <1>3, CheapCost DEF Search
<1>4. CASE Facts
  <2>1. \A n \in 1..FactMax : n \in Nat
    BY <1>1
  <2> QED BY <1>1, <1>4, <2>1, CheapCost DEF Facts
<1>5. CASE FactSearch \/ Finish
  BY <1>1, <1>5, CheapCost DEF FactSearch, Finish, NotAsked
<1>6. CASE Context
  BY <1>1, <1>6, CheapCost DEF Context, NotAsked
<1>7. CASE Keywords
  <2>1. \A n \in 1..RetryQueries : n \in Nat
    BY <1>1
  <2> QED BY <1>1, <1>7, <2>1, CheapCost DEF Keywords
<1>8. CASE TimeOut \/ Leave
  BY <1>1, <1>8, CheapCost DEF TimeOut, Leave, NotAsked
<1> QED BY <1>2, <1>3, <1>4, <1>5, <1>6, <1>7, <1>8

(* All passages are asked for on one grant.                                *)
LEMMA HydeCost == ASSUME StageInv, CostInv, Hyde PROVE StageInv' /\ CostInv'
<1>1. /\ pc = "hyde" /\ UNCHANGED <<opt, pass, round>> /\ pc' \in {"search", "ended"} /\ queries' \in Nat
      /\ AskLlm(opt.hydeNum) \/ Refused \/ NotAsked
  <2>1. queries \in Nat /\ \A n \in 1..opt.hydeNum : n \in Nat
    BY ExtraTypes DEF StageInv, CostTypes
  <2> QED BY <2>1 DEF Hyde, To, Raised, data
<1>2. CASE Refused \/ NotAsked
  BY <1>1, <1>2, CheapCost DEF Asked1, Stages, Early, Written1
<1>3. CASE AskLlm(opt.hydeNum)
  <2>1. CostTypes /\ opt.hydeNum \in Nat
    BY ExtraTypes DEF CostTypes
  <2>2. asked' \in Nat /\ sent' = sent + opt.hydeNum /\ Grants' = Grants + 1
    BY <1>1, <1>3, <2>1, AskCost
  <2>3. Rounds' = Rounds /\ Rounds \in Nat /\ Rounds >= 1
    BY <1>1, RoundsType DEF Rounds
  <2>4. StageInv'
    <3>1. opt' \in OptionType /\ (pass' = "retry" => opt'.retry) /\ pass' \in {"first", "retry"}
      BY <1>1, Zenon DEF StageInv
    <3>2. sent' \in Nat
      BY <2>1, <2>2 DEF CostTypes
    <3>3. pc' \notin Early \cup Written1 /\ pc' \in Stages \cup {"ended", "left"}
      BY <1>1 DEF Early, Written1, Stages
    <3>4. round' \in Nat /\ round' < Rounds' /\ round' = 0
      BY <1>1, <2>3 DEF StageInv, Stages
    <3> QED BY <1>1, <2>2, <3>1, <3>2, <3>3, <3>4 DEF StageInv
  <2>5. CostTypes'
    BY <2>4, ExtraTypesNext
  <2>6. HydeExtra = 0 /\ HydeExtra' = opt.hydeNum - 1 /\ RetryExtra' = RetryExtra /\ AnswerExtra = 0
    BY <1>1, <2>3 DEF HydeExtra, RetryExtra, AnswerExtra, Early, Written1
  <2>7. sent' + Grants + Extra <= sent + Grants' + Extra'
    <3>1. PICK s \in Nat, g \in Nat, r \in Nat, n \in Nat :
             s = sent /\ g = Grants /\ r = RetryExtra /\ n = opt.hydeNum
      BY <2>1 DEF CostTypes
    <3>2. PICK a \in Nat : a = AnswerExtra'
      BY <2>5 DEF CostTypes
    <3>3. Extra = 0 + r + 0 /\ Extra' = (n - 1) + r + a /\ sent' = s + n /\ Grants' = g + 1
      BY <2>2, <2>6, <3>1, <3>2 DEF Extra
    <3>4. (s + n) + g + (0 + r + 0) <= s + (g + 1) + ((n - 1) + r + a)
      OBVIOUS
    <3> QED BY <3>1, <3>3, <3>4
  <2> QED BY <2>4, <2>7, CostSum
<1> QED BY <1>1, <1>2, <1>3

(* A round of the answer is one request, on no grant.                      *)
LEMMA AnswerCost == ASSUME StageInv, CostInv, Answer PROVE StageInv' /\ CostInv'
<1>1. /\ pc = "answer" /\ sent' = sent + 1 /\ UNCHANGED <<opt, asked, pass>>
      /\ \/ pc' = "ended" /\ UNCHANGED <<queries, round>>
         \/ /\ opt.tools /\ round + 1 < ToolRounds /\ round' = round + 1
            /\ UNCHANGED <<pc, queries>>
         \/ /\ round' = 0 /\ UNCHANGED queries
            /\ pc' = IF pass = "first" THEN "assess" ELSE "finish"
  BY DEF Answer, Raised, AnotherRound, data
<1>2. CostTypes /\ round \in Nat /\ round < Rounds
  BY ExtraTypes DEF StageInv
<1>3. Rounds' = Rounds /\ Rounds \in Nat /\ Rounds >= 1 /\ (opt.tools => Rounds = ToolRounds)
  BY <1>1, RoundsType DEF Rounds
<1>4. StageInv'
  <2>1. opt' \in Options /\ opt' \in OptionType /\ (pass' = "retry" => opt'.retry) /\ pass' \in {"first", "retry"}
    BY <1>1, Zenon DEF StageInv
  <2>2. sent' \in Nat /\ asked' \in Nat /\ queries' \in Nat
    BY <1>1, <1>2 DEF CostTypes, StageInv
  <2>3. /\ pc' \in Stages \cup {"ended", "left"} /\ (pc' \in Early \cup Written1 => pass' = "first")
    BY <1>1 DEF Early, Written1, Stages
  <2>4. round' \in Nat /\ round' < Rounds' /\ (pc' \in Stages \ {"answer"} => round' = 0)
    BY <1>1, <1>2, <1>3 DEF Stages
  <2> QED BY <2>1, <2>2, <2>3, <2>4 DEF StageInv
<1>5. CostTypes'
  BY <1>4, ExtraTypesNext
<1>6. /\ HydeExtra' = HydeExtra /\ RetryExtra' = RetryExtra /\ Grants' = Grants
  <2>1. pc \notin Early /\ pc' \notin Early
    BY <1>1 DEF Early
  <2> QED BY <1>1, <1>3, <2>1 DEF HydeExtra, RetryExtra, Grants
<1>7. AnswerExtra + 1 <= AnswerExtra'
  BY <1>1, <1>2, <1>3 DEF AnswerExtra, Written1
<1>8. sent' + Grants + Extra <= sent + Grants' + Extra'
  <2>1. PICK s \in Nat, g \in Nat, h \in Nat, r \in Nat, a \in Nat :
           s = sent /\ g = Grants /\ h = HydeExtra /\ r = RetryExtra /\ a = AnswerExtra
    BY <1>2 DEF CostTypes
  <2>2. PICK b \in Nat : b = AnswerExtra'
    BY <1>5 DEF CostTypes
  <2>3. a + 1 <= b
    BY <1>7, <2>1, <2>2
  <2>4. (s + 1) + g + (h + r + a) <= s + g + (h + r + b)
    BY <2>3
  <2>5. Extra = h + r + a /\ Extra' = h + r + b /\ sent' = s + 1 /\ Grants' = g
    BY <1>1, <1>6, <2>1, <2>2 DEF Extra
  <2> QED BY <2>1, <2>4, <2>5
<1> QED BY <1>4, <1>8, CostSum

(* The grant of the retry is spent on the first round of its answer.       *)
LEMMA IncompleteCost == ASSUME StageInv, CostInv, Incomplete PROVE StageInv' /\ CostInv'
<1>1. /\ pc = "incomplete" /\ asked' = asked + 1 /\ UNCHANGED <<opt, sent, queries, round>>
      /\ \/ Granted /\ opt.retry /\ pc' = "retryHyde" /\ pass' = "retry"
         \/ pc' = "finish" /\ UNCHANGED pass
  BY DEF Incomplete
<1>2. CostTypes /\ pass = "first" /\ round = 0
  BY <1>1, ExtraTypes DEF StageInv, Stages, Written1
<1>3. Rounds' = Rounds /\ Rounds \in Nat /\ Rounds >= 1
  BY <1>1, RoundsType DEF Rounds
<1>4. StageInv'
  <2>1. opt' \in Options /\ opt' \in OptionType /\ (pass' = "retry" => opt'.retry) /\ pass' \in {"first", "retry"}
    BY <1>1, <1>2, Zenon DEF StageInv
  <2>2. sent' \in Nat /\ asked' \in Nat /\ queries' \in Nat
    BY <1>1, <1>2 DEF CostTypes, StageInv
  <2>3. /\ pc' \in Stages \cup {"ended", "left"} /\ pc' \notin Early \cup Written1
    BY <1>1 DEF Early, Written1, Stages
  <2>4. round' \in Nat /\ round' < Rounds' /\ round' = 0
    BY <1>1, <1>2, <1>3
  <2> QED BY <2>1, <2>2, <2>3, <2>4 DEF StageInv
<1>5. CostTypes'
  BY <1>4, ExtraTypesNext
<1>6. HydeExtra' = HydeExtra
  BY <1>1 DEF HydeExtra, Early
<1>7. RetryExtra = 0 /\ AnswerExtra = Rounds
  BY <1>1, <1>2 DEF RetryExtra, AnswerExtra, Written1
<1>8. \/ Grants' = Grants + 1 /\ RetryExtra' = Rounds - 1 /\ AnswerExtra' = 0
      \/ Grants' >= Grants /\ RetryExtra' = 0 /\ AnswerExtra' = Rounds
  <2>1. CASE Granted /\ opt.retry /\ pc' = "retryHyde" /\ pass' = "retry"
    <3>1. Grants' = Grants + 1
      BY <1>1, <1>2, <2>1 DEF Grants, Granted, CostTypes
    <3> QED BY <1>3, <2>1, <3>1 DEF RetryExtra, AnswerExtra, Written1
  <2>2. CASE pc' = "finish" /\ UNCHANGED pass
    <3>1. Grants' >= Grants
      BY <1>1, <1>2 DEF Grants, CostTypes
    <3> QED BY <1>2, <1>3, <2>2, <3>1 DEF RetryExtra, AnswerExtra, Written1
  <2> QED BY <1>1, <2>1, <2>2
<1>9. sent' + Grants + Extra <= sent + Grants' + Extra'
  <2>1. PICK s \in Nat, g \in Nat, h \in Nat, n \in Nat :
           s = sent /\ g = Grants /\ h = HydeExtra /\ n = Rounds
    BY <1>2, <1>3 DEF CostTypes
  <2>2. PICK j \in Nat, r \in Nat, a \in Nat : j = Grants' /\ r = RetryExtra' /\ a = AnswerExtra'
    BY <1>5 DEF CostTypes
  <2>3. (j = g + 1 /\ r = n - 1 /\ a = 0) \/ (j >= g /\ r = 0 /\ a = n)
    BY <1>8, <2>1, <2>2
  <2>4. s + g + (h + 0 + n) <= s + j + (h + r + a)
    BY <2>3
  <2>5. Extra = h + 0 + n /\ Extra' = h + r + a /\ sent' = s
    BY <1>1, <1>6, <1>7, <2>1, <2>2 DEF Extra
  <2> QED BY <2>1, <2>2, <2>4, <2>5
<1> QED BY <1>4, <1>9, CostSum

LEMMA CostStep == ASSUME StageInv, CostInv, Next PROVE StageInv' /\ CostInv'
BY CheapStages, HydeCost, AnswerCost, IncompleteCost DEF Next

-----------------------------------------------------------------------------
(* How a request ends.                                                     *)

LEMMA EndStep == ASSUME EndInv, Next PROVE EndInv'
<1>1. \/ UNCHANGED out /\ pc # "ended" /\ pc' # "ended"
      \/ pc # "ended" /\ pc' = "ended" /\ out' = Append(out, "error")
      \/ pc # "ended" /\ pc' = "ended" /\ out' = Append(out, "done")
      \/ pc # "ended" /\ pc' = "ended" /\ out' = out \o <<"retrieval", "error">>
      \/ pc # "ended" /\ pc' # "ended" /\ out' = out \o <<"retrieval">>
  <2> USE DEF To, Raised, data
  <2>1. CASE Plan \/ Language \/ Hyde \/ Search \/ Facts \/ FactSearch
    BY <2>1 DEF Plan, Language, Hyde, Search, Facts, FactSearch
  <2>2. CASE Context
    BY <2>2 DEF Context
  <2>3. CASE Answer \/ Assess \/ Incomplete \/ RetryHyde \/ Keywords
    BY <2>3 DEF Answer, AnotherRound, Assess, Incomplete, RetryHyde, Keywords
  <2>4. CASE Finish \/ TimeOut \/ Leave
    BY <2>4 DEF Finish, TimeOut, Leave, Stages
  <2> QED BY <2>1, <2>2, <2>3, <2>4 DEF Next
<1>2. out \in Seq({"retrieval", "done", "error"}) /\ Len(out) \in Nat
  BY DEF EndInv
<1>3. CASE UNCHANGED out /\ pc # "ended" /\ pc' # "ended"
  BY <1>3 DEF EndInv
<1>4. CASE pc # "ended" /\ pc' = "ended" /\ (out' = Append(out, "error") \/ out' = Append(out, "done"))
  BY <1>2, <1>4 DEF EndInv
<1>5. CASE pc # "ended" /\ pc' = "ended" /\ out' = out \o <<"retrieval", "error">>
  BY <1>2, <1>5 DEF EndInv
<1>6. CASE pc # "ended" /\ pc' # "ended" /\ out' = out \o <<"retrieval">>
  BY <1>2, <1>6 DEF EndInv
<1> QED BY <1>1, <1>3, <1>4, <1>5, <1>6

-----------------------------------------------------------------------------
(* What an answer comes with.                                              *)

Fields == {"ok", "hits", "context", "partial", "degraded"}

(* Of a reply of the gate, the context are the first hits.                 *)
LEMMA GateFacts ==
    ASSUME NEW r \in Gate
    PROVE  DOMAIN r = Fields /\ \A i \in DOMAIN r.context : r.context[i] = r.hits[i].id
<1>1. CASE r \in Replies
  BY <1>1, AgentAssumption, ContextAssumption DEF Reply, Fields
<1>2. CASE r \in {GateError, NoRetrieval}
  BY <1>2 DEF GateError, NoRetrieval, Fields
<1> QED BY <1>1, <1>2 DEF Gate

(* ... and of merged replies, whatever the merge keeps of them.            *)
LEMMA MergedFacts ==
    ASSUME NEW rs, NEW cap
    PROVE  LET m == Merged(rs, cap)
           IN  /\ DOMAIN m = Fields
               /\ \A i \in DOMAIN m.context : m.context[i] = m.hits[i].id
               /\ FlagsOf(m.partial, m.degraded, ToSet(rs))
<1> DEFINE hits == MergeHits(rs, cap)
           p    == \E i \in DOMAIN rs : rs[i].partial
           d    == UNION {rs[i].degraded : i \in DOMAIN rs}
           k    == \A i \in DOMAIN rs : rs[i].ok
           m    == Merged(rs, cap)
<1>1. m = [ok |-> k, hits |-> hits, context |-> Ids(hits), partial |-> p, degraded |-> d]
  BY DEF Merged, ContextFromHits
<1>2. (p <=> \E r \in ToSet(rs) : r.partial) /\ d = UNION {r.degraded : r \in ToSet(rs)}
  BY DEF ToSet
<1>3. \A i \in DOMAIN Ids(hits) : Ids(hits)[i] = hits[i].id
  BY DEF Ids
<1> HIDE DEF hits, p, d, k, m
<1> QED BY <1>1, <1>2, <1>3 DEF FlagsOf, Fields, m

PassInv == FoundInv /\ AnswerInv /\ FlagsInv

(* Stages that leave hits, prompt and answer alone.                        *)
LEMMA KeepsPass ==
    ASSUME PassInv, UNCHANGED <<found, read, prompt, answer>>, pc' = "answer" => pc = "answer",
           pc \in Early \cup {"search", "ended", "left"} => pc' \in Early \cup {"search", "ended", "left"}
    PROVE  PassInv'
<1>1. FoundInv' /\ AnswerInv'
  BY DEF PassInv, FoundInv, AnswerInv
<1>2. FlagsInv'
  <2>1. FlagsOf(answer.partial, answer.degraded, answer.read)'
    BY DEF PassInv, FlagsInv, FlagsOf
  <2>2. pc' \notin Early \cup {"search", "ended", "left"} => FlagsOf(found.partial, found.degraded, read)'
    BY DEF PassInv, FlagsInv, FlagsOf
  <2> QED BY <2>1, <2>2 DEF FlagsInv
<1> QED BY <1>1, <1>2 DEF PassInv

(* A pass's reply comes with its own flags.                                *)
LEMMA SearchPass == ASSUME StageInv, PassInv, Search PROVE PassInv'
<1>1. CASE queries = 0 /\ Raised
  BY <1>1, KeepsPass DEF Search, Raised, data, Early
<1>2. CASE ~(queries = 0 /\ Raised)
  <2>1. /\ pc' = "facts" /\ UNCHANGED <<prompt, answer>>
        /\ \E rs \in [1..Larger(1, queries) -> Gate] : Reads(rs)
    BY <1>2 DEF Search
  <2>2. PICK rs \in [1..Larger(1, queries) -> Gate] : Reads(rs)
    BY <2>1
  <2>3. /\ DOMAIN found' = Fields /\ \A i \in DOMAIN found'.context : found'.context[i] = found'.hits[i].id
        /\ FlagsOf(found'.partial, found'.degraded, read')
    <3>1. CASE pass = "retry" \/ queries = 0
      <4>1. rs[1] \in Gate /\ found' = rs[1] /\ read' = {rs[1]}
        BY <2>2, <3>1 DEF Reads, Larger, StageInv
      <4>2. FlagsOf(rs[1].partial, rs[1].degraded, {rs[1]})
        <5>1. rs[1].degraded = UNION {r.degraded : r \in {rs[1]}}
          OBVIOUS
        <5>2. rs[1].partial <=> \E r \in {rs[1]} : r.partial
          BY Zenon
        <5> QED BY <5>1, <5>2 DEF FlagsOf
      <4> QED BY <4>1, <4>2, GateFacts
    <3>2. CASE ~(pass = "retry" \/ queries = 0)
      <4>1. found' = Merged(rs, MergeCap) /\ read' = ToSet(rs)
        BY <2>2, <3>2 DEF Reads
      <4> QED BY <4>1, MergedFacts
    <3> QED BY <3>1, <3>2
  <2>4. FoundInv' /\ AnswerInv'
    BY <2>1, <2>3 DEF PassInv, FoundInv, AnswerInv, Fields
  <2>5. FlagsInv'
    <3>1. FlagsOf(answer.partial, answer.degraded, answer.read)'
      BY <2>1 DEF PassInv, FlagsInv, FlagsOf
    <3>2. FlagsOf(found.partial, found.degraded, read)'
      BY <2>3 DEF FlagsOf
    <3> QED BY <3>1, <3>2 DEF FlagsInv
  <2> QED BY <2>4, <2>5 DEF PassInv
<1> QED BY <1>1, <1>2

LEMMA DegradedOfBoth ==
    ASSUME NEW A, NEW B
    PROVE  UNION {r.degraded : r \in A \cup B} = (UNION {r.degraded : r \in A}) \cup (UNION {r.degraded : r \in B})
<1> DEFINE a == UNION {r.degraded : r \in A}
           b == UNION {r.degraded : r \in B}
           c == UNION {r.degraded : r \in A \cup B}
<1>1. ASSUME NEW x \in c PROVE x \in a \cup b
  <2>1. PICK r \in A \cup B : x \in r.degraded
    OBVIOUS
  <2>2. CASE r \in A
    <3>1. x \in a
      BY <2>1, <2>2
    <3> HIDE DEF a, b
    <3> QED BY <3>1
  <2>3. CASE r \in B
    <3>1. x \in b
      BY <2>1, <2>3
    <3> HIDE DEF a, b
    <3> QED BY <3>1
  <2> QED BY <2>2, <2>3
<1>2. ASSUME NEW x \in a PROVE x \in c
  <2>1. PICK r \in A : x \in r.degraded
    OBVIOUS
  <2>2. r \in A \cup B
    OBVIOUS
  <2> QED BY <2>1, <2>2
<1>3. ASSUME NEW x \in b PROVE x \in c
  <2>1. PICK r \in B : x \in r.degraded
    OBVIOUS
  <2>2. r \in A \cup B
    OBVIOUS
  <2> QED BY <2>1, <2>2
<1> HIDE DEF a, b, c
<1>4. c = a \cup b
  BY <1>1, <1>2, <1>3
<1> QED BY <1>4 DEF a, b, c

LEMMA FactSearchPass == ASSUME StageInv, PassInv, FactSearch PROVE PassInv'
<1>1. pc = "factSearch" /\ pc' = "context" /\ UNCHANGED <<prompt, answer>>
  BY DEF FactSearch
<1>2. PICK rs \in [1..queries -> Gate] :
         found' = Merged(<<found>> \o rs, Cap) /\ read' = read \cup ToSet(rs)
  BY DEF FactSearch
<1> DEFINE all == <<found>> \o rs
<1>3. ToSet(all) = {found} \cup ToSet(rs)
  <2>1. rs \in Seq(Gate) /\ queries \in Nat /\ Len(rs) = queries
    BY DEF StageInv
  <2>2. /\ Len(all) = 1 + Len(rs) /\ DOMAIN all = 1..1 + Len(rs) /\ all[1] = found
        /\ \A i \in 1..Len(rs) : all[i + 1] = rs[i]
    <3>1. <<found>> \in Seq({found} \cup Gate) /\ rs \in Seq({found} \cup Gate)
      BY <2>1
    <3> QED BY <2>1, <3>1, ConcatProperties
  <2> HIDE DEF all
  <2>3. \A i \in 1..1 + Len(rs) : i = 1 \/ (i - 1 \in 1..Len(rs) /\ all[i] = rs[i - 1])
    BY <2>1, <2>2
  <2>4. ASSUME NEW r \in ToSet(all) PROVE r = found \/ r \in ToSet(rs)
    <3>1. PICK i \in 1..1 + Len(rs) : all[i] = r
      BY <2>2 DEF ToSet
    <3>2. CASE i = 1
      BY <2>2, <3>1, <3>2
    <3>3. CASE i # 1
      BY <2>1, <2>3, <3>1, <3>3 DEF ToSet
    <3> QED BY <3>2, <3>3
  <2>5. found \in ToSet(all)
    BY <2>1, <2>2 DEF ToSet
  <2>6. ASSUME NEW r \in ToSet(rs) PROVE r \in ToSet(all)
    <3>1. PICK i \in 1..Len(rs) : rs[i] = r
      BY <2>1 DEF ToSet
    <3>2. i + 1 \in DOMAIN all /\ all[i + 1] = r
      BY <2>1, <2>2, <3>1
    <3> QED BY <3>2 DEF ToSet
  <2> QED BY <2>4, <2>5, <2>6
<1>4. /\ DOMAIN found' = Fields /\ \A i \in DOMAIN found'.context : found'.context[i] = found'.hits[i].id
      /\ FlagsOf(found'.partial, found'.degraded, ToSet(all))
  BY <1>2, MergedFacts
<1>5. FlagsOf(found'.partial, found'.degraded, read')
  <2>1. FlagsOf(found.partial, found.degraded, read)
    BY <1>1 DEF PassInv, FlagsInv, Early
  <2>2. /\ found'.partial <=> found.partial \/ \E r \in ToSet(rs) : r.partial
        /\ found'.degraded = found.degraded \cup (UNION {r.degraded : r \in ToSet(rs)})
    <3>1. found'.partial <=> \E r \in {found} \cup ToSet(rs) : r.partial
      BY <1>3, <1>4 DEF FlagsOf
    <3>2. found'.degraded = UNION {r.degraded : r \in {found} \cup ToSet(rs)}
      BY <1>3, <1>4 DEF FlagsOf
    <3>3. UNION {r.degraded : r \in {found} \cup ToSet(rs)}
            = found.degraded \cup (UNION {r.degraded : r \in ToSet(rs)})
      OBVIOUS
    <3>4. (\E r \in {found} \cup ToSet(rs) : r.partial) <=> found.partial \/ \E r \in ToSet(rs) : r.partial
      BY Zenon
    <3> QED BY <3>1, <3>2, <3>3, <3>4
  <2>3. /\ found'.partial <=> \E r \in read \cup ToSet(rs) : r.partial
        /\ found'.degraded = UNION {r.degraded : r \in read \cup ToSet(rs)}
    <3>1. found.partial <=> \E r \in read : r.partial
      BY <2>1 DEF FlagsOf
    <3>2. found.degraded = UNION {r.degraded : r \in read}
      BY <2>1 DEF FlagsOf
    <3>3. UNION {r.degraded : r \in read \cup ToSet(rs)}
            = (UNION {r.degraded : r \in read}) \cup (UNION {r.degraded : r \in ToSet(rs)})
      BY DegradedOfBoth
    <3>4. (\E r \in read \cup ToSet(rs) : r.partial)
            <=> (\E r \in read : r.partial) \/ \E r \in ToSet(rs) : r.partial
      BY Zenon
    <3> QED BY <2>2, <3>1, <3>2, <3>3, <3>4
  <2> QED BY <1>2, <2>3 DEF FlagsOf
<1>6. FoundInv' /\ AnswerInv'
  BY <1>1, <1>4 DEF PassInv, FoundInv, AnswerInv, Fields
<1>7. FlagsInv'
  <2>1. FlagsOf(answer.partial, answer.degraded, answer.read)'
    BY <1>1 DEF PassInv, FlagsInv, FlagsOf
  <2>2. FlagsOf(found.partial, found.degraded, read)'
    BY <1>5 DEF FlagsOf
  <2> QED BY <2>1, <2>2 DEF FlagsInv
<1> QED BY <1>6, <1>7 DEF PassInv

(* The prompt is made of the hits that the context are the first of.       *)
LEMMA ContextPass == ASSUME PassInv, Context PROVE PassInv'
<1>1. /\ pc = "context" /\ UNCHANGED <<answer, read>> /\ prompt' = BuildContext(found.hits)
      /\ found' = [found EXCEPT !.context = IF @ = <<>> THEN ContextFromHits(found.hits) ELSE @]
  BY DEF Context
<1>2. /\ DOMAIN found' = DOMAIN found /\ DOMAIN found = Fields
      /\ found'.hits = found.hits /\ found'.partial = found.partial /\ found'.degraded = found.degraded
      /\ found'.context = found.context \/ found'.context = Ids(found.hits)
  BY <1>1 DEF PassInv, FoundInv, ContextFromHits, Fields
<1>3. \A i \in DOMAIN found'.context : found'.context[i] = found'.hits[i].id
  BY <1>2 DEF PassInv, FoundInv, Ids
<1>4. \A n \in DOMAIN prompt' : prompt'[n] = DocOf[found'.hits[n].id]
  BY <1>1, <1>2 DEF BuildContext
<1>5. FoundInv' /\ AnswerInv'
  BY <1>1, <1>2, <1>3, <1>4 DEF PassInv, FoundInv, AnswerInv, Fields
<1>6. FlagsInv'
  <2>1. FlagsOf(found.partial, found.degraded, read)
    BY <1>1 DEF PassInv, FlagsInv, Early
  <2>2. FlagsOf(found.partial, found.degraded, read)'
    BY <1>1, <1>2, <2>1 DEF FlagsOf
  <2>3. FlagsOf(answer.partial, answer.degraded, answer.read)'
    BY <1>1 DEF PassInv, FlagsInv, FlagsOf
  <2> QED BY <2>2, <2>3 DEF FlagsInv
<1> QED BY <1>5, <1>6 DEF PassInv

(* What is written goes with the prompt, the context and the flags of the  *)
(* pass, all at once.                                                      *)
LEMMA AnswerPass == ASSUME PassInv, Answer PROVE PassInv'
<1>1. pc = "answer"
  BY DEF Answer
<1>2. CASE Raised \/ AnotherRound
  BY <1>1, <1>2, KeepsPass DEF Raised, AnotherRound, data, Early
<1>3. CASE answer' = Written /\ round' = 0 /\ pc' = (IF pass = "first" THEN "assess" ELSE "finish")
           /\ UNCHANGED <<queries, out, pass, found, read, prompt>>
  <2>1. /\ answer'.prompt = prompt /\ answer'.sources = SourcesFromContext(found.context)
        /\ answer'.partial = found.partial /\ answer'.degraded = found.degraded /\ answer'.read = read
    BY <1>3 DEF Written
  <2>2. AnswerInv'
    <3> SUFFICES ASSUME NEW n \in DOMAIN answer'.prompt, NEW s \in answer'.sources, s.ref = n
                 PROVE  s.doc = answer'.prompt[n]
      BY DEF AnswerInv
    <3>1. PICK i \in DOMAIN found.context : s = [ref |-> i, doc |-> DocOf[found.context[i]]]
      BY <2>1 DEF SourcesFromContext
    <3>2. i = n /\ s.doc = DocOf[found.hits[n].id]
      BY <3>1 DEF PassInv, FoundInv
    <3> QED BY <1>1, <2>1, <3>2 DEF PassInv, FoundInv
  <2>3. FoundInv'
    BY <1>3 DEF PassInv, FoundInv
  <2>4. FlagsInv'
    <3>1. FlagsOf(found.partial, found.degraded, read)
      BY <1>1 DEF PassInv, FlagsInv, Early
    <3>2. FlagsOf(found.partial, found.degraded, read)'
      BY <1>3, <3>1 DEF FlagsOf
    <3>3. FlagsOf(answer.partial, answer.degraded, answer.read)'
      BY <2>1, <3>1 DEF FlagsOf
    <3> QED BY <3>2, <3>3 DEF FlagsInv
  <2> QED BY <2>2, <2>3, <2>4 DEF PassInv
<1> QED BY <1>2, <1>3 DEF Answer

LEMMA PassStep == ASSUME StageInv, PassInv, Next PROVE PassInv'
<1> USE DEF To, Raised, data, Early
<1>1. CASE Plan \/ Language \/ Hyde
  BY <1>1, KeepsPass DEF Plan, Language, Hyde
<1>2. CASE Search \/ FactSearch \/ Context \/ Answer
  BY <1>2, SearchPass, FactSearchPass, ContextPass, AnswerPass
<1>3. CASE Facts \/ Assess \/ Incomplete
  BY <1>3, KeepsPass DEF Facts, Assess, Incomplete
<1>4. CASE RetryHyde \/ Keywords \/ Finish
  BY <1>4, KeepsPass DEF RetryHyde, Keywords, Finish
<1>5. CASE TimeOut \/ Leave
  BY <1>5, KeepsPass DEF TimeOut, Leave
<1> QED BY <1>1, <1>2, <1>3, <1>4, <1>5 DEF Next

-----------------------------------------------------------------------------
(* What a merge makes of replies.                                          *)

Hit == [id : Chunks, score : Int]
HitsIn(T) == {h \in Hit : h.id \in T}

(* However often the replies have a chunk, the merge names it once.        *)
LEMMA MergeHolds ==
    ASSUME NEW T, NEW n \in Nat \ {0}, NEW rs, DOMAIN rs = 1..n,
           \A i \in 1..n : rs[i].hits \in Seq(HitsIn(T)), NEW cap \in Nat
    PROVE  MergeHits(rs, cap) \in Seq(HitsIn(T)) /\ IsInjective(Ids(MergeHits(rs, cap)))
<1> DEFINE seqs   == [i \in DOMAIN rs |-> rs[i].hits]
           all    == FlattenSeq(seqs)
           Of(c)  == {i \in DOMAIN all : all[i].id = c}
           firsts == Distinct(Ids(all))
           best   == [i \in DOMAIN firsts |->
                        [id |-> firsts[i], score |-> Max({all[j].score : j \in Of(firsts[i])})]]
           merged == UpTo(ByScore(best), cap)
<1>1. MergeHits(rs, cap) = merged
  BY DEF MergeHits, ByScore
<1>2. all \in Seq(HitsIn(T))
  <2>1. seqs \in [1..n -> Seq(HitsIn(T))]
    OBVIOUS
  <2> HIDE DEF seqs
  <2> QED BY <2>1, FlattenedHolds
<1> HIDE DEF all
<1>3. /\ Len(all) \in Nat /\ DOMAIN all = 1..Len(all)
      /\ \A j \in 1..Len(all) : all[j] \in Hit /\ all[j].id \in T /\ all[j].id \in Chunks /\ all[j].score \in Int
  BY <1>2 DEF HitsIn, Hit
<1>4. firsts \in Seq(ToSet(Ids(all))) /\ IsInjective(firsts)
  <2>1. Ids(all) \in Seq(ToSet(Ids(all)))
    <3>1. DOMAIN Ids(all) = 1..Len(all) /\ Ids(all) = [i \in 1..Len(all) |-> all[i].id]
      BY <1>3 DEF Ids
    <3>2. \A i \in 1..Len(all) : Ids(all)[i] \in ToSet(Ids(all))
      BY <3>1 DEF ToSet
    <3> QED BY <1>3, <3>1, <3>2
  <2> QED BY <2>1, DistinctHolds
<1> HIDE DEF firsts
<1> DEFINE k == Len(firsts)
<1>5. k \in Nat /\ DOMAIN firsts = 1..k /\ \A i \in 1..k : firsts[i] \in ToSet(Ids(all))
  BY <1>4
<1>6. ASSUME NEW i \in 1..k
      PROVE  /\ Max({all[j].score : j \in Of(firsts[i])}) \in Int
             /\ firsts[i] \in Chunks /\ firsts[i] \in T
  <2>1. PICK j \in 1..Len(all) : all[j].id = firsts[i]
    BY <1>3, <1>5 DEF ToSet, Ids
  <2> DEFINE J == Of(firsts[i])
             f == [m \in 1..Len(all) |-> all[m].score]
  <2>2. J \in SUBSET (1..Len(all)) /\ J # {}
    BY <1>3, <2>1
  <2>3. \A m \in J : f[m] = all[m].score /\ f[m] \in Int
    BY <1>3, <2>2
  <2>4. {all[m].score : m \in J} = {f[m] : m \in J}
    BY <2>3
  <2> HIDE DEF J, f
  <2>5. Max({f[m] : m \in J}) \in {f[m] : m \in J}
    BY <1>3, <2>2, <2>3, MaxOfInts
  <2>6. Max({f[m] : m \in J}) \in Int
    BY <2>3, <2>5
  <2>7. Max({all[m].score : m \in J}) \in Int
    BY <2>4, <2>6
  <2> QED BY <1>3, <2>1, <2>7 DEF J
<1>7. DOMAIN best = 1..k /\ \A i \in 1..k : best[i] \in HitsIn(T) /\ best[i].id = firsts[i] /\ best[i].score \in Int
  BY <1>5, <1>6 DEF HitsIn, Hit
<1> HIDE DEF best
<1>8. best \in Seq(HitsIn(T)) /\ Len(best) = k /\ \A i, j \in 1..k : best[i].id = best[j].id => i = j
  <2>1. best = [i \in 1..k |-> best[i]]
    BY <1>7 DEF best
  <2>2. \A i, j \in 1..k : best[i].id = best[j].id => i = j
    BY <1>4, <1>5, <1>7 DEF IsInjective
  <2> QED BY <1>5, <1>7, <2>1, <2>2
<1> DEFINE ranked == ByScore(best)
<1>9. ranked \in Seq(HitsIn(T)) /\ Len(ranked) = k /\ ToSet(ranked) = ToSet(best) /\ IsInjective(ranked)
  <2>1. IsInjective(best)
    BY <1>7, <1>8 DEF IsInjective
  <2>2. \A h \in HitsIn(T) : h.score \in Int
    BY DEF HitsIn, Hit
  <2> QED BY <1>8, <2>1, <2>2, RankedByScore
<1>10. \A i, j \in 1..k : ranked[i].id = ranked[j].id => i = j
  <2> HIDE DEF ranked
  <2> SUFFICES ASSUME NEW i \in 1..k, NEW j \in 1..k, ranked[i].id = ranked[j].id PROVE i = j
    OBVIOUS
  <2>1. DOMAIN ranked = 1..k /\ DOMAIN best = 1..k
    BY <1>5, <1>7, <1>9
  <2>2. PICK a \in 1..k : ranked[i] = best[a]
    BY <1>9, <2>1 DEF ToSet
  <2>3. PICK b \in 1..k : ranked[j] = best[b]
    BY <1>9, <2>1 DEF ToSet
  <2>4. ranked[i] = ranked[j]
    BY <1>8, <2>2, <2>3
  <2> QED BY <1>9, <2>1, <2>4 DEF IsInjective
<1>11. merged \in Seq(HitsIn(T)) /\ FirstOf(merged, ranked)
  <2> HIDE DEF ranked
  <2>1. UpTo(ranked, cap) \in Seq(HitsIn(T)) /\ FirstOf(UpTo(ranked, cap), ranked)
    BY <1>9, CutHolds
  <2> QED BY <2>1 DEF ranked
<1> HIDE DEF ranked, k, merged
<1>12. PICK m \in 0..Len(ranked) : merged = [i \in 1..m |-> ranked[i]]
  BY <1>11 DEF FirstOf
<1>13. IsInjective(Ids(merged))
  BY <1>5, <1>9, <1>10, <1>12 DEF IsInjective, Ids
<1> QED BY <1>1, <1>11, <1>13

LEMMA IdsHold ==
    ASSUME NEW T, NEW hits \in Seq(HitsIn(T))
    PROVE  Ids(hits) \in Seq(Chunks) /\ ToSet(Ids(hits)) \subseteq T
<1>1. Ids(hits) = [i \in 1..Len(hits) |-> hits[i].id]
  BY DEF Ids
<1>2. \A i \in 1..Len(hits) : hits[i].id \in Chunks /\ hits[i].id \in T
  BY DEF HitsIn, Hit
<1> QED BY <1>1, <1>2 DEF ToSet

LEMMA HitsHold ==
    ASSUME NEW r \in Reply, NEW T, ToSet(Ids(r.hits)) \subseteq T
    PROVE  r.hits \in Seq(HitsIn(T))
<1>1. r.hits \in Seq(Hit)
  BY DEF Reply, Hit
<1>2. \A i \in 1..Len(r.hits) : r.hits[i] \in HitsIn(T)
  <2> TAKE i \in 1..Len(r.hits)
  <2>1. r.hits[i] \in Hit /\ i \in DOMAIN r.hits
    BY <1>1
  <2>2. r.hits[i].id \in ToSet(Ids(r.hits))
    BY <2>1 DEF Ids, ToSet
  <2> QED BY <2>1, <2>2 DEF HitsIn
<1> QED BY <1>1, <1>2

(* A merged reply names only what the replies name.                        *)
LEMMA MergedHolds ==
    ASSUME NEW T, NEW n \in Nat \ {0}, NEW rs, DOMAIN rs = 1..n,
           \A i \in 1..n : rs[i] \in Reply /\ Names(rs[i]) \subseteq T, NEW cap \in Nat
    PROVE  Fine(Merged(rs, cap)) /\ Names(Merged(rs, cap)) \subseteq T
<1> DEFINE hits == MergeHits(rs, cap)
           p    == \E i \in DOMAIN rs : rs[i].partial
           d    == UNION {rs[i].degraded : i \in DOMAIN rs}
           k    == \A i \in DOMAIN rs : rs[i].ok
           m    == Merged(rs, cap)
<1>1. m = [ok |-> k, hits |-> hits, context |-> Ids(hits), partial |-> p, degraded |-> d]
  BY DEF Merged, ContextFromHits
<1>2. \A i \in 1..n : rs[i].hits \in Seq(HitsIn(T))
  BY HitsHold DEF Names
<1>3. hits \in Seq(HitsIn(T)) /\ IsInjective(Ids(hits))
  BY <1>2, MergeHolds
<1>4. p \in BOOLEAN /\ k \in BOOLEAN
  OBVIOUS
<1>5. d \in SUBSET Reasons
  <2>1. \A i \in 1..n : rs[i].degraded \in SUBSET Reasons
    BY DEF Reply
  <2> QED BY <2>1
<1> HIDE DEF hits, p, d, k, m
<1>6. Ids(hits) \in Seq(Chunks) /\ ToSet(Ids(hits)) \subseteq T
  BY <1>3, IdsHold
<1>7. hits \in Seq(Hit)
  <2>1. HitsIn(T) \subseteq Hit
    BY DEF HitsIn
  <2> QED BY <1>3, <2>1
<1>8. m \in Reply
  BY <1>1, <1>4, <1>5, <1>6, <1>7 DEF Reply, Hit
<1> QED BY <1>1, <1>3, <1>6, <1>8 DEF Fine, Names, m

-----------------------------------------------------------------------------
(* What a pass has found and what an answer names.                         *)

LEMMA GateHolds == ASSUME NEW r \in Gate PROVE Fine(r)
<1>1. CASE r \in Replies
  BY <1>1, AgentAssumption DEF Fine, Ids
<1>2. CASE r \in {GateError, NoRetrieval}
  <2>1. r \in Reply
    <3>1. <<>> \in Seq([id : Chunks, score : Int]) /\ <<>> \in Seq(Chunks)
      OBVIOUS
    <3>2. {"gate_error"} \in SUBSET Reasons
      BY AgentAssumption
    <3>3. GateError \in Reply
      BY <3>1, <3>2 DEF GateError, Reply
    <3>4. NoRetrieval \in Reply
      BY <3>1 DEF NoRetrieval, Reply
    <3> QED BY <1>2, <3>3, <3>4
  <2>2. IsInjective(Ids(r.hits))
    BY <1>2 DEF GateError, NoRetrieval, Ids, IsInjective
  <2> QED BY <1>2, <2>1, <2>2 DEF Fine
<1> QED BY <1>1, <1>2 DEF Gate

LEMMA MostIsLarge ==
    MostQueries \in Nat /\ 7 <= MostQueries /\ FactMax <= MostQueries /\ RetryQueries <= MostQueries
BY AgentAssumption DEF MostQueries, Larger

(* However many queries a stage asks for, they are not too many.           *)
LEMMA SomeQueries ==
    ASSUME NEW n \in 0..MostQueries, NEW m,
           m = n \/ m = 0 \/ m \in 1..7 \/ m \in 1..FactMax \/ m \in 1..RetryQueries
    PROVE  m \in 0..MostQueries
<1>1. FactMax \in Nat /\ RetryQueries \in Nat
  BY AgentAssumption
<1> QED BY <1>1, MostIsLarge

LEMMA KeepsLists ==
    ASSUME ListInv, UNCHANGED <<found, read, prompt, answer>>, queries' \in 0..MostQueries
    PROVE  ListInv'
<1>1. found' = found /\ read' = read /\ prompt' = prompt /\ answer' = answer
  OBVIOUS
<1>2. /\ Fine(found)' = Fine(found') /\ Names(found)' = Names(found') /\ Told(read)' = Told(read')
      /\ ToSet(answer.context)' = ToSet(answer'.context) /\ Told(answer.read)' = Told(answer'.read)
      /\ MostQueries' = MostQueries /\ SourcesType' = SourcesType
  BY DEF Fine, Names, Told, Ids, ToSet, MostQueries, SourcesType
<1> QED BY <1>1, <1>2 DEF ListInv

LEMMA SearchLists == ASSUME StageInv, ListInv, Search PROVE ListInv'
<1>1. CASE queries = 0 /\ Raised
  <2>1. UNCHANGED <<found, read, prompt, answer, queries>>
    BY <1>1 DEF Raised, data
  <2> QED BY <2>1, KeepsLists DEF ListInv
<1>2. CASE ~(queries = 0 /\ Raised)
  <2>1. /\ UNCHANGED <<prompt, answer, queries>>
        /\ \E rs \in [1..Larger(1, queries) -> Gate] : Reads(rs)
    BY <1>2 DEF Search
  <2>2. PICK rs \in [1..Larger(1, queries) -> Gate] : Reads(rs)
    BY <2>1
  <2> DEFINE n == Larger(1, queries)
  <2>3. n \in Nat \ {0} /\ DOMAIN rs = 1..n /\ \A i \in 1..n : rs[i] \in Gate
    BY DEF Larger, StageInv
  <2> HIDE DEF n
  <2>4. Fine(found') /\ read' \subseteq Gate /\ Names(found') \subseteq Told(read')
    <3>1. CASE pass = "retry" \/ queries = 0
      <4>1. rs[1] \in Gate /\ found' = rs[1] /\ read' = {rs[1]}
        BY <2>2, <2>3, <3>1 DEF Reads
      <4>2. Fine(rs[1]) /\ Told({rs[1]}) = Names(rs[1])
        BY <4>1, GateHolds DEF Told
      <4> QED BY <4>1, <4>2
    <3>2. CASE ~(pass = "retry" \/ queries = 0)
      <4>1. found' = Merged(rs, MergeCap) /\ read' = ToSet(rs)
        BY <2>2, <3>2 DEF Reads
      <4>2. \A i \in 1..n : rs[i] \in Reply /\ Names(rs[i]) \subseteq Told(ToSet(rs))
        BY <2>3, GateHolds DEF Fine, Told, ToSet
      <4>3. MergeCap \in Nat
        BY AgentAssumption
      <4>4. Fine(Merged(rs, MergeCap)) /\ Names(Merged(rs, MergeCap)) \subseteq Told(ToSet(rs))
        BY <2>3, <4>2, <4>3, MergedHolds
      <4>5. ToSet(rs) \subseteq Gate
        BY <2>3 DEF ToSet
      <4> QED BY <4>1, <4>4, <4>5
    <3> QED BY <3>1, <3>2
  <2>5. Fine(found)' /\ Names(found)' = Names(found') /\ Told(read)' = Told(read')
    BY <2>4 DEF Fine, Names, Told
  <2> QED BY <2>1, <2>4, <2>5 DEF ListInv, MostQueries, SourcesType, Told, Names
<1> QED BY <1>1, <1>2

LEMMA FactSearchLists == ASSUME StageInv, ListInv, FactSearch PROVE ListInv'
<1>1. UNCHANGED <<prompt, answer, queries>>
  BY DEF FactSearch
<1>2. PICK rs \in [1..queries -> Gate] :
         found' = Merged(<<found>> \o rs, Cap) /\ read' = read \cup ToSet(rs)
  BY DEF FactSearch
<1> DEFINE all == <<found>> \o rs
           T   == Told(read \cup ToSet(rs))
<1>3. queries \in Nat /\ rs \in Seq(Gate) /\ Len(rs) = queries /\ \A i \in 1..queries : rs[i] \in Gate
  BY DEF StageInv
<1>4. DOMAIN all = 1..queries + 1 /\ all[1] = found /\ \A i \in 1..queries : all[i + 1] = rs[i]
  <2>1. <<found>> \in Seq({found} \cup Gate) /\ rs \in Seq({found} \cup Gate)
    BY <1>3
  <2> QED BY <1>3, <2>1, ConcatProperties
<1> HIDE DEF all
<1>5. found \in Reply /\ Names(found) \subseteq T
  BY DEF ListInv, Fine, Told
<1>6. \A i \in 1..queries : rs[i] \in Reply /\ Names(rs[i]) \subseteq T
  BY <1>3, GateHolds DEF Fine, Told, ToSet
<1> HIDE DEF T
<1>7. \A i \in 1..queries + 1 : all[i] \in Reply /\ Names(all[i]) \subseteq T
  <2> TAKE i \in 1..queries + 1
  <2>1. CASE i = 1
    BY <1>4, <1>5, <2>1
  <2>2. CASE i # 1
    <3>1. i - 1 \in 1..queries /\ (i - 1) + 1 = i
      BY <1>3, <2>2
    <3>2. all[i] = rs[i - 1]
      BY <1>4, <3>1
    <3> QED BY <1>6, <3>1, <3>2
  <2> QED BY <2>1, <2>2
<1>8. Cap \in Nat /\ queries + 1 \in Nat \ {0}
  BY <1>3, AgentAssumption DEF Cap
<1>9. Fine(Merged(all, Cap)) /\ Names(Merged(all, Cap)) \subseteq T
  BY <1>4, <1>7, <1>8, MergedHolds
<1>10. ToSet(rs) \subseteq Gate
  BY <1>3 DEF ToSet
<1>11. Fine(found') /\ read' \subseteq Gate /\ Names(found') \subseteq Told(read')
  BY <1>2, <1>9, <1>10 DEF ListInv, all, T
<1>12. Fine(found)' /\ Names(found)' = Names(found') /\ Told(read)' = Told(read')
  BY <1>11 DEF Fine, Names, Told
<1> QED BY <1>1, <1>11, <1>12 DEF ListInv, MostQueries, SourcesType, Told, Names

LEMMA ContextLists == ASSUME StageInv, ListInv, Context PROVE ListInv'
<1>1. /\ UNCHANGED <<answer, read, queries>> /\ prompt' = BuildContext(found.hits)
      /\ found' = [found EXCEPT !.context = IF @ = <<>> THEN ContextFromHits(found.hits) ELSE @]
  BY DEF Context
<1>2. found \in Reply /\ IsInjective(Ids(found.hits)) /\ Names(found) \subseteq Told(read)
  BY DEF ListInv, Fine
<1>3. /\ Ids(found.hits) \in Seq(Chunks)
      /\ found.hits \in Seq([id : Chunks, score : Int]) /\ Len(found.hits) \in Nat
  <2>1. found.hits \in Seq(HitsIn(Chunks))
    <3>1. \A i \in DOMAIN found.hits : found.hits[i].id \in Chunks
      <4>1. found.hits \in Seq(Hit)
        BY <1>2 DEF Reply, Hit
      <4>2. \A i \in DOMAIN found.hits : found.hits[i] \in Hit
        BY <4>1
      <4> QED BY <4>2 DEF Hit
    <3>2. ToSet(Ids(found.hits)) \subseteq Chunks
      BY <3>1 DEF ToSet, Ids
    <3> QED BY <1>2, <3>2, HitsHold
  <2> QED BY <1>2, <2>1, IdsHold DEF Reply
<1>4. /\ found' \in Reply /\ found'.hits = found.hits
      /\ found'.context = found.context \/ found'.context = Ids(found.hits)
  BY <1>1, <1>2, <1>3 DEF Reply, ContextFromHits
<1>5. Names(found') \subseteq Names(found)
  BY <1>4 DEF Names
<1>6. Fine(found') /\ Names(found') \subseteq Told(read')
  <2>1. Told(read') = Told(read)
    BY <1>1
  <2> QED BY <1>2, <1>4, <1>5, <2>1 DEF Fine
<1>7. Len(prompt') \in Nat /\ Len(prompt') <= BlockLimit
  <2> DEFINE k == Smaller(BlockLimit, Len(found.hits))
  <2>1. k \in Nat /\ k <= BlockLimit
    <3>1. BlockLimit \in Nat
      BY AgentAssumption
    <3> QED BY <1>3, <3>1 DEF Smaller
  <2>2. prompt' = [i \in 1..k |-> DocOf[found.hits[i].id]]
    BY <1>1 DEF BuildContext
  <2> HIDE DEF k
  <2>3. Len(prompt') = k
    BY <2>1, <2>2
  <2> QED BY <2>1, <2>3
<1>8. Fine(found)' /\ Names(found)' = Names(found') /\ Told(read)' = Told(read')
  BY <1>6 DEF Fine, Names, Told
<1> QED BY <1>1, <1>6, <1>7, <1>8 DEF ListInv, MostQueries, SourcesType, Told, Names

LEMMA AnswerLists == ASSUME StageInv, ListInv, Answer PROVE ListInv'
<1>1. CASE Raised \/ AnotherRound
  <2>1. UNCHANGED <<found, read, prompt, answer, queries>>
    BY <1>1 DEF Raised, AnotherRound, data
  <2> QED BY <2>1, KeepsLists DEF ListInv
<1>2. CASE answer' = Written /\ UNCHANGED <<queries, found, read, prompt>>
  <2>1. answer'.sources = SourcesFromContext(found.context) /\ answer'.context = found.context /\ answer'.read = read
    BY <1>2 DEF Written
  <2>2. found.context \in Seq(Chunks) /\ ToSet(found.context) \subseteq Told(read)
    BY DEF ListInv, Fine, Reply, Names
  <2>3. SourcesFromContext(found.context) \subseteq SourcesType
    <3> SUFFICES ASSUME NEW i \in DOMAIN found.context
                 PROVE  [ref |-> i, doc |-> DocOf[found.context[i]]] \in SourcesType
      BY DEF SourcesFromContext
    <3>1. i \in Nat \ {0} /\ found.context[i] \in Chunks
      BY <2>2
    <3> QED BY <3>1 DEF SourcesType
  <2>4. Fine(found') /\ Names(found') = Names(found) /\ Told(read') = Told(read) /\ read' = read
    BY <1>2 DEF ListInv
  <2>5. Fine(found)' /\ Names(found)' = Names(found') /\ Told(read)' = Told(read')
    BY <2>4 DEF Fine, Names, Told
  <2>6. ToSet(answer'.context) \subseteq Told(answer'.read)
    BY <2>1, <2>2
  <2>7. ToSet(answer.context)' = ToSet(answer'.context) /\ Told(answer.read)' = Told(answer'.read)
    BY DEF ToSet, Told, Names
  <2> QED BY <1>2, <2>1, <2>3, <2>4, <2>5, <2>6, <2>7 DEF ListInv, MostQueries, SourcesType
<1> QED BY <1>1, <1>2 DEF Answer

LEMMA ListStep == ASSUME StageInv, ListInv, Next PROVE ListInv'
<1>1. CASE Search \/ FactSearch \/ Context \/ Answer
  BY <1>1, SearchLists, FactSearchLists, ContextLists, AnswerLists
<1>2. CASE ~(Search \/ FactSearch \/ Context \/ Answer)
  <2>1. UNCHANGED <<found, read, prompt, answer>>
    <3>1. CASE Plan \/ Language \/ Hyde
      BY <3>1 DEF Plan, Language, Hyde, To, Raised, data
    <3>2. CASE Facts \/ Assess \/ Incomplete
      BY <3>2 DEF Facts, Assess, Incomplete, To, Raised, data
    <3>3. CASE RetryHyde \/ Keywords \/ Finish
      BY <3>3 DEF RetryHyde, Keywords, Finish, To, Raised, data
    <3>4. CASE TimeOut \/ Leave
      BY <3>4 DEF TimeOut, Leave, Raised, data
    <3> QED BY <1>2, <3>1, <3>2, <3>3, <3>4 DEF Next
  <2>2. queries' = queries \/ queries' = 0 \/ queries' \in 1..7 \/ queries' \in 1..FactMax \/ queries' \in 1..RetryQueries
    <3>1. CASE Plan \/ Language \/ Hyde
      <4>1. opt.hydeNum \in 1..7
        BY DEF StageInv, OptionType
      <4>2. \A n \in 1..opt.hydeNum : n \in 1..7
        BY <4>1
      <4> QED BY <3>1, <4>2 DEF Plan, Language, Hyde, To, Raised
    <3>2. CASE Facts \/ Assess \/ Incomplete
      BY <3>2 DEF Facts, Assess, Incomplete, To, Raised
    <3>3. CASE RetryHyde \/ Keywords \/ Finish
      BY <3>3 DEF RetryHyde, Keywords, Finish, To, Raised
    <3>4. CASE TimeOut \/ Leave
      BY <3>4 DEF TimeOut, Leave, Raised
    <3> QED BY <1>2, <3>1, <3>2, <3>3, <3>4 DEF Next
  <2>3. queries' \in 0..MostQueries
    <3>1. queries \in 0..MostQueries
      BY DEF ListInv
    <3> QED BY <2>2, <3>1, SomeQueries
  <2> QED BY <2>1, <2>3, KeepsLists
<1> QED BY <1>1, <1>2

(* The plan is the first stage, and what is written has its mode.          *)
LEMMA ModeStep == ASSUME StageInv, EndInv, ModeInv, Next PROVE ModeInv'
<1> USE DEF To, Raised, data, Written1
<1>1. pc # "ended" /\ ~Done
  <2>1. pc # "ended"
    BY DEF Next, Plan, Language, Hyde, Search, Facts, FactSearch, Context, Answer, Assess, Incomplete,
       RetryHyde, Keywords, Finish, TimeOut, Leave, Stages
  <2>2. ~Done
    BY <2>1 DEF EndInv, Done, Last
  <2> QED BY <2>1, <2>2
<1>2. CASE Plan
  <2>1. pc = "plan" /\ pass = "first" /\ UNCHANGED <<pass, answer>> /\ mode' \in Modes
        /\ \/ pc' = "language" /\ UNCHANGED out
           \/ pc' = "ended" /\ out' = Append(out, "error")
    BY <1>2, AgentAssumption DEF Plan, ModeInv, StageInv, Early
  <2>2. ~Done'
    BY <1>1, <2>1 DEF Done, Last, EndInv
  <2> QED BY <2>1, <2>2 DEF ModeInv, Answered
<1>3. CASE Answer
  <2>1. CASE answer' = Written
    BY <1>3, <2>1 DEF Answer, Written, ModeInv
  <2>2. CASE Raised \/ AnotherRound
    <3>1. pc = "answer" /\ UNCHANGED <<pass, answer, mode>>
          /\ \/ pc' = pc /\ UNCHANGED out
             \/ pc' = "ended" /\ out' = Append(out, "error")
      BY <1>3, <2>2 DEF Answer, AnotherRound
    <3>2. ~Done'
      BY <1>1, <3>1 DEF Done, Last, EndInv
    <3> QED BY <3>1, <3>2 DEF ModeInv, Answered
  <2> QED BY <1>3, <2>1, <2>2 DEF Answer
<1>4. CASE ~(Plan \/ Answer)
  <2>1. UNCHANGED <<mode, answer>>
    BY <1>4 DEF Next, Language, Hyde, Search, Facts, FactSearch, Context, Assess, Incomplete,
       RetryHyde, Keywords, Finish, TimeOut, Leave
  <2>2. Answered' => Answered
    <3>1. CASE Language \/ Hyde \/ Search \/ Facts \/ FactSearch \/ RetryHyde \/ Keywords \/ TimeOut \/ Leave
      <4>1. /\ pass' = pass /\ pc' \notin Written1 \cup {"finish"}
            /\ UNCHANGED out \/ out' = Append(out, "error")
        BY <3>1 DEF Language, Hyde, Search, Facts, FactSearch, RetryHyde, Keywords, TimeOut, Leave
      <4>2. ~Done'
        BY <1>1, <4>1 DEF Done, Last, EndInv
      <4> QED BY <4>1, <4>2 DEF Answered
    <3>2. CASE Context
      <4>1. /\ pass' = pass /\ (pc' \in Written1 \cup {"finish"} => pass = "retry")
            /\ out' = out \o <<"retrieval", "error">> \/ out' = out \o <<"retrieval">>
        BY <3>2 DEF Context
      <4>2. ~Done'
        BY <4>1 DEF Done, Last, EndInv
      <4> QED BY <4>1, <4>2 DEF Answered
    <3>3. CASE Assess \/ Incomplete \/ Finish
      BY <3>3 DEF Assess, Incomplete, Finish, Answered
    <3> QED BY <1>4, <3>1, <3>2, <3>3 DEF Next
  <2> QED BY <2>1, <2>2 DEF ModeInv
<1> QED BY <1>2, <1>3, <1>4

-----------------------------------------------------------------------------

LEMMA InitInv == Init => IInv
<1> SUFFICES ASSUME Init PROVE IInv OBVIOUS
<1>1. StageInv
  BY AgentAssumption DEF Init, StageInv, Stages, Early, Written1, Rounds
<1>2. CostInv
  <2>1. CostTypes
    BY <1>1, ExtraTypes
  <2>2. sent = 0 /\ Grants + Extra \in Nat
    BY <2>1 DEF Init, CostTypes
  <2> QED BY <2>2 DEF CostInv
<1>3. EndInv
  BY DEF Init, EndInv
<1>4. PassInv
  BY DEF Init, PassInv, FoundInv, AnswerInv, FlagsInv, FlagsOf, NoAnswer, GateError, Early
<1>5. ListInv
  <2>1. found = GateError /\ read = {} /\ prompt = <<>> /\ answer = NoAnswer /\ queries = 0
    BY DEF Init
  <2>2. Fine(GateError)
    BY GateHolds DEF Gate, GateError
  <2>3. Names(GateError) = {} /\ ToSet(NoAnswer.context) = {} /\ NoAnswer.sources = {} /\ NoAnswer.read = {}
    BY DEF GateError, NoAnswer, Names, Ids, ToSet
  <2>4. Len(<<>>) = 0 /\ BlockLimit \in Nat
    BY AgentAssumption
  <2> QED BY <2>1, <2>2, <2>3, <2>4, MostIsLarge DEF ListInv
<1>6. ModeInv
  BY AgentAssumption DEF Init, ModeInv, Answered, Done, Written1
<1> QED BY <1>1, <1>2, <1>3, <1>4, <1>5, <1>6 DEF IInv, PassInv

LEMMA InvStep == IInv /\ [Next]_vars => IInv'
<1> SUFFICES ASSUME IInv, [Next]_vars PROVE IInv' OBVIOUS
<1>1. CASE UNCHANGED vars
  <2>1. (StageInv <=> StageInv') /\ (EndInv <=> EndInv') /\ (FoundInv <=> FoundInv') /\ (AnswerInv <=> AnswerInv')
    BY <1>1 DEF vars, StageInv, EndInv, FoundInv, AnswerInv, Rounds
  <2>2. CostInv <=> CostInv'
    BY <1>1 DEF vars, CostInv, Grants, Extra, HydeExtra, RetryExtra, AnswerExtra, Rounds
  <2>3. FlagsInv <=> FlagsInv'
    BY <1>1 DEF vars, FlagsInv, FlagsOf
  <2>4. ListInv'
    BY <1>1, KeepsLists DEF vars, IInv, ListInv
  <2>5. ModeInv <=> ModeInv'
    BY <1>1 DEF vars, ModeInv, Answered, Done
  <2> QED BY <2>1, <2>2, <2>3, <2>4, <2>5 DEF IInv
<1>2. CASE Next
  BY <1>2, CostStep, EndStep, PassStep, ListStep, ModeStep DEF IInv, PassInv
<1> QED BY <1>1, <1>2

LEMMA InvAlways == Spec => []IInv
BY InitInv, InvStep, PTL DEF Spec

-----------------------------------------------------------------------------
(* The theorems.                                                           *)

(* However a run goes, the LLM gets no more requests than its budget,      *)
(* HyDE's further passages and the rounds of its answers.                  *)
THEOREM CostIsBounded == Spec => []CallsBounded
<1>1. IInv => CallsBounded
  <2> SUFFICES ASSUME IInv PROVE CallsBounded
    OBVIOUS
  <2>1. CostTypes /\ Rounds \in Nat /\ Rounds >= 1 /\ opt.hydeNum \in 1..7
    BY ExtraTypes, RoundsType DEF IInv, CostTypes
  <2> DEFINE more == IF opt.retry THEN Rounds - 1 ELSE 0
  <2>2. HydeExtra <= opt.hydeNum - 1
    BY <2>1 DEF HydeExtra
  <2>3. RetryExtra <= more /\ more \in Nat
    BY <2>1 DEF RetryExtra, IInv, StageInv
  <2>4. AnswerExtra <= Rounds
    BY <2>1 DEF AnswerExtra, IInv, StageInv
  <2>5. Grants <= opt.budget
    BY <2>1 DEF Grants, CostTypes
  <2> HIDE DEF more
  <2>6. sent <= opt.budget + (opt.hydeNum - 1) + Rounds + more
    <3>1. PICK s \in Nat, g \in Nat, h \in Nat, r \in Nat, a \in Nat :
             s = sent /\ g = Grants /\ h = HydeExtra /\ r = RetryExtra /\ a = AnswerExtra
      BY <2>1 DEF CostTypes
    <3>2. PICK b \in Nat, y \in Nat, n \in Nat, m \in Nat :
             b = opt.budget /\ y = opt.hydeNum /\ n = Rounds /\ m = more
      BY <2>1, <2>3 DEF CostTypes
    <3>3. s <= g + (h + r + a) /\ g <= b /\ h <= y - 1 /\ r <= m /\ a <= n
      BY <2>2, <2>3, <2>4, <2>5, <3>1, <3>2 DEF IInv, CostInv, Extra
    <3>4. s <= b + (y - 1) + n + m
      BY <3>3
    <3> QED BY <3>1, <3>2, <3>4
  <2> QED BY <2>6 DEF CallsBounded, Rounds, more
<1> QED BY <1>1, InvAlways, PTL

(* A run that its client stays for sends one last event, done or error,    *)
(* and nothing after it.                                                   *)
THEOREM RunsEndOnce == Spec => []OneEnding
<1>1. IInv => OneEnding
  BY DEF IInv, EndInv, OneEnding, Last
<1> QED BY <1>1, InvAlways, PTL

(* A block of an answer's prompt and the source with its number name the   *)
(* same document, whichever pass wrote the answer.                         *)
THEOREM CitationsAreRight == Spec => []CitationsAgree
<1>1. IInv => CitationsAgree
  BY DEF IInv, AnswerInv, CitationsAgree
<1> QED BY <1>1, InvAlways, PTL

(* Flags and context of a done event are those of the searches its answer  *)
(* was written from, and of no others: of these a failure goes unsaid only *)
(* if the gate answered that its retrieval failed, and of the first pass a *)
(* retry's answer keeps the mode.                                          *)
THEOREM DonesAreOnePass == Spec => []DoneIsOnePass
<1>1. IInv => DoneIsOnePass
  <2> SUFFICES ASSUME IInv, Done PROVE DoneIsOnePass
    BY DEF DoneIsOnePass
  <2>1. FlagsOf(answer.partial, answer.degraded, answer.read)
    BY DEF IInv, FlagsInv
  <2>2. ToSet(answer.context) \subseteq UNION {ToSet(Ids(r.hits)) \cup ToSet(r.context) : r \in answer.read}
    BY DEF IInv, ListInv, Told, Names
  <2>3. (\E r \in answer.read : ~r.ok) => answer.partial \/ NoRetrieval \in answer.read
    <3> SUFFICES ASSUME NEW r \in answer.read, ~r.ok, r # NoRetrieval PROVE answer.partial
      OBVIOUS
    <3>1. r = GateError
      BY AgentAssumption DEF IInv, ListInv, Gate
    <3>2. r.partial
      BY <3>1 DEF GateError
    <3> QED BY <2>1, <3>2 DEF FlagsOf
  <2>4. answer.mode = SearchedIn(answer) \/ answer.by = "retry"
    BY DEF IInv, ModeInv, Answered, SearchedIn
  <2> QED BY <2>1, <2>2, <2>3, <2>4 DEF FlagsOf, DoneIsOnePass
<1> QED BY <1>1, InvAlways, PTL

(* A pass never names a chunk twice, whatever its searches found and       *)
(* merged; its prompt holds no more blocks than it may.                    *)
THEOREM AgentTypeCorrect == Spec => []TypeOK
<1>1. IInv => TypeOK
  <2> SUFFICES ASSUME IInv PROVE TypeOK
    OBVIOUS
  <2>1. /\ opt \in Options /\ mode \in Modes /\ pc \in Stages \cup {"ended", "left"} /\ pass \in {"first", "retry"}
        /\ asked \in Nat /\ sent \in Nat
    BY DEF IInv, StageInv, ModeInv
  <2>2. queries \in 0..Larger(7, Larger(FactMax, RetryQueries))
    BY DEF IInv, ListInv, MostQueries
  <2>3. round \in 0..ToolRounds
    BY AgentAssumption DEF IInv, StageInv, Rounds
  <2>4. found \in Reply /\ IsInjective([i \in DOMAIN found.hits |-> found.hits[i].id])
    BY DEF IInv, ListInv, Fine, Ids
  <2>5. read \subseteq Gate /\ Len(prompt) <= BlockLimit
    BY DEF IInv, ListInv
  <2>6. answer.sources \subseteq [ref : Nat \ {0}, doc : {DocOf[c] : c \in Chunks}]
    BY DEF IInv, ListInv, SourcesType
  <2>7. \A i \in DOMAIN out : out[i] \in {"retrieval", "done", "error"}
    BY DEF IInv, EndInv
  <2> QED BY <2>1, <2>2, <2>3, <2>4, <2>5, <2>6, <2>7 DEF TypeOK
<1> QED BY <1>1, InvAlways, PTL

=============================================================================
