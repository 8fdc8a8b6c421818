------------------------------ MODULE Ranking ------------------------------
(***************************************************************************)
(* How lists of hits are fused, thinned and cut, in retrieval              *)
(* (service/app/fusion.py, search_logic.py), in the gate (gate/app/main.py)*)
(* and in the agent (agent_common/retrieval.py): no state, operators only. *)
(*                                                                         *)
(* Scores are integers.  Fractions are counted in units: `unit` is a       *)
(* multiple of every denominator that occurs.                              *)
(***************************************************************************)
EXTENDS Integers, SequencesExt

(* The list in stable order: what is better first, ties as they were.      *)
Ranked(list, Better(_, _)) ==
    LET Ahead(i) == {j \in DOMAIN list : \/ Better(list[j], list[i])
                                         \/ (j < i /\ ~Better(list[i], list[j]))}
    IN  [n \in DOMAIN list |-> list[CHOOSE i \in DOMAIN list : Cardinality(Ahead(i)) = n - 1]]

(* The items at some of its places, in the order of the list.              *)
At(list, places) ==
    [n \in 1..Cardinality(places) |-> list[CHOOSE i \in places : Cardinality({j \in places : j <= i}) = n]]

UpTo(list, n) == SubSeq(list, 1, IF n < Len(list) THEN n ELSE Len(list))

(* Each item once, where it comes first.                                   *)
Distinct(list) == FoldLeft(LAMBDA seen, c : IF Contains(seen, c) THEN seen ELSE Append(seen, c), <<>>, list)

Larger(m, n) == IF m > n THEN m ELSE n
Smaller(m, n) == IF m < n THEN m ELSE n

-----------------------------------------------------------------------------
(* Adaptive-k: cut at the steepest drop of the scores, the first of them.  *)

SteepestDrop(scores) ==
    LET Gap(i) == scores[i] - scores[i + 1]
        Places == 1..Len(scores) - 1
    IN  CHOOSE i \in Places : \A j \in Places : Gap(j) < Gap(i) \/ (Gap(j) = Gap(i) /\ i <= j)

AdaptiveK(scores, minK, maxK, cap) ==
    IF Len(scores) <= 1 THEN Len(scores)
    ELSE Smaller(Len(scores), Smaller(cap, Larger(minK, Smaller(maxK, SteepestDrop(scores)))))

-----------------------------------------------------------------------------
(* Fusion of ranked lists, one per source.                                 *)

Listed(ranked) == UNION {ToSet(ranked[s]) : s \in DOMAIN ranked}

RrfFusion(ranked, weight, k, unit) ==
    LET Places(s, c) == {i \in DOMAIN ranked[s] : ranked[s][i] = c}
        Points(s, c) == SumFunction([i \in Places(s, c) |-> weight[s] * (unit \div (k + i))])
    IN  [c \in Listed(ranked) |-> SumFunction([s \in DOMAIN ranked |-> Points(s, c)])]

(* Scores of a source are relative to its best; a source whose best is not *)
(* above zero does not count.                                              *)
ScoreFusion(scored, weight, unit) ==
    LET Best(s) == Max({scored[s][c] : c \in DOMAIN scored[s]})
        Points(s, c) == IF c \in DOMAIN scored[s] /\ Best(s) > 0
                          THEN weight[s] * ((unit * scored[s][c]) \div Best(s)) ELSE 0
    IN  [c \in UNION {DOMAIN scored[s] : s \in DOMAIN scored} |->
            SumFunction([s \in DOMAIN scored |-> Points(s, c)])]

(* Slip: ranks count from the bottom of the list.                          *)
HybridUpside(ranked, scored, weight, k, half, unit) ==
    LET rrf == RrfFusion([s \in DOMAIN ranked |-> Reverse(ranked[s])], weight, k, unit)
        sc  == ScoreFusion(scored, weight, unit)
        a   == Larger(0, Smaller(2, half))
    IN  [c \in DOMAIN rrf |-> a * rrf[c] + (2 - a) * sc[c]]

(* alpha is counted in halves.                                             *)
HybridFusion(ranked, scored, weight, k, half, unit) ==
    LET rrf == RrfFusion(ranked, weight, k, unit)
        sc  == ScoreFusion(scored, weight, unit)
        a   == Larger(0, Smaller(2, half))
    IN  [c \in DOMAIN rrf |-> a * rrf[c] + (2 - a) * sc[c]]

-----------------------------------------------------------------------------
(* Thinning: one chunk per page, so many per document.                     *)

(* The best of each page, where the page first came up; by score; and      *)
(* behind them, whatever its score, what has no page.                      *)
OnePerPage(list, score, docOf, pageOf, noPage) ==
    LET Paged   == At(list, {i \in DOMAIN list : pageOf[list[i]] # noPage})
        Page(i) == {j \in DOMAIN Paged : docOf[Paged[j]] = docOf[Paged[i]] /\ pageOf[Paged[j]] = pageOf[Paged[i]]}
        Better(c, d) == score[c] > score[d]
        Best    == [i \in DOMAIN Paged |-> Ranked(At(Paged, Page(i)), Better)[1]]
    IN  Ranked(At(Best, {i \in DOMAIN Paged : \A j \in Page(i) : i <= j}), Better)
          \o At(list, {i \in DOMAIN list : pageOf[list[i]] = noPage})

(* Slip: one more than the limit.                                          *)
GroupByDocLoose(list, docOf, most) ==
    At(list, {i \in DOMAIN list : Cardinality({j \in 1..i : docOf[list[j]] = docOf[list[i]]}) <= most + 1})

GroupByDoc(list, docOf, most) ==
    At(list, {i \in DOMAIN list : Cardinality({j \in 1..i : docOf[list[j]] = docOf[list[i]]}) <= most})

=============================================================================
