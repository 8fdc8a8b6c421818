----------------------------- MODULE MCAgentRun -----------------------------
(* Instances of AgentRun for TLC.                                          *)
EXTENDS AgentRun

CONSTANTS a1, a2, b1

MCDocOf == [c \in Chunks |-> IF c = b1 THEN "B" ELSE "A"]

Hit(c, s) == [id |-> c, score |-> s]
Whole(hits) == [ok |-> TRUE, hits |-> hits, context |-> Ids(hits), partial |-> FALSE, degraded |-> {}]

(* Good hits, weak and partial ones, a context shorter than the hits; the  *)
(* empty replies are GateError and NoRetrieval.                            *)
MCReplies ==
    {Whole(<<Hit(a1, 5), Hit(b1, 3)>>),
     [Whole(<<Hit(b1, 4), Hit(a2, 2)>>) EXCEPT !.context = <<b1>>],
     [Whole(<<Hit(a2, 1)>>) EXCEPT !.partial = TRUE, !.degraded = {"rerank"}]}

MCOptions ==
    [budget : {0, 1, 3, 6, 12}, hyde : {"plan"}, hydeNum : {1, 2}, facts : {"poor"}, retry : BOOLEAN, tools : BOOLEAN]
    \cup [budget : {12}, hyde : {"yes"}, hydeNum : {3}, facts : {"no"}, retry : {FALSE}, tools : {FALSE}]
    \cup [budget : {12}, hyde : {"no"}, hydeNum : {1}, facts : {"yes"}, retry : {TRUE}, tools : {FALSE}]

=============================================================================
