------------------------------ MODULE MCWindows ------------------------------
(* Instances of Windows for TLC.                                           *)
EXTENDS Windows

Text(n, bs) == [kind |-> "text", len |-> n, bounds |-> (bs \cap 1..n) \cup {n}]
Raw(n) == [kind |-> "raw", len |-> n]
Heading(n) == [kind |-> "heading", len |-> n, bounds |-> {}]

(* A section of n words, of one token or two; where a paragraph ends there *)
(* is a separator, which has a token in the section and none in a chunk.   *)
Words(n, bs) == [i \in 1..n |-> IF i - 1 \in bs THEN 0 ELSE IF i % 3 = 0 THEN 2 ELSE 1]
Section(n, bs) ==
    LET ends == bs \cap 1..n - 2
    IN  [kind |-> "section", len |-> SumFunction(Words(n, ends)) + Cardinality(ends),
         words |-> Words(n, ends), bounds |-> ends \cup {n}]

(* One word of many tokens: a text without spaces.                         *)
Unspaced(n) == [kind |-> "section", len |-> n, words |-> <<n>>, bounds |-> {1}]

Table(h, rs) == [kind |-> "table", head |-> h, rows |-> rs]

(* Short and long blocks; tables with rows that fit, do not, or are none.  *)
Small == {Text(n, {}) : n \in {1, 2, 4, 6, 15}}
            \cup {Table(2, <<2>>), Table(8, <<>>), Table(2, <<2, 2, 9, 1, 1>>), Table(3, <<1, 1, 1, 1, 1>>)}
Lists == UNION {[1..k -> Small] : k \in 0..3} \cup [1..4 -> {Text(1, {}), Text(2, {}), Text(4, {})}]

MCJobs ==
    [by : {"chars", "sections"}, blocks : Lists, size : {6}, overlap : {0, 2, 4}]
    \cup [by : {"token"}, blocks : {<<Text(n, bs)>> : n \in 1..12, bs \in SUBSET {3, 5, 6, 9}},
          size : {5}, overlap : 0..3]
    \cup [by : {"token"}, blocks : {<<>>, <<Raw(3)>>, <<Text(7, {3}), Raw(2), Raw(4)>>}, size : {5}, overlap : {0, 2}]
    \cup [by : {"semantic"}, blocks : {<<Section(n, bs)>> : n \in 1..12, bs \in SUBSET {3, 5, 6, 9}},
          size : {5}, overlap : 0..3]
    \cup [by : {"semantic"}, blocks : {<<Section(n, {1, 3})>> : n \in 1..6}, size : {1, 2}, overlap : {0}]
    \cup [by : {"sections"}, blocks : [1..3 -> {Heading(2), Heading(9), Text(3, {}), Text(8, {3})}],
          size : {6}, overlap : {0, 2}]
    \cup [by : {"semantic"}, blocks : [1..3 -> {Heading(2), Heading(9), Section(3, {}), Section(8, {3}), Unspaced(9)}],
          size : {6}, overlap : {0, 2}]
    \cup [by : {"semantic"}, blocks : {<<Section(2, {}), Section(n, {2}), Section(3, {})>> : n \in 1..14}, size : {6}, overlap : {2}]

(* A short last paragraph.                                                 *)
MCShortEnd == [by : {"token"}, blocks : {<<Text(5, {3})>>}, size : {9}, overlap : {2}]

=============================================================================
