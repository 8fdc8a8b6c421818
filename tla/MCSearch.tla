------------------------------ MODULE MCSearch ------------------------------
(* Instances of Search for TLC.                                            *)
EXTENDS Search

CONSTANTS c1, c2, c3, c4

(* Two chunks of a page, one of another document's first page, and one     *)
(* without a page.                                                         *)
MCDocOf == [x \in Hits |-> IF x = c3 THEN "E" ELSE "D"]
MCPageOf == [x \in Hits |-> IF x = c4 THEN NoPage ELSE 1]

(* Lists of up to so many chunks, with and without ties; cosines may be    *)
(* negative.                                                               *)
Lists(n, scores) ==
    UNION {{[i \in 1..k |-> [id |-> p[i], score |-> s[i]]] :
               p \in {q \in [1..k -> Hits] : IsInjective(q)}, s \in {t \in scores : Len(t) = k}} : k \in 1..n}
    \cup {<<>>}

MCAnswers == [e \in Engines |->
    IF e = "bm25" THEN Lists(3, {<<2>>, <<2, 1>>, <<2, 2>>, <<4, 2, 1>>, <<2, 2, 1>>})
                  ELSE Lists(2, {<<2>>, <<2, 1>>, <<2, -1>>})]

MCWeight == [e \in Engines |-> 1]

Plain(on) ==
    [mode |-> "hybrid", asked |-> "no", policy |-> "always", long |-> TRUE, client |-> TRUE, half |-> 1,
     onePerPage |-> "page" \in on, parents |-> "parents" \in on, group |-> "group" \in on,
     adaptive |-> "adaptive" \in on]
Switches == SUBSET {"page", "group", "adaptive"}

MCQueries ==
    {Plain(on) : on \in Switches}
    \cup {[Plain({}) EXCEPT !.half = 0], [Plain({}) EXCEPT !.half = 2]}
    \cup {[Plain({"page", "parents"}) EXCEPT !.mode = m] : m \in Engines}
    \cup {[Plain(on) EXCEPT !.asked = "left"] : on \in {{"page"}, {"group", "adaptive"}}}
    \cup {[Plain({"adaptive"}) EXCEPT !.asked = "left", !.policy = "auto", !.client = cl] : cl \in BOOLEAN}

=============================================================================
