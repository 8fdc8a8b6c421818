---------------------------- MODULE RankingProofs ----------------------------
(***************************************************************************)
(* What the other proofs need of numbers, sums and lists, and of the       *)
(* operators of Ranking.                                                   *)
(*                                                                         *)
(* Sums, flattened lists and lists without duplicates are recursive        *)
(* functions.  What is needed of them is shown by least counterexample: a  *)
(* nonempty set of naturals has a least member, for < is well founded on   *)
(* them.                                                                   *)
(***************************************************************************)
EXTENDS Ranking, SequenceTheorems, FiniteSetTheorems, TLAPS

-----------------------------------------------------------------------------
(* Numbers.                                                                *)

(* Any set of naturals has a least member ... *)
LEMMA NatLeast ==
    ASSUME NEW T \in SUBSET Nat, T # {}
    PROVE  \E x \in T : \A y \in T : x <= y
<1> DEFINE R == OpToRel(<, Nat)
<1>1. IsWellFoundedOn(R, Nat)
  BY NatLessThanWellFounded
<1>2. \A x, y \in Nat : y < x => <<y, x>> \in R
  BY DEF OpToRel
<1> HIDE DEF R
<1>3. PICK x \in T : \A y \in T : ~(<<y, x>> \in R)
  BY <1>1, WFMin
<1>4. \A y \in T : ~(y < x)
  BY <1>2, <1>3
<1> QED BY <1>4

LEMMA NatSteps ==
    ASSUME NEW S, 0 \in S, \A n \in Nat : n \in S => n + 1 \in S
    PROVE  \A n \in Nat : n \in S
<1> DEFINE T == Nat \ S
<1> SUFFICES ASSUME T # {} PROVE FALSE
  OBVIOUS
<1>1. PICK x \in T : \A y \in T : x <= y
  BY NatLeast
<1>2. x # 0 /\ x - 1 \in Nat /\ x - 1 \notin T
  BY <1>1
<1> QED BY <1>1, <1>2

LEMMA MinIsLeast ==
    ASSUME NEW T \in SUBSET Nat, T # {}
    PROVE  Min(T) \in T /\ \A y \in T : Min(T) <= y
BY NatLeast DEF Min

LEMMA MaxIsMost ==
    ASSUME NEW n \in Nat, NEW T \in SUBSET (0..n), T # {}
    PROVE  Max(T) \in T /\ \A y \in T : y <= Max(T)
<1> DEFINE U == {n - y : y \in T}
<1>0. U \in SUBSET Nat /\ U # {}
  <2>1. \A y \in T : n - y \in Nat
    OBVIOUS
  <2> QED BY <2>1
<1>1. PICK u \in U : \A v \in U : u <= v
  BY <1>0, NatLeast
<1>2. n - u \in T /\ \A y \in T : n - u >= y
  BY <1>1
<1> QED BY <1>2 DEF Max

LEMMA MaxOfPlaces ==
    ASSUME NEW n \in Nat, NEW J \in SUBSET (1..n), J # {}
    PROVE  Max(J) \in J /\ \A y \in J : y <= Max(J)
<1>1. J \in SUBSET (0..n)
  OBVIOUS
<1> QED BY <1>1, MaxIsMost

LEMMA MaxOfInts ==
    ASSUME NEW n \in Nat, NEW J \in SUBSET (1..n), J # {}, NEW f, \A j \in J : f[j] \in Int
    PROVE  LET T == {f[j] : j \in J} IN Max(T) \in T /\ \A y \in T : Max(T) >= y
<1> DEFINE Top(K) == \E i \in K : \A j \in K : f[i] >= f[j]
           N == {m \in Nat : \A K \in SUBSET J : K \subseteq 1..m /\ K # {} => Top(K)}
<1>1. 0 \in N
  <2>1. 1..0 = {}
    OBVIOUS
  <2> HIDE DEF Top
  <2> QED BY <2>1
<1>2. ASSUME NEW m \in Nat, m \in N PROVE m + 1 \in N
  <2>1. ASSUME NEW K \in SUBSET J, K \subseteq 1..m + 1, K # {} PROVE Top(K)
    <3> DEFINE L == K \ {m + 1}
    <3>1. L \in SUBSET J /\ L \subseteq 1..m /\ \A k \in K : f[k] \in Int
      BY <2>1
    <3>2. CASE L = {}
      <4>1. \A k \in K : k = m + 1
        BY <3>2
      <4>2. m + 1 \in K /\ f[m + 1] >= f[m + 1]
        <5>1. m + 1 \in K
          BY <2>1, <4>1
        <5>2. f[m + 1] \in Int
          BY <3>1, <5>1
        <5> QED BY <5>1, <5>2
      <4>3. \A j \in K : f[m + 1] >= f[j]
        BY <4>1, <4>2
      <4> QED BY <4>2, <4>3
    <3>3. CASE L # {}
      <4>1. PICK i \in L : \A j \in L : f[i] >= f[j]
        BY <1>2, <3>1, <3>3
      <4>2. CASE m + 1 \notin K
        BY <4>1, <4>2
      <4>3. CASE m + 1 \in K /\ f[i] >= f[m + 1]
        BY <3>1, <4>1, <4>3
      <4>4. CASE m + 1 \in K /\ ~(f[i] >= f[m + 1])
        BY <3>1, <4>1, <4>4
      <4> QED BY <4>2, <4>3, <4>4
    <3> QED BY <3>2, <3>3
  <2> HIDE DEF Top
  <2> QED BY <2>1
<1> HIDE DEF N
<1>3. n \in N
  BY <1>1, <1>2, NatSteps
<1>4. PICK i \in J : \A j \in J : f[i] >= f[j]
  BY <1>3 DEF N
<1> QED BY <1>4 DEF Max

(* What falls from each number to the next falls over any distance.        *)
LEMMA FallsThroughout ==
    ASSUME NEW n \in Nat, NEW f, \A i \in 1..n : f[i] \in Int, \A i \in 1..n - 1 : f[i] >= f[i + 1],
           NEW i \in 1..n, NEW j \in 1..n, i < j
    PROVE  f[i] >= f[j]
<1> DEFINE N == {m \in Nat : i + m \in 1..n => f[i] >= f[i + m]}
<1>1. 0 \in N
  <2>1. i + 0 = i /\ f[i] \in Int
    OBVIOUS
  <2> QED BY <2>1
<1>2. ASSUME NEW m \in Nat, m \in N PROVE m + 1 \in N
  <2> SUFFICES ASSUME i + (m + 1) \in 1..n PROVE f[i] >= f[i + (m + 1)]
    OBVIOUS
  <2>1. i + m \in 1..n /\ i + m \in 1..n - 1 /\ (i + m) + 1 = i + (m + 1)
    OBVIOUS
  <2>2. f[i] >= f[i + m] /\ f[i + m] >= f[i + (m + 1)]
    BY <1>2, <2>1
  <2>3. f[i] \in Int /\ f[i + m] \in Int /\ f[i + (m + 1)] \in Int
    BY <2>1
  <2> QED BY <2>2, <2>3
<1> HIDE DEF N
<1>3. PICK m \in Nat : j = i + m
  <2>1. j - i \in Nat /\ j = i + (j - i)
    OBVIOUS
  <2> QED BY <2>1
<1>4. m \in N
  BY <1>1, <1>2, NatSteps
<1> QED BY <1>3, <1>4 DEF N

LEMMA Places == \A n \in Nat : IsFiniteSet(1..n) /\ Cardinality(1..n) = n
BY FS_Interval

-----------------------------------------------------------------------------
(* Sums.                                                                   *)

Pick(s) == CHOOSE x \in s : TRUE
IsSum(g, f, S) ==
    g = [s \in SUBSET S |-> IF s = {} THEN 0 ELSE f[Pick(s)] + g[s \ {Pick(s)}]]

LEMMA SumIs == ASSUME NEW f, NEW S PROVE SumFunctionOnSet(f, S) = (CHOOSE g : IsSum(g, f, S))[S]
BY DEF SumFunctionOnSet, FoldFunctionOnSet, MapThenFoldSet, IsSum, Pick

LEMMA PickIn == ASSUME NEW s, s # {} PROVE Pick(s) \in s
BY DEF Pick

LEMMA SumExists ==
    ASSUME NEW S, IsFiniteSet(S), NEW f
    PROVE  \E g : IsSum(g, f, S)
<1> DEFINE Step(g) == [s \in SUBSET S |-> IF s = {} THEN 0 ELSE f[Pick(s)] + g[s \ {Pick(s)}]]
           Good(g, n) == \A s \in SUBSET S : Cardinality(s) <= n => g[s] = Step(g)[s]
           N == {n \in Nat : \E g : g = [s \in SUBSET S |-> g[s]] /\ Good(g, n)}
<1>0. \A s \in SUBSET S : IsFiniteSet(s) /\ Cardinality(s) \in Nat /\ (Cardinality(s) = 0 <=> s = {})
  BY FS_Subset, FS_CardinalityType, FS_EmptySet
<1>1. 0 \in N
  <2> DEFINE g0 == [s \in SUBSET S |-> 0]
  <2>1. Good(g0, 0)
    BY <1>0
  <2>2. g0 = [s \in SUBSET S |-> g0[s]]
    OBVIOUS
  <2> QED BY <2>1, <2>2
<1>2. ASSUME NEW n \in Nat, n \in N PROVE n + 1 \in N
  <2>1. PICK g : g = [s \in SUBSET S |-> g[s]] /\ Good(g, n)
    BY <1>2
  <2> DEFINE h == Step(g)
  <2>2. ASSUME NEW s \in SUBSET S, Cardinality(s) <= n + 1 PROVE h[s] = Step(h)[s]
    <3>1. CASE s = {}
      BY <3>1
    <3>2. CASE s # {}
      <4> DEFINE u == s \ {Pick(s)}
      <4>1. u \in SUBSET S /\ Cardinality(u) <= n
        BY <2>2, <3>2, <1>0, PickIn, FS_RemoveElement
      <4>2. g[u] = h[u]
        BY <2>1, <4>1
      <4> QED BY <3>2, <4>1, <4>2
    <3> QED BY <3>1, <3>2
  <2>3. h = [s \in SUBSET S |-> h[s]]
    OBVIOUS
  <2>4. Good(h, n + 1)
    BY <2>2
  <2> HIDE DEF h, Good
  <2> QED BY <2>3, <2>4
<1> HIDE DEF N
<1>3. Cardinality(S) \in Nat /\ Cardinality(S) \in N
  BY <1>0, <1>1, <1>2, NatSteps
<1>4. PICK g : g = [s \in SUBSET S |-> g[s]] /\ Good(g, Cardinality(S))
  BY <1>3 DEF N
<1>5. \A s \in SUBSET S : g[s] = Step(g)[s]
  BY <1>4, FS_Subset
<1>6. g = Step(g)
  BY <1>4, <1>5
<1> QED BY <1>6 DEF IsSum

SumsUp(g, f, S) ==
    /\ g[{}] = 0
    /\ \A s \in SUBSET S : g[s] \in Int /\ \A x \in s : g[s] = f[x] + g[s \ {x}]

LEMMA SumStep ==
    ASSUME NEW S, IsFiniteSet(S), NEW f, \A x \in S : f[x] \in Int, NEW g, IsSum(g, f, S)
    PROVE  SumsUp(g, f, S)
<1> DEFINE P(s) == g[s] \in Int /\ \A x \in s : g[s] = f[x] + g[s \ {x}]
           N == {n \in Nat : \A s \in SUBSET S : Cardinality(s) <= n => P(s)}
<1>0. \A s \in SUBSET S : IsFiniteSet(s) /\ Cardinality(s) \in Nat /\ (Cardinality(s) = 0 <=> s = {})
  BY FS_Subset, FS_CardinalityType, FS_EmptySet
<1>1. g[{}] = 0 /\ \A s \in SUBSET S : s # {} => g[s] = f[Pick(s)] + g[s \ {Pick(s)}]
  BY DEF IsSum
<1>2. P({})
  BY <1>1
<1> HIDE DEF P
<1>3. 0 \in N
  <2>1. \A s \in SUBSET S : Cardinality(s) <= 0 => P(s)
    BY <1>0, <1>2
  <2> QED BY <2>1
<1>4. ASSUME NEW n \in Nat, n \in N PROVE n + 1 \in N
  <2> SUFFICES ASSUME NEW s \in SUBSET S, Cardinality(s) <= n + 1, s # {} PROVE P(s)
    BY <1>2
  <2> DEFINE y == Pick(s)
  <2>1. y \in s /\ \A x \in s : s \ {x} \in SUBSET S /\ Cardinality(s \ {x}) <= n
    BY <1>0, PickIn, FS_RemoveElement
  <2>2. \A x \in s : P(s \ {x})
    BY <1>4, <2>1
  <2>3. g[s] = f[y] + g[s \ {y}]
    BY <1>1
  <2> HIDE DEF y
  <2>4. g[s] \in Int
    BY <2>1, <2>2, <2>3 DEF P
  <2>5. ASSUME NEW x \in s, x # y PROVE g[s] = f[x] + g[s \ {x}]
    <3>1. g[s \ {y}] = f[x] + g[(s \ {y}) \ {x}] /\ g[s \ {x}] = f[y] + g[(s \ {x}) \ {y}]
      BY <2>1, <2>2, <2>5 DEF P
    <3>2. (s \ {y}) \ {x} = (s \ {x}) \ {y}
      OBVIOUS
    <3>3. g[(s \ {y}) \ {x}] \in Int /\ f[x] \in Int /\ f[y] \in Int
      <4>1. (s \ {y}) \ {x} \in SUBSET S /\ Cardinality((s \ {y}) \ {x}) <= n
        BY <1>0, <2>1, FS_Subset
      <4> QED BY <1>4, <2>1, <4>1 DEF P
    <3>4. PICK a \in Int, b \in Int, c \in Int : a = g[(s \ {y}) \ {x}] /\ b = f[x] /\ c = f[y]
      BY <3>3
    <3>5. c + (b + a) = b + (c + a)
      OBVIOUS
    <3> QED BY <2>3, <3>1, <3>2, <3>4, <3>5
  <2> QED BY <2>3, <2>4, <2>5 DEF P, y
<1> HIDE DEF N
<1>5. \A n \in Nat : n \in N
  BY <1>3, <1>4, NatSteps
<1>6. \A s \in SUBSET S : P(s)
  BY <1>0, <1>5 DEF N
<1> QED BY <1>1, <1>6 DEF P, SumsUp

(* Two sums over the same members of functions that agree on them.         *)
Agree(g, f, S, h, e, T) ==
    \A s \in SUBSET S : s \in SUBSET T /\ (\A x \in s : f[x] = e[x]) => g[s] = h[s]

LEMMA SumsAgree ==
    ASSUME NEW S, IsFiniteSet(S), NEW f, NEW g, SumsUp(g, f, S), NEW T, NEW e, NEW h, SumsUp(h, e, T)
    PROVE  Agree(g, f, S, h, e, T)
<1> DEFINE Same(s) == s \in SUBSET T /\ (\A x \in s : f[x] = e[x])
           N == {n \in Nat : \A s \in SUBSET S : Cardinality(s) <= n /\ Same(s) => g[s] = h[s]}
<1>0. \A s \in SUBSET S : IsFiniteSet(s) /\ Cardinality(s) \in Nat /\ (Cardinality(s) = 0 <=> s = {})
  BY FS_Subset, FS_CardinalityType, FS_EmptySet
<1>1. g[{}] = 0 /\ h[{}] = 0
  BY DEF SumsUp
<1>2. 0 \in N
  <2>1. \A s \in SUBSET S : Cardinality(s) <= 0 => g[s] = h[s]
    BY <1>0, <1>1
  <2> QED BY <2>1
<1>3. ASSUME NEW n \in Nat, n \in N PROVE n + 1 \in N
  <2>1. ASSUME NEW s \in SUBSET S, Cardinality(s) <= n + 1, Same(s), s # {} PROVE g[s] = h[s]
    <3>1. PICK x \in s : TRUE
      BY <2>1
    <3>2. s \ {x} \in SUBSET S /\ Cardinality(s \ {x}) <= n /\ Same(s \ {x})
      BY <1>0, <2>1, <3>1, FS_RemoveElement
    <3>3. g[s \ {x}] = h[s \ {x}]
      BY <1>3, <3>2
    <3>4. g[s] = f[x] + g[s \ {x}]
      BY <3>1 DEF SumsUp
    <3>5. h[s] = e[x] + h[s \ {x}]
      BY <2>1, <3>1 DEF SumsUp
    <3> QED BY <2>1, <3>3, <3>4, <3>5
  <2>2. \A s \in SUBSET S : Cardinality(s) <= n + 1 /\ Same(s) => g[s] = h[s]
    BY <1>1, <2>1
  <2> HIDE DEF Same
  <2> QED BY <2>2
<1> HIDE DEF N
<1>4. \A n \in Nat : n \in N
  BY <1>2, <1>3, NatSteps
<1> QED BY <1>0, <1>4 DEF N, Agree

(* The greater the terms, the greater the sum.                             *)
Below(g, h, S) == \A s \in SUBSET S : g[s] <= h[s]

LEMMA SumsBelow ==
    ASSUME NEW S, IsFiniteSet(S), NEW f, NEW g, SumsUp(g, f, S), NEW e, NEW h, SumsUp(h, e, S),
           \A x \in S : f[x] \in Int /\ e[x] \in Int /\ f[x] <= e[x]
    PROVE  Below(g, h, S)
<1> DEFINE N == {n \in Nat : \A s \in SUBSET S : Cardinality(s) <= n => g[s] <= h[s]}
<1>0. \A s \in SUBSET S : IsFiniteSet(s) /\ Cardinality(s) \in Nat /\ (Cardinality(s) = 0 <=> s = {})
  BY FS_Subset, FS_CardinalityType, FS_EmptySet
<1>1. g[{}] = 0 /\ h[{}] = 0
  BY DEF SumsUp
<1>2. 0 \in N
  <2>1. \A s \in SUBSET S : Cardinality(s) <= 0 => g[s] <= h[s]
    BY <1>0, <1>1
  <2> QED BY <2>1
<1>3. ASSUME NEW n \in Nat, n \in N PROVE n + 1 \in N
  <2>1. ASSUME NEW s \in SUBSET S, Cardinality(s) <= n + 1, s # {} PROVE g[s] <= h[s]
    <3>1. PICK x \in s : TRUE
      BY <2>1
    <3>2. s \ {x} \in SUBSET S /\ Cardinality(s \ {x}) <= n
      BY <1>0, <2>1, <3>1, FS_RemoveElement
    <3>3. g[s \ {x}] <= h[s \ {x}]
      BY <1>3, <3>2
    <3>4. g[s] = f[x] + g[s \ {x}] /\ g[s \ {x}] \in Int
      BY <3>1, <3>2 DEF SumsUp
    <3>5. h[s] = e[x] + h[s \ {x}] /\ h[s \ {x}] \in Int
      BY <3>1, <3>2 DEF SumsUp
    <3>6. f[x] \in Int /\ e[x] \in Int /\ f[x] <= e[x]
      BY <3>1
    <3> QED BY <3>3, <3>4, <3>5, <3>6
  <2>2. g[{}] <= h[{}]
    BY <1>1
  <2>3. \A s \in SUBSET S : Cardinality(s) <= n + 1 => g[s] <= h[s]
    BY <2>1, <2>2, Zenon
  <2> QED BY <2>3
<1> HIDE DEF N
<1>4. \A n \in Nat : n \in N
  BY <1>2, <1>3, NatSteps
<1> QED BY <1>0, <1>4 DEF N, Below

(* The sum of the values of a function, as a sum over its domain.          *)
LEMMA SumOver ==
    ASSUME NEW S, IsFiniteSet(S), NEW f, DOMAIN f = S, \A x \in S : f[x] \in Int
    PROVE  \E g : SumsUp(g, f, S) /\ SumFunction(f) = g[S]
<1> DEFINE g == CHOOSE k : IsSum(k, f, S)
<1>1. IsSum(g, f, S)
  BY SumExists
<1>2. SumFunction(f) = g[S]
  BY SumIs DEF SumFunction
<1> HIDE DEF g
<1>3. SumsUp(g, f, S)
  BY <1>1, SumStep
<1> QED BY <1>2, <1>3

LEMMA SumIsInt ==
    ASSUME NEW S, IsFiniteSet(S), NEW f, DOMAIN f = S, \A x \in S : f[x] \in Int
    PROVE  SumFunction(f) \in Int
<1>1. PICK g : SumsUp(g, f, S) /\ SumFunction(f) = g[S]
  BY SumOver
<1> QED BY <1>1 DEF SumsUp

LEMMA SumIsBelow ==
    ASSUME NEW S, IsFiniteSet(S), NEW f, DOMAIN f = S, NEW e, DOMAIN e = S,
           \A x \in S : f[x] \in Int /\ e[x] \in Int /\ f[x] <= e[x]
    PROVE  SumFunction(f) <= SumFunction(e)
<1>1. PICK g : SumsUp(g, f, S) /\ SumFunction(f) = g[S]
  BY SumOver
<1>2. PICK h : SumsUp(h, e, S) /\ SumFunction(e) = h[S]
  BY SumOver
<1>3. Below(g, h, S)
  BY <1>1, <1>2, SumsBelow
<1> QED BY <1>1, <1>2, <1>3 DEF Below

(* The sum of no value, of one, of two, and of one more.                   *)
LEMMA SumOfEmpty == ASSUME NEW f, DOMAIN f = {} PROVE SumFunction(f) = 0
<1>1. IsFiniteSet({})
  BY FS_EmptySet
<1>2. PICK g : SumsUp(g, f, {}) /\ SumFunction(f) = g[{}]
  BY <1>1, SumOver
<1> QED BY <1>2 DEF SumsUp

LEMMA SumOfNone == SumFunction(<<>>) = 0
<1>1. DOMAIN <<>> = {}
  OBVIOUS
<1> QED BY <1>1, SumOfEmpty

LEMMA SumOfOne == ASSUME NEW x, NEW f, DOMAIN f = {x}, f[x] \in Int PROVE SumFunction(f) = f[x]
<1>1. IsFiniteSet({x})
  BY FS_Singleton
<1>2. PICK g : SumsUp(g, f, {x}) /\ SumFunction(f) = g[{x}]
  BY <1>1, SumOver
<1>3. g[{x}] = f[x] + g[{x} \ {x}] /\ g[{}] = 0
  BY <1>2 DEF SumsUp
<1>4. {x} \ {x} = {}
  OBVIOUS
<1> QED BY <1>2, <1>3, <1>4

LEMMA SumOfTwo ==
    ASSUME NEW x, NEW y, x # y, NEW f, DOMAIN f = {x, y}, f[x] \in Int, f[y] \in Int
    PROVE  SumFunction(f) = f[x] + f[y]
<1>1. IsFiniteSet({x, y})
  <2>1. IsFiniteSet({x})
    BY FS_Singleton
  <2>2. {x, y} = {x} \cup {y}
    OBVIOUS
  <2> QED BY <2>1, <2>2, FS_AddElement
<1>2. PICK g : SumsUp(g, f, {x, y}) /\ SumFunction(f) = g[{x, y}]
  BY <1>1, SumOver
<1>3. g[{x, y}] = f[x] + g[{x, y} \ {x}]
  BY <1>2 DEF SumsUp
<1>4. {x, y} \ {x} = {y} /\ {y} \ {y} = {}
  OBVIOUS
<1>5. g[{y}] = f[y] + g[{}] /\ g[{}] = 0
  BY <1>2, <1>4 DEF SumsUp
<1>6. f[y] + 0 = f[y]
  OBVIOUS
<1> QED BY <1>2, <1>3, <1>4, <1>5, <1>6

LEMMA SumOfMore ==
    ASSUME NEW n \in Nat, NEW f \in [1..n -> Nat], NEW e \in [1..n + 1 -> Nat],
           \A i \in 1..n : e[i] = f[i]
    PROVE  SumFunction(f) \in Nat /\ SumFunction(e) = SumFunction(f) + e[n + 1]
<1>1. IsFiniteSet(1..n) /\ IsFiniteSet(1..n + 1)
  BY FS_Interval
<1>2. (\A x \in 1..n : f[x] \in Int) /\ \A x \in 1..n + 1 : e[x] \in Int
  OBVIOUS
<1>3. PICK g : SumsUp(g, f, 1..n) /\ SumFunction(f) = g[1..n]
  <2>1. DOMAIN f = 1..n
    OBVIOUS
  <2> QED BY <1>1, <1>2, <2>1, SumOver
<1>4. PICK h : SumsUp(h, e, 1..n + 1) /\ SumFunction(e) = h[1..n + 1]
  <2>1. DOMAIN e = 1..n + 1
    OBVIOUS
  <2> QED BY <1>1, <1>2, <2>1, SumOver
<1>5. SumFunction(f) \in Nat
  <2> DEFINE z == [i \in 1..n |-> 0]
             w == [s \in SUBSET (1..n) |-> 0]
  <2>1. SumsUp(w, z, 1..n)
    BY DEF SumsUp
  <2>2. \A x \in 1..n : z[x] \in Int /\ f[x] \in Int /\ z[x] <= f[x]
    OBVIOUS
  <2>3. w[1..n] = 0
    OBVIOUS
  <2> HIDE DEF z, w
  <2>4. Below(w, g, 1..n)
    BY <1>1, <1>3, <2>1, <2>2, SumsBelow
  <2>5. 0 <= g[1..n] /\ g[1..n] \in Int
    BY <1>3, <2>3, <2>4 DEF Below, SumsUp
  <2> QED BY <1>3, <2>5
<1>6. h[1..n + 1] = e[n + 1] + h[(1..n + 1) \ {n + 1}]
  <2>1. n + 1 \in 1..n + 1
    OBVIOUS
  <2> QED BY <1>4, <2>1 DEF SumsUp
<1>7. (1..n + 1) \ {n + 1} = 1..n
  OBVIOUS
<1>8. g[1..n] = h[1..n]
  <2>1. 1..n \in SUBSET (1..n + 1)
    OBVIOUS
  <2>2. Agree(g, f, 1..n, h, e, 1..n + 1)
    BY <1>1, <1>3, <1>4, SumsAgree
  <2> QED BY <2>1, <2>2 DEF Agree
<1>9. e[n + 1] + g[1..n] = g[1..n] + e[n + 1]
  BY <1>3, <1>5
<1> QED BY <1>3, <1>4, <1>5, <1>6, <1>7, <1>8, <1>9

LEMMA SumIsNat ==
    ASSUME NEW s \in Seq(Nat)
    PROVE  SumFunction(s) \in Nat
<1>1. PICK n \in Nat : s \in [1..n -> Nat]
  BY LenProperties
<1> DEFINE e == [i \in 1..n + 1 |-> IF i \in 1..n THEN s[i] ELSE 0]
<1>2. e \in [1..n + 1 -> Nat] /\ \A i \in 1..n : e[i] = s[i]
  BY <1>1
<1> QED BY <1>1, <1>2, SumOfMore

LEMMA SumIsPositive ==
    ASSUME NEW n \in Nat \ {0}, NEW e \in [1..n -> Nat \ {0}]
    PROVE  SumFunction(e) \in Nat \ {0}
<1>1. PICK m \in Nat : n = m + 1
  <2>1. n - 1 \in Nat /\ n = (n - 1) + 1
    OBVIOUS
  <2> QED BY <2>1
<1> DEFINE f == [i \in 1..m |-> e[i]]
<1>2. f \in [1..m -> Nat] /\ e \in [1..m + 1 -> Nat] /\ \A i \in 1..m : e[i] = f[i]
  BY <1>1
<1>3. e[m + 1] \in Nat \ {0}
  BY <1>1
<1> HIDE DEF f
<1>4. SumFunction(f) \in Nat /\ SumFunction(e) = SumFunction(f) + e[m + 1]
  BY <1>2, SumOfMore
<1> QED BY <1>3, <1>4

-----------------------------------------------------------------------------
(* Lists in order.                                                         *)

(* In a strict order of places each rank is taken by one place.            *)
StrictOrder(A, n) ==
    /\ A \in [1..n -> SUBSET (1..n)]
    /\ \A i \in 1..n : i \notin A[i]
    /\ \A i, j \in 1..n : i # j => i \in A[j] \/ j \in A[i]
    /\ \A i, j, k \in 1..n : k \in A[j] /\ j \in A[i] => k \in A[i]

LEMMA RanksAreTaken ==
    ASSUME NEW n \in Nat, NEW A, StrictOrder(A, n)
    PROVE  /\ \A m \in 1..n : \E i \in 1..n : Cardinality(A[i]) = m - 1
           /\ \A i, j \in 1..n : Cardinality(A[i]) = Cardinality(A[j]) => i = j
<1> DEFINE r == [i \in 1..n |-> Cardinality(A[i])]
<1>1. \A i \in 1..n : IsFiniteSet(A[i]) /\ Cardinality(A[i]) \in Nat
  <2>1. \A i \in 1..n : A[i] \in SUBSET (1..n)
    BY DEF StrictOrder
  <2>2. IsFiniteSet(1..n)
    BY FS_Interval
  <2> QED BY <2>1, <2>2, FS_Subset, FS_CardinalityType
<1>2. \A i \in 1..n : Cardinality(A[i]) \in 0..n - 1
  <2> TAKE i \in 1..n
  <2>1. A[i] \in SUBSET ((1..n) \ {i})
    BY DEF StrictOrder
  <2>2. IsFiniteSet((1..n) \ {i}) /\ Cardinality((1..n) \ {i}) = n - 1
    <3>1. IsFiniteSet(1..n) /\ Cardinality(1..n) = n
      BY FS_Interval
    <3> QED BY <3>1, FS_RemoveElement
  <2>3. Cardinality(A[i]) <= n - 1
    BY <2>1, <2>2, FS_Subset
  <2> QED BY <1>1, <2>3
<1>3. ASSUME NEW i \in 1..n, NEW j \in 1..n, j \in A[i] PROVE Cardinality(A[i]) # Cardinality(A[j])
  <2>1. A[j] \in SUBSET A[i] /\ j \notin A[j]
    BY <1>3 DEF StrictOrder
  <2>2. A[j] # A[i]
    BY <1>3, <2>1
  <2> QED BY <1>1, <2>1, <2>2, FS_Subset
<1>4. \A i, j \in 1..n : Cardinality(A[i]) = Cardinality(A[j]) => i = j
  BY <1>3 DEF StrictOrder
<1>5. r \in Injection(1..n, 0..n - 1)
  BY <1>2, <1>4 DEF Injection, IsInjective
<1>6. /\ IsFiniteSet(0..n - 1) /\ Cardinality(0..n - 1) = n
      /\ Cardinality(1..n) = n
  BY FS_Interval
<1>7. r \in Surjection(1..n, 0..n - 1)
  BY <1>5, <1>6, FS_Injection
<1>8. \A m \in 1..n : \E i \in 1..n : Cardinality(A[i]) = m - 1
  <2> TAKE m \in 1..n
  <2>1. m - 1 \in 0..n - 1
    OBVIOUS
  <2> QED BY <1>7, <2>1 DEF Surjection
<1> QED BY <1>4, <1>8

LEMMA RanksRise ==
    ASSUME NEW n \in Nat, NEW A, StrictOrder(A, n), NEW i \in 1..n, NEW j \in 1..n,
           Cardinality(A[i]) < Cardinality(A[j])
    PROVE  i \in A[j]
<1>1. IsFiniteSet(1..n) /\ \A m \in 1..n : A[m] \in SUBSET (1..n)
  BY FS_Interval DEF StrictOrder
<1>2. IsFiniteSet(A[i]) /\ Cardinality(A[i]) \in Nat /\ IsFiniteSet(A[j]) /\ Cardinality(A[j]) \in Nat
  BY <1>1, FS_Subset, FS_CardinalityType
<1>3. CASE j \in A[i]
  <2>1. A[j] \in SUBSET A[i]
    BY <1>3 DEF StrictOrder
  <2>2. Cardinality(A[j]) <= Cardinality(A[i])
    BY <1>2, <2>1, FS_Subset
  <2> QED BY <1>2, <2>2
<1>4. i # j
  BY <1>2
<1> QED BY <1>3, <1>4 DEF StrictOrder

(* A list whose places are put in a strict order: each place comes once,   *)
(* behind those that are ahead of it.                                      *)
InOrder(l, list, n, A) ==
    \E p \in [1..n -> 1..n] :
        /\ l = [m \in 1..n |-> list[p[m]]]
        /\ \A i \in 1..n : \E m \in 1..n : p[m] = i
        /\ \A a, b \in 1..n : p[a] = p[b] => a = b
        /\ \A a, b \in 1..n : a < b => p[a] \in A[p[b]]

LEMMA PlacesInOrder ==
    ASSUME NEW n \in Nat, NEW A, StrictOrder(A, n), NEW list,
           NEW p \in [1..n -> 1..n], \A m \in 1..n : Cardinality(A[p[m]]) = m - 1
    PROVE  InOrder([m \in 1..n |-> list[p[m]]], list, n, A)
<1> DEFINE l == [m \in 1..n |-> list[p[m]]]
<1>1. l = [m \in 1..n |-> list[p[m]]]
  OBVIOUS
<1>3. \A m \in 1..n : p[m] \in 1..n /\ Cardinality(A[p[m]]) = m - 1
  OBVIOUS
<1>4. p \in [1..n -> 1..n]
  BY <1>3
<1> HIDE DEF l
<1>5. \A a, b \in 1..n : p[a] = p[b] => a = b
  <2> SUFFICES ASSUME NEW a \in 1..n, NEW b \in 1..n, p[a] = p[b] PROVE a = b
    OBVIOUS
  <2>1. a - 1 = b - 1
    BY <1>3
  <2> QED BY <2>1
<1>6. \A i \in 1..n : \E m \in 1..n : p[m] = i
  <2>1. p \in Injection(1..n, 1..n)
    BY <1>4, <1>5 DEF Injection, IsInjective
  <2>2. IsFiniteSet(1..n)
    BY Places, Zenon
  <2>3. p \in Surjection(1..n, 1..n)
    BY <2>1, <2>2, FS_Injection
  <2> QED BY <2>3 DEF Surjection
<1>7. ASSUME NEW a \in 1..n, NEW b \in 1..n, a < b PROVE p[a] \in A[p[b]]
  <2>1. p[a] \in 1..n /\ p[b] \in 1..n /\ Cardinality(A[p[a]]) = a - 1 /\ Cardinality(A[p[b]]) = b - 1
    BY <1>3
  <2>2. a - 1 < b - 1
    BY <1>7
  <2>3. Cardinality(A[p[a]]) < Cardinality(A[p[b]])
    BY <2>1, <2>2
  <2> QED BY <2>1, <2>3, RanksRise
<1>8. InOrder(l, list, n, A)
  BY <1>1, <1>4, <1>5, <1>6, <1>7, Zenon DEF InOrder
<1> QED BY <1>8 DEF l

LEMMA ItemsInOrder ==
    ASSUME NEW S, NEW list \in Seq(S), NEW A, NEW l, InOrder(l, list, Len(list), A)
    PROVE  /\ l \in Seq(S) /\ Len(l) = Len(list) /\ ToSet(l) = ToSet(list)
           /\ IsInjective(list) => IsInjective(l)
           /\ \A a, b \in 1..Len(list) : a < b =>
                 \E i, j \in 1..Len(list) : l[a] = list[i] /\ l[b] = list[j] /\ i \in A[j]
<1>1. PICK n \in Nat : n = Len(list) /\ DOMAIN list = 1..n /\ \A i \in 1..n : list[i] \in S
  OBVIOUS
<1>2. PICK p \in [1..n -> 1..n] :
        /\ l = [m \in 1..n |-> list[p[m]]]
        /\ \A i \in 1..n : \E m \in 1..n : p[m] = i
        /\ \A a, b \in 1..n : p[a] = p[b] => a = b
        /\ \A a, b \in 1..n : a < b => p[a] \in A[p[b]]
  BY <1>1 DEF InOrder
<1>3. \A m \in 1..n : p[m] \in 1..n /\ l[m] = list[p[m]]
  BY <1>2
<1>4. DOMAIN l = 1..n /\ l \in Seq(S) /\ Len(l) = n
  <2>1. l \in [1..n -> S]
    BY <1>1, <1>2, <1>3
  <2> QED BY <2>1
<1>5. ToSet(l) = ToSet(list)
  <2>1. \A m \in 1..n : l[m] \in ToSet(list)
    BY <1>1, <1>3 DEF ToSet
  <2>2. ASSUME NEW i \in 1..n PROVE list[i] \in ToSet(l)
    <3>1. PICK m \in 1..n : p[m] = i
      BY <1>2
    <3> QED BY <1>3, <1>4, <3>1 DEF ToSet
  <2> QED BY <1>1, <1>4, <2>1, <2>2 DEF ToSet
<1>6. ASSUME IsInjective(list) PROVE IsInjective(l)
  <2>1. ASSUME NEW a \in 1..n, NEW b \in 1..n, l[a] = l[b] PROVE a = b
    <3>1. p[a] = p[b]
      BY <1>1, <1>3, <1>6, <2>1 DEF IsInjective
    <3> QED BY <1>2, <3>1
  <2> QED BY <1>4, <2>1 DEF IsInjective
<1>7. \A a, b \in 1..n : a < b => \E i, j \in 1..n : l[a] = list[i] /\ l[b] = list[j] /\ i \in A[j]
  BY <1>2, <1>3, Zenon
<1> QED BY <1>1, <1>4, <1>5, <1>6, <1>7

(* Items in an order by A are in any order that A agrees with.             *)
Agrees(list, A, R) == \A i, j \in DOMAIN list : i \in A[j] => <<list[j], list[i]>> \notin R
Respects(l, R) == \A a, b \in DOMAIN l : a < b => <<l[b], l[a]>> \notin R

LEMMA InOrderOf ==
    ASSUME NEW S, NEW list \in Seq(S), NEW A, NEW l, InOrder(l, list, Len(list), A), NEW R, Agrees(list, A, R)
    PROVE  /\ l \in Seq(S) /\ Len(l) = Len(list) /\ ToSet(l) = ToSet(list)
           /\ IsInjective(list) => IsInjective(l)
           /\ Respects(l, R)
<1>1. PICK n \in Nat : n = Len(list) /\ DOMAIN list = 1..n
  OBVIOUS
<1>2. /\ l \in Seq(S) /\ Len(l) = Len(list) /\ ToSet(l) = ToSet(list)
      /\ IsInjective(list) => IsInjective(l)
      /\ \A a, b \in 1..Len(list) : a < b =>
            \E i, j \in 1..Len(list) : l[a] = list[i] /\ l[b] = list[j] /\ i \in A[j]
  BY ItemsInOrder
<1>3. DOMAIN l = 1..n
  BY <1>1, <1>2
<1>4. ASSUME NEW a \in 1..n, NEW b \in 1..n, a < b PROVE <<l[b], l[a]>> \notin R
  <2>1. \E i, j \in 1..n : l[a] = list[i] /\ l[b] = list[j] /\ i \in A[j]
    BY <1>1, <1>2, <1>4
  <2> QED BY <1>1, <2>1 DEF Agrees
<1> QED BY <1>2, <1>3, <1>4 DEF Respects

(* What is ranked by the value of its items is in the order of the values. *)
ByValue(list, f) == Ranked(list, LAMBDA c, d : f[c] > f[d])

Falling(l, f) == \A i, j \in DOMAIN l : i < j => f[l[i]] >= f[l[j]]

LEMMA RankedByValue ==
    ASSUME NEW S, NEW list \in Seq(S), NEW f, \A c \in S : f[c] \in Int
    PROVE  /\ ByValue(list, f) \in Seq(S) /\ Len(ByValue(list, f)) = Len(list)
           /\ ToSet(ByValue(list, f)) = ToSet(list)
           /\ IsInjective(list) => IsInjective(ByValue(list, f))
           /\ Falling(ByValue(list, f), f)
<1>1. PICK n \in Nat : n = Len(list) /\ DOMAIN list = 1..n /\ \A i \in 1..n : list[i] \in S
  OBVIOUS
<1> DEFINE Ahead(i) == {j \in 1..n : \/ f[list[j]] > f[list[i]]
                                     \/ (j < i /\ ~(f[list[i]] > f[list[j]]))}
           A == [i \in 1..n |-> Ahead(i)]
           p == [m \in 1..n |-> CHOOSE i \in 1..n : Cardinality(Ahead(i)) = m - 1]
           l == ByValue(list, f)
<1>2. \A i \in 1..n : f[list[i]] \in Int
  BY <1>1
<1>3. StrictOrder(A, n)
  BY <1>2 DEF StrictOrder
<1>4. l = [m \in 1..n |-> list[p[m]]]
  BY <1>1 DEF ByValue, Ranked
<1>5. \A i, j \in 1..n : i \in A[j] => f[list[i]] >= f[list[j]]
  BY <1>2
<1>10. \A i \in 1..n : A[i] = Ahead(i)
  OBVIOUS
<1> HIDE DEF A, Ahead, l
<1>11. \A m \in 1..n : p[m] \in 1..n /\ Cardinality(A[p[m]]) = m - 1
  <2>1. \A m \in 1..n : \E i \in 1..n : Cardinality(Ahead(i)) = m - 1
    BY <1>3, <1>10, RanksAreTaken
  <2>2. \A m \in 1..n : p[m] \in 1..n /\ Cardinality(Ahead(p[m])) = m - 1
    BY <2>1
  <2> QED BY <1>10, <2>2
<1>12. p \in [1..n -> 1..n]
  BY <1>11
<1> HIDE DEF p
<1>6. InOrder(l, list, n, A)
  BY <1>3, <1>4, <1>11, <1>12, PlacesInOrder
<1>7. /\ l \in Seq(S) /\ Len(l) = n /\ ToSet(l) = ToSet(list)
      /\ IsInjective(list) => IsInjective(l)
      /\ \A a, b \in 1..n : a < b =>
            \E i, j \in 1..n : l[a] = list[i] /\ l[b] = list[j] /\ i \in A[j]
  BY <1>1, <1>6, ItemsInOrder
<1>8. DOMAIN l = 1..n
  BY <1>7
<1>9. Falling(l, f)
  <2> SUFFICES ASSUME NEW a \in 1..n, NEW b \in 1..n, a < b PROVE f[l[a]] >= f[l[b]]
    BY <1>8 DEF Falling
  <2>0. \A u, v \in 1..n : u < v => \E i, j \in 1..n : l[u] = list[i] /\ l[v] = list[j] /\ i \in A[j]
    BY <1>7, Zenon
  <2>1. \E i, j \in 1..n : l[a] = list[i] /\ l[b] = list[j] /\ i \in A[j]
    BY <2>0
  <2>3. PICK i \in 1..n : \E j \in 1..n : l[a] = list[i] /\ l[b] = list[j] /\ i \in A[j]
    BY <2>1
  <2>4. PICK j \in 1..n : l[a] = list[i] /\ l[b] = list[j] /\ i \in A[j]
    BY <2>3
  <2>2. f[list[i]] >= f[list[j]]
    BY <1>5, <2>4
  <2> QED BY <2>4, <2>2
<1> QED BY <1>1, <1>7, <1>9 DEF l

(* What is ranked by score is what was there, each in one place.           *)
ByScore(list) == Ranked(list, LAMBDA g, h : g.score > h.score)

LEMMA RankedByScore ==
    ASSUME NEW S, NEW list \in Seq(S), \A h \in S : h.score \in Int
    PROVE  /\ ByScore(list) \in Seq(S) /\ Len(ByScore(list)) = Len(list)
           /\ ToSet(ByScore(list)) = ToSet(list)
           /\ IsInjective(list) => IsInjective(ByScore(list))
           /\ \A i, j \in DOMAIN list : i < j => ByScore(list)[i].score >= ByScore(list)[j].score
<1> DEFINE f == [h \in S |-> h.score]
           l == ByValue(list, f)
<1>1. \A c \in S : f[c] \in Int /\ f[c] = c.score
  OBVIOUS
<1>2. PICK n \in Nat : n = Len(list) /\ DOMAIN list = 1..n /\ \A i \in 1..n : list[i] \in S
  OBVIOUS
<1>3. ByScore(list) = l
  <2> DEFINE Ahead(i) == {j \in 1..n : list[j].score > list[i].score \/ (j < i /\ ~(list[i].score > list[j].score))}
             Nearer(i) == {j \in 1..n : f[list[j]] > f[list[i]] \/ (j < i /\ ~(f[list[i]] > f[list[j]]))}
             p == [m \in 1..n |-> CHOOSE i \in 1..n : Cardinality(Ahead(i)) = m - 1]
             q == [m \in 1..n |-> CHOOSE i \in 1..n : Cardinality(Nearer(i)) = m - 1]
  <2>1. \A i \in 1..n : Ahead(i) = Nearer(i)
    BY <1>1, <1>2
  <2>2. ByScore(list) = [m \in 1..n |-> list[p[m]]]
    BY <1>2 DEF ByScore, Ranked
  <2>3. l = [m \in 1..n |-> list[q[m]]]
    BY <1>2 DEF ByValue, Ranked
  <2> HIDE DEF Ahead, Nearer, f
  <2>4. \A m \in 1..n : p[m] = q[m]
    BY <2>1
  <2> HIDE DEF p, q, l
  <2> QED BY <2>2, <2>3, <2>4
<1> HIDE DEF f
<1>4. /\ l \in Seq(S) /\ Len(l) = Len(list) /\ ToSet(l) = ToSet(list)
      /\ IsInjective(list) => IsInjective(l)
      /\ Falling(l, f)
  BY <1>1, RankedByValue
<1>5. \A i, j \in DOMAIN list : i < j => l[i].score >= l[j].score
  <2> HIDE DEF l
  <2>1. DOMAIN l = DOMAIN list /\ \A i \in DOMAIN list : l[i] \in S
    BY <1>4
  <2> QED BY <1>1, <1>4, <2>1 DEF Falling
<1> QED BY <1>3, <1>4, <1>5

(* The items at some places of a list: each of them once, in their order.  *)
Picked(l, list, K) ==
    \E p \in [1..Cardinality(K) -> K] :
        /\ l = [m \in 1..Cardinality(K) |-> list[p[m]]]
        /\ \A i \in K : \E m \in 1..Cardinality(K) : p[m] = i
        /\ \A a, b \in 1..Cardinality(K) : a < b => p[a] < p[b]

LEMMA AtHolds ==
    ASSUME NEW n \in Nat, NEW K \in SUBSET (1..n), NEW list
    PROVE  Cardinality(K) \in 0..n /\ Picked(At(list, K), list, K)
<1> DEFINE k == Cardinality(K)
           Upto(i) == {j \in K : j <= i}
           r == [i \in K |-> Cardinality(Upto(i))]
           p == [m \in 1..k |-> CHOOSE i \in K : Cardinality(Upto(i)) = m]
<1>0. \A i \in K : i \in Int
  OBVIOUS
<1>1. IsFiniteSet(K) /\ k \in Nat /\ k <= n
  <2>1. IsFiniteSet(1..n) /\ Cardinality(1..n) = n
    BY FS_Interval
  <2> QED BY <2>1, FS_Subset, FS_CardinalityType
<1>2. \A i \in K : IsFiniteSet(Upto(i)) /\ Cardinality(Upto(i)) \in 1..k
  <2> TAKE i \in K
  <2>1. Upto(i) \in SUBSET K /\ i \in Upto(i)
    OBVIOUS
  <2> HIDE DEF Upto
  <2>2. IsFiniteSet(Upto(i)) /\ Cardinality(Upto(i)) \in Nat /\ Cardinality(Upto(i)) <= k
    BY <1>1, <2>1, FS_Subset, FS_CardinalityType
  <2>3. Cardinality(Upto(i)) # 0
    BY <2>1, <2>2, FS_EmptySet
  <2> QED BY <1>1, <2>2, <2>3
<1>3. ASSUME NEW i \in K, NEW j \in K, i < j PROVE Cardinality(Upto(i)) < Cardinality(Upto(j))
  <2>0. i \in Int /\ j \in Int
    BY <1>0
  <2>1. Upto(i) \in SUBSET Upto(j) /\ j \in Upto(j) /\ j \notin Upto(i)
    <3>1. \A m \in K : m <= i => m <= j
      BY <1>0, <1>3, <2>0
    <3>2. j <= j /\ ~(j <= i)
      BY <1>3, <2>0
    <3> QED BY <3>1, <3>2
  <2> HIDE DEF Upto
  <2>2. Upto(i) # Upto(j)
    BY <2>1
  <2>3. Cardinality(Upto(i)) <= Cardinality(Upto(j)) /\ Cardinality(Upto(i)) # Cardinality(Upto(j))
    BY <1>2, <2>1, <2>2, FS_Subset
  <2> QED BY <1>2, <2>3
<1>4. At(list, K) = [m \in 1..k |-> list[p[m]]]
  BY DEF At
<1> HIDE DEF k
<1>5. \A m \in 1..k : \E i \in K : Cardinality(Upto(i)) = m
  <2> HIDE DEF Upto
  <2>1. r \in [K -> 1..k]
    BY <1>2
  <2>2. \A i, j \in K : i # j => r[i] # r[j]
    <3> SUFFICES ASSUME NEW i \in K, NEW j \in K, i # j PROVE r[i] # r[j]
      OBVIOUS
    <3>1. i < j \/ j < i
      OBVIOUS
    <3>2. Cardinality(Upto(i)) \in Nat /\ Cardinality(Upto(j)) \in Nat
      BY <1>1, <1>2
    <3> QED BY <1>3, <3>1, <3>2
  <2>3. r \in Injection(K, 1..k)
    BY <2>1, <2>2 DEF Injection, IsInjective
  <2>4. IsFiniteSet(1..k) /\ Cardinality(1..k) = k
    BY <1>1, FS_Interval
  <2>5. r \in Surjection(K, 1..k)
    <3>1. Cardinality(1..k) = Cardinality(K)
      BY <2>4 DEF k
    <3> QED BY <1>1, <2>3, <2>4, <3>1, FS_Injection
  <2> QED BY <2>5 DEF Surjection
<1> HIDE DEF Upto
<1>6. \A m \in 1..k : p[m] \in K /\ Cardinality(Upto(p[m])) = m
  BY <1>5
<1>7. p \in [1..k -> K]
  BY <1>6
<1> HIDE DEF p
<1>8. \A i \in K : \E m \in 1..k : p[m] = i
  <2> TAKE i \in K
  <2> DEFINE m == Cardinality(Upto(i))
  <2>1. m \in 1..k
    BY <1>2
  <2>2. Cardinality(Upto(p[m])) = m /\ p[m] \in K
    BY <1>6, <2>1
  <2>3. ~(p[m] < i) /\ ~(i < p[m])
    <3>1. m \in Int
      BY <1>1, <2>1
    <3>2. p[m] < i => Cardinality(Upto(p[m])) < m
      BY <1>3, <2>2
    <3>3. i < p[m] => m < Cardinality(Upto(p[m]))
      BY <1>3, <2>2
    <3> QED BY <2>2, <3>1, <3>2, <3>3
  <2>4. p[m] = i
    <3>1. p[m] \in Int /\ i \in Int
      BY <1>0, <2>2
    <3> QED BY <2>3, <3>1
  <2> QED BY <2>1, <2>4
<1>9. \A a, b \in 1..k : a < b => p[a] < p[b]
  <2> SUFFICES ASSUME NEW a \in 1..k, NEW b \in 1..k, a < b PROVE p[a] < p[b]
    OBVIOUS
  <2>1. p[a] \in K /\ p[b] \in K /\ Cardinality(Upto(p[a])) = a /\ Cardinality(Upto(p[b])) = b
    BY <1>6
  <2>2. p[b] < p[a] => b < a
    BY <1>3, <2>1
  <2>3. p[a] \in Int /\ p[b] \in Int /\ p[a] # p[b]
    <3>1. a # b
      BY <1>1
    <3>2. p[a] # p[b]
      BY <2>1, <3>1, Zenon
    <3> QED BY <1>0, <2>1, <3>2
  <2> QED BY <1>1, <2>2, <2>3
<1>10. Picked(At(list, K), list, K)
  BY <1>4, <1>7, <1>8, <1>9 DEF Picked, k
<1> QED BY <1>1, <1>10 DEF k

(* What is picked from a list of distinct items are distinct items of it.  *)
LEMMA PickedItems ==
    ASSUME NEW S, NEW list \in Seq(S), NEW K \in SUBSET (1..Len(list))
    PROVE  /\ At(list, K) \in Seq(S) /\ Len(At(list, K)) = Cardinality(K)
           /\ ToSet(At(list, K)) = {list[i] : i \in K}
           /\ IsInjective(list) => IsInjective(At(list, K))
           /\ At(list, K) = <<>> <=> K = {}
           /\ \A a, b \in DOMAIN At(list, K) : a < b =>
                 \E i, j \in K : i < j /\ At(list, K)[a] = list[i] /\ At(list, K)[b] = list[j]
<1> DEFINE l == At(list, K)
           k == Cardinality(K)
<1>1. Len(list) \in Nat /\ DOMAIN list = 1..Len(list) /\ \A i \in K : list[i] \in S
  OBVIOUS
<1>2. k \in 0..Len(list) /\ Picked(l, list, K)
  BY <1>1, AtHolds
<1>3. k = 0 <=> K = {}
  <2>1. IsFiniteSet(1..Len(list))
    BY <1>1, FS_Interval
  <2> QED BY <2>1, FS_Subset, FS_EmptySet
<1>4. PICK p \in [1..k -> K] :
        /\ l = [m \in 1..k |-> list[p[m]]]
        /\ \A i \in K : \E m \in 1..k : p[m] = i
        /\ \A a, b \in 1..k : a < b => p[a] < p[b]
  BY <1>2 DEF Picked
<1> HIDE DEF l, k
<1>5. k \in Nat /\ \A m \in 1..k : p[m] \in K
  BY <1>2
<1>6. l \in Seq(S) /\ Len(l) = k
  <2>1. \A m \in 1..k : list[p[m]] \in S
    BY <1>1, <1>5
  <2> QED BY <1>4, <1>5, <2>1
<1>7. DOMAIN l = 1..k
  BY <1>4
<1>8. ToSet(l) = {list[i] : i \in K}
  <2>1. \A x \in ToSet(l) : x \in {list[i] : i \in K}
    BY <1>4, <1>5, <1>7 DEF ToSet
  <2>2. ASSUME NEW i \in K PROVE list[i] \in ToSet(l)
    <3>1. PICK m \in 1..k : p[m] = i
      BY <1>4
    <3> QED BY <1>4, <1>7, <3>1 DEF ToSet
  <2> QED BY <2>1, <2>2
<1>9. ASSUME IsInjective(list) PROVE IsInjective(l)
  <2>1. ASSUME NEW a \in 1..k, NEW b \in 1..k, l[a] = l[b] PROVE a = b
    <3>0. p[a] \in 1..Len(list) /\ p[b] \in 1..Len(list) /\ list[p[a]] = list[p[b]]
      <4>1. l[a] = list[p[a]] /\ l[b] = list[p[b]]
        BY <1>4
      <4> QED BY <1>5, <2>1, <4>1
    <3>1. p[a] = p[b]
      BY <1>1, <1>9, <3>0 DEF IsInjective
    <3>2. p[a] \in Int /\ p[b] \in Int
      BY <1>1, <3>0
    <3>3. ~(a < b) /\ ~(b < a)
      BY <1>4, <3>1, <3>2
    <3> QED BY <1>5, <3>3
  <2> QED BY <1>7, <2>1 DEF IsInjective
<1>10. l = <<>> <=> K = {}
  BY <1>3, <1>6
<1>11. ASSUME NEW a \in DOMAIN l, NEW b \in DOMAIN l, a < b
       PROVE  \E i, j \in K : i < j /\ l[a] = list[i] /\ l[b] = list[j]
  <2>1. a \in 1..k /\ b \in 1..k /\ p[a] \in K /\ p[b] \in K /\ l[a] = list[p[a]] /\ l[b] = list[p[b]]
    BY <1>4, <1>5, <1>7
  <2>2. p[a] < p[b]
    BY <1>4, <1>11, <2>1
  <2> QED BY <2>1, <2>2
<1> QED BY <1>6, <1>8, <1>9, <1>10, <1>11 DEF l, k

-----------------------------------------------------------------------------
(* Lists in a row make a list of what they hold.                           *)

IsFlattened(f, seqs) == f = [i \in 1..Len(seqs) |-> IF i = 1 THEN seqs[i] ELSE f[i - 1] \o seqs[i]]

LEMMA FlattenedExists == ASSUME NEW seqs, Len(seqs) \in Nat PROVE \E f : IsFlattened(f, seqs)
<1> DEFINE n == Len(seqs)
           Next1(f) == [i \in 1..n |-> IF i = 1 THEN seqs[i] ELSE f[i - 1] \o seqs[i]]
           Good(f, m) == \A i \in 1..n : i <= m => f[i] = Next1(f)[i]
           N == {m \in Nat : \E f : f = [i \in 1..n |-> f[i]] /\ Good(f, m)}
<1>1. 0 \in N
  <2> DEFINE f == [i \in 1..n |-> i]
  <2>1. \A i \in 1..n : ~(i <= 0)
    OBVIOUS
  <2>2. f = [i \in 1..n |-> f[i]] /\ Good(f, 0)
    BY <2>1
  <2> HIDE DEF f, Good
  <2> QED BY <2>2
<1>2. ASSUME NEW m \in Nat, m \in N PROVE m + 1 \in N
  <2>1. PICK f : f = [i \in 1..n |-> f[i]] /\ Good(f, m)
    BY <1>2
  <2> DEFINE g == Next1(f)
  <2>2. \A i \in 1..n : i <= m => g[i] = f[i]
    BY <2>1
  <2>3. \A i \in 1..n : i <= m + 1 => g[i] = Next1(g)[i]
    <3> SUFFICES ASSUME NEW i \in 1..n, i <= m + 1 PROVE g[i] = Next1(g)[i]
      OBVIOUS
    <3>1. CASE i = 1
      BY <3>1
    <3>2. CASE i # 1
      <4>1. i - 1 \in 1..n /\ i - 1 <= m
        BY <3>2
      <4>2. g[i - 1] = f[i - 1]
        BY <2>2, <4>1
      <4> QED BY <3>2, <4>2
    <3> QED BY <3>1, <3>2
  <2>4. g = [i \in 1..n |-> g[i]] /\ Good(g, m + 1)
    BY <2>3
  <2> HIDE DEF g, Good
  <2> QED BY <2>4
<1> HIDE DEF N
<1>3. n \in N
  BY <1>1, <1>2, NatSteps
<1>4. PICK f : f = [i \in 1..n |-> f[i]] /\ Good(f, n)
  BY <1>3 DEF N
<1>5. f = Next1(f)
  <2>1. \A i \in 1..n : i <= n
    OBVIOUS
  <2>2. \A i \in 1..n : f[i] = Next1(f)[i]
    BY <1>4, <2>1
  <2> QED BY <1>4, <2>2
<1> QED BY <1>5 DEF IsFlattened

LEMMA FlattenedHolds ==
    ASSUME NEW S, NEW n \in Nat \ {0}, NEW seqs, seqs \in [1..n -> Seq(S)]
    PROVE  FlattenSeq(seqs) \in Seq(S)
<1>1. Len(seqs) = n
  BY SeqDef
<1> DEFINE f == CHOOSE f : IsFlattened(f, seqs)
           N == {m \in Nat : m + 1 \in 1..n => f[m + 1] \in Seq(S)}
<1>2. IsFlattened(f, seqs)
  BY <1>1, FlattenedExists
<1>3. FlattenSeq(seqs) = f[n]
  BY <1>1 DEF FlattenSeq, IsFlattened
<1> HIDE DEF f
<1>4. 0 \in N
  BY <1>1, <1>2 DEF IsFlattened
<1>5. ASSUME NEW m \in Nat, m \in N PROVE m + 1 \in N
  <2> SUFFICES ASSUME m + 2 \in 1..n PROVE f[m + 2] \in Seq(S)
    OBVIOUS
  <2>1. m + 1 \in 1..n /\ f[m + 1] \in Seq(S) /\ seqs[m + 2] \in Seq(S)
    BY <1>5
  <2>2. f[m + 2] = f[m + 1] \o seqs[m + 2]
    <3>1. m + 2 # 1 /\ (m + 2) - 1 = m + 1
      OBVIOUS
    <3> QED BY <1>1, <1>2, <3>1 DEF IsFlattened
  <2> QED BY <2>1, <2>2, ConcatProperties
<1> HIDE DEF N
<1>6. n - 1 \in Nat /\ n - 1 \in N
  <2>1. \A m \in Nat : m \in N
    BY <1>4, <1>5, NatSteps
  <2> QED BY <2>1
<1>7. f[n] \in Seq(S)
  BY <1>6 DEF N
<1> QED BY <1>3, <1>7

LEMMA FlattenOfNone == FlattenSeq(<<>>) = <<>>
<1>1. Len(<<>>) = 0
  OBVIOUS
<1> QED BY <1>1 DEF FlattenSeq

LEMMA FlattenOfOne == ASSUME NEW S, NEW a \in Seq(S) PROVE FlattenSeq(<<a>>) = a
<1> DEFINE seqs == <<a>>
           f == CHOOSE f : IsFlattened(f, seqs)
<1>1. Len(seqs) = 1 /\ seqs[1] = a /\ 1 \in 1..1
  OBVIOUS
<1> HIDE DEF seqs
<1>2. IsFlattened(f, seqs)
  BY <1>1, FlattenedExists
<1>3. FlattenSeq(seqs) = f[1]
  BY <1>1 DEF FlattenSeq, IsFlattened
<1> HIDE DEF f
<1>4. f[1] = a
  BY <1>1, <1>2 DEF IsFlattened
<1> QED BY <1>3, <1>4 DEF seqs

LEMMA FlattenOfTwo == ASSUME NEW S, NEW a \in Seq(S), NEW b \in Seq(S) PROVE FlattenSeq(<<a, b>>) = a \o b
<1> DEFINE seqs == <<a, b>>
           f == CHOOSE f : IsFlattened(f, seqs)
<1>1. Len(seqs) = 2 /\ seqs[1] = a /\ seqs[2] = b /\ 1 \in 1..2 /\ 2 \in 1..2 /\ 2 - 1 = 1 /\ 2 # 1
  OBVIOUS
<1> HIDE DEF seqs
<1>2. IsFlattened(f, seqs)
  BY <1>1, FlattenedExists
<1>3. FlattenSeq(seqs) = f[2]
  BY <1>1 DEF FlattenSeq, IsFlattened
<1> HIDE DEF f
<1>4. f[1] = a
  BY <1>1, <1>2 DEF IsFlattened
<1>5. f[2] = f[1] \o b
  BY <1>1, <1>2 DEF IsFlattened
<1> QED BY <1>3, <1>4, <1>5 DEF seqs

(* Each item once: what is left of a list holds nothing twice, and nothing *)
(* that was not there.                                                     *)
More(seen, c) == IF Contains(seen, c) THEN seen ELSE Append(seen, c)

IsDistinct(g, list) ==
    g = [s \in SUBSET DOMAIN list |-> IF s = {} THEN <<>> ELSE More(g[s \ {Max(s)}], list[Max(s)])]

LEMMA DistinctIs == ASSUME NEW list PROVE Distinct(list) = (CHOOSE g : IsDistinct(g, list))[DOMAIN list]
BY DEF Distinct, FoldLeft, MapThenFoldSet, IsDistinct, More

LEMMA DistinctExists == ASSUME NEW n \in Nat, NEW list, DOMAIN list = 1..n PROVE \E g : IsDistinct(g, list)
<1> DEFINE Next1(g) == [s \in SUBSET (1..n) |-> IF s = {} THEN <<>> ELSE More(g[s \ {Max(s)}], list[Max(s)])]
           Good(g, m) == \A s \in SUBSET (1..n) : Cardinality(s) <= m => g[s] = Next1(g)[s]
           N == {m \in Nat : \E g : g = [s \in SUBSET (1..n) |-> g[s]] /\ Good(g, m)}
<1>0. \A s \in SUBSET (1..n) : IsFiniteSet(s) /\ Cardinality(s) \in Nat /\ (Cardinality(s) = 0 <=> s = {})
  <2>1. IsFiniteSet(1..n)
    BY FS_Interval
  <2> QED BY <2>1, FS_Subset, FS_CardinalityType, FS_EmptySet
<1>1. 0 \in N
  <2> DEFINE g == [s \in SUBSET (1..n) |-> <<>>]
  <2>1. g = [s \in SUBSET (1..n) |-> g[s]] /\ Good(g, 0)
    BY <1>0
  <2> HIDE DEF g, Good
  <2> QED BY <2>1
<1>2. ASSUME NEW m \in Nat, m \in N PROVE m + 1 \in N
  <2>1. PICK g : g = [s \in SUBSET (1..n) |-> g[s]] /\ Good(g, m)
    BY <1>2
  <2> DEFINE h == Next1(g)
  <2>2. ASSUME NEW s \in SUBSET (1..n), Cardinality(s) <= m + 1 PROVE h[s] = Next1(h)[s]
    <3>1. CASE s = {}
      BY <3>1
    <3>2. CASE s # {}
      <4> DEFINE u == s \ {Max(s)}
      <4>1. Max(s) \in s
        BY <3>2, MaxOfPlaces
      <4>2. u \in SUBSET (1..n) /\ Cardinality(u) <= m
        <5>1. IsFiniteSet(s) /\ Cardinality(s) \in Nat
          BY <1>0
        <5>2. Cardinality(u) = Cardinality(s) - 1
          BY <4>1, <5>1, FS_RemoveElement
        <5>3. Cardinality(u) <= m
          <6> HIDE DEF u
          <6> QED BY <2>2, <5>1, <5>2
        <5> QED BY <5>3
      <4>3. g[u] = h[u]
        BY <2>1, <4>2
      <4> QED BY <3>2, <4>2, <4>3
    <3> QED BY <3>1, <3>2
  <2>3. h = [s \in SUBSET (1..n) |-> h[s]] /\ Good(h, m + 1)
    BY <2>2
  <2> HIDE DEF h, Good
  <2> QED BY <2>3
<1> HIDE DEF N
<1>3. Cardinality(1..n) \in Nat /\ Cardinality(1..n) \in N
  BY <1>0, <1>1, <1>2, NatSteps
<1>4. PICK g : g = [s \in SUBSET (1..n) |-> g[s]] /\ Good(g, Cardinality(1..n))
  BY <1>3 DEF N
<1>5. \A s \in SUBSET (1..n) : g[s] = Next1(g)[s]
  <2>1. IsFiniteSet(1..n)
    BY FS_Interval
  <2>2. \A s \in SUBSET (1..n) : Cardinality(s) <= Cardinality(1..n)
    BY <2>1, FS_Subset
  <2> QED BY <1>4, <2>2
<1>6. g = Next1(g)
  BY <1>4, <1>5
<1> QED BY <1>6 DEF IsDistinct

LEMMA MoreKeeps ==
    ASSUME NEW S, NEW c \in S, NEW seen \in Seq(S), IsInjective(seen)
    PROVE  /\ More(seen, c) \in Seq(S) /\ IsInjective(More(seen, c))
           /\ ToSet(More(seen, c)) = ToSet(seen) \cup {c}
<1>0. DOMAIN seen = 1..Len(seen) /\ Len(seen) \in Nat
  OBVIOUS
<1>1. CASE Contains(seen, c)
  <2>1. c \in ToSet(seen)
    BY <1>0, <1>1 DEF Contains, ToSet
  <2> QED BY <1>1, <2>1 DEF More
<1>2. CASE ~Contains(seen, c)
  <2>1. \A i \in 1..Len(seen) : seen[i] # c
    BY <1>2 DEF Contains
  <2>2. /\ Append(seen, c) \in Seq(S) /\ DOMAIN Append(seen, c) = 1..Len(seen) + 1
        /\ \A i \in 1..Len(seen) : Append(seen, c)[i] = seen[i]
        /\ Append(seen, c)[Len(seen) + 1] = c
    BY AppendProperties
  <2> DEFINE a == Append(seen, c)
  <2> HIDE DEF a
  <2>4. ASSUME NEW i \in 1..Len(seen) + 1, NEW j \in 1..Len(seen) + 1, a[i] = a[j] PROVE i = j
    <3>1. CASE i \in 1..Len(seen) /\ j \in 1..Len(seen)
      BY <1>0, <2>2, <2>4, <3>1 DEF IsInjective, a
    <3>2. CASE i = Len(seen) + 1 /\ j \in 1..Len(seen)
      BY <2>1, <2>2, <2>4, <3>2 DEF a
    <3>3. CASE j = Len(seen) + 1 /\ i \in 1..Len(seen)
      BY <2>1, <2>2, <2>4, <3>3 DEF a
    <3> QED BY <1>0, <3>1, <3>2, <3>3
  <2>5. IsInjective(a)
    BY <2>2, <2>4 DEF IsInjective, a
  <2>6. ToSet(a) = ToSet(seen) \cup {c}
    <3>1. \A i \in 1..Len(seen) + 1 : i = Len(seen) + 1 \/ i \in 1..Len(seen)
      BY <1>0
    <3>2. \A i \in 1..Len(seen) : i \in 1..Len(seen) + 1
      BY <1>0
    <3>3. Len(seen) + 1 \in 1..Len(seen) + 1
      BY <1>0
    <3>4. DOMAIN a = 1..Len(seen) + 1 /\ (\A i \in 1..Len(seen) : a[i] = seen[i]) /\ a[Len(seen) + 1] = c
      BY <2>2 DEF a
    <3>5. \A x \in ToSet(a) : x \in ToSet(seen) \cup {c}
      BY <1>0, <3>1, <3>4 DEF ToSet
    <3>6. \A x \in ToSet(seen) \cup {c} : x \in ToSet(a)
      BY <1>0, <3>2, <3>3, <3>4 DEF ToSet
    <3> QED BY <3>5, <3>6
  <2> QED BY <1>2, <2>2, <2>5, <2>6 DEF More, a
<1> QED BY <1>1, <1>2

(* The list is gone through from its first item to its last.               *)
Stepwise(d, list, n) == d[0] = <<>> /\ \A m \in 0..n - 1 : d[m + 1] = More(d[m], list[m + 1])

LEMMA DistinctSteps ==
    ASSUME NEW n \in Nat, NEW list, DOMAIN list = 1..n
    PROVE  \E d : Stepwise(d, list, n) /\ Distinct(list) = d[n]
<1> DEFINE g == CHOOSE g : IsDistinct(g, list)
           d == [m \in 0..n |-> g[1..m]]
<1>1. IsDistinct(g, list) /\ Distinct(list) = g[1..n]
  BY DistinctExists, DistinctIs
<1> HIDE DEF g
<1>2. d[0] = <<>>
  <2>1. 1..0 = {}
    OBVIOUS
  <2>2. g[{}] = <<>>
    BY <1>1 DEF IsDistinct
  <2> QED BY <2>1, <2>2
<1>3. ASSUME NEW m \in 0..n - 1 PROVE d[m + 1] = More(d[m], list[m + 1])
  <2>1. Max(1..m + 1) = m + 1
    <3>1. (1..m + 1) # {} /\ 1..m + 1 \in SUBSET (1..m + 1)
      OBVIOUS
    <3> DEFINE x == Max(1..m + 1)
    <3> HIDE DEF x
    <3>2. m + 1 \in Nat
      OBVIOUS
    <3>3. x \in 1..m + 1 /\ \A y \in 1..m + 1 : y <= x
      BY <3>1, <3>2, MaxOfPlaces DEF x
    <3>4. x = m + 1
      BY <3>3
    <3> QED BY <3>4 DEF x
  <2>2. (1..m + 1) \ {m + 1} = 1..m /\ (1..m + 1) # {} /\ 1..m + 1 \in SUBSET (1..n)
    <3>1. (1..m + 1) \ {m + 1} = 1..m
      OBVIOUS
    <3>2. 1 \in 1..m + 1
      OBVIOUS
    <3>3. \A i \in 1..m + 1 : i \in 1..n
      OBVIOUS
    <3> QED BY <3>1, <3>2, <3>3
  <2>3. g[1..m + 1] = More(g[1..m], list[m + 1])
    BY <1>1, <2>1, <2>2 DEF IsDistinct
  <2>4. m \in 0..n /\ m + 1 \in 0..n
    OBVIOUS
  <2> QED BY <2>3, <2>4
<1>4. d[n] = g[1..n]
  OBVIOUS
<1> HIDE DEF d
<1> QED BY <1>1, <1>2, <1>3, <1>4 DEF Stepwise

LEMMA DistinctHolds ==
    ASSUME NEW S, NEW list \in Seq(S)
    PROVE  Distinct(list) \in Seq(S) /\ IsInjective(Distinct(list)) /\ ToSet(Distinct(list)) = ToSet(list)
<1>1. PICK n \in Nat : n = Len(list) /\ DOMAIN list = 1..n
  OBVIOUS
<1>2. PICK d : Stepwise(d, list, n) /\ Distinct(list) = d[n]
  BY <1>1, DistinctSteps
<1> DEFINE Once(m) == d[m] \in Seq(S) /\ IsInjective(d[m]) /\ ToSet(d[m]) = {list[i] : i \in 1..m}
           N == {m \in Nat : m <= n => Once(m)}
<1>3. 0 \in N
  <2>1. 1..0 = {} /\ d[0] = <<>>
    BY <1>2 DEF Stepwise
  <2>2. <<>> \in Seq(S) /\ IsInjective(<<>>) /\ ToSet(<<>>) = {}
    BY DEF IsInjective, ToSet
  <2> QED BY <2>1, <2>2
<1>4. ASSUME NEW m \in Nat, m \in N PROVE m + 1 \in N
  <2> SUFFICES ASSUME m + 1 <= n PROVE Once(m + 1)
    OBVIOUS
  <2>1. m \in 0..n - 1 /\ m + 1 \in 1..n
    OBVIOUS
  <2>2. Once(m) /\ list[m + 1] \in S
    BY <1>1, <1>4, <2>1
  <2>3. d[m + 1] = More(d[m], list[m + 1])
    BY <1>2, <2>1 DEF Stepwise
  <2>4. d[m + 1] \in Seq(S) /\ IsInjective(d[m + 1]) /\ ToSet(d[m + 1]) = ToSet(d[m]) \cup {list[m + 1]}
    BY <2>2, <2>3, MoreKeeps
  <2>5. {list[i] : i \in 1..m + 1} = {list[i] : i \in 1..m} \cup {list[m + 1]}
    <3>1. \A i : i \in 1..m + 1 <=> i \in 1..m \/ i = m + 1
      OBVIOUS
    <3> QED BY <3>1
  <2> QED BY <2>2, <2>4, <2>5
<1> HIDE DEF N
<1>5. n \in N
  BY <1>3, <1>4, NatSteps
<1>6. Once(n)
  BY <1>5 DEF N
<1>7. ToSet(list) = {list[i] : i \in 1..n}
  BY <1>1 DEF ToSet
<1> QED BY <1>2, <1>6, <1>7

LEMMA DistinctOfMore ==
    ASSUME NEW S, NEW list \in Seq(S), NEW c \in S
    PROVE  Distinct(Append(list, c)) = More(Distinct(list), c)
<1>1. PICK n \in Nat : n = Len(list) /\ DOMAIN list = 1..n
  OBVIOUS
<1> DEFINE more == Append(list, c)
<1>2. DOMAIN more = 1..n + 1 /\ more[n + 1] = c /\ \A i \in 1..n : more[i] = list[i]
  BY <1>1, AppendProperties
<1> HIDE DEF more
<1>3. PICK d : Stepwise(d, list, n) /\ Distinct(list) = d[n]
  BY <1>1, DistinctSteps
<1>4. PICK e : Stepwise(e, more, n + 1) /\ Distinct(more) = e[n + 1]
  <2>1. n + 1 \in Nat
    OBVIOUS
  <2> QED BY <1>2, <2>1, DistinctSteps
<1> DEFINE N == {m \in Nat : m <= n => d[m] = e[m]}
<1>5. 0 \in N
  BY <1>3, <1>4 DEF Stepwise
<1>6. ASSUME NEW m \in Nat, m \in N PROVE m + 1 \in N
  <2> SUFFICES ASSUME m + 1 <= n PROVE d[m + 1] = e[m + 1]
    OBVIOUS
  <2>1. m \in 0..n - 1 /\ m \in 0..(n + 1) - 1 /\ m + 1 \in 1..n /\ d[m] = e[m]
    BY <1>6
  <2>2. d[m + 1] = More(d[m], list[m + 1]) /\ e[m + 1] = More(e[m], more[m + 1])
    BY <1>3, <1>4, <2>1 DEF Stepwise
  <2> QED BY <1>2, <2>1, <2>2
<1> HIDE DEF N
<1>7. n \in N
  BY <1>5, <1>6, NatSteps
<1>8. d[n] = e[n]
  BY <1>7 DEF N
<1>9. e[n + 1] = More(e[n], more[n + 1])
  <2>1. n \in 0..(n + 1) - 1
    OBVIOUS
  <2> QED BY <1>4, <2>1 DEF Stepwise
<1> QED BY <1>2, <1>3, <1>4, <1>8, <1>9 DEF more

(* A list that names nothing twice is as long as the set of what it names. *)
LEMMA LengthOfDistinct ==
    ASSUME NEW S, NEW list \in Seq(S), IsInjective(list)
    PROVE  IsFiniteSet(ToSet(list)) /\ Cardinality(ToSet(list)) = Len(list)
<1>1. PICK n \in Nat : n = Len(list) /\ list \in [1..n -> S]
  OBVIOUS
<1>2. ToSet(list) = {list[i] : i \in 1..n}
  BY <1>1 DEF ToSet
<1> DEFINE T == ToSet(list)
<1>3. \A i \in 1..n : list[i] \in T
  BY <1>2
<1>4. \A x \in T : \E i \in 1..n : list[i] = x
  BY <1>2
<1> HIDE DEF T
<1>5. list \in [1..n -> T]
  BY <1>1, <1>3
<1>6. \A a, b \in 1..n : list[a] = list[b] => a = b
  BY <1>1 DEF IsInjective
<1>7. list \in Bijection(1..n, T)
  BY <1>4, <1>5, <1>6 DEF Bijection, Injection, Surjection, IsInjective
<1>8. ExistsBijection(1..n, T)
  BY <1>7 DEF ExistsBijection
<1>9. IsFiniteSet(1..n) /\ Cardinality(1..n) = n
  BY FS_Interval
<1>10. IsFiniteSet(T) /\ Cardinality(T) = Cardinality(1..n)
  BY <1>8, <1>9, FS_Bijection
<1> QED BY <1>1, <1>9, <1>10 DEF T

-----------------------------------------------------------------------------
(* Lists cut and joined.                                                   *)

(* A list that is the first of another.                                    *)
FirstOf(cut, list) == \E k \in 0..Len(list) : cut = [i \in 1..k |-> list[i]]

LEMMA CutHolds ==
    ASSUME NEW S, NEW list \in Seq(S), NEW n \in Nat
    PROVE  UpTo(list, n) \in Seq(S) /\ FirstOf(UpTo(list, n), list)
<1> DEFINE k == IF n < Len(list) THEN n ELSE Len(list)
<1>1. k \in 0..Len(list) /\ UpTo(list, n) = SubSeq(list, 1, k)
  BY DEF UpTo
<1> HIDE DEF k
<1>2. /\ SubSeq(list, 1, k) \in Seq(S)
      /\ Len(SubSeq(list, 1, k)) = k
      /\ \A i \in 1..k : SubSeq(list, 1, k)[i] = list[i]
  BY <1>1
<1>3. SubSeq(list, 1, k) = [i \in 1..k |-> list[i]]
  BY <1>1, <1>2
<1> QED BY <1>1, <1>2, <1>3 DEF FirstOf
LEMMA CutLength ==
    ASSUME NEW S, NEW list \in Seq(S), NEW n \in Nat
    PROVE  /\ Len(UpTo(list, n)) <= n /\ Len(UpTo(list, n)) <= Len(list)
           /\ Len(UpTo(list, n)) = n \/ UpTo(list, n) = list
           /\ DOMAIN UpTo(list, n) = 1..Len(UpTo(list, n)) /\ Len(UpTo(list, n)) \in Nat
           /\ \A i \in 1..Len(UpTo(list, n)) : UpTo(list, n)[i] = list[i]
           /\ ToSet(UpTo(list, n)) \subseteq ToSet(list)
           /\ IsInjective(list) => IsInjective(UpTo(list, n))
<1> DEFINE cut == UpTo(list, n)
<1>1. PICK k \in 0..Len(list) : cut = [i \in 1..k |-> list[i]]
  BY CutHolds DEF FirstOf
<1>2. Len(list) \in Nat /\ DOMAIN list = 1..Len(list) /\ k \in Nat /\ k <= Len(list)
  OBVIOUS
<1>3. cut \in Seq(S)
  BY CutHolds
<1>4. (n < Len(list) => k = n) /\ (~(n < Len(list)) => cut = list)
  <2> DEFINE q == IF n < Len(list) THEN n ELSE Len(list)
  <2>1. q \in 0..Len(list) /\ cut = SubSeq(list, 1, q)
    BY DEF UpTo
  <2> HIDE DEF q
  <2>2. Len(cut) = q
    BY <2>1
  <2>3. k = q
    <3> HIDE DEF cut
    <3>1. Len(cut) \in Nat /\ DOMAIN cut = 1..Len(cut)
      BY <1>3
    <3>2. DOMAIN cut = 1..k
      BY <1>1
    <3> QED BY <1>2, <2>2, <3>1, <3>2
  <2>4. list = [i \in 1..Len(list) |-> list[i]]
    BY <1>2
  <2> QED BY <1>1, <2>3, <2>4 DEF q
<1> HIDE DEF cut
<1>5. DOMAIN cut = 1..k /\ Len(cut) = k /\ \A i \in 1..k : cut[i] = list[i]
  BY <1>1, <1>2, <1>3
<1>6. \A i \in 1..k : i \in 1..Len(list)
  BY <1>2
<1>7. ToSet(cut) \subseteq ToSet(list)
  BY <1>2, <1>5, <1>6 DEF ToSet
<1>8. IsInjective(list) => IsInjective(cut)
  BY <1>2, <1>5, <1>6 DEF IsInjective
<1>9. k <= n /\ (k = n \/ cut = list)
  BY <1>2, <1>4, <1>5
<1> QED BY <1>2, <1>5, <1>7, <1>8, <1>9 DEF cut

(* Two lists in a row.                                                     *)
LEMMA Joined2 ==
    ASSUME NEW S, NEW a \in Seq(S), NEW b \in Seq(S)
    PROVE  /\ a \o b \in Seq(S) /\ Len(a \o b) = Len(a) + Len(b)
           /\ ToSet(a \o b) = ToSet(a) \cup ToSet(b)
           /\ (IsInjective(a) /\ IsInjective(b) /\ ToSet(a) \cap ToSet(b) = {}) => IsInjective(a \o b)
<1> DEFINE c == a \o b
<1>1. PICK m \in Nat, n \in Nat : m = Len(a) /\ n = Len(b) /\ DOMAIN a = 1..m /\ DOMAIN b = 1..n
  OBVIOUS
<1>2. /\ c \in Seq(S) /\ Len(c) = m + n
      /\ \A i \in 1..m : c[i] = a[i]
      /\ \A i \in 1..m + n : i > m => c[i] = b[i - m]
  BY <1>1, ConcatProperties
<1> HIDE DEF c
<1>3. DOMAIN c = 1..m + n
  BY <1>2
<1>4. \A i \in 1..m + n : i \in 1..m \/ (i > m /\ i - m \in 1..n)
  OBVIOUS
<1>5. (\A i \in 1..m : i \in 1..m + n) /\ \A i \in 1..n : i + m \in 1..m + n /\ i + m > m /\ (i + m) - m = i
  OBVIOUS
<1>6. ToSet(c) = ToSet(a) \cup ToSet(b)
  <2>1. \A i \in 1..m + n : c[i] \in ToSet(a) \cup ToSet(b)
    BY <1>1, <1>2, <1>4 DEF ToSet
  <2>2. \A i \in 1..m : a[i] \in ToSet(c)
    BY <1>2, <1>3, <1>5 DEF ToSet
  <2>3. \A i \in 1..n : b[i] \in ToSet(c)
    BY <1>2, <1>3, <1>5 DEF ToSet
  <2>4. ToSet(c) \subseteq ToSet(a) \cup ToSet(b)
    BY <1>3, <2>1 DEF ToSet
  <2>5. ToSet(a) \subseteq ToSet(c) /\ ToSet(b) \subseteq ToSet(c)
    BY <1>1, <2>2, <2>3 DEF ToSet
  <2> QED BY <2>4, <2>5
<1>7. ASSUME IsInjective(a), IsInjective(b), ToSet(a) \cap ToSet(b) = {} PROVE IsInjective(c)
  <2> SUFFICES ASSUME NEW i \in 1..m + n, NEW j \in 1..m + n, c[i] = c[j] PROVE i = j
    BY <1>3 DEF IsInjective
  <2>1. CASE i \in 1..m /\ j \in 1..m
    BY <1>1, <1>2, <1>7, <2>1 DEF IsInjective
  <2>2. CASE i > m /\ j > m
    <3>1. i - m \in 1..n /\ j - m \in 1..n /\ b[i - m] = b[j - m]
      BY <1>2, <2>2
    <3>2. i - m = j - m
      BY <1>1, <1>7, <3>1 DEF IsInjective
    <3> QED BY <3>2
  <2>3. CASE i \in 1..m /\ j > m
    <3>1. j - m \in 1..n /\ a[i] = b[j - m]
      BY <1>2, <2>3
    <3> QED BY <1>1, <1>7, <2>3, <3>1 DEF ToSet
  <2>4. CASE j \in 1..m /\ i > m
    <3>1. i - m \in 1..n /\ a[j] = b[i - m]
      BY <1>2, <2>4
    <3> QED BY <1>1, <1>7, <2>4, <3>1 DEF ToSet
  <2> QED BY <1>4, <2>1, <2>2, <2>3, <2>4
<1> QED BY <1>1, <1>2, <1>6, <1>7 DEF c
LEMMA ListOf ==
    ASSUME NEW S, NEW list \in Seq(S), NEW T, ToSet(list) \subseteq T
    PROVE  list \in Seq(T)
<1>1. PICK n \in Nat : list \in [1..n -> S]
  BY LenProperties
<1>2. \A i \in 1..n : list[i] \in T
  BY <1>1 DEF ToSet
<1>3. list \in [1..n -> T]
  BY <1>1, <1>2
<1> QED BY <1>3

-----------------------------------------------------------------------------
(* Adaptive-k.                                                             *)

(* There is a first of the steepest drops.                                 *)
LEMMA DropIsPlace ==
    ASSUME NEW scores \in Seq(Int), Len(scores) >= 2
    PROVE  SteepestDrop(scores) \in 1..Len(scores) - 1
<1>1. PICK n \in Nat : n = Len(scores) - 1 /\ n >= 1
  OBVIOUS
<1> DEFINE f == [i \in 1..n |-> scores[i] - scores[i + 1]]
           T == {f[j] : j \in 1..n}
           K == {j \in 1..n : f[j] = Max(T)}
<1>2. \A j \in 1..n : f[j] \in Int /\ f[j] = scores[j] - scores[j + 1]
  BY <1>1
<1> HIDE DEF f
<1>3. 1..n # {} /\ 1..n \in SUBSET (1..n)
  <2>1. 1 \in 1..n
    BY <1>1
  <2> QED BY <2>1
<1>4. Max(T) \in T /\ \A y \in T : Max(T) >= y
  BY <1>2, <1>3, MaxOfInts
<1>5. K \in SUBSET Nat /\ K # {}
  <2>1. PICK x \in 1..n : f[x] = Max(T)
    <3> DEFINE t == Max(T)
    <3>1. t \in T
      BY <1>4
    <3> HIDE DEF t
    <3>2. \E x \in 1..n : f[x] = t
      BY <3>1
    <3> QED BY <3>2 DEF t
  <2> HIDE DEF T
  <2>2. x \in K
    BY <2>1
  <2>3. \A y \in K : y \in Nat
    OBVIOUS
  <2> QED BY <2>2, <2>3
<1>6. PICK i \in K : \A j \in K : i <= j
  BY <1>5, NatLeast
<1>7. i \in 1..n /\ \A j \in 1..n : f[j] < f[i] \/ (f[j] = f[i] /\ i <= j)
  <2>1. i \in 1..n /\ f[i] = Max(T)
    OBVIOUS
  <2>2. ASSUME NEW j \in 1..n PROVE f[j] < f[i] \/ (f[j] = f[i] /\ i <= j)
    <3>1. f[j] \in T
      OBVIOUS
    <3> HIDE DEF T
    <3>2. Max(T) >= f[j]
      BY <1>4, <3>1
    <3>3. CASE f[j] = f[i]
      <4>1. j \in K
        BY <2>1, <3>3
      <4> QED BY <1>6, <3>3, <4>1
    <3>4. CASE f[j] # f[i]
      <4>1. f[j] \in Int /\ f[i] \in Int
        BY <1>2, <2>1
      <4> HIDE DEF K
      <4> QED BY <2>1, <3>2, <3>4, <4>1
    <3> QED BY <3>3, <3>4
  <2> QED BY <2>1, <2>2
<1> HIDE DEF K, T
<1>8. \A j \in 1..n : scores[j] - scores[j + 1] < scores[i] - scores[i + 1]
                    \/ (scores[j] - scores[j + 1] = scores[i] - scores[i + 1] /\ i <= j)
  BY <1>2, <1>7
<1> QED BY <1>1, <1>7, <1>8 DEF SteepestDrop

LEMMA AdaptiveKHolds ==
    ASSUME NEW scores \in Seq(Int), NEW minK \in Nat \ {0}, NEW maxK \in Nat \ {0}, NEW cap \in Nat,
           scores # <<>> => cap # 0
    PROVE  AdaptiveK(scores, minK, maxK, cap) \in Nat /\ (scores # <<>> => AdaptiveK(scores, minK, maxK, cap) # 0)
<1>1. PICK n \in Nat : n = Len(scores)
  OBVIOUS
<1>2. CASE n <= 1
  <2>1. scores # <<>> => n # 0
    BY <1>1
  <2> QED BY <1>1, <1>2, <2>1 DEF AdaptiveK
<1>3. CASE n >= 2
  <2>1. PICK d \in Nat : d = SteepestDrop(scores)
    BY <1>1, <1>3, DropIsPlace
  <2>2. AdaptiveK(scores, minK, maxK, cap) = Smaller(n, Smaller(cap, Larger(minK, Smaller(maxK, d))))
    BY <1>1, <1>3, <2>1 DEF AdaptiveK
  <2>3. scores # <<>>
    BY <1>1, <1>3
  <2> QED BY <1>3, <2>2, <2>3 DEF Smaller, Larger
<1> QED BY <1>2, <1>3

-----------------------------------------------------------------------------
(* One of each page.                                                       *)

LEMMA OnePerPageHolds ==
    ASSUME NEW S, NEW list \in Seq(S), IsInjective(list), NEW f, \A c \in S : f[c] \in Int,
           NEW docOf, NEW pageOf, NEW noPage
    PROVE  LET R == OnePerPage(list, f, docOf, pageOf, noPage)
               HasPage(c) == pageOf[c] # noPage
           IN  /\ R \in Seq(S) /\ IsInjective(R) /\ ToSet(R) \subseteq ToSet(list)
               /\ list # <<>> => R # <<>>
               /\ \A c, d \in ToSet(R) : HasPage(c) /\ HasPage(d) /\ docOf[c] = docOf[d] /\ pageOf[c] = pageOf[d] => c = d
               /\ \A i, j \in DOMAIN R : i < j /\ HasPage(R[i]) /\ HasPage(R[j]) => f[R[i]] >= f[R[j]]
<1> DEFINE P == {i \in DOMAIN list : pageOf[list[i]] # noPage}
           U == {i \in DOMAIN list : pageOf[list[i]] = noPage}
           A == At(list, P)
           B == At(list, U)
           Page(i) == {j \in DOMAIN A : docOf[A[j]] = docOf[A[i]] /\ pageOf[A[j]] = pageOf[A[i]]}
           Best == [i \in DOMAIN A |-> ByValue(At(A, Page(i)), f)[1]]
           F == {i \in DOMAIN A : \A j \in Page(i) : i <= j}
           C == At(Best, F)
           D == ByValue(C, f)
           R == OnePerPage(list, f, docOf, pageOf, noPage)
<1>1. R = D \o B
  BY DEF OnePerPage, ByValue
<1> HIDE DEF R
<1>2. Len(list) \in Nat /\ DOMAIN list = 1..Len(list) /\ P \in SUBSET (1..Len(list)) /\ U \in SUBSET (1..Len(list))
  OBVIOUS
<1> HIDE DEF P, U
<1>3. A \in Seq(S) /\ ToSet(A) = {list[i] : i \in P} /\ IsInjective(A)
  BY <1>2, PickedItems
<1>4. B \in Seq(S) /\ ToSet(B) = {list[i] : i \in U} /\ IsInjective(B) /\ (B = <<>> <=> U = {})
  BY <1>2, PickedItems
<1>5. A = <<>> <=> P = {}
  BY <1>2, PickedItems
<1> HIDE DEF A, B
<1>6. PICK n \in Nat : n = Len(A) /\ DOMAIN A = 1..n /\ \A i \in 1..n : A[i] \in S
  BY <1>3
<1>7. \A i \in 1..n : Page(i) \in SUBSET (1..n) /\ i \in Page(i)
  BY <1>6
<1>8. ASSUME NEW i \in 1..n PROVE \E j \in Page(i) : ByValue(At(A, Page(i)), f)[1] = A[j]
  <2> DEFINE K == Page(i)
             L == At(A, K)
             V == ByValue(L, f)
  <2>1. K \in SUBSET (1..Len(A)) /\ K # {}
    BY <1>6, <1>7
  <2> HIDE DEF K
  <2>2. L \in Seq(S) /\ ToSet(L) = {A[j] : j \in K} /\ L # <<>>
    BY <1>3, <2>1, PickedItems
  <2> HIDE DEF L
  <2>3. V \in Seq(S) /\ Len(V) = Len(L) /\ ToSet(V) = ToSet(L)
    BY <2>2, RankedByValue
  <2> HIDE DEF V
  <2>4. 1 \in DOMAIN V
    BY <2>2, <2>3
  <2>5. V[1] \in {A[j] : j \in K}
    BY <2>2, <2>3, <2>4 DEF ToSet
  <2> QED BY <2>5 DEF K, L, V
<1>9. \A i \in 1..n : \E j \in Page(i) : Best[i] = A[j]
  BY <1>6, <1>8
<1>10. DOMAIN Best = 1..n /\ Best = [i \in 1..n |-> Best[i]]
  BY <1>6
<1> HIDE DEF Best
<1>11. \A i \in 1..n : /\ Best[i] \in S /\ Best[i] \in ToSet(A)
                       /\ docOf[Best[i]] = docOf[A[i]] /\ pageOf[Best[i]] = pageOf[A[i]]
  <2> SUFFICES ASSUME NEW i \in 1..n
               PROVE  /\ Best[i] \in S /\ Best[i] \in ToSet(A)
                      /\ docOf[Best[i]] = docOf[A[i]] /\ pageOf[Best[i]] = pageOf[A[i]]
    OBVIOUS
  <2>1. PICK j \in Page(i) : Best[i] = A[j]
    BY <1>9
  <2>2. j \in 1..n
    BY <1>7
  <2> QED BY <1>6, <2>1, <2>2 DEF ToSet
<1>12. Best \in Seq(S) /\ Len(Best) = n
  BY <1>10, <1>11
<1>13. F \in SUBSET (1..n)
  BY <1>6
<1>14. \A i, j \in F : docOf[A[i]] = docOf[A[j]] /\ pageOf[A[i]] = pageOf[A[j]] => i = j
  <2> SUFFICES ASSUME NEW i \in F, NEW j \in F, docOf[A[i]] = docOf[A[j]], pageOf[A[i]] = pageOf[A[j]]
               PROVE  i = j
    OBVIOUS
  <2>1. i \in 1..n /\ j \in 1..n /\ i \in Page(j) /\ j \in Page(i)
    BY <1>6
  <2>2. i <= j /\ j <= i
    BY <2>1
  <2> QED BY <2>1, <2>2
<1>15. n # 0 => 1 \in F
  BY <1>6
<1> HIDE DEF F, Page
<1>16. /\ C \in Seq(S) /\ ToSet(C) = {Best[i] : i \in F} /\ (C = <<>> <=> F = {})
       /\ \A a, b \in DOMAIN C : a < b => \E i, j \in F : i < j /\ C[a] = Best[i] /\ C[b] = Best[j]
  BY <1>12, <1>13, PickedItems
<1>17. IsInjective(C)
  <2> HIDE DEF C
  <2>1. DOMAIN C = 1..Len(C) /\ Len(C) \in Nat
    BY <1>16
  <2>2. \A a, b \in DOMAIN C : a < b => C[a] # C[b]
    <3> SUFFICES ASSUME NEW a \in DOMAIN C, NEW b \in DOMAIN C, a < b, C[a] = C[b] PROVE FALSE
      OBVIOUS
    <3>1. \E i, j \in F : i < j /\ C[a] = Best[i] /\ C[b] = Best[j]
      BY <1>16
    <3>2. PICK i \in F : \E j \in F : i < j /\ C[a] = Best[i] /\ C[b] = Best[j]
      BY <3>1
    <3>3. PICK j \in F : i < j /\ C[a] = Best[i] /\ C[b] = Best[j]
      BY <3>2
    <3>4. i \in 1..n /\ j \in 1..n
      BY <1>13
    <3>5. docOf[A[i]] = docOf[A[j]] /\ pageOf[A[i]] = pageOf[A[j]]
      BY <1>11, <3>3, <3>4
    <3>6. i = j
      BY <1>14, <3>5
    <3> QED BY <3>3, <3>4, <3>6
  <2> SUFFICES ASSUME NEW a \in DOMAIN C, NEW b \in DOMAIN C, C[a] = C[b] PROVE a = b
    BY DEF IsInjective
  <2>3. ~(a < b) /\ ~(b < a)
    BY <2>2
  <2> QED BY <2>1, <2>3
<1> HIDE DEF C
<1>18. /\ D \in Seq(S) /\ Len(D) = Len(C) /\ ToSet(D) = ToSet(C) /\ IsInjective(D) /\ Falling(D, f)
  BY <1>16, <1>17, RankedByValue
<1> HIDE DEF D
<1>19. \A c \in ToSet(D) : c \in ToSet(A)
  BY <1>11, <1>13, <1>16, <1>18
<1>20. (\A c \in ToSet(A) : pageOf[c] # noPage /\ c \in ToSet(list)) /\ \A c \in ToSet(B) : pageOf[c] = noPage /\ c \in ToSet(list)
  BY <1>2, <1>3, <1>4 DEF P, U, ToSet
<1>21. /\ R \in Seq(S) /\ ToSet(R) = ToSet(D) \cup ToSet(B) /\ IsInjective(R) /\ Len(R) = Len(D) + Len(B)
  <2>1. ToSet(D) \cap ToSet(B) = {}
    BY <1>19, <1>20
  <2>2. D \in Seq(S) /\ B \in Seq(S) /\ IsInjective(D) /\ IsInjective(B)
    BY <1>4, <1>18
  <2>3. /\ D \o B \in Seq(S) /\ Len(D \o B) = Len(D) + Len(B)
        /\ ToSet(D \o B) = ToSet(D) \cup ToSet(B) /\ IsInjective(D \o B)
    BY <2>1, <2>2, Joined2
  <2> QED BY <1>1, <2>3
<1>22. ToSet(R) \subseteq ToSet(list)
  BY <1>19, <1>20, <1>21
<1>23. ASSUME list # <<>> PROVE R # <<>>
  <2>1. 1 \in P \/ 1 \in U
    BY <1>2, <1>23 DEF P, U
  <2>2. CASE 1 \in P
    <3>1. n # 0
      BY <1>3, <1>5, <1>6, <2>2
    <3>2. C # <<>>
      BY <1>15, <1>16, <3>1
    <3>3. Len(D) # 0 /\ Len(D) \in Nat /\ Len(B) \in Nat
      BY <1>4, <1>16, <1>18, <3>2
    <3> QED BY <1>21, <3>3
  <2>3. CASE 1 \in U
    <3>1. Len(B) # 0 /\ Len(D) \in Nat /\ Len(B) \in Nat
      BY <1>4, <1>18, <2>3
    <3> QED BY <1>21, <3>1
  <2> QED BY <2>1, <2>2, <2>3
<1>24. ASSUME NEW c \in ToSet(R), NEW d \in ToSet(R), pageOf[c] # noPage, pageOf[d] # noPage,
              docOf[c] = docOf[d], pageOf[c] = pageOf[d]
       PROVE  c = d
  <2>1. c \in ToSet(D) /\ d \in ToSet(D)
    BY <1>20, <1>21, <1>24
  <2>2. PICK i \in F : c = Best[i]
    BY <1>16, <1>18, <2>1
  <2>3. PICK j \in F : d = Best[j]
    BY <1>16, <1>18, <2>1
  <2>4. i \in 1..n /\ j \in 1..n
    BY <1>13
  <2>5. docOf[A[i]] = docOf[A[j]] /\ pageOf[A[i]] = pageOf[A[j]]
    BY <1>11, <1>24, <2>2, <2>3, <2>4
  <2> QED BY <1>14, <2>2, <2>3, <2>5
<1>25. ASSUME NEW i \in DOMAIN R, NEW j \in DOMAIN R, i < j, pageOf[R[i]] # noPage, pageOf[R[j]] # noPage
       PROVE  f[R[i]] >= f[R[j]]
  <2>1. PICK u \in Nat, v \in Nat : u = Len(D) /\ v = Len(B) /\ DOMAIN D = 1..u /\ DOMAIN B = 1..v
    BY <1>4, <1>18
  <2>2. /\ DOMAIN R = 1..u + v
        /\ \A m \in 1..u : R[m] = D[m]
        /\ \A m \in 1..u + v : m > u => R[m] = B[m - u]
    <3>1. D \in Seq(S) /\ B \in Seq(S)
      BY <1>4, <1>18
    <3>2. /\ D \o B \in Seq(S) /\ Len(D \o B) = Len(D) + Len(B)
          /\ \A m \in 1..Len(D) + Len(B) : (D \o B)[m] = IF m <= Len(D) THEN D[m] ELSE B[m - Len(D)]
      BY <3>1, ConcatProperties
    <3>3. R \in Seq(S) /\ Len(R) = u + v /\ \A m \in 1..u + v : R[m] = IF m <= u THEN D[m] ELSE B[m - u]
      BY <1>1, <2>1, <3>2
    <3>4. DOMAIN R = 1..u + v
      BY <2>1, <3>3
    <3>5. \A m \in 1..u : m \in 1..u + v /\ m <= u
      BY <2>1
    <3>6. \A m \in 1..u + v : m > u => ~(m <= u)
      BY <2>1
    <3> QED BY <3>3, <3>4, <3>5, <3>6
  <2>3. \A m \in 1..u + v : pageOf[R[m]] # noPage => m \in 1..u
    <3> SUFFICES ASSUME NEW m \in 1..u + v, m > u PROVE pageOf[R[m]] = noPage
      OBVIOUS
    <3>1. m - u \in 1..v
      OBVIOUS
    <3>2. R[m] = B[m - u] /\ B[m - u] \in ToSet(B)
      BY <2>1, <2>2, <3>1 DEF ToSet
    <3> QED BY <1>20, <3>2
  <2>4. i \in 1..u /\ j \in 1..u
    BY <1>25, <2>2, <2>3
  <2> QED BY <1>18, <1>25, <2>1, <2>2, <2>4 DEF Falling
<1> QED BY <1>21, <1>22, <1>23, <1>24, <1>25 DEF R

-----------------------------------------------------------------------------
(* So many of each document.                                               *)

Grouped(G, S, list, docOf, most) ==
    /\ G \in Seq(S) /\ IsInjective(G) /\ ToSet(G) \subseteq ToSet(list)
    /\ list # <<>> => G # <<>>
    /\ \A c \in ToSet(G) : /\ IsFiniteSet({d \in ToSet(G) : docOf[d] = docOf[c]})
                           /\ Cardinality({d \in ToSet(G) : docOf[d] = docOf[c]}) <= most
    /\ \A a, b \in DOMAIN G : a < b => \E i, j \in DOMAIN list : i < j /\ G[a] = list[i] /\ G[b] = list[j]

LEMMA GroupHolds ==
    ASSUME NEW S, NEW list \in Seq(S), IsInjective(list), NEW docOf, NEW most \in Nat \ {0}
    PROVE  Grouped(GroupByDoc(list, docOf, most), S, list, docOf, most)
<1> DEFINE Same(i) == {j \in 1..i : docOf[list[j]] = docOf[list[i]]}
           K == {i \in DOMAIN list : Cardinality(Same(i)) <= most}
           G == At(list, K)
<1>1. GroupByDoc(list, docOf, most) = G
  BY DEF GroupByDoc
<1>2. PICK n \in Nat : n = Len(list) /\ DOMAIN list = 1..n
  OBVIOUS
<1>3. K \in SUBSET (1..n)
  BY <1>2
<1>4. /\ G \in Seq(S) /\ ToSet(G) = {list[i] : i \in K} /\ IsInjective(G) /\ (G = <<>> <=> K = {})
      /\ \A a, b \in DOMAIN G : a < b => \E i, j \in K : i < j /\ G[a] = list[i] /\ G[b] = list[j]
  <2> HIDE DEF K
  <2>1. K \in SUBSET (1..Len(list))
    BY <1>2, <1>3
  <2> QED BY <2>1, PickedItems
<1>5. ASSUME list # <<>> PROVE G # <<>>
  <2>1. 1 \in 1..n
    BY <1>2, <1>5
  <2>2. Same(1) = {1}
    BY <1>2
  <2>3. Cardinality({1}) = 1
    BY FS_Singleton
  <2>4. 1 \in K
    <3> HIDE DEF Same
    <3>1. Cardinality(Same(1)) = 1
      BY <2>2, <2>3, Zenon
    <3>2. Cardinality(Same(1)) <= most
      BY <3>1
    <3> QED BY <1>2, <2>1, <3>2
  <2> QED BY <1>4, <2>4
<1> HIDE DEF G
<1>6. ASSUME NEW c \in ToSet(G)
      PROVE  /\ IsFiniteSet({d \in ToSet(G) : docOf[d] = docOf[c]})
             /\ Cardinality({d \in ToSet(G) : docOf[d] = docOf[c]}) <= most
  <2> DEFINE Own == {d \in ToSet(G) : docOf[d] = docOf[c]}
             J == {i \in K : docOf[list[i]] = docOf[c]}
             g == [i \in J |-> list[i]]
  <2>1. J \in SUBSET (1..n)
    BY <1>3
  <2>2. PICK m \in K : list[m] = c
    BY <1>4
  <2>3. J # {}
    BY <2>2
  <2> HIDE DEF K
  <2>4. Max(J) \in J /\ \A y \in J : y <= Max(J)
    BY <2>1, <2>3, MaxOfPlaces
  <2>5. PICK top \in J : \A y \in J : y <= top
    BY <2>4
  <2>6. J \in SUBSET Same(top) /\ Same(top) \in SUBSET (1..n)
    <3>1. top \in 1..n
      BY <2>1
    <3>2. \A y \in J : y \in 1..top
      BY <2>1, <2>5
    <3>3. \A y \in J : docOf[list[y]] = docOf[list[top]]
      OBVIOUS
    <3>4. \A y \in J : y \in Same(top)
      BY <3>2, <3>3
    <3>5. \A y \in Same(top) : y \in 1..n
      BY <3>1
    <3> HIDE DEF J, Same
    <3> QED BY <3>4, <3>5
  <2>7. IsFiniteSet(Same(top)) /\ Cardinality(Same(top)) \in Nat
    BY <2>6, Places, FS_Subset, FS_CardinalityType
  <2>8. Cardinality(Same(top)) <= most
    BY DEF K
  <2> HIDE DEF Same
  <2>9. IsFiniteSet(J) /\ Cardinality(J) <= most /\ Cardinality(J) \in Nat
    <3>1. IsFiniteSet(J) /\ Cardinality(J) <= Cardinality(Same(top)) /\ Cardinality(J) \in Nat
      BY <2>6, <2>7, FS_Subset, FS_CardinalityType
    <3> QED BY <2>7, <2>8, <3>1
  <2>10. g \in Surjection(J, Own)
    <3>1. \A i \in J : list[i] \in Own
      BY <1>4
    <3>2. \A d \in Own : \E i \in J : list[i] = d
      BY <1>4
    <3> HIDE DEF J, Own
    <3>3. g \in [J -> Own]
      BY <3>1
    <3> QED BY <3>2, <3>3 DEF Surjection
  <2> HIDE DEF J, Own, g
  <2>11. IsFiniteSet(Own) /\ Cardinality(Own) <= Cardinality(J)
    BY <2>9, <2>10, FS_Surjection
  <2>12. Cardinality(Own) \in Nat
    BY <2>11, FS_CardinalityType
  <2>13. Cardinality(Own) <= most
    BY <2>9, <2>11, <2>12
  <2> QED BY <2>11, <2>13 DEF Own
<1>7. ToSet(G) \subseteq ToSet(list)
  <2> HIDE DEF K
  <2> QED BY <1>2, <1>3, <1>4 DEF ToSet
<1>8. \A a, b \in DOMAIN G : a < b => \E i, j \in DOMAIN list : i < j /\ G[a] = list[i] /\ G[b] = list[j]
  <2> HIDE DEF K
  <2> SUFFICES ASSUME NEW a \in DOMAIN G, NEW b \in DOMAIN G, a < b
               PROVE  \E i, j \in DOMAIN list : i < j /\ G[a] = list[i] /\ G[b] = list[j]
    OBVIOUS
  <2>1. \E i, j \in K : i < j /\ G[a] = list[i] /\ G[b] = list[j]
    BY <1>4
  <2> QED BY <1>2, <1>3, <2>1
<1> HIDE DEF K
<1>9. Grouped(G, S, list, docOf, most)
  <2>1. \A c \in ToSet(G) : /\ IsFiniteSet({d \in ToSet(G) : docOf[d] = docOf[c]})
                           /\ Cardinality({d \in ToSet(G) : docOf[d] = docOf[c]}) <= most
    BY <1>6
  <2> QED BY <1>4, <1>5, <1>7, <1>8, <2>1 DEF Grouped
<1> QED BY <1>1, <1>9

=============================================================================
