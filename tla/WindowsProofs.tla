--------------------------- MODULE WindowsProofs ---------------------------
(***************************************************************************)
(* What holds of the chunkers for every text and all settings: chunks are  *)
(* as long as they may be, what is lost is accounted for, and where the    *)
(* windows cannot stand still they advance.                                *)
(***************************************************************************)
EXTENDS Windows, RankingProofs

-----------------------------------------------------------------------------
(* Lists.                                                                  *)

LEMMA AppendMembers ==
    ASSUME NEW S, NEW s \in Seq(S), NEW x \in S
    PROVE  Append(s, x) \in Seq(S) /\ ToSet(Append(s, x)) = ToSet(s) \cup {x}
BY AppendProperties, LenProperties DEF ToSet

LEMMA ConcatMembers ==
    ASSUME NEW S, NEW s \in Seq(S), NEW t \in Seq(S)
    PROVE  s \o t \in Seq(S) /\ ToSet(s \o t) = ToSet(s) \cup ToSet(t)
<1>1. s \o t \in Seq(S) /\ Len(s \o t) = Len(s) + Len(t)
      /\ \A i \in 1..Len(s) + Len(t) : (s \o t)[i] = IF i <= Len(s) THEN s[i] ELSE t[i - Len(s)]
  BY ConcatProperties
<1>2. PICK m, n \in Nat : m = Len(s) /\ n = Len(t)
  BY LenProperties
<1>3. DOMAIN s = 1..m /\ DOMAIN t = 1..n /\ DOMAIN (s \o t) = 1..m + n
  BY <1>1, <1>2, LenProperties
<1>4. \A i \in 1..m : (s \o t)[i] = s[i]
  BY <1>1, <1>2
<1>5. \A i \in 1..n : m + i \in 1..m + n /\ (s \o t)[m + i] = t[i]
  BY <1>1, <1>2
<1>6. \A i \in 1..m + n : i \in 1..m \/ i - m \in 1..n
  OBVIOUS
<1>7. \A x \in ToSet(s \o t) : x \in ToSet(s) \cup ToSet(t)
  BY <1>1, <1>2, <1>3, <1>6 DEF ToSet
<1>8. \A i \in 1..m : s[i] \in ToSet(s \o t)
  <2>1. \A i \in 1..m : i \in 1..m + n
    OBVIOUS
  <2> QED BY <1>3, <1>4, <2>1 DEF ToSet
<1>9. \A i \in 1..n : t[i] \in ToSet(s \o t)
  BY <1>3, <1>5 DEF ToSet
<1>10. \A x \in ToSet(s) \cup ToSet(t) : x \in ToSet(s \o t)
  BY <1>3, <1>8, <1>9 DEF ToSet
<1> QED BY <1>1, <1>7, <1>10

(* A sum is as large as each of its terms.                                 *)
LEMMA SumIsAtLeast ==
    ASSUME NEW s \in Seq(Nat), NEW i \in DOMAIN s
    PROVE  SumFunction(s) \in Nat /\ s[i] <= SumFunction(s)
<1>1. PICK n \in Nat : s \in [1..n -> Nat]
  BY LenProperties
<1> DEFINE S == 1..n
           e == [k \in S |-> 0]
           h == [k \in SUBSET S |-> 0]
<1>2. IsFiniteSet(S) /\ DOMAIN s = S /\ i \in S /\ \A k \in S : s[k] \in Nat
  BY <1>1, FS_Interval
<1>3. SumsUp(h, e, S)
  BY DEF SumsUp
<1>4. \A k \in S : e[k] \in Int /\ s[k] \in Int /\ e[k] <= s[k]
  BY <1>2
<1>5. \A k \in SUBSET S : h[k] = 0
  OBVIOUS
<1> HIDE DEF S, e, h
<1>6. PICK g : SumsUp(g, s, S) /\ SumFunction(s) = g[S]
  BY <1>2, SumOver
<1>7. Below(h, g, S)
  BY <1>2, <1>3, <1>4, <1>6, SumsBelow
<1>8. S \ {i} \in SUBSET S /\ S \in SUBSET S
  OBVIOUS
<1>9. g[S] = s[i] + g[S \ {i}] /\ g[S \ {i}] \in Int
  BY <1>2, <1>6, <1>8 DEF SumsUp
<1>10. 0 <= g[S \ {i}]
  BY <1>5, <1>7, <1>8 DEF Below
<1>11. SumFunction(s) \in Nat
  BY SumIsNat
<1> QED BY <1>2, <1>6, <1>9, <1>10, <1>11

(* ------------------------------- blocks -------------------------------- *)

LEMMA BlocksOf ==
    ASSUME NEW j \in Jobs
    PROVE  /\ j.by \in Chunkers /\ j.size \in Nat \ {0} /\ j.overlap \in Nat /\ j.overlap < j.size
           /\ Len(j.blocks) \in Nat /\ DOMAIN j.blocks = 1..Len(j.blocks)
           /\ \A n \in 1..Len(j.blocks) :
                 /\ IsBlock(j.blocks[n])
                 /\ j.by = "chars" => j.blocks[n].kind # "heading"
                 /\ j.by = "semantic" => j.blocks[n].kind # "table"
                 /\ j.by = "token" => j.blocks[n].kind \in {"text", "raw"}
<1>1. j.blocks \in Seq(ToSet(j.blocks))
  BY WindowsAssumption
<1>2. Len(j.blocks) \in Nat /\ DOMAIN j.blocks = 1..Len(j.blocks)
  BY <1>1, LenProperties
<1>3. \A n \in 1..Len(j.blocks) : j.blocks[n] \in ToSet(j.blocks)
  BY <1>2 DEF ToSet
<1>4. j.by \in Chunkers /\ \A n \in 1..Len(j.blocks) : j.blocks[n].kind \in Kinds[j.by]
  BY <1>3, WindowsAssumption
<1>5. /\ Kinds["chars"] = {"text", "table"} /\ Kinds["token"] = {"text", "raw"}
      /\ Kinds["semantic"] = {"section", "heading"}
  BY DEF Kinds
<1>6. \A n \in 1..Len(j.blocks) : /\ j.by = "chars" => j.blocks[n].kind # "heading"
                                  /\ j.by = "semantic" => j.blocks[n].kind # "table"
                                  /\ j.by = "token" => j.blocks[n].kind \in {"text", "raw"}
  BY <1>4, <1>5
<1> QED BY <1>2, <1>3, <1>6, WindowsAssumption

LEMMA RowsAreNat ==
    ASSUME NEW b, IsBlock(b), b.kind = "table", NEW i \in Nat, NEW k \in Nat, k <= Len(b.rows)
    PROVE  Rows(b, i, k) \in Nat /\ Rows(b, i, k) - 1 \in Nat
<1>1. b.head \in Nat \ {0, 1} /\ b.rows \in Seq(Nat \ {0})
  BY DEF IsBlock
<1>2. \A m \in i + 1..k : b.rows[m] \in Nat
  BY <1>1, LenProperties
<1>3. SubSeq(b.rows, i + 1, k) \in Seq(Nat)
  BY <1>2, SubSeqProperties
<1>4. SumFunction(SubSeq(b.rows, i + 1, k)) \in Nat
  BY <1>3, SumIsNat
<1> QED BY <1>1, <1>4 DEF Rows

LEMMA WordsAreNat ==
    ASSUME NEW b, IsBlock(b), b.kind = "section", NEW i \in Nat, NEW k \in Nat, k <= Len(b.words)
    PROVE  /\ SubSeq(b.words, i + 1, k) \in Seq(Nat)
           /\ Len(SubSeq(b.words, i + 1, k)) = IF i + 1 <= k THEN k - i ELSE 0
           /\ \A n \in 1..k - i : SubSeq(b.words, i + 1, k)[n] = b.words[i + n]
<1>1. b.words \in Seq(Nat)
  BY DEF IsBlock
<1>2. \A m \in i + 1..k : b.words[m] \in Nat
  BY <1>1, LenProperties
<1>3. /\ SubSeq(b.words, i + 1, k) \in Seq(Nat)
      /\ Len(SubSeq(b.words, i + 1, k)) = IF i + 1 <= k THEN k - (i + 1) + 1 ELSE 0
      /\ \A n \in 1..k - (i + 1) + 1 : SubSeq(b.words, i + 1, k)[n] = b.words[(i + 1) + n - 1]
  BY <1>2, SubSeqProperties
<1>4. k - (i + 1) + 1 = k - i /\ \A n \in 1..k - i : (i + 1) + n - 1 = i + n
  OBVIOUS
<1> QED BY <1>3, <1>4

LEMMA BlockFacts ==
    ASSUME NEW b, IsBlock(b)
    PROVE  /\ b.kind \in {"text", "heading", "section", "table", "raw"}
           /\ Units(b) \in Nat /\ Length(b) \in Nat
           /\ b.kind = "table" => b.rows \in Seq(Nat \ {0}) /\ Units(b) = Len(b.rows)
           /\ b.kind \in {"text", "section"} => Units(b) > 0 /\ b.bounds \subseteq 1..Units(b)
           /\ b.kind = "section" => Units(b) = Len(b.words)
<1>1. CASE b.kind = "table"
  <2>1. b.rows \in Seq(Nat \ {0}) /\ Len(b.rows) \in Nat
    BY <1>1, LenProperties DEF IsBlock
  <2>2. Rows(b, 0, Len(b.rows)) - 1 \in Nat
    <3>1. Len(b.rows) <= Len(b.rows)
      BY <2>1
    <3> QED BY <1>1, <2>1, <3>1, RowsAreNat
  <2>3. Units(b) = Len(b.rows)
    BY <1>1 DEF Units
  <2> QED BY <1>1, <2>1, <2>2, <2>3 DEF Length
<1>2. CASE b.kind = "section"
  <2>1. b.len \in Nat /\ b.words \in Seq(Nat) /\ b.words # <<>> /\ b.bounds \subseteq 1..Len(b.words)
    BY <1>2 DEF IsBlock
  <2>2. Len(b.words) \in Nat /\ Len(b.words) > 0
    BY <2>1, LenProperties, EmptySeq
  <2>3. Units(b) = Len(b.words)
    BY <1>2 DEF Units
  <2> QED BY <1>2, <2>1, <2>2, <2>3 DEF Length
<1>3. CASE b.kind \notin {"table", "section"}
  <2>1. Units(b) = b.len /\ Length(b) = b.len
    BY <1>3 DEF Units, Length
  <2> QED BY <1>3, <2>1 DEF IsBlock
<1> QED BY <1>1, <1>2, <1>3

(* How long a piece of a text is.  One that is nothing has nothing in it.  *)
LEMMA PieceFacts ==
    ASSUME NEW b, IsBlock(b), b.kind \in {"text", "section"},
           NEW i \in Nat, NEW k \in Nat, i <= k, k <= Units(b)
    PROVE  /\ Piece(b, i, k) \in Nat
           /\ b.kind = "text" => Piece(b, i, k) = k - i
           /\ Piece(b, i, k) = 0 => \A u \in i..k - 1 : Piece(b, u, u + 1) = 0
<1>1. CASE b.kind = "text"
  <2>1. \A m, n : Piece(b, m, n) = n - m
    BY <1>1 DEF Piece
  <2>2. k - i \in Nat /\ (k - i = 0 => \A u \in i..k - 1 : FALSE)
    OBVIOUS
  <2> QED BY <2>1, <2>2
<1>2. CASE b.kind = "section"
  <2> DEFINE s == SubSeq(b.words, i + 1, k)
  <2>1. Units(b) = Len(b.words) /\ \A m, n : Piece(b, m, n) = SumFunction(SubSeq(b.words, m + 1, n))
    BY <1>2, BlockFacts DEF Piece
  <2>2. s \in Seq(Nat) /\ Len(s) = (IF i + 1 <= k THEN k - i ELSE 0) /\ \A n \in 1..k - i : s[n] = b.words[i + n]
    BY <1>2, <2>1, WordsAreNat
  <2>3. Piece(b, i, k) = SumFunction(s)
    BY <2>1
  <2> HIDE DEF s
  <2>4. Piece(b, i, k) \in Nat
    BY <2>2, <2>3, SumIsNat
  <2>5. ASSUME Piece(b, i, k) = 0, NEW u \in i..k - 1 PROVE Piece(b, u, u + 1) = 0
    <3> DEFINE t == SubSeq(b.words, u + 1, u + 1)
               n == u - i + 1
    <3>1. u \in Nat /\ u + 1 \in Nat /\ u + 1 <= Len(b.words) /\ n \in 1..k - i /\ i + n = u + 1 /\ Len(s) = k - i
      <4>1. PICK l \in Nat : l = Units(b)
        BY BlockFacts
      <4>2. u \in Nat /\ u + 1 <= l /\ n \in 1..k - i /\ i + n = u + 1 /\ i + 1 <= k
        BY <2>5, <4>1
      <4> HIDE DEF n
      <4> QED BY <2>1, <2>2, <4>1, <4>2
    <3>2. n \in DOMAIN s
      BY <2>2, <3>1, LenProperties
    <3>3. s[n] \in Nat /\ s[n] <= 0
      <4>1. s[n] <= SumFunction(s)
        BY <2>2, <3>2, SumIsAtLeast
      <4>2. s[n] \in Nat
        BY <2>2, <3>2, LenProperties
      <4> QED BY <2>3, <2>5, <4>1, <4>2
    <3>4. b.words[u + 1] = 0
      BY <2>2, <3>1, <3>3
    <3>5. t \in Seq(Nat) /\ Len(t) = 1 /\ t[1] = b.words[u + 1]
      <4>1. /\ t \in Seq(Nat) /\ Len(t) = (IF u + 1 <= u + 1 THEN (u + 1) - u ELSE 0)
            /\ \A m \in 1..(u + 1) - u : t[m] = b.words[u + m]
        BY <1>2, <3>1, WordsAreNat
      <4> HIDE DEF t
      <4>2. (u + 1) - u = 1 /\ 1 \in 1..1
        BY <3>1
      <4> QED BY <4>1, <4>2
    <3>6. Piece(b, u, u + 1) = SumFunction(t)
      BY <2>1
    <3> HIDE DEF t
    <3>7. DOMAIN t = {1} /\ t[1] \in Int
      BY <3>4, <3>5, LenProperties
    <3> QED BY <3>4, <3>5, <3>6, <3>7, SumOfOne
  <2> QED BY <1>2, <2>4, <2>5
<1> QED BY <1>1, <1>2

-----------------------------------------------------------------------------
(* The invariant, of the text j, a list s that is collected, and a set cs  *)
(* of chunks.                                                              *)

PartSet == [block : Nat, from : Nat, to : Nat]
ChunkSet == [parts : Seq(PartSet), size : Nat]

PartOK(j, p) == p.block \in 1..Len(j.blocks) /\ p.from <= p.to /\ p.to <= Units(j.blocks[p.block])
Limit(j) == j.size + (IF j.by = "chars" THEN j.overlap + 2 ELSE 0)
SizeOK(j, c) ==
    \/ c.size <= Limit(j)
    \/ /\ Len(c.parts) = 1
       /\ LET p == c.parts[1]
              b == j.blocks[p.block]
          IN  \/ b.kind = "heading"
              \/ b.kind = "section" /\ Length(b) > j.size /\ p.to - p.from <= j.size
ChunkOK(j, c) == SizeOK(j, c) /\ \A p \in ToSet(c.parts) : PartOK(j, p)

(* What is collected is short enough to be a chunk.                        *)
JoinedOf(j, s) == SumFunction([i \in DOMAIN s |-> Length(j.blocks[s[i]])]) + 2 * Larger(0, Len(s) - 1)
Short(j, s) == s = <<>> \/ JoinedOf(j, s) <= Limit(j) \/ (Len(s) = 1 /\ j.blocks[s[1]].kind = "heading")

Rising(s) == \A i \in DOMAIN s : \A k \in 1..i - 1 : s[k] < s[i]

Holds(cs, n, u) == \E c \in cs : \E p \in ToSet(c.parts) : p.block = n /\ p.from <= u /\ u < p.to
Named(cs, n) == \E c \in cs : \E p \in ToSet(c.parts) : p.block = n

(* A unit that is nothing as a chunk needs none.                           *)
Has(j, cs, n, u) == Piece(j.blocks[n], u, u + 1) = 0 \/ Holds(cs, n, u)
HasAll(j, cs, n) ==
    /\ Units(j.blocks[n]) = 0 => Named(cs, n)
    /\ \A u \in 0..Units(j.blocks[n]) - 1 : Has(j, cs, n, u)

(* The three cases in which something may be lost of a block.              *)
Excused(j, n) ==
    \/ j.by # "semantic" /\ j.overlap = 0 /\ (j.by = "token" \/ Length(j.blocks[n]) > j.size)
    \/ j.blocks[n].kind = "table" /\ j.blocks[n].rows = <<>> /\ Length(j.blocks[n]) > j.size
    \/ j.blocks[n].kind = "raw"

Behind(j, cs, s, m) == \A n \in 1..m - 1 : n \in ToSet(s) \/ HasAll(j, cs, n) \/ Excused(j, n)
Begun(j, cs, n, k) == Excused(j, n) \/ \A u \in 0..k - 1 : Has(j, cs, n, u)

(* A block is split only if it has to be, and with nothing left to flush.  *)
ToSplit(j, n, k) ==
    /\ n <= Len(j.blocks) /\ k <= Units(j.blocks[n]) /\ j.blocks[n].kind \notin {"heading", "raw"}
    /\ j.by = "token" \/ Length(j.blocks[n]) > j.size

BaseInv ==
    /\ job \in Jobs /\ pc \in {"scan", "split", "done"}
    /\ next \in 1..Len(job.blocks) + 1 /\ at \in Nat
    /\ cur \in Seq(1..next - 1) /\ Rising(cur) /\ chunks \in Seq(ChunkSet)
    /\ pc = "split" => ToSplit(job, next, at) /\ cur = <<>>
    /\ pc = "done" => next = Len(job.blocks) + 1 /\ cur = <<>>
ChunksInv == \A c \in ToSet(chunks) : ChunkOK(job, c)
CurInv == Short(job, cur)

(* What is behind is collected, kept, or excused; and so is the beginning  *)
(* of the block that is split.                                             *)
CoverInv ==
    /\ Behind(job, ToSet(chunks), cur, next)
    /\ pc = "split" => Begun(job, ToSet(chunks), next, at)

IInv == BaseInv /\ ChunksInv /\ CurInv /\ CoverInv

-----------------------------------------------------------------------------
(* Lengths of what is collected, and the chunk it becomes.                 *)

LEMMA JoinedMore ==
    ASSUME NEW j \in Jobs, NEW s \in Seq(1..Len(j.blocks)), NEW n \in 1..Len(j.blocks)
    PROVE  /\ JoinedOf(j, s) \in Nat
           /\ s = <<>> => JoinedOf(j, Append(s, n)) = Length(j.blocks[n])
           /\ s # <<>> => JoinedOf(j, Append(s, n)) = JoinedOf(j, s) + 2 + Length(j.blocks[n])
<1> DEFINE t == Append(s, n)
           f == [i \in DOMAIN s |-> Length(j.blocks[s[i]])]
           e == [i \in DOMAIN t |-> Length(j.blocks[t[i]])]
<1>1. PICK m \in Nat : m = Len(s)
  BY LenProperties
<1>2. DOMAIN s = 1..m /\ \A i \in 1..m : s[i] \in 1..Len(j.blocks)
  BY <1>1, LenProperties
<1>3. /\ t \in Seq(1..Len(j.blocks)) /\ Len(t) = m + 1
      /\ t[m + 1] = n /\ \A i \in 1..m : t[i] = s[i]
  BY <1>1, AppendProperties
<1>4. DOMAIN t = 1..m + 1
  BY <1>3, LenProperties
<1>5. \A i \in 1..Len(j.blocks) : Length(j.blocks[i]) \in Nat
  BY BlocksOf, BlockFacts
<1>6. f \in [1..m -> Nat]
  BY <1>2, <1>5
<1>7. \A i \in 1..m + 1 : i \in 1..m \/ i = m + 1
  BY <1>1
<1>8. \A i \in 1..m + 1 : t[i] \in 1..Len(j.blocks)
  BY <1>2, <1>3, <1>7
<1>9. e \in [1..m + 1 -> Nat]
  BY <1>4, <1>5, <1>8
<1>10. e[m + 1] = Length(j.blocks[n]) /\ \A i \in 1..m : e[i] = f[i]
  BY <1>1, <1>2, <1>3, <1>4
<1> HIDE DEF f, e
<1>11. SumFunction(f) \in Nat /\ SumFunction(e) = SumFunction(f) + Length(j.blocks[n])
  <2>1. SumFunction(f) \in Nat /\ SumFunction(e) = SumFunction(f) + e[m + 1]
    BY <1>1, <1>6, <1>9, <1>10, SumOfMore
  <2> QED BY <2>1, <1>10
<1>12. JoinedOf(j, s) = SumFunction(f) + 2 * Larger(0, m - 1) /\ JoinedOf(j, t) = SumFunction(e) + 2 * Larger(0, m)
  BY <1>1, <1>3 DEF JoinedOf, f, e
<1>13. s = <<>> => m = 0 /\ SumFunction(f) = 0
  BY <1>1, <1>2, EmptySeq, SumOfNone DEF f
<1>14. s # <<>> => m > 0
  BY <1>1, EmptySeq
<1>15. PICK a, b, c \in Nat : a = SumFunction(f) /\ b = Length(j.blocks[n]) /\ c = SumFunction(e) /\ c = a + b
  BY <1>5, <1>11
<1>16. Larger(0, m) = m /\ (m = 0 => Larger(0, m - 1) = 0) /\ (m > 0 => Larger(0, m - 1) = m - 1)
  BY <1>1 DEF Larger
<1>17. JoinedOf(j, s) \in Nat
  <2>1. PICK w \in Nat : w = Larger(0, m - 1)
    BY <1>1, <1>16
  <2>2. JoinedOf(j, s) = a + 2 * w
    BY <1>12, <1>15, <2>1
  <2>3. a + 2 * w \in Nat
    BY <1>15, <2>1
  <2> QED BY <2>2, <2>3
<1>18. s = <<>> => JoinedOf(j, t) = Length(j.blocks[n])
  BY <1>12, <1>13, <1>15, <1>16
<1>19. s # <<>> => JoinedOf(j, t) = JoinedOf(j, s) + 2 + Length(j.blocks[n])
  <2>1. s # <<>> => JoinedOf(j, s) = a + 2 * (m - 1)
    BY <1>12, <1>14, <1>15, <1>16
  <2>2. JoinedOf(j, t) = c + 2 * m
    BY <1>12, <1>15, <1>16
  <2>3. c + 2 * m = a + 2 * (m - 1) + 2 + b
    BY <1>15
  <2> QED BY <2>1, <2>2, <2>3, <1>15
<1> QED BY <1>17, <1>18, <1>19 DEF t

WholeOf(j, s) ==
    [parts |-> [i \in DOMAIN s |-> [block |-> s[i], from |-> 0, to |-> Units(j.blocks[s[i]])]],
     size |-> JoinedOf(j, s)]

(* What is flushed is a chunk that holds each of its blocks.               *)
LEMMA WholeFacts ==
    ASSUME NEW j \in Jobs, NEW s \in Seq(1..Len(j.blocks)), s # <<>>, Short(j, s), NEW w, w = WholeOf(j, s)
    PROVE  w \in ChunkSet /\ ChunkOK(j, w) /\ \A n \in ToSet(s) : HasAll(j, {w}, n)
<1> DEFINE part(i) == [block |-> s[i], from |-> 0, to |-> Units(j.blocks[s[i]])]
           ps == [i \in DOMAIN s |-> part(i)]
<1>1. PICK m \in Nat : m = Len(s) /\ DOMAIN s = 1..m /\ \A i \in 1..m : s[i] \in 1..Len(j.blocks)
  BY LenProperties
<1>2. Len(j.blocks) \in Nat /\ \A i \in 1..Len(j.blocks) : Units(j.blocks[i]) \in Nat
  BY BlocksOf, BlockFacts
<1>3. \A i \in 1..m : part(i) \in PartSet /\ PartOK(j, part(i))
  BY <1>1, <1>2 DEF PartSet, PartOK
<1>4. ps \in [1..m -> PartSet]
  BY <1>1, <1>3
<1>5. ps \in Seq(PartSet)
  BY <1>1, <1>4
<1>6. Len(ps) = m
  BY <1>1, <1>4, <1>5, LenProperties
<1>7. JoinedOf(j, s) \in Nat
  <2>1. 1 \in DOMAIN s
    BY <1>1, EmptySeq
  <2> QED BY <1>1, <2>1, JoinedMore
<1>8. w.parts = ps /\ w.size = JoinedOf(j, s) /\ w = [parts |-> ps, size |-> JoinedOf(j, s)]
  BY DEF WholeOf
<1>9. \A i \in 1..m : ps[i] = part(i)
  BY <1>1
<1>10. ToSet(ps) = {part(i) : i \in 1..m}
  BY <1>1, <1>9 DEF ToSet
<1> HIDE DEF ps
<1>11. w \in ChunkSet
  BY <1>5, <1>7, <1>8 DEF ChunkSet
<1>12. SizeOK(j, w)
  <2>1. CASE JoinedOf(j, s) <= Limit(j)
    BY <2>1, <1>8 DEF SizeOK
  <2>2. CASE Len(s) = 1 /\ j.blocks[s[1]].kind = "heading"
    <3>1. 1 \in 1..m
      BY <2>2, <1>1
    <3>2. ps[1] = part(1)
      BY <3>1, <1>9
    <3>3. ps[1].block = s[1]
      BY <3>2
    <3>4. j.blocks[w.parts[1].block].kind = "heading" /\ Len(w.parts) = 1
      BY <2>2, <3>3, <1>1, <1>6, <1>8
    <3> QED BY <3>4 DEF SizeOK
  <2> QED BY <2>1, <2>2 DEF Short
<1>13. ChunkOK(j, w)
  BY <1>3, <1>8, <1>10, <1>12 DEF ChunkOK
<1>14. ASSUME NEW n \in ToSet(s) PROVE HasAll(j, {w}, n)
  <2>1. PICK i \in 1..m : n = s[i]
    BY <1>1 DEF ToSet
  <2>2. part(i) \in ToSet(w.parts) /\ part(i).block = n /\ part(i).from = 0 /\ part(i).to = Units(j.blocks[n])
    BY <2>1, <1>8, <1>10
  <2> HIDE DEF part
  <2>3. Named({w}, n)
    BY <2>2 DEF Named
  <2>4. ASSUME NEW u \in 0..Units(j.blocks[n]) - 1 PROVE Holds({w}, n, u)
    <3>1. Units(j.blocks[n]) \in Nat
      BY <1>1, <1>2, <2>1
    <3>2. part(i).from <= u /\ u < part(i).to
      BY <2>2, <3>1
    <3> QED BY <2>2, <3>2 DEF Holds
  <2> QED BY <2>3, <2>4 DEF HasAll, Has
<1> QED BY <1>11, <1>13, <1>14

LEMMA MoreHolds ==
    ASSUME NEW cs, NEW ds, cs \subseteq ds
    PROVE  /\ \A j, n, u : Has(j, cs, n, u) => Has(j, ds, n, u)
           /\ \A j, n : HasAll(j, cs, n) => HasAll(j, ds, n)
<1>1. \A n, u : Holds(cs, n, u) => Holds(ds, n, u)
  BY DEF Holds
<1>2. \A n : Named(cs, n) => Named(ds, n)
  BY DEF Named
<1>3. \A j, n, u : Has(j, cs, n, u) => Has(j, ds, n, u)
  BY <1>1 DEF Has
<1> HIDE DEF Has
<1> QED BY <1>2, <1>3 DEF HasAll

LEMMA JoinedIs == \A s : Joined(s) = JoinedOf(job, s)
BY DEF Joined, JoinedOf, TextOf

LEMMA NoneJoined == \A j : JoinedOf(j, <<>>) = 0
<1> SUFFICES ASSUME NEW j PROVE JoinedOf(j, <<>>) = 0
  OBVIOUS
<1>1. [i \in DOMAIN <<>> |-> Length(j.blocks[<<>>[i]])] = <<>>
  OBVIOUS
<1>2. Larger(0, Len(<<>>) - 1) = 0
  BY EmptySeq DEF Larger
<1>3. JoinedOf(j, <<>>) = SumFunction(<<>>) + 2 * 0
  BY <1>1, <1>2 DEF JoinedOf
<1> QED BY <1>3, SumOfNone

(* What is carried fits the overlap: nothing does always.                  *)
LEMMA CarriedIs ==
    ASSUME BaseInv
    PROVE  /\ Carried \in Seq(1..next - 1) /\ JoinedOf(job, Carried) <= job.overlap
           /\ Rising(Carried)
           /\ job.by # "chars" => Carried = <<>>
<1>1. job.overlap \in Nat
  BY BlocksOf DEF BaseInv
<1>2. CASE job.by # "chars"
  <2>1. Carried = <<>> /\ Carried \in Seq(1..next - 1)
    BY <1>2, EmptySeq DEF Carried
  <2>2. Rising(<<>>)
    BY DEF Rising
  <2> QED BY <1>1, <1>2, <2>1, <2>2, NoneJoined
<1>3. CASE job.by = "chars"
  <2> DEFINE End(k) == SubSeq(cur, Len(cur) - k + 1, Len(cur))
             T == {k \in 0..Len(cur) : Joined(End(k)) <= job.overlap}
  <2>1. Len(cur) \in Nat /\ cur \in [1..Len(cur) -> 1..next - 1]
    BY LenProperties DEF BaseInv
  <2>2. End(0) = <<>>
    BY <2>1, SubSeqEmpty
  <2>3. 0 \in T
    <3>1. Joined(End(0)) = 0
      BY <2>2, NoneJoined, JoinedIs
    <3> HIDE DEF End
    <3> QED BY <1>1, <2>1, <3>1
  <2>4. Max(T) \in T
    BY <2>1, <2>3, MaxIsMost
  <2>5. PICK k \in 0..Len(cur) : k = Max(T) /\ Joined(End(k)) <= job.overlap
    BY <2>4
  <2>6. End(k) \in Seq(1..next - 1) /\ Rising(End(k))
    <3>1. \A i \in Len(cur) - k + 1..Len(cur) : cur[i] \in 1..next - 1
      BY <2>1
    <3>2. PICK n \in Nat : n = Len(cur) /\ n - k \in Nat
      <4>1. Len(cur) - k \in Nat
        BY <2>1
      <4> QED BY <2>1, <4>1
    <3> DEFINE d == n - k
    <3>3. /\ End(k) \in Seq(1..next - 1)
          /\ Len(End(k)) = (IF d + 1 <= n THEN n - (d + 1) + 1 ELSE 0)
          /\ \A i \in 1..n - (d + 1) + 1 : End(k)[i] = cur[(d + 1) + i - 1]
      BY <3>1, <3>2, SubSeqProperties
    <3> HIDE DEF End
    <3>0. d \in Nat /\ n = d + k /\ (d + 1 <= n <=> k # 0) /\ n - (d + 1) + 1 = k
      BY <3>2
    <3> HIDE DEF d
    <3>4. d \in Nat /\ Len(End(k)) = k /\ \A i \in 1..k : End(k)[i] = cur[d + i] /\ d + i \in 1..n
      BY <3>0, <3>3
    <3>5. DOMAIN End(k) = 1..k /\ DOMAIN cur = 1..n
      BY <2>1, <3>2, <3>3, <3>4, LenProperties
    <3>6. ASSUME NEW i \in 1..k, NEW m \in 1..i - 1 PROVE End(k)[m] < End(k)[i]
      <4>1. d + i \in 1..n /\ d + m \in 1..(d + i) - 1 /\ m \in 1..k
        BY <3>4
      <4>2. cur[d + m] < cur[d + i]
        BY <3>5, <4>1 DEF BaseInv, Rising
      <4> QED BY <3>4, <4>1, <4>2
    <3>7. Rising(End(k))
      BY <3>5, <3>6 DEF Rising
    <3> QED BY <3>3, <3>7
  <2>7. Carried = End(k)
    BY <1>3, <2>5 DEF Carried
  <2> HIDE DEF End
  <2> QED BY <1>3, <2>5, <2>6, <2>7, JoinedIs
<1> QED BY <1>2, <1>3

(* Where the chunker is, apart from what it does next.                     *)
LEMMA Located ==
    ASSUME BaseInv
    PROVE  job \in Jobs /\ Len(job.blocks) \in Nat /\ next \in 1..Len(job.blocks) + 1 /\ at \in Nat
BY BlocksOf DEF BaseInv

LEMMA NextIs ==
    ASSUME BaseInv, Pending
    PROVE  next \in 1..Len(job.blocks) /\ Block.kind # "raw"
BY Located DEF Pending

LEMMA CurInJob ==
    ASSUME BaseInv
    PROVE  /\ next \in Nat /\ cur \in Seq(1..Len(job.blocks)) /\ \A n \in ToSet(cur) : n \in 1..next - 1
<1>1. Len(job.blocks) \in Nat /\ next \in 1..Len(job.blocks) + 1
  BY BlocksOf DEF BaseInv
<1>2. 1..next - 1 \subseteq 1..Len(job.blocks)
  BY <1>1
<1>3. \A n \in ToSet(cur) : n \in 1..next - 1
  BY LenProperties DEF BaseInv, ToSet
<1>4. cur \in Seq(1..Len(job.blocks))
  BY <1>2, SeqMonotonic DEF BaseInv
<1> QED BY <1>1, <1>3, <1>4

LEMMA NoMembers == ToSet(<<>>) = {}
BY DEF ToSet

(* After a flush all that was collected is in the chunks.                  *)
LEMMA FlushedIs ==
    ASSUME BaseInv, ChunksInv, CurInv, CoverInv
    PROVE  /\ Flushed \in Seq(ChunkSet) /\ \A c \in ToSet(Flushed) : ChunkOK(job, c)
           /\ Behind(job, ToSet(Flushed), <<>>, next)
<1>1. CASE cur = <<>>
  BY <1>1 DEF Flushed, BaseInv, ChunksInv, CoverInv
<1>2. CASE cur # <<>>
  <2> DEFINE w == WholeOf(job, cur)
  <2>1. Flushed = Append(chunks, w)
    BY <1>2, JoinedIs DEF Flushed, Whole, WholeOf, TextOf
  <2>2. w \in ChunkSet /\ ChunkOK(job, w) /\ \A n \in ToSet(cur) : HasAll(job, {w}, n)
    BY <1>2, CurInJob, WholeFacts DEF CurInv, BaseInv
  <2> HIDE DEF w
  <2>3. Flushed \in Seq(ChunkSet) /\ ToSet(Flushed) = ToSet(chunks) \cup {w}
    BY <2>1, <2>2, AppendMembers DEF BaseInv
  <2>4. \A n \in ToSet(cur) : HasAll(job, ToSet(Flushed), n)
    BY <2>2, <2>3, MoreHolds
  <2>5. \A n : HasAll(job, ToSet(chunks), n) => HasAll(job, ToSet(Flushed), n)
    BY <2>3, MoreHolds
  <2>6. Behind(job, ToSet(Flushed), <<>>, next)
    BY <2>4, <2>5 DEF Behind, CoverInv
  <2> QED BY <2>2, <2>3, <2>6 DEF ChunksInv
<1> QED BY <1>1, <1>2

(* A block that is collected in its turn.                                  *)
LEMMA Collected ==
    ASSUME NEW j \in Jobs, NEW n \in 1..Len(j.blocks), NEW s \in Seq(1..n - 1), NEW cs,
           \A m \in 1..n - 1 : m \in ToSet(s) \/ HasAll(j, cs, m) \/ Excused(j, m)
    PROVE  /\ Append(s, n) \in Seq(1..n) /\ Behind(j, cs, Append(s, n), n + 1)
           /\ Rising(s) => Rising(Append(s, n))
<1>1. n \in Nat
  BY BlocksOf
<1>2. s \in Seq(1..n) /\ n \in 1..n
  BY <1>1, SeqMonotonic
<1>3. Append(s, n) \in Seq(1..n) /\ ToSet(Append(s, n)) = ToSet(s) \cup {n}
  BY <1>2, AppendMembers
<1>4. \A m \in 1..(n + 1) - 1 : m \in 1..n - 1 \/ m = n
  BY <1>1
<1>5. ASSUME Rising(s) PROVE Rising(Append(s, n))
  <2>1. PICK m \in Nat : m = Len(s) /\ DOMAIN s = 1..m
    BY LenProperties
  <2>2. PICK t : t = Append(s, n)
    OBVIOUS
  <2>3. t \in Seq(1..n) /\ Len(t) = m + 1 /\ t[m + 1] = n /\ \A i \in 1..m : t[i] = s[i]
    BY <1>2, <2>1, <2>2, AppendProperties
  <2>4. DOMAIN t = 1..m + 1
    BY <2>3, LenProperties
  <2>5. \A i \in 1..m : s[i] \in 1..n - 1
    BY <2>1, LenProperties
  <2>6. ASSUME NEW i \in 1..m + 1, NEW k \in 1..i - 1 PROVE t[k] < t[i]
    <3>1. k \in 1..m
      BY <2>1
    <3>2. CASE i = m + 1
      BY <1>1, <2>3, <2>5, <3>1, <3>2
    <3>3. CASE i # m + 1
      <4>1. i \in 1..m
        BY <2>1, <3>3
      <4>2. s[k] < s[i]
        BY <1>5, <2>1, <4>1 DEF Rising
      <4> QED BY <2>3, <3>1, <4>1, <4>2
    <3> QED BY <3>2, <3>3
  <2> QED BY <2>2, <2>4, <2>6 DEF Rising
<1> QED BY <1>3, <1>4, <1>5 DEF Behind

-----------------------------------------------------------------------------
(* The steps that merge.                                                   *)

LEMMA TakeKeeps == IInv /\ Take => IInv'
<1> SUFFICES ASSUME BaseInv, ChunksInv, CurInv, CoverInv, Take PROVE IInv'
  BY DEF IInv
<1>1. /\ job \in Jobs /\ Len(job.blocks) \in Nat /\ next \in 1..Len(job.blocks)
      /\ job' = job /\ next' = next + 1 /\ pc = "scan" /\ pc' = "scan" /\ at' = at
      /\ Length(Block) <= job.size \/ Block.kind = "heading"
  BY Located, NextIs DEF Take, Fits
<1>2. /\ IsBlock(Block) /\ Length(Block) \in Nat /\ (job.by = "chars" => Block.kind # "heading")
      /\ job.size \in Nat \ {0} /\ job.overlap \in Nat /\ Block = job.blocks[next]
  BY <1>1, BlocksOf, BlockFacts DEF Block
<1>3. Limit(job) \in Nat /\ job.size <= Limit(job) /\ (job.by = "chars" => Limit(job) = job.size + job.overlap + 2)
  BY <1>2 DEF Limit
<1>4. Append(<<>>, next) = <<next>> /\ Len(<<next>>) = 1 /\ <<next>>[1] = next
  OBVIOUS
<1>5. Short(job, <<next>>)
  <2>1. JoinedOf(job, Append(<<>>, next)) = Length(Block)
    BY <1>1, <1>2, EmptySeq, JoinedMore
  <2> QED BY <1>1, <1>2, <1>3, <1>4, <2>1 DEF Short
<1>6. SUFFICES /\ chunks' \in Seq(ChunkSet) /\ \A c \in ToSet(chunks') : ChunkOK(job, c)
               /\ cur' \in Seq(1..next) /\ Rising(cur') /\ Short(job, cur')
               /\ Behind(job, ToSet(chunks'), cur', next + 1)
  <2>1. next' \in 1..Len(job'.blocks) + 1 /\ next' - 1 = next /\ job' \in Jobs /\ at' \in Nat
    BY <1>1 DEF BaseInv
  <2> QED BY <1>1, <1>6, <2>1 DEF IInv, BaseInv, ChunksInv, CurInv, CoverInv
<1>7. CASE cur # <<>> /\ Joined(cur) + 2 + Length(Block) > job.size
  <2>1. chunks' = Flushed /\ cur' = Append(Carried, next)
    BY <1>7 DEF Take
  <2>2. Carried \in Seq(1..next - 1) /\ JoinedOf(job, Carried) <= job.overlap /\ (job.by # "chars" => Carried = <<>>)
        /\ Rising(Carried)
    BY CarriedIs
  <2>3. \A m \in 1..next - 1 : m \in ToSet(Carried) \/ HasAll(job, ToSet(Flushed), m) \/ Excused(job, m)
    BY FlushedIs, NoMembers DEF Behind
  <2>4. cur' \in Seq(1..next) /\ Rising(cur') /\ Behind(job, ToSet(chunks'), cur', next + 1)
    BY <1>1, <2>1, <2>2, <2>3, Collected
  <2>5. Short(job, Append(Carried, next))
    <3>1. CASE Carried = <<>>
      BY <3>1, <1>4, <1>5
    <3>2. CASE Carried # <<>>
      <4>1. Carried \in Seq(1..Len(job.blocks))
        <5>1. 1..next - 1 \subseteq 1..Len(job.blocks)
          BY <1>1
        <5>2. PICK s, S, T : s = Carried /\ S = 1..next - 1 /\ T = 1..Len(job.blocks)
          OBVIOUS
        <5>3. s \in Seq(S) /\ S \subseteq T
          BY <2>2, <5>1, <5>2
        <5>4. s \in Seq(T)
          BY <5>3, SeqMonotonic
        <5> QED BY <5>2, <5>4
      <4>2. JoinedOf(job, Carried) \in Nat
            /\ JoinedOf(job, Append(Carried, next)) = JoinedOf(job, Carried) + 2 + Length(Block)
        BY <1>1, <1>2, <3>2, <4>1, JoinedMore
      <4>3. job.by = "chars" /\ Length(Block) <= job.size
        BY <1>1, <1>2, <2>2, <3>2
      <4>4. JoinedOf(job, Append(Carried, next)) <= Limit(job)
        BY <1>2, <1>3, <2>2, <4>2, <4>3
      <4> QED BY <4>4 DEF Short
    <3> QED BY <3>1, <3>2
  <2> QED BY <2>1, <2>4, <2>5, FlushedIs
<1>8. CASE ~(cur # <<>> /\ Joined(cur) + 2 + Length(Block) > job.size)
  <2>1. chunks' = chunks /\ cur' = Append(cur, next)
    BY <1>8 DEF Take
  <2>2. cur' \in Seq(1..next) /\ Rising(cur') /\ Behind(job, ToSet(chunks'), cur', next + 1)
    BY <1>1, <2>1, Collected DEF BaseInv, CoverInv, Behind
  <2>3. Short(job, Append(cur, next))
    <3>1. CASE cur = <<>>
      BY <3>1, <1>4, <1>5
    <3>2. CASE cur # <<>>
      <4>1. JoinedOf(job, cur) \in Nat /\ JoinedOf(job, Append(cur, next)) = JoinedOf(job, cur) + 2 + Length(Block)
        BY <1>1, <1>2, <3>2, CurInJob, JoinedMore
      <4>2. ~(JoinedOf(job, cur) + 2 + Length(Block) > job.size)
        BY <1>8, <3>2, JoinedIs
      <4>3. JoinedOf(job, Append(cur, next)) <= Limit(job)
        BY <1>2, <1>3, <4>1, <4>2
      <4> QED BY <4>3 DEF Short
    <3> QED BY <3>1, <3>2
  <2> QED BY <2>1, <2>2, <2>3 DEF BaseInv, ChunksInv
<1> QED BY <1>7, <1>8

LEMMA OversizedKeeps == IInv /\ Oversized => IInv'
<1> SUFFICES ASSUME BaseInv, ChunksInv, CurInv, CoverInv, Oversized PROVE IInv'
  BY DEF IInv
<1>1. /\ job \in Jobs /\ Len(job.blocks) \in Nat /\ next \in 1..Len(job.blocks)
      /\ job' = job /\ next' = next /\ pc' = "split" /\ at' = 0 /\ chunks' = Flushed /\ cur' = <<>>
      /\ ~(Length(Block) <= job.size) /\ Block.kind \notin {"heading", "raw"}
  BY Located, NextIs DEF Oversized, Fits
<1>2. /\ Length(Block) \in Nat /\ Units(Block) \in Nat /\ job.size \in Nat /\ Block = job.blocks[next]
  BY <1>1, BlocksOf, BlockFacts DEF Block
<1>3. ToSplit(job, next, 0)
  BY <1>1, <1>2 DEF ToSplit
<1>4. BaseInv'
  BY <1>1, <1>3, FlushedIs, EmptySeq DEF BaseInv, Rising
<1>5. ChunksInv' /\ CurInv'
  BY <1>1, FlushedIs DEF ChunksInv, CurInv, Short
<1>6. CoverInv'
  <2>1. Begun(job, ToSet(Flushed), next, 0)
    BY DEF Begun
  <2> QED BY <1>1, <2>1, FlushedIs DEF CoverInv
<1> QED BY <1>4, <1>5, <1>6 DEF IInv

LEMMA SkipKeeps == IInv /\ Skip => IInv'
<1> SUFFICES ASSUME BaseInv, ChunksInv, CurInv, CoverInv, Skip PROVE IInv'
  BY DEF IInv
<1>1. /\ job \in Jobs /\ Len(job.blocks) \in Nat /\ next \in 1..Len(job.blocks) /\ at \in Nat
      /\ job' = job /\ next' = next + 1 /\ pc = "scan" /\ pc' = "scan" /\ at' = at
      /\ chunks' = chunks /\ cur' = cur /\ Block.kind = "raw"
  BY Located DEF Skip
<1>2. BaseInv'
  <2>1. 1..next - 1 \subseteq 1..(next + 1) - 1 /\ next + 1 \in 1..Len(job.blocks) + 1
    BY <1>1
  <2>2. cur \in Seq(1..(next + 1) - 1)
    BY <2>1, SeqMonotonic DEF BaseInv
  <2> QED BY <1>1, <2>1, <2>2 DEF BaseInv
<1>3. ChunksInv' /\ CurInv'
  BY <1>1 DEF ChunksInv, CurInv
<1>4. Excused(job, next)
  BY <1>1 DEF Excused, Block
<1>5. Behind(job, ToSet(chunks), cur, next + 1)
  <2>1. \A n \in 1..(next + 1) - 1 : n \in 1..next - 1 \/ n = next
    BY <1>1
  <2> QED BY <1>4, <2>1 DEF CoverInv, Behind
<1>6. CoverInv'
  BY <1>1, <1>5 DEF CoverInv
<1> QED BY <1>2, <1>3, <1>6 DEF IInv

LEMMA FinishKeeps == IInv /\ Finish => IInv'
<1> SUFFICES ASSUME BaseInv, ChunksInv, CurInv, CoverInv, Finish PROVE IInv'
  BY DEF IInv
<1>1. /\ job \in Jobs /\ Len(job.blocks) \in Nat /\ next = Len(job.blocks) + 1 /\ at \in Nat
      /\ job' = job /\ next' = next /\ pc' = "done" /\ at' = at /\ chunks' = Flushed /\ cur' = <<>>
  BY Located DEF Finish
<1>2. BaseInv'
  BY <1>1, FlushedIs, EmptySeq DEF BaseInv, Rising
<1>3. ChunksInv' /\ CurInv'
  BY <1>1, FlushedIs DEF ChunksInv, CurInv, Short
<1>4. CoverInv'
  BY <1>1, FlushedIs DEF CoverInv
<1> QED BY <1>2, <1>3, <1>4 DEF IInv

-----------------------------------------------------------------------------
(* The steps that split.                                                   *)

LEMMA SplitFacts ==
    ASSUME BaseInv, pc = "split"
    PROVE  /\ job \in Jobs /\ Len(job.blocks) \in Nat /\ next \in 1..Len(job.blocks) /\ next \in Nat
           /\ IsBlock(Block) /\ Block = job.blocks[next] /\ Block.kind \in {"text", "section", "table"}
           /\ Block.kind = "section" => Length(Block) > job.size
           /\ at \in Nat /\ Units(Block) \in Nat /\ at <= Units(Block) /\ cur = <<>>
           /\ job.size \in Nat \ {0} /\ job.overlap \in Nat /\ job.overlap < job.size
           /\ Limit(job) \in Nat /\ job.size <= Limit(job)
<1>1. /\ job \in Jobs /\ Len(job.blocks) \in Nat /\ next \in 1..Len(job.blocks) + 1
      /\ next <= Len(job.blocks) /\ at \in Nat /\ at <= Units(job.blocks[next]) /\ cur = <<>>
      /\ job.blocks[next].kind \notin {"heading", "raw"}
      /\ job.by = "token" \/ Length(job.blocks[next]) > job.size
  BY BlocksOf DEF BaseInv, ToSplit
<1>2. next \in 1..Len(job.blocks) /\ next \in Nat
  BY <1>1
<1>3. IsBlock(job.blocks[next]) /\ job.size \in Nat \ {0} /\ job.overlap \in Nat /\ job.overlap < job.size
  BY <1>1, <1>2, BlocksOf
<1>4. Limit(job) \in Nat /\ job.size <= Limit(job)
  BY <1>3 DEF Limit
<1>5. job.blocks[next].kind \in {"text", "section", "table"} /\ Units(job.blocks[next]) \in Nat
  BY <1>1, <1>3, BlockFacts
<1>6. job.by = "token" => job.blocks[next].kind # "section"
  BY <1>1, <1>2, BlocksOf
<1> QED BY <1>1, <1>2, <1>3, <1>4, <1>5, <1>6 DEF Block

(* How far the block is kept after chunks up to e.                         *)
LEMMA KeptUpTo ==
    ASSUME BaseInv, CoverInv, pc = "split", NEW ds, ToSet(chunks) \subseteq ds, NEW e \in Nat,
           Excused(job, next) \/ \A u \in at..e - 1 : Has(job, ds, next, u)
    PROVE  /\ \A k \in 0..e : Begun(job, ds, next, k)
           /\ Behind(job, ds, <<>>, next)
           /\ Excused(job, next) \/ (Units(Block) > 0 /\ e >= Units(Block)) => Behind(job, ds, <<>>, next + 1)
<1>1. at \in Nat /\ next \in Nat /\ cur = <<>> /\ Units(Block) \in Nat /\ Block = job.blocks[next]
  BY SplitFacts
<1>2. Excused(job, next) \/ \A u \in 0..e - 1 : Has(job, ds, next, u)
  <2>1. Excused(job, next) \/ \A u \in 0..at - 1 : Has(job, ds, next, u)
    BY MoreHolds DEF CoverInv, Begun
  <2>2. \A u \in 0..e - 1 : u \in 0..at - 1 \/ u \in at..e - 1
    BY <1>1
  <2> QED BY <2>1, <2>2
<1>3. \A k \in 0..e : Begun(job, ds, next, k)
  <2>1. \A k \in 0..e : \A u \in 0..k - 1 : u \in 0..e - 1
    OBVIOUS
  <2> QED BY <1>2, <2>1 DEF Begun
<1>4. \A n \in 1..next - 1 : HasAll(job, ds, n) \/ Excused(job, n)
  <2>1. \A n \in 1..next - 1 : HasAll(job, ToSet(chunks), n) \/ Excused(job, n)
    BY <1>1, NoMembers DEF CoverInv, Behind
  <2> QED BY <2>1, MoreHolds
<1>5. ASSUME Excused(job, next) \/ (Units(Block) > 0 /\ e >= Units(Block)) PROVE Behind(job, ds, <<>>, next + 1)
  <2>1. HasAll(job, ds, next) \/ Excused(job, next)
    <3>1. e >= Units(Block) => \A u \in 0..Units(Block) - 1 : u \in 0..e - 1
      BY <1>1
    <3> QED BY <1>1, <1>2, <1>5, <3>1 DEF HasAll
  <2>2. \A n \in 1..(next + 1) - 1 : n \in 1..next - 1 \/ n = next
    BY <1>1
  <2> QED BY <1>4, <2>1, <2>2 DEF Behind
<1> QED BY <1>3, <1>4, <1>5 DEF Behind

LEMMA LeaveKeeps ==
    ASSUME BaseInv, pc = "split", job' = job, cur' = cur, Leave,
           chunks' \in Seq(ChunkSet), \A c \in ToSet(chunks') : ChunkOK(job, c),
           Behind(job, ToSet(chunks'), <<>>, next + 1)
    PROVE  IInv'
<1>1. /\ job \in Jobs /\ cur' = <<>> /\ pc' = "scan" /\ next' = next + 1 /\ at' = 0
      /\ next + 1 \in 1..Len(job.blocks) + 1
  BY SplitFacts DEF Leave
<1>2. BaseInv'
  BY <1>1, EmptySeq DEF BaseInv
<1>3. ChunksInv' /\ CurInv' /\ CoverInv'
  BY <1>1 DEF ChunksInv, CurInv, Short, CoverInv
<1> QED BY <1>2, <1>3 DEF IInv

LEMMA StayKeeps ==
    ASSUME BaseInv, pc = "split", job' = job, cur' = cur, NEW k \in Nat, StayAt(k), k <= Units(Block),
           chunks' \in Seq(ChunkSet), \A c \in ToSet(chunks') : ChunkOK(job, c),
           Behind(job, ToSet(chunks'), <<>>, next), Begun(job, ToSet(chunks'), next, k)
    PROVE  IInv'
<1>1. /\ job \in Jobs /\ cur' = <<>> /\ pc' = "split" /\ next' = next /\ at' = k
      /\ next \in 1..Len(job.blocks) + 1
  BY SplitFacts DEF StayAt
<1>2. ToSplit(job, next, k)
  BY SplitFacts DEF BaseInv, ToSplit
<1>3. BaseInv'
  BY <1>1, <1>2, EmptySeq DEF BaseInv
<1>4. ChunksInv' /\ CurInv' /\ CoverInv'
  BY <1>1 DEF ChunksInv, CurInv, Short, CoverInv
<1> QED BY <1>3, <1>4 DEF IInv

(* A chunk of a piece of the block.                                        *)
LEMMA PieceIs ==
    ASSUME BaseInv, pc = "split", NEW i \in Nat, NEW k \in Nat, i <= k, k <= Units(Block),
           NEW z \in Nat, z <= job.size \/ (Block.kind = "section" /\ k - i <= job.size), NEW c, c = [parts |-> Part(i, k), size |-> z]
    PROVE  /\ c \in ChunkSet /\ ChunkOK(job, c)
           /\ \A ds : c \in ds => \A u \in i..k - 1 : Has(job, ds, next, u)
<1> DEFINE p == [block |-> next, from |-> i, to |-> k]
<1>1. c.parts = <<p>> /\ c.size = z
  BY DEF Part
<1>2. p \in PartSet /\ PartOK(job, p)
  BY SplitFacts DEF PartSet, PartOK
<1>3. p.block = next /\ p.from = i /\ p.to = k
  OBVIOUS
<1> HIDE DEF p
<1>4. ToSet(c.parts) = {p} /\ c.parts \in Seq(PartSet)
  <2>1. DOMAIN <<p>> = {1} /\ <<p>>[1] = p
    OBVIOUS
  <2>2. ToSet(<<p>>) = {p}
    BY <2>1 DEF ToSet
  <2>3. <<p>> \in Seq(PartSet)
    BY <1>2
  <2> QED BY <1>1, <2>2, <2>3
<1>5. c \in ChunkSet
  BY <1>1, <1>4 DEF ChunkSet
<1>6. ChunkOK(job, c)
  <2>1. CASE z <= job.size
    <3>1. c.size <= Limit(job)
      BY <1>1, <2>1, SplitFacts
    <3> QED BY <1>2, <1>4, <3>1 DEF ChunkOK, SizeOK
  <2>2. CASE Block.kind = "section" /\ k - i <= job.size
    <3>1. c.parts[1] = p /\ Len(c.parts) = 1
      BY <1>1
    <3>2. job.blocks[c.parts[1].block] = Block /\ c.parts[1].to - c.parts[1].from <= job.size
      BY <1>3, <2>2, <3>1, SplitFacts
    <3>3. SizeOK(job, c)
      BY <2>2, <3>1, <3>2, SplitFacts DEF SizeOK
    <3> QED BY <1>2, <1>4, <3>3 DEF ChunkOK
  <2> QED BY <2>1, <2>2
<1>7. ASSUME NEW ds, c \in ds PROVE \A u \in i..k - 1 : Has(job, ds, next, u)
  <2>1. \A u \in i..k - 1 : p.from <= u /\ u < p.to
    BY <1>3
  <2> QED BY <1>3, <1>4, <1>7, <2>1 DEF Has, Holds
<1> QED BY <1>5, <1>6, <1>7

(* A window ends behind its begin and within its size; where texts are     *)
(* steady, the next one begins behind it.                                  *)
LEMMA WindowEndIs ==
    ASSUME BaseInv, pc = "split", Block.kind \in {"text", "section"}
    PROVE  /\ WindowEnd \in Nat /\ at <= WindowEnd /\ WindowEnd <= Units(Block) /\ WindowEnd - at <= job.size
           /\ at < Units(Block) => at < WindowEnd
           /\ Steady /\ WindowEnd < Units(Block) => WindowEnd - job.overlap > at
<1> DEFINE full == Smaller(Units(Block), at + job.size)
           near == {x \in Block.bounds : at < x /\ x <= full /\ full - x <= Slack}
<1>1. Units(Block) \in Nat \ {0} /\ Block.bounds \subseteq 1..Units(Block)
  BY SplitFacts, BlockFacts
<1>2. /\ at \in Nat /\ at <= Units(Block) /\ job.size \in Nat \ {0} /\ job.overlap \in Nat
      /\ job.overlap < job.size /\ Slack \in Nat
  BY <1>1, SplitFacts, WindowsAssumption
<1>3. PICK a, L, z, o \in Nat : a = at /\ L = Units(Block) /\ z = job.size /\ o = job.overlap
  BY <1>1, <1>2
<1>4. PICK f \in Nat : f = full /\ ((f = L /\ L <= a + z) \/ (f = a + z /\ a + z <= L))
  <2>1. full = IF L < a + z THEN L ELSE a + z
    BY <1>3 DEF Smaller
  <2>2. CASE L < a + z
    <3>1. full = L /\ L \in Nat /\ L <= a + z
      BY <1>3, <2>1, <2>2
    <3> QED BY <3>1
  <2>3. CASE ~(L < a + z)
    <3>1. full = a + z /\ a + z \in Nat /\ a + z <= L
      BY <1>3, <2>1, <2>3
    <3> QED BY <3>1
  <2> QED BY <2>2, <2>3
<1>5. Steady => z > o + Slack /\ \A x \in Block.bounds : x = L \/ L - x > Slack
  <2>1. next \in DOMAIN job.blocks /\ TextOf(next) = Block
    BY SplitFacts, BlocksOf DEF TextOf, Block
  <2> QED BY <1>3, <2>1 DEF Steady
<1>6. CASE job.by \in {"token", "semantic"} /\ near # {}
  <2>1. near \in SUBSET Nat
    BY <1>1
  <2>2. Min(near) \in near
    BY <1>6, <2>1, MinIsLeast
  <2>3. WindowEnd = Min(near)
    BY <1>6 DEF WindowEnd
  <2>4. PICK w \in Nat : w = WindowEnd /\ w \in Block.bounds /\ a < w /\ w <= f /\ f - w <= Slack
    BY <1>3, <1>4, <2>1, <2>2, <2>3
  <2>5. w <= L /\ w - a <= z
    BY <1>3, <1>4, <2>4
  <2>6. Steady /\ w < L => w - o > a
    <3> SUFFICES ASSUME Steady, w < L PROVE w - o > a
      OBVIOUS
    <3>1. L - w > Slack
      BY <1>5, <2>4
    <3>2. f = a + z
      BY <1>4, <2>4, <3>1, <1>2
    <3> QED BY <1>2, <1>5, <2>4, <3>2
  <2> QED BY <1>3, <2>4, <2>5, <2>6
<1>7. CASE ~(job.by \in {"token", "semantic"} /\ near # {})
  <2>1. WindowEnd = f
    BY <1>4, <1>7 DEF WindowEnd
  <2>2. a <= f /\ f <= L /\ f - a <= z /\ (a < L => a < f)
    BY <1>2, <1>3, <1>4
  <2>3. f < L => f - o > a
    BY <1>2, <1>3, <1>4
  <2> QED BY <1>3, <2>1, <2>2, <2>3
<1> QED BY <1>6, <1>7

LEMMA SplitTextKeeps == IInv /\ SplitText => IInv'
<1> SUFFICES ASSUME BaseInv, ChunksInv, CurInv, CoverInv, SplitText PROVE IInv'
  BY DEF IInv
<1>1. /\ pc = "split" /\ Block.kind \in {"text", "section"} /\ job' = job /\ cur' = cur
  BY DEF SplitText
<1>2. PICK end \in Nat : end = WindowEnd
  BY <1>1, WindowEndIs
<1>3. PICK L \in Nat :
        /\ L = Units(Block) /\ L > 0 /\ IsBlock(Block) /\ Block = job.blocks[next]
        /\ at <= end /\ end <= L /\ end - at <= job.size /\ (at < L => at < end)
  <2>1. Units(Block) \in Nat /\ Units(Block) > 0
    BY <1>1, SplitFacts, BlockFacts
  <2> QED BY <1>1, <1>2, <2>1, WindowEndIs, SplitFacts
<1>4. PICK start \in Nat : start = Larger(0, end - job.overlap) /\ start <= end /\ (start >= end => end = 0 \/ job.overlap = 0)
  <2>1. job.overlap \in Nat
    BY <1>1, SplitFacts
  <2>2. PICK o \in Nat : o = job.overlap
    BY <2>1
  <2>3. PICK start \in Nat : start = (IF 0 > end - o THEN 0 ELSE end - o)
    BY <1>2, <2>2
  <2>4. start <= end /\ (start >= end => end = 0 \/ o = 0)
    BY <1>2, <2>2, <2>3
  <2> QED BY <2>2, <2>3, <2>4 DEF Larger
<1>5. at \in Nat /\ end - at \in Nat
  BY <1>1, <1>2, <1>3, SplitFacts
<1>6. PICK piece \in Nat :
        /\ piece = Piece(Block, at, end) /\ (Block.kind = "text" => piece = end - at)
        /\ piece = 0 => \A u \in at..end - 1 : Piece(Block, u, u + 1) = 0
  BY <1>1, <1>3, <1>5, PieceFacts
<1> DEFINE c == [parts |-> Part(at, end), size |-> piece]
<1>7. /\ chunks' = (IF piece = 0 THEN chunks ELSE Append(chunks, c))
      /\ IF end >= L \/ (Guarded /\ start >= end) THEN Leave ELSE StayAt(start)
  BY <1>2, <1>3, <1>4, <1>6 DEF SplitText
<1>8. /\ c \in ChunkSet /\ ChunkOK(job, c)
      /\ \A ds : c \in ds => \A u \in at..end - 1 : Has(job, ds, next, u)
  <2>1. piece <= job.size \/ (Block.kind = "section" /\ end - at <= job.size)
    BY <1>1, <1>3, <1>6
  <2> QED BY <1>1, <1>3, <1>5, <2>1, PieceIs
<1> HIDE DEF c
<1>9. /\ chunks' \in Seq(ChunkSet) /\ ToSet(chunks) \subseteq ToSet(chunks')
      /\ \A d \in ToSet(chunks') : ChunkOK(job, d)
  <2>1. CASE piece = 0
    BY <1>7, <2>1 DEF BaseInv, ChunksInv
  <2>2. CASE piece # 0
    <3>1. chunks' \in Seq(ChunkSet) /\ ToSet(chunks') = ToSet(chunks) \cup {c}
      BY <1>7, <1>8, <2>2, AppendMembers DEF BaseInv
    <3> QED BY <1>8, <3>1 DEF ChunksInv
  <2> QED BY <2>1, <2>2
<1>10. \A u \in at..end - 1 : Has(job, ToSet(chunks'), next, u)
  <2>1. CASE piece = 0
    BY <1>3, <1>6, <2>1 DEF Has
  <2>2. CASE piece # 0
    <3>1. ToSet(chunks') = ToSet(chunks) \cup {c}
      BY <1>7, <1>8, <2>2, AppendMembers DEF BaseInv
    <3> QED BY <1>8, <3>1
  <2> QED BY <2>1, <2>2
<1>11. PICK ds : ds = ToSet(chunks')
  OBVIOUS
<1>12. /\ \A k \in 0..end : Begun(job, ds, next, k)
       /\ Behind(job, ds, <<>>, next)
       /\ Excused(job, next) \/ (Units(Block) > 0 /\ end >= Units(Block)) => Behind(job, ds, <<>>, next + 1)
  BY <1>1, <1>2, <1>9, <1>10, <1>11, KeptUpTo
<1>13. CASE end >= L \/ (Guarded /\ start >= end)
  <2>1. Excused(job, next) \/ end >= L
    <3> SUFFICES ASSUME ~(end >= L) PROVE Excused(job, next)
      OBVIOUS
    <3>1. at < end /\ end # 0
      BY <1>2, <1>3, <1>5
    <3>2. job.overlap = 0 /\ job.by # "semantic"
      BY <1>4, <1>13, <3>1 DEF Guarded
    <3> QED BY <1>1, <3>2 DEF Excused, BaseInv, ToSplit
  <2>2. Behind(job, ds, <<>>, next + 1)
    BY <1>3, <1>12, <2>1
  <2> QED BY <1>1, <1>7, <1>9, <1>11, <1>13, <2>2, LeaveKeeps
<1>14. CASE ~(end >= L \/ (Guarded /\ start >= end))
  <2>1. start \in 0..end /\ start <= Units(Block)
    BY <1>2, <1>3, <1>4
  <2>2. Begun(job, ds, next, start) /\ StayAt(start)
    BY <1>7, <1>12, <1>14, <2>1
  <2> QED BY <1>1, <1>9, <1>11, <1>12, <2>1, <2>2, StayKeeps
<1> QED BY <1>13, <1>14

(* Slices are chunks, and with overlap they hold their row.                *)
LEMMA SlicesAre ==
    ASSUME BaseInv, pc = "split", Block.kind = "table", at < Len(Block.rows), NEW len \in Nat
    PROVE  /\ Slices(len) \in Seq(ChunkSet) /\ \A c \in ToSet(Slices(len)) : ChunkOK(job, c)
           /\ job.overlap > 0 => Has(job, ToSet(Slices(len)), next, at)
<1> DEFINE starts == {k \in 0..len : k = 0 \/ (job.overlap > 0 /\ (k - 1) * (job.size - job.overlap) + job.size < len)}
           r == [parts |-> IF job.overlap > 0 \/ len <= job.size THEN Part(at, at + 1) ELSE <<>>,
                 size |-> Smaller(job.size, len)]
<1>1. PICK z \in Nat : z = Smaller(job.size, len) /\ z <= job.size
  BY SplitFacts DEF Smaller
<1>2. at \in Nat /\ at + 1 \in Nat /\ at + 1 <= Units(Block)
  BY SplitFacts, BlockFacts
<1>3. PICK n \in Nat : n = Cardinality(starts) /\ n >= 1
  <2>1. IsFiniteSet(0..len)
    BY FS_Interval
  <2>2. starts \in SUBSET (0..len) /\ 0 \in starts
    OBVIOUS
  <2> HIDE DEF starts
  <2>3. IsFiniteSet(starts) /\ Cardinality(starts) \in Nat /\ Cardinality(starts) # 0
    BY <2>1, <2>2, FS_Subset, FS_CardinalityType, FS_EmptySet
  <2> QED BY <2>3
<1>4. Slices(len) = [i \in 1..n |-> r]
  BY <1>3 DEF Slices
<1>5. CASE job.overlap > 0 \/ len <= job.size
  <2>1. r = [parts |-> Part(at, at + 1), size |-> z]
    BY <1>1, <1>5
  <2>2. /\ r \in ChunkSet /\ ChunkOK(job, r)
        /\ \A ds : r \in ds => \A u \in at..(at + 1) - 1 : Has(job, ds, next, u)
    BY <1>1, <1>2, <2>1, PieceIs
  <2> HIDE DEF r
  <2>3. Slices(len) \in Seq(ChunkSet) /\ ToSet(Slices(len)) = {r}
    <3>1. [i \in 1..n |-> r] \in [1..n -> ChunkSet]
      BY <2>2
    <3>2. PICK f : f = [i \in 1..n |-> r]
      OBVIOUS
    <3>3. DOMAIN f = 1..n /\ \A k \in 1..n : f[k] = r
      BY <3>2
    <3>4. 1 \in 1..n
      BY <1>3
    <3>5. ToSet(f) = {r}
      BY <3>3, <3>4 DEF ToSet
    <3>6. f \in Seq(ChunkSet)
      BY <1>3, <3>1, <3>2
    <3> QED BY <1>4, <3>2, <3>5, <3>6
  <2>4. at \in at..(at + 1) - 1
    BY <1>2
  <2> QED BY <2>2, <2>3, <2>4
<1>6. CASE ~(job.overlap > 0 \/ len <= job.size)
  <2>1. r.parts = <<>> /\ r.size = z /\ r = [parts |-> <<>>, size |-> z]
    BY <1>1, <1>6
  <2> HIDE DEF r
  <2>2. r \in ChunkSet
    BY <1>1, <2>1, EmptySeq DEF ChunkSet
  <2>3. ChunkOK(job, r)
    BY <1>1, <2>1, NoMembers, SplitFacts DEF ChunkOK, SizeOK
  <2>4. Slices(len) \in Seq(ChunkSet) /\ \A c \in ToSet(Slices(len)) : c = r
    <3>1. [i \in 1..n |-> r] \in [1..n -> ChunkSet]
      BY <2>2
    <3>2. [i \in 1..n |-> r] \in Seq(ChunkSet)
      BY <1>3, <3>1
    <3> QED BY <1>4, <3>2 DEF ToSet
  <2> QED BY <1>6, <2>3, <2>4
<1> QED BY <1>5, <1>6

(* The rows that fit below the header, from where the last chunk ended.    *)
Fitting == {j \in at + 1..Len(Block.rows) : Rows(Block, at, j) <= job.size}

LEMMA SplitTableIs ==
    ASSUME BaseInv, SplitTable
    PROVE  /\ pc = "split" /\ Block.kind = "table" /\ job' = job /\ cur' = cur
           /\ at \in Nat /\ Len(Block.rows) \in Nat /\ at < Len(Block.rows) /\ Units(Block) = Len(Block.rows)
           /\ job.overlap \in Nat /\ IsBlock(Block)
           /\ \E j \in Nat :
                 /\ at < j /\ j <= Len(Block.rows)
                 /\ IF Fitting = {} THEN j = at + 1 /\ chunks' = chunks \o Slices(Rows(Block, at, at + 1) - 1)
                    ELSE /\ Rows(Block, at, j) <= job.size
                         /\ chunks' = Append(chunks, [parts |-> Part(at, j), size |-> Rows(Block, at, j) - 1])
                 /\ IF j >= Len(Block.rows) THEN Leave
                    ELSE StayAt(Larger(at + 1, j - (IF job.overlap > 0 THEN 1 ELSE 0)))
<1>1. pc = "split" /\ Block.kind = "table" /\ job' = job /\ cur' = cur /\ at < Len(Block.rows)
  BY DEF SplitTable
<1>2. PICK n \in Nat : n = Len(Block.rows)
  BY <1>1, SplitFacts, BlockFacts
<1>3. at \in Nat /\ Units(Block) = n /\ job.overlap \in Nat /\ IsBlock(Block)
  BY <1>1, <1>2, SplitFacts, BlockFacts
<1> DEFINE m == IF Fitting = {} THEN at + 1 ELSE Max(Fitting)
<1>4. /\ chunks' = IF Fitting = {} THEN chunks \o Slices(Rows(Block, at, at + 1) - 1)
                   ELSE Append(chunks, [parts |-> Part(at, m), size |-> Rows(Block, at, m) - 1])
      /\ IF m >= Len(Block.rows) THEN Leave
         ELSE StayAt(Larger(at + 1, m - (IF job.overlap > 0 THEN 1 ELSE 0)))
  BY DEF SplitTable, Fitting
<1>5. m \in Nat /\ at < m /\ m <= n /\ (Fitting # {} => Rows(Block, at, m) <= job.size)
  <2>1. CASE Fitting = {}
    <3>1. m = at + 1
      BY <2>1
    <3> HIDE DEF m
    <3> QED BY <1>1, <1>2, <1>3, <2>1, <3>1
  <2>2. CASE Fitting # {}
    <3>1. Fitting \in SUBSET (0..n)
      BY <1>2, <1>3 DEF Fitting
    <3>2. m \in Fitting
      BY <2>2, <3>1, MaxIsMost
    <3> HIDE DEF m
    <3>3. m \in at + 1..n /\ Rows(Block, at, m) <= job.size
      BY <1>2, <3>2 DEF Fitting
    <3> QED BY <1>2, <1>3, <3>3
  <2> QED BY <2>1, <2>2
<1>6. Fitting = {} => m = at + 1
  OBVIOUS
<1> HIDE DEF m
<1>7. PICK j \in Nat : j = m
  BY <1>5
<1>8. /\ at < j /\ j <= Len(Block.rows)
      /\ IF Fitting = {} THEN j = at + 1 /\ chunks' = chunks \o Slices(Rows(Block, at, at + 1) - 1)
         ELSE /\ Rows(Block, at, j) <= job.size
              /\ chunks' = Append(chunks, [parts |-> Part(at, j), size |-> Rows(Block, at, j) - 1])
      /\ IF j >= Len(Block.rows) THEN Leave
         ELSE StayAt(Larger(at + 1, j - (IF job.overlap > 0 THEN 1 ELSE 0)))
  BY <1>2, <1>4, <1>5, <1>6, <1>7
<1> QED BY <1>1, <1>2, <1>3, <1>7, <1>8

LEMMA SplitTableKeeps == IInv /\ SplitTable => IInv'
<1> SUFFICES ASSUME BaseInv, ChunksInv, CurInv, CoverInv, SplitTable PROVE IInv'
  BY DEF IInv
<1> DEFINE rows == Len(Block.rows)
<1>1. pc = "split" /\ Block.kind = "table" /\ job' = job /\ cur' = cur /\ at < rows
  BY SplitTableIs
<1>2. at \in Nat /\ rows \in Nat /\ Units(Block) = rows /\ job.overlap \in Nat /\ IsBlock(Block)
  BY SplitTableIs
<1>3. PICK j \in Nat :
        /\ at < j /\ j <= rows
        /\ IF Fitting = {} THEN j = at + 1 /\ chunks' = chunks \o Slices(Rows(Block, at, at + 1) - 1)
           ELSE /\ Rows(Block, at, j) <= job.size
                /\ chunks' = Append(chunks, [parts |-> Part(at, j), size |-> Rows(Block, at, j) - 1])
        /\ IF j >= rows THEN Leave
           ELSE StayAt(Larger(at + 1, j - (IF job.overlap > 0 THEN 1 ELSE 0)))
  BY SplitTableIs
<1>4. Rows(Block, at, j) \in Nat /\ Rows(Block, at, j) - 1 \in Nat
  BY <1>1, <1>2, <1>3, RowsAreNat
<1>6. /\ chunks' \in Seq(ChunkSet) /\ ToSet(chunks) \subseteq ToSet(chunks')
      /\ \A d \in ToSet(chunks') : ChunkOK(job, d)
      /\ Excused(job, next) \/ \A u \in at..j - 1 : Has(job, ToSet(chunks'), next, u)
  <2>1. CASE Fitting = {}
    <3>1. PICK len \in Nat : len = Rows(Block, at, at + 1) - 1 /\ j = at + 1
      BY <1>3, <1>4, <2>1
    <3>2. /\ Slices(len) \in Seq(ChunkSet) /\ \A c \in ToSet(Slices(len)) : ChunkOK(job, c)
          /\ job.overlap > 0 => Has(job, ToSet(Slices(len)), next, at)
      BY <1>1, <3>1, SlicesAre
    <3>3. chunks' = chunks \o Slices(len)
      BY <1>3, <2>1, <3>1
    <3>4. chunks' \in Seq(ChunkSet) /\ ToSet(chunks') = ToSet(chunks) \cup ToSet(Slices(len))
      BY <3>2, <3>3, ConcatMembers DEF BaseInv
    <3>5. job.overlap = 0 => Excused(job, next)
      <4>1. job.by # "semantic" /\ job.by # "token"
        BY <1>1, SplitFacts, BlocksOf
      <4> QED BY <1>1, <4>1, SplitFacts DEF Excused, BaseInv, ToSplit
    <3>6. job.overlap > 0 => \A u \in at..j - 1 : Has(job, ToSet(chunks'), next, u)
      <4>1. ToSet(Slices(len)) \subseteq ToSet(chunks')
        BY <3>4
      <4>2. \A u \in at..j - 1 : u = at
        BY <1>2, <3>1
      <4> QED BY <3>2, <4>1, <4>2, MoreHolds
    <3>7. job.overlap = 0 \/ job.overlap > 0
      BY <1>2
    <3> QED BY <3>2, <3>4, <3>5, <3>6, <3>7 DEF ChunksInv
  <2>2. CASE Fitting # {}
    <3>0. PICK z \in Nat : z = Rows(Block, at, j) - 1 /\ z <= job.size
      BY <1>1, <1>3, <1>4, <2>2, SplitFacts
    <3> DEFINE c == [parts |-> Part(at, j), size |-> z]
    <3>1. /\ c \in ChunkSet /\ ChunkOK(job, c)
          /\ \A ds : c \in ds => \A u \in at..j - 1 : Has(job, ds, next, u)
      BY <1>1, <1>2, <1>3, <3>0, PieceIs
    <3>2. chunks' = Append(chunks, c)
      BY <1>3, <2>2, <3>0
    <3> HIDE DEF c
    <3>3. chunks' \in Seq(ChunkSet) /\ ToSet(chunks') = ToSet(chunks) \cup {c}
      BY <3>1, <3>2, AppendMembers DEF BaseInv
    <3> QED BY <3>1, <3>3 DEF ChunksInv
  <2> QED BY <2>1, <2>2
<1>7. PICK ds : ds = ToSet(chunks')
  OBVIOUS
<1>8. /\ \A k \in 0..j : Begun(job, ds, next, k)
      /\ Behind(job, ds, <<>>, next)
      /\ Excused(job, next) \/ (Units(Block) > 0 /\ j >= Units(Block)) => Behind(job, ds, <<>>, next + 1)
  BY <1>1, <1>3, <1>6, <1>7, KeptUpTo
<1>9. CASE j >= rows
  <2>1. Behind(job, ds, <<>>, next + 1)
    <3>1. Units(Block) > 0 /\ j >= Units(Block)
      BY <1>1, <1>2, <1>9
    <3> QED BY <1>8, <3>1
  <2> QED BY <1>1, <1>3, <1>6, <1>7, <1>9, <2>1, LeaveKeeps
<1>10. CASE ~(j >= rows)
  <2>1. PICK k \in Nat : /\ k = Larger(at + 1, j - (IF job.overlap > 0 THEN 1 ELSE 0))
                         /\ k <= j
    <3>1. CASE job.overlap > 0
      BY <1>2, <1>3, <3>1 DEF Larger
    <3>2. CASE ~(job.overlap > 0)
      BY <1>2, <1>3, <3>2 DEF Larger
    <3> QED BY <3>1, <3>2
  <2>2. k \in 0..j /\ k <= Units(Block) /\ StayAt(k)
    BY <1>2, <1>3, <1>10, <2>1
  <2>3. Begun(job, ds, next, k)
    BY <1>8, <2>2
  <2> QED BY <1>1, <1>6, <1>7, <1>8, <2>2, <2>3, StayKeeps
<1> QED BY <1>9, <1>10

LEMMA DropHeaderKeeps == IInv /\ DropHeader => IInv'
<1> SUFFICES ASSUME BaseInv, ChunksInv, CurInv, CoverInv, DropHeader PROVE IInv'
  BY DEF IInv
<1>1. /\ pc = "split" /\ Block.kind = "table" /\ Block.rows = <<>> /\ Leave
      /\ job' = job /\ cur' = cur /\ chunks' = chunks
  BY DEF DropHeader
<1>2. job.by # "token"
  BY <1>1, SplitFacts, BlocksOf
<1>3. Excused(job, next)
  BY <1>1, <1>2, SplitFacts DEF Excused, BaseInv, ToSplit
<1>4. Behind(job, ToSet(chunks), <<>>, next + 1)
  BY <1>1, <1>3, KeptUpTo
<1> QED BY <1>1, <1>4, LeaveKeeps DEF BaseInv, ChunksInv

LEMMA InitHolds == Init => IInv
<1> SUFFICES ASSUME Init PROVE IInv
  OBVIOUS
<1>1. /\ job \in Jobs /\ next = 1 /\ at = 0 /\ cur = <<>> /\ chunks = <<>> /\ Len(job.blocks) \in Nat
      /\ pc = IF job.by = "token" /\ job.blocks # <<>> /\ job.blocks[1].kind = "text" THEN "split" ELSE "scan"
  BY BlocksOf DEF Init
<1>2. pc = "split" => ToSplit(job, next, at)
  <2> SUFFICES ASSUME job.by = "token", job.blocks # <<>>, job.blocks[1].kind = "text" PROVE ToSplit(job, 1, 0)
    BY <1>1
  <2>1. Len(job.blocks) >= 1
    <3>1. job.blocks \in Seq(ToSet(job.blocks))
      BY <1>1, WindowsAssumption
    <3> QED BY <3>1, EmptySeq
  <2>2. IsBlock(job.blocks[1]) /\ job.blocks[1].kind = "text"
    BY <1>1, <2>1, BlocksOf
  <2> QED BY <2>1, <2>2, BlockFacts DEF ToSplit
<1>3. BaseInv
  BY <1>1, <1>2, EmptySeq DEF BaseInv, Rising
<1>4. ChunksInv /\ CurInv
  BY <1>1, NoMembers DEF ChunksInv, CurInv, Short
<1>5. CoverInv
  BY <1>1 DEF CoverInv, Behind, Begun
<1> QED BY <1>3, <1>4, <1>5 DEF IInv

LEMMA InvAlways == Spec => []IInv
<1>1. Init => IInv
  BY InitHolds
<1>2. IInv /\ [Next]_vars => IInv'
  <2>1. IInv /\ UNCHANGED vars => IInv'
    BY DEF vars, IInv, BaseInv, ChunksInv, CurInv, CoverInv
  <2> QED BY <2>1, TakeKeeps, OversizedKeeps, SkipKeeps, FinishKeeps, SplitTextKeeps, SplitTableKeeps, DropHeaderKeeps DEF Next
<1> QED BY <1>1, <1>2, PTL DEF Spec

-----------------------------------------------------------------------------
(* What follows.                                                           *)

(* The chunker is always at a place in its text, what it has collected is  *)
(* behind it, and every part of a chunk is a piece of one block.           *)
THEOREM WindowsTypeCorrect == Spec => []TypeOK
<1>1. IInv => TypeOK
  <2> SUFFICES ASSUME BaseInv, ChunksInv PROVE TypeOK
    BY DEF IInv
  <2>1. job \in Jobs /\ pc \in {"scan", "split", "done"} /\ next \in 1..Len(job.blocks) + 1
    BY DEF BaseInv
  <2>2. pc = "split" => at \in 0..Units(Block)
    BY SplitFacts
  <2>3. \A i \in DOMAIN cur : cur[i] \in 1..next - 1 /\ \A k \in 1..i - 1 : cur[k] < cur[i]
    <3>1. \A i \in DOMAIN cur : cur[i] \in 1..next - 1
      BY LenProperties DEF BaseInv
    <3> QED BY <3>1 DEF BaseInv, Rising
  <2>4. DOMAIN job.blocks = 1..Len(job.blocks)
    BY <2>1, BlocksOf
  <2>5. \A c \in ToSet(chunks) : \A p \in ToSet(c.parts) :
           p.block \in DOMAIN job.blocks /\ p.from <= p.to /\ p.to <= Units(TextOf(p.block))
    BY <2>4 DEF ChunksInv, ChunkOK, PartOK, TextOf
  <2> QED BY <2>1, <2>2, <2>3, <2>5 DEF TypeOK
<1> QED BY <1>1, InvAlways, PTL

(* No chunk is longer than was asked for, but for what chunk_text_chars    *)
(* carries, for headings that have nothing below them, and for windows of  *)
(* words of a section that has too many tokens: whatever the blocks, the   *)
(* size and the overlap.                                                   *)
THEOREM ChunksAreShort == Spec => []ChunkSizes
<1>1. IInv => ChunkSizes
  BY DEF IInv, ChunksInv, ChunkOK, SizeOK, Limit, ChunkSizes, TextOf
<1> QED BY <1>1, InvAlways, PTL

(* A chunker that is done has every unit of the text in a chunk, but for   *)
(* the texts split without overlap, the headers without rows, and the      *)
(* paragraphs whose encoding raises.                                       *)
THEOREM LossIsAccounted == Spec => []LossAccounted
<1>1. IInv => LossAccounted
  <2> SUFFICES ASSUME BaseInv, CoverInv, pc = "done", NEW n \in DOMAIN job.blocks
               PROVE  \/ Kept(n)
                      \/ Guarded /\ job.overlap = 0 /\ (job.by = "token" \/ Length(TextOf(n)) > job.size)
                      \/ TextOf(n).kind = "table" /\ TextOf(n).rows = <<>> /\ Length(TextOf(n)) > job.size
                      \/ TextOf(n).kind = "raw"
    BY DEF IInv, LossAccounted
  <2>1. n \in 1..next - 1 /\ cur = <<>>
    BY BlocksOf DEF BaseInv
  <2>2. HasAll(job, ToSet(chunks), n) \/ Excused(job, n)
    BY <2>1, NoMembers DEF CoverInv, Behind
  <2>3. HasAll(job, ToSet(chunks), n) => Kept(n)
    <3> SUFFICES ASSUME HasAll(job, ToSet(chunks), n) PROVE Kept(n)
      OBVIOUS
    <3> DEFINE parts == {p \in UNION {ToSet(c.parts) : c \in ToSet(chunks)} : p.block = n}
    <3>1. \A c \in ToSet(chunks) : \A p \in ToSet(c.parts) : p.block = n => p \in parts
      OBVIOUS
    <3>2. Units(TextOf(n)) = 0 => parts # {}
      BY <3>1 DEF HasAll, Named, TextOf
    <3>3. \A u \in 0..Units(TextOf(n)) - 1 :
             Piece(TextOf(n), u, u + 1) = 0 \/ \E p \in parts : p.from <= u /\ u < p.to
      <4>1. \A u \in 0..Units(TextOf(n)) - 1 : Has(job, ToSet(chunks), n, u)
        BY DEF HasAll, TextOf
      <4> QED BY <3>1, <4>1 DEF Has, Holds, TextOf
    <3> QED BY <3>2, <3>3 DEF Kept
  <2> QED BY <2>2, <2>3 DEF Excused, Guarded, TextOf
<1> QED BY <1>1, InvAlways, PTL

(* With a size beyond overlap and slack, and no boundary just before the   *)
(* end of a text, no window and no chunk of rows begins where one began.   *)
THEOREM WindowsAdvance == Spec => Advances
<1>1. IInv /\ [Next]_vars => [pc = "split" /\ pc' = "split" /\ Steady => at' > at]_vars
  <2> SUFFICES ASSUME BaseInv, Next, pc = "split", pc' = "split", Steady PROVE at' > at
    BY DEF IInv
  <2>1. at \in Nat /\ job.overlap \in Nat
    BY SplitFacts
  <2>2. CASE SplitText
    <3>1. PICK end \in Nat : end = WindowEnd /\ (end < Units(Block) => end - job.overlap > at)
      BY <2>2, WindowEndIs DEF SplitText
    <3>2. ~(end >= Units(Block)) /\ at' = Larger(0, end - job.overlap)
      BY <2>2, <3>1 DEF SplitText, Leave, StayAt
    <3>3. Units(Block) \in Nat
      BY <2>2, SplitFacts, BlockFacts DEF SplitText
    <3> QED BY <2>1, <3>1, <3>2, <3>3 DEF Larger
  <2>3. CASE SplitTable
    <3>1. PICK m \in Nat : at' = Larger(at + 1, m - (IF job.overlap > 0 THEN 1 ELSE 0))
      BY <2>3, SplitTableIs DEF Leave, StayAt
    <3>2. PICK i \in Int : at' = Larger(at + 1, i)
      BY <3>1
    <3> QED BY <2>1, <3>2 DEF Larger
  <2> QED BY <2>2, <2>3 DEF Next, Take, Oversized, Skip, Finish, DropHeader, Leave
<1> QED BY <1>1, InvAlways, PTL DEF Spec, Advances

=============================================================================
