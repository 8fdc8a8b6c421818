------------------------------- MODULE Windows -------------------------------
(***************************************************************************)
(* How a text becomes chunks: doc-processor/app/chunking.py, which merges  *)
(* Markdown blocks or sections up to a number of characters, and           *)
(* service/app/chunking.py, which slides a window of tokens or merges      *)
(* sections.  What is too long is split, a table between its rows.         *)
(*                                                                         *)
(* A text is a list of blocks with lengths; what the blocks say, and how   *)
(* they are recognised, is left out.  A boundary is a place in a block     *)
(* where a paragraph ends.  A section of the retrieval service has two     *)
(* lengths: it is tested in tokens and split in words.  Header and rows of *)
(* a table count the ends of their lines.                                  *)
(***************************************************************************)
EXTENDS Ranking

CONSTANTS
    Jobs,        \* texts with a chunker and its settings
    Slack,       \* how close to its end a window is cut at a boundary
    MaxChunks    \* bound: windows that stand still are not followed further

Chunkers == {"chars", "sections",      \* doc-processor: fixed and semantic
             "token", "semantic"}      \* retrieval: token and semantic

(* A raw paragraph is one whose encoding raises.  Of a section's words,    *)
(* and the separators between them, it is told how many tokens each gives  *)
(* a chunk; a separator gives none.                                        *)
IsBlock(b) ==
    \/ b.kind \in {"text", "heading"} /\ b.len \in Nat \ {0} /\ b.bounds \subseteq 1..b.len
    \/ /\ b.kind = "section" /\ b.len \in Nat \ {0} /\ b.words \in Seq(Nat) /\ b.words # <<>>
       /\ b.bounds \subseteq 1..Len(b.words)
    \/ b.kind = "table" /\ b.head \in Nat \ {0, 1} /\ b.rows \in Seq(Nat \ {0})
    \/ b.kind = "raw" /\ b.len \in Nat \ {0}

(* Only the doc-processor recognises tables; a heading without a text is   *)
(* what _split_sections makes, which chunk_text_chars does not call.       *)
Kinds == [chars    |-> {"text", "table"},
          sections |-> {"text", "table", "heading"},
          token    |-> {"text", "raw"},
          semantic |-> {"section", "heading"}]

(* The sliding window sees one text, of the paragraphs that can be         *)
(* encoded: those that cannot be come behind it here.                      *)
ASSUME WindowsAssumption ==
    /\ \A j \in Jobs : /\ j.by \in Chunkers /\ j.size \in Nat \ {0} /\ j.overlap \in 0..j.size - 1
                       /\ j.blocks \in Seq(ToSet(j.blocks))
                       /\ \A b \in ToSet(j.blocks) :
                             /\ IsBlock(b)
                             /\ b.kind \in Kinds[j.by]
                       /\ j.by = "token" => \A n \in DOMAIN j.blocks \ {1} : j.blocks[n].kind = "raw"
    /\ Slack \in Nat /\ MaxChunks \in Nat

VARIABLES
    job,      \* the text, the chunker, chunk_size and overlap
    pc,       \* "scan" the blocks, "split" one, or "done"
    next,     \* the block that comes next
    at,       \* where in that block the next window or row is
    cur,      \* the blocks of the chunk that is being filled
    chunks    \* the chunks: what they hold of which block, and how long they are

vars == <<job, pc, next, at, cur, chunks>>

TextOf(n) == job.blocks[n]
Block == job.blocks[next]
Units(b) == CASE b.kind = "table" -> Len(b.rows) [] b.kind = "section" -> Len(b.words) [] OTHER -> b.len
Rows(b, i, j) == b.head + SumFunction(SubSeq(b.rows, i + 1, j))
Length(b) == IF b.kind = "table" THEN Rows(b, 0, Len(b.rows)) - 1 ELSE b.len

(* How long a piece of a text is as a chunk.                               *)
Piece(b, i, j) == IF b.kind = "section" THEN SumFunction(SubSeq(b.words, i + 1, j)) ELSE j - i

TypeOK ==
    /\ job \in Jobs
    /\ pc \in {"scan", "split", "done"}
    /\ next \in 1..Len(job.blocks) + 1
    /\ pc = "split" => at \in 0..Units(Block)
    /\ \A i \in DOMAIN cur : cur[i] \in 1..next - 1 /\ \A k \in 1..i - 1 : cur[k] < cur[i]
    /\ \A c \in ToSet(chunks) : \A p \in ToSet(c.parts) :
          p.block \in DOMAIN job.blocks /\ p.from <= p.to /\ p.to <= Units(TextOf(p.block))

Init ==
    /\ job \in Jobs
    /\ pc = IF job.by = "token" /\ job.blocks # <<>> /\ job.blocks[1].kind = "text" THEN "split" ELSE "scan"
    /\ next = 1 /\ at = 0 /\ cur = <<>> /\ chunks = <<>>

-----------------------------------------------------------------------------
(* Merging.                                                                *)

Joined(blocks) == SumFunction([i \in DOMAIN blocks |-> Length(TextOf(blocks[i]))]) + 2 * Larger(0, Len(blocks) - 1)

Whole(blocks) ==
    [parts |-> [i \in DOMAIN blocks |-> [block |-> blocks[i], from |-> 0, to |-> Units(TextOf(blocks[i]))]],
     size |-> Joined(blocks)]

Flushed == IF cur = <<>> THEN chunks ELSE Append(chunks, Whole(cur))

(* Slip: every block that fits the overlap by itself is carried.           *)
CarriedLoose ==
    IF job.by # "chars" THEN <<>> ELSE SelectSeq(cur, LAMBDA n : Length(TextOf(n)) <= job.overlap)

(* Slip: the blocks are put behind one another as they are found.          *)
CarriedReversed ==
    LET End(k) == Reverse(SubSeq(cur, Len(cur) - k + 1, Len(cur)))
    IN  IF job.by # "chars" THEN <<>>
        ELSE End(Max({k \in 0..Len(cur) : Joined(End(k)) <= job.overlap}))

(* Whole blocks at the end of the last chunk, as far as the overlap goes.  *)
Carried ==
    LET End(k) == SubSeq(cur, Len(cur) - k + 1, Len(cur))
    IN  IF job.by # "chars" THEN <<>>
        ELSE End(Max({k \in 0..Len(cur) : Joined(End(k)) <= job.overlap}))

(* A heading with nothing below it is never split.                         *)
Pending == next <= Len(job.blocks) /\ Block.kind # "raw"
Fits == Length(Block) <= job.size \/ Block.kind = "heading"

(* The block goes to the current chunk, or begins the next one: there it   *)
(* is not tested against what has been carried.                            *)
Take ==
    /\ pc = "scan" /\ Pending /\ Fits
    /\ IF cur # <<>> /\ Joined(cur) + 2 + Length(Block) > job.size
         THEN chunks' = Flushed /\ cur' = Append(Carried, next)
         ELSE UNCHANGED chunks /\ cur' = Append(cur, next)
    /\ next' = next + 1 /\ UNCHANGED <<job, pc, at>>

(* Slip: what has been collected is not flushed.                           *)
OversizedUnflushed ==
    /\ pc = "scan" /\ Pending /\ ~Fits
    /\ pc' = "split" /\ at' = 0 /\ cur' = <<>>
    /\ UNCHANGED <<job, next, chunks>>

Oversized ==
    /\ pc = "scan" /\ Pending /\ ~Fits
    /\ pc' = "split" /\ at' = 0
    /\ chunks' = Flushed /\ cur' = <<>>
    /\ UNCHANGED <<job, next>>

(* A paragraph whose encoding raises is left out of the text.              *)
Skip ==
    /\ pc = "scan" /\ next <= Len(job.blocks) /\ Block.kind = "raw"
    /\ next' = next + 1 /\ UNCHANGED <<job, pc, at, cur, chunks>>

Finish ==
    /\ pc = "scan" /\ next > Len(job.blocks)
    /\ pc' = "done" /\ chunks' = Flushed /\ cur' = <<>>
    /\ UNCHANGED <<job, next, at>>

-----------------------------------------------------------------------------
(* Splitting.                                                              *)

Part(i, j) == <<[block |-> next, from |-> i, to |-> j]>>

(* On to the next block, or to another place of this one.                  *)
Leave == pc' = "scan" /\ next' = next + 1 /\ at' = 0
StayAt(n) == at' = n /\ UNCHANGED <<pc, next>>

(* All but the fallback splitter of the retrieval service leave the loop   *)
(* when a window would start where the last one ends.                      *)
Guarded == job.by # "semantic"

(* Slip: the cut may be anywhere in the window.                            *)
WindowEndAnywhere ==
    LET full == Smaller(Units(Block), at + job.size)
        near == {x \in Block.bounds : at < x /\ x <= full}
    IN  IF job.by \in {"token", "semantic"} /\ near # {} THEN Min(near) ELSE full

(* The first boundary that is close to the end, and not the last.          *)
WindowEnd ==
    LET full == Smaller(Units(Block), at + job.size)
        near == {x \in Block.bounds : at < x /\ x <= full /\ full - x <= Slack}
    IN  IF job.by \in {"token", "semantic"} /\ near # {} THEN Min(near) ELSE full

(* A window of separators only is no chunk.                                *)
SplitText ==
    LET end   == WindowEnd
        start == Larger(0, end - job.overlap)
        piece == Piece(Block, at, end)
    IN  /\ pc = "split" /\ Block.kind \in {"text", "section"} /\ Len(chunks) < MaxChunks
        /\ chunks' = IF piece = 0 THEN chunks ELSE Append(chunks, [parts |-> Part(at, end), size |-> piece])
        /\ IF end >= Units(Block) \/ (Guarded /\ start >= end) THEN Leave ELSE StayAt(start)
        /\ UNCHANGED <<job, cur>>

(* A row that does not fit is sliced with its header as a text; without    *)
(* overlap the slices end after the first.                                 *)
Slices(len) ==
    LET starts == {k \in 0..len : k = 0 \/ (job.overlap > 0 /\ (k - 1) * (job.size - job.overlap) + job.size < len)}
    IN  [n \in 1..Cardinality(starts) |->
            [parts |-> IF job.overlap > 0 \/ len <= job.size THEN Part(at, at + 1) ELSE <<>>,
             size  |-> Smaller(job.size, len)]]

(* As many rows as fit under the header, each with the end of its line,    *)
(* and at least one; with overlap the last of them begins the next chunk.  *)
(* The last line of a chunk has no end.                                    *)
SplitTable ==
    LET fit == {j \in at + 1..Len(Block.rows) : Rows(Block, at, j) <= job.size}
        j   == IF fit = {} THEN at + 1 ELSE Max(fit)
    IN  /\ pc = "split" /\ Block.kind = "table" /\ at < Len(Block.rows)
        /\ chunks' = IF fit = {} THEN chunks \o Slices(Rows(Block, at, at + 1) - 1)
                     ELSE Append(chunks, [parts |-> Part(at, j), size |-> Rows(Block, at, j) - 1])
        /\ IF j >= Len(Block.rows) THEN Leave
           ELSE StayAt(Larger(at + 1, j - (IF job.overlap > 0 THEN 1 ELSE 0)))
        /\ UNCHANGED <<job, cur>>

(* A header too long for a chunk, without rows: nothing is kept of it.     *)
DropHeader ==
    /\ pc = "split" /\ Block.kind = "table" /\ Block.rows = <<>>
    /\ Leave /\ UNCHANGED <<job, cur, chunks>>

Next == Take \/ Oversized \/ Skip \/ Finish \/ SplitText \/ SplitTable \/ DropHeader

Spec == Init /\ [][Next]_vars

-----------------------------------------------------------------------------
(* What the chunks are good for.                                           *)

Kept(n) ==
    LET parts == {p \in UNION {ToSet(c.parts) : c \in ToSet(chunks)} : p.block = n}
    IN  /\ Units(TextOf(n)) = 0 => parts # {}
        /\ \A u \in 0..Units(TextOf(n)) - 1 :
              Piece(TextOf(n), u, u + 1) = 0 \/ \E p \in parts : p.from <= u /\ u < p.to

(* Every character, token, word and row is in a chunk, but for three       *)
(* cases: a text or a row that is split without overlap loses all that     *)
(* follows its first window, for the guard takes the step to the next one  *)
(* for standing still; an oversized header without rows is dropped; and so *)
(* is a paragraph whose encoding raises.                                   *)
LossAccounted ==
    pc = "done" => \A n \in DOMAIN job.blocks :
        \/ Kept(n)
        \/ Guarded /\ job.overlap = 0 /\ (job.by = "token" \/ Length(TextOf(n)) > job.size)
        \/ TextOf(n).kind = "table" /\ TextOf(n).rows = <<>> /\ Length(TextOf(n)) > job.size
        \/ TextOf(n).kind = "raw"

(* No chunk is longer than was asked for, except that chunk_text_chars     *)
(* puts what it carries and a separator on top, that a heading with        *)
(* nothing below it is a chunk of any length, alone, and that a section of *)
(* too many tokens is split into as many words as there might be tokens:   *)
(* those chunks do not "fit within max_tokens" (service chunking.py:196).  *)
ChunkSizes ==
    \A c \in ToSet(chunks) :
        \/ c.size <= job.size + (IF job.by = "chars" THEN job.overlap + 2 ELSE 0)
        \/ /\ Len(c.parts) = 1
           /\ LET p == c.parts[1]
                  b == TextOf(p.block)
              IN  \/ b.kind = "heading"
                  \/ b.kind = "section" /\ Length(b) > job.size /\ p.to - p.from <= job.size

(* Texts and settings with which the windows cannot stand still: no        *)
(* paragraph ends just before the text does, and a window that is cut is   *)
(* still longer than its overlap.                                          *)
Steady ==
    /\ job.size > job.overlap + Slack
    /\ \A n \in DOMAIN job.blocks : TextOf(n).kind \in {"text", "section"} =>
          \A x \in TextOf(n).bounds : x = Units(TextOf(n)) \/ Units(TextOf(n)) - x > Slack

(* There every window, and every chunk of rows, begins after the last one, *)
(* so that the chunker ends.                                               *)
Advances == [][pc = "split" /\ pc' = "split" /\ Steady => at' > at]_vars

(* The comment at service/app/chunking.py:147, "If we haven't moved        *)
(* forward (stuck), break to avoid infinite loop".                         *)
MovesForward == [][pc = "split" /\ pc' = "split" => at' > at]_vars

=============================================================================
