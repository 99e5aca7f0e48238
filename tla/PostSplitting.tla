----------------------------- MODULE PostSplitting -----------------------------
(***************************************************************************)
(* splitPostText() of src/src/post-transform.ts: a text that does not fit  *)
(* a post becomes the chunks of a thread, one per round of its loop.       *)
(*                                                                         *)
(* A text is a sequence of characters of four kinds: a letter, the mark    *)
(* that ends a sentence, a blank and the end of a line.                    *)
(***************************************************************************)
EXTENDS Integers, SequencesExt

CONSTANTS Letter, Mark, Blank, Newline,
          ChunkLimit,   \* characters of a post
          Numbering,    \* characters reserved for the number of a chunk
          Frame,        \* characters of " (", "/" and ")" about a number
          Steps,        \* from each of these on, a numeral has one more digit
          MaxLength     \* bound on the length of a text

ASSUME SplittingAssumption ==
  /\ {ChunkLimit, Numbering, Frame, MaxLength} \subseteq Nat /\ Numbering < ChunkLimit
  /\ Steps \subseteq Nat /\ IsFiniteSet(Steps)
  /\ Cardinality({Letter, Mark, Blank, Newline}) = 4

VARIABLES whole,      \* the text, trimmed
          remaining, chunks,
          splitting

splitVars == <<whole, remaining, chunks, splitting>>
--------------------------------------------------------------------------------
Spaces == {Blank, Newline}
Characters == Spaces \cup {Letter, Mark}
Inputs == UNION {[1 .. n -> Characters] : n \in 0 .. MaxLength}

Trimmed(s) ==
  LET printed == {i \in DOMAIN s : s[i] \notin Spaces} IN
  IF printed = {} THEN <<>> ELSE SubSeq(s, Min(printed), Max(printed))

Room == ChunkLimit - Numbering

\* The characters of " (i/n)".
Digits(n) == 1 + Cardinality({k \in Steps : k <= n})
NumberLength(i, n) == Frame + Digits(i) + Digits(n)

\* preparedChunks of processTweets(): the lengths of the chunks with their numbers.
PreparedLength(k) ==
  Len(chunks[k]) + IF Len(chunks) > 1 THEN NumberLength(k, Len(chunks)) ELSE 0

SplitTypeOK ==
  whole \in Seq(Characters) /\ remaining \in Seq(Characters) /\ chunks \in Seq(Seq(Characters)) /\ splitting \in BOOLEAN

SplitInit ==
  /\ whole \in {s \in Inputs : s = Trimmed(s)}
  /\ IF Len(whole) <= ChunkLimit
     THEN chunks = <<whole>> /\ remaining = <<>> /\ splitting = FALSE
     ELSE chunks = <<>> /\ remaining = whole /\ splitting = TRUE

\* Mutation: the whole post is taken for the chunk and its number.
WithoutNumber(s) == Min({ChunkLimit, Len(s)})

\* hardBoundary of chooseSplitIndex().
HardBoundary(s) == Min({Room, Len(s)})

\* Splits are after this many characters.
Paragraphs(s) == {i \in 1 .. HardBoundary(s) - 2 : s[i + 1] = Newline /\ s[i + 2] = Newline}
Sentences(s)  == {i \in 2 .. HardBoundary(s) - 1 : s[i] = Mark /\ s[i + 1] \in Spaces}
Words(s)      == {i \in 1 .. HardBoundary(s) - 1 : s[i + 1] \in Spaces}

\* chooseSplitIndex(): the last paragraph, else the last sentence, else the last word.
SplitIndex(s) ==
  CASE Paragraphs(s) # {} -> Max(Paragraphs(s))
    [] Paragraphs(s) = {} /\ Sentences(s) # {} -> Max(Sentences(s))
    [] Paragraphs(s) = {} /\ Sentences(s) = {} /\ Words(s) # {} -> Max(Words(s))
    [] OTHER -> HardBoundary(s)

\* One round of the loop.
SplitOnce ==
  /\ splitting /\ UNCHANGED whole
  /\ IF Len(remaining) <= Room
     THEN chunks' = Append(chunks, remaining) /\ remaining' = <<>> /\ splitting' = FALSE
     ELSE LET i == SplitIndex(remaining)
              chunk == Trimmed(SubSeq(remaining, 1, i))
          IN /\ chunks' = IF chunk = <<>> THEN chunks ELSE Append(chunks, chunk)
             /\ remaining' = Trimmed(SubSeq(remaining, i + 1, Len(remaining)))
             /\ splitting' = (remaining' # <<>>)

SplitSpec == SplitInit /\ [][SplitOnce]_splitVars
--------------------------------------------------------------------------------
\* What is done of the text.
Done == Len(whole) - Len(remaining)

\* t is what stands in s behind its first "at" characters.
StandsIn(s, at, t) == \A i \in DOMAIN t : t[i] = s[at + i]
Span(s, at) == at + 1 .. at + Len(s)

\* The chunks stand in what is done of the text, one behind the other; what is in none
\* is blank.
AreCutFrom(s, done, cut, at) ==
  /\ \A k \in DOMAIN cut : /\ StandsIn(s, at[k], cut[k]) /\ at[k] + Len(cut[k]) <= done
                           /\ \A j \in DOMAIN cut : j < k => at[j] + Len(cut[j]) <= at[k]
  /\ \A i \in 1 .. done : s[i] \in Spaces \/ \E k \in DOMAIN cut : i \in Span(cut[k], at[k])

\* What is reserved holds every number of n chunks: up to 99 of them, with the code's 8.
HasRoomForNumbers(n) == Frame + 2 * Digits(n) <= Numbering

\* A post of a thread with its number fits the limit of a post as long as the numbers fit
\* the 8 characters that splitPostText() reserves, whatever their chunks are: a thread of
\* 100 posts or more may overflow, and the property leaves it out. None is empty, and for
\* a thread of any length the chunks are the text: only blanks and ends of lines are left
\* out where it is cut; nothing else is lost, repeated or moved.
ChunksKeepTheText ==
  /\ ~splitting /\ HasRoomForNumbers(Len(chunks)) => \A k \in DOMAIN chunks : PreparedLength(k) <= ChunkLimit
  /\ Len(chunks) > 1 \/ splitting => \A k \in DOMAIN chunks : chunks[k] # <<>>
  /\ StandsIn(whole, Done, remaining)
  /\ \E at \in [DOMAIN chunks -> 0 .. Done] : AreCutFrom(whole, Done, chunks, at)
================================================================================
