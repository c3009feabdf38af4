------------------------------- MODULE Chunking -------------------------------
(***************************************************************************)
(* How a section's text is cut into the chunks that are embedded and        *)
(* recalled: a window of Target characters moves over the text, shortened   *)
(* to a line or sentence break in its second half, and successive windows   *)
(* share Overlap characters.  Offsets count from 0, as in the code: the     *)
(* slice from s to e holds the characters s + 1 to e of the text.           *)
(***************************************************************************)
EXTENDS Integers, Sequences

CONSTANTS Target,   \* chunk_target_chars
          Overlap,  \* chunk_overlap_chars
          Char,     \* the characters of texts, by what the code tells apart
          MaxLen    \* bound on the length of a text

\* What PolicyChunkingPolicy demands of its parameters.
ASSUME SizesAssumption == /\ Target \in Nat \ {0}
                          /\ Overlap \in Nat
                          /\ Overlap < Target
ASSUME CharAssumption == Char \subseteq {"word", "mark", "newline", "space"}
ASSUME MaxLenAssumption == MaxLen \in Nat

VARIABLES text,    \* the section's text, stripped
          start,   \* where the next window starts
          end,     \* where the last one ended
          slices,  \* the chunks so far
          pc

vars == <<text, start, end, slices, pc>>

\* A mark is a full stop or a comma.
Blank == {"newline", "space"}
Break == {"newline", "mark"}

Stripped(t) == t # <<>> => t[1] \notin Blank /\ t[Len(t)] \notin Blank
IsText(t) == t \in Seq(Char) /\ Len(t) <= MaxLen /\ Stripped(t)

Slice == [start : Nat, end : Nat, chunk_in_section : Nat]

Init == /\ \E n \in 0..MaxLen : text \in [1..n -> Char]
        /\ IsText(text)
        /\ start = 0
        /\ end = 0
        /\ slices = <<>>
        /\ pc = "cut"

-----------------------------------------------------------------------------
\* The characters from i to j are no breaks.
NoBreak(i, j) == \A k \in i..j : text[k] \notin Break

\* Faulty variant: a break in the first half counts, too.
WindowEndAny(s, e) ==
  LET w == s + Target
  IN  \/ w >= Len(text) /\ e = Len(text)
      \/ w < Len(text) /\ e \in (s + 1)..w /\ text[e] \in Break /\ NoBreak(e + 1, w)
      \/ w < Len(text) /\ e = w /\ NoBreak(s + 1, w)

\* The window that starts at s ends at e: at the end of the text, else after the
\* last break in its second half, else when it is full.
WindowEnd(s, e) ==
  LET w == s + Target
      half == s + (Target \div 2) + 1
  IN  \/ w >= Len(text) /\ e = Len(text)
      \/ w < Len(text) /\ e \in half..w /\ text[e] \in Break /\ NoBreak(e + 1, w)
      \/ w < Len(text) /\ e = w /\ NoBreak(half, w)

\* Faulty variants: the windows do not overlap; they overlap on both sides.
NextStartApart(s, e) == s + Target
NextStartTwice(s, e) == s + Target - 2 * Overlap

\* The overlap back from the end, but at least a whole step on.
NextStart(s, e) == LET step == Target - Overlap
                   IN  IF e - Overlap >= s + step THEN e - Overlap ELSE s + step

\* Faulty variant: small fragments make no chunk.
CutShort(s, e) == IF e - s > 2 * Overlap
                  THEN Append(slices, [start |-> s, end |-> e,
                                       chunk_in_section |-> Len(slices)])
                  ELSE slices

\* What is blank makes no chunk.
Cut(s, e) == IF \E i \in (s + 1)..e : text[i] \notin Blank
             THEN Append(slices, [start |-> s, end |-> e,
                                  chunk_in_section |-> Len(slices)])
             ELSE slices

\* An empty text has no chunks, a short one is a chunk.
Short == /\ pc = "cut"
         /\ start = 0
         /\ Len(text) <= Target
         /\ slices' = IF text = <<>> THEN <<>>
                      ELSE <<[start |-> 0, end |-> Len(text), chunk_in_section |-> 0]>>
         /\ end' = Len(text)
         /\ pc' = "done"
         /\ UNCHANGED <<text, start>>

\* Faulty variant: any break counts, and only the overlap is considered.
WindowNaive == /\ pc = "cut"
               /\ Len(text) > Target
               /\ start < Len(text)
               /\ \E e \in 1..(start + Target) :
                    /\ WindowEndAny(start, e)
                    /\ end' = e
                    /\ slices' = Cut(start, e)
                    /\ IF e >= Len(text) THEN pc' = "done" /\ UNCHANGED start
                       ELSE start' = e - Overlap /\ UNCHANGED pc
               /\ UNCHANGED text

Window == /\ pc = "cut"
          /\ Len(text) > Target
          /\ start < Len(text)
          /\ \E e \in 1..(start + Target) :
               /\ WindowEnd(start, e)
               /\ end' = e
               /\ slices' = Cut(start, e)
               /\ IF e >= Len(text) THEN pc' = "done" /\ UNCHANGED start
                  ELSE start' = NextStart(start, e) /\ UNCHANGED pc
          /\ UNCHANGED text

Next == Short \/ Window
Spec == Init /\ [][Next]_vars

\* The function runs to its end.
FairSpec == Spec /\ WF_vars(Next)

-----------------------------------------------------------------------------
\* The loop's variables are offsets into the text.
TypeOK == /\ IsText(text)
          /\ start \in 0..Len(text)
          /\ end \in 0..Len(text)
          /\ slices \in Seq(Slice)
          /\ pc \in {"cut", "done"}

\* The next window takes up at most Overlap characters of the last one.
OverlapBounded == pc = "cut" => end - start <= Overlap

\* What lies between two windows is bounded: a break in the middle of a window
\* drops at most the window's second half less the overlap.
GapBounded == start - end < Target - (Target \div 2) - Overlap \/ start <= end

\* With at most half a window of overlap no chunk lies within the one before:
\* both its ends are further on.
ChunksAdvance ==
  Overlap <= Target \div 2 =>
    \A i \in 1..(Len(slices) - 1) : /\ slices[i].start < slices[i + 1].start
                                   /\ slices[i].end < slices[i + 1].end

\* A text's first and last chunk begin and end where the text does, and the
\* chunks are numbered from 0 without a gap, also when blank ones are dropped.
EndsKept ==
  /\ pc = "done" /\ text # <<>> => /\ slices # <<>>
                                  /\ slices[1].start = 0
                                  /\ slices[Len(slices)].end = Len(text)
  /\ \A i \in 1..Len(slices) : slices[i].chunk_in_section = i - 1

\* However much the windows overlap and wherever they are cut, the loop ends.
Terminates == <>(pc = "done")

\* A section that is too long is cut into chunks: what is not blank is in one.
EveryCharacterKept ==
  pc = "done" => \A i \in 1..Len(text) : text[i] \notin Blank =>
                   \E j \in 1..Len(slices) : slices[j].start < i /\ i <= slices[j].end
-----------------------------------------------------------------------------
(* The inductive invariant.                                                 *)

\* The first window starts at the text's beginning; later ones only in a text
\* that is too long, behind it, within the text, and with the first chunk cut.
LoopOK == pc = "cut" => \/ start = 0 /\ end = 0 /\ slices = <<>>
                        \/ /\ Len(text) > Target
                           /\ start \in 1..(Len(text) - 1)
                           /\ end < Len(text)
                           /\ slices # <<>>

\* The last chunk lies before the next window; the first is the text's beginning.
SlicesOK == /\ slices # <<>> => slices[1].start = 0
            /\ pc = "cut" /\ slices # <<>> =>
                 /\ slices[Len(slices)].start < start
                 /\ Overlap <= Target \div 2 => slices[Len(slices)].end <= end

CInv == /\ TypeOK
        /\ LoopOK
        /\ SlicesOK
        /\ OverlapBounded
        /\ GapBounded
        /\ ChunksAdvance
        /\ EndsKept
=============================================================================
