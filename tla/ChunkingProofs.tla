---------------------------- MODULE ChunkingProofs ----------------------------
(***************************************************************************)
(* Proofs that the loop that cuts a text keeps its bounds for every window, *)
(* overlap and text length that PolicyChunkingPolicy admits.                *)
(***************************************************************************)
EXTENDS Chunking, TLAPS

\* Half a window is a number of characters within it.
LEMMA HalfWindow == Target \div 2 \in Nat /\ Target \div 2 <= Target
BY SizesAssumption

\* Where a window can end: within the text and the window, and if not at the end
\* of the text, then in the window's second half.
LEMMA WindowEndBounds ==
  ASSUME IsText(text), NEW s \in Nat, s < Len(text),
         NEW e \in 1..(s + Target), WindowEnd(s, e)
  PROVE  /\ e \in Nat /\ s < e /\ e <= Len(text) /\ e <= s + Target
         /\ e # Len(text) => e > s + (Target \div 2)
<1>1. Len(text) \in Nat
  BY DEF IsText
<1> DEFINE h == Target \div 2
<1>2. h \in Nat /\ h < Target
  BY SizesAssumption
<1> HIDE DEF h
<1>3. \/ s + Target >= Len(text) /\ e = Len(text)
      \/ s + Target < Len(text) /\ e \in (s + h + 1)..(s + Target)
      \/ s + Target < Len(text) /\ e = s + Target
  BY DEF WindowEnd, h
<1> QED
  BY <1>1, <1>2, <1>3, SizesAssumption DEF h

\* The next window starts further on, and neither too far back nor too far on.
LEMMA NextStartBounds ==
  ASSUME NEW s \in Nat, NEW e \in Nat, s < e, e <= s + Target, e > s + (Target \div 2)
  PROVE  /\ NextStart(s, e) \in Nat /\ s < NextStart(s, e)
         /\ NextStart(s, e) <= s + Target
         /\ e - NextStart(s, e) <= Overlap
         /\ \/ NextStart(s, e) - e < Target - (Target \div 2) - Overlap
            \/ NextStart(s, e) <= e
<1> DEFINE h == Target \div 2
<1>1. h \in Nat /\ e > s + h
  BY HalfWindow
<1> HIDE DEF h
<1>2. /\ NextStart(s, e) \in Nat /\ s < NextStart(s, e)
      /\ NextStart(s, e) <= s + Target
      /\ e - NextStart(s, e) <= Overlap
      /\ NextStart(s, e) - e < Target - h - Overlap \/ NextStart(s, e) <= e
  BY <1>1, SizesAssumption DEF NextStart
<1> QED
  BY <1>2 DEF h

LEMMA InitCInv == Init => CInv
<1> SUFFICES ASSUME Init PROVE CInv
  OBVIOUS
<1>1. TypeOK
  BY DEF Init, TypeOK, IsText
<1>2. LoopOK /\ SlicesOK /\ OverlapBounded /\ ChunksAdvance /\ EndsKept
  BY SizesAssumption DEF Init, LoopOK, SlicesOK, OverlapBounded, ChunksAdvance, EndsKept
<1>3. GapBounded
  BY DEF Init, GapBounded
<1> QED
  BY <1>1, <1>2, <1>3 DEF CInv

LEMMA ShortStep == ASSUME CInv, Short PROVE CInv'
<1>1. /\ Len(text) \in Nat /\ text' = text /\ start' = start /\ start = 0
      /\ end' = Len(text) /\ pc' = "done"
      /\ slices' = IF text = <<>> THEN <<>>
                   ELSE <<[start |-> 0, end |-> Len(text), chunk_in_section |-> 0]>>
  BY DEF CInv, TypeOK, IsText, Short
<1>2. CASE text = <<>>
  BY <1>1, <1>2 DEF CInv, TypeOK, IsText, LoopOK, SlicesOK, OverlapBounded, GapBounded,
     ChunksAdvance, EndsKept
<1>3. CASE text # <<>>
  <2> DEFINE c == [start |-> 0, end |-> Len(text), chunk_in_section |-> 0]
  <2>1. c \in Slice /\ c.start = 0 /\ c.end = Len(text) /\ c.chunk_in_section = 0
    BY <1>1 DEF Slice
  <2> HIDE DEF c
  <2>2. /\ slices' = <<c>> /\ slices' \in Seq(Slice)
        /\ Len(slices') = 1 /\ slices'[1] = c /\ slices' # <<>>
    <3>1. slices' = <<c>>
      BY <1>1, <1>3 DEF c
    <3> QED
      BY <3>1, <2>1
  <2> QED
    BY <1>1, <2>1, <2>2 DEF CInv, TypeOK, IsText, LoopOK, SlicesOK, OverlapBounded,
       GapBounded, ChunksAdvance, EndsKept
<1> QED
  BY <1>2, <1>3

\* A window at the text's first or last character makes a chunk: neither is blank.
LEMMA CutAtEnds ==
  ASSUME CInv, text # <<>>, start < Len(text), NEW e \in Nat, start < e,
         e <= Len(text), start = 0 \/ e = Len(text)
  PROVE  Cut(start, e) = Append(slices, [start |-> start, end |-> e,
                                         chunk_in_section |-> Len(slices)])
<1>1. /\ Len(text) \in Nat /\ start \in Nat
      /\ text[1] \notin Blank /\ text[Len(text)] \notin Blank
  BY DEF CInv, TypeOK, IsText, Stripped
<1>2. \E i \in (start + 1)..e : text[i] \notin Blank
  <2>1. CASE start = 0
    BY <1>1, <2>1
  <2>2. CASE e = Len(text)
    BY <1>1, <2>2
  <2> QED
    BY <2>1, <2>2
<1> QED
  BY <1>2 DEF Cut

\* What a cut does to the chunks: nothing, or one more of them, further on than
\* the last and with the next number; the first stays at the beginning.
LEMMA CutChunks ==
  ASSUME CInv, pc = "cut", NEW e \in Nat, start < e, e <= Len(text),
         Overlap <= Target \div 2 => end < e
  PROVE  LET t == Cut(start, e)
         IN  /\ t \in Seq(Slice)
             /\ \A i \in 1..Len(t) : t[i].chunk_in_section = i - 1
             /\ t # <<>> => /\ t[1].start = 0
                            /\ t[Len(t)].start <= start
                            /\ Overlap <= Target \div 2 => t[Len(t)].end <= e
             /\ Overlap <= Target \div 2 =>
                  \A i \in 1..(Len(t) - 1) : /\ t[i].start < t[i + 1].start
                                             /\ t[i].end < t[i + 1].end
<1> DEFINE c == [start |-> start, end |-> e, chunk_in_section |-> Len(slices)]
           t == Append(slices, c)
           half == Overlap <= Target \div 2
<1>1. /\ slices \in Seq(Slice) /\ start \in Nat /\ end \in Nat /\ Len(slices) \in Nat
  BY DEF CInv, TypeOK, IsText
<1>2. c \in Slice /\ c.start = start /\ c.end = e /\ c.chunk_in_section = Len(slices)
  BY <1>1 DEF Slice
<1>3. Cut(start, e) = t \/ Cut(start, e) = slices
  BY DEF Cut
<1> HIDE DEF c, half
<1>4. /\ t \in Seq(Slice) /\ Len(t) = Len(slices) + 1 /\ t # <<>>
      /\ t[Len(slices) + 1] = c /\ \A i \in 1..Len(slices) : t[i] = slices[i]
  BY <1>1, <1>2
<1> HIDE DEF t
<1>5. \A i \in 1..Len(slices) : slices[i].chunk_in_section = i - 1
  BY DEF CInv, EndsKept
<1>6. /\ slices # <<>> => /\ slices[1].start = 0
                          /\ slices[Len(slices)].start < start
                          /\ half => slices[Len(slices)].end <= end
      /\ slices = <<>> => start = 0
  BY DEF CInv, SlicesOK, LoopOK, half
<1>7. half => \A i \in 1..(Len(slices) - 1) : /\ slices[i].start < slices[i + 1].start
                                             /\ slices[i].end < slices[i + 1].end
  BY DEF CInv, ChunksAdvance, half
<1>8. slices = <<>> <=> Len(slices) = 0
  BY <1>1
<1>9. \A i \in 1..Len(t) : t[i].chunk_in_section = i - 1
  BY <1>1, <1>2, <1>4, <1>5
<1>10. t[1].start = 0 /\ t[Len(t)].start = start /\ t[Len(t)].end = e
  BY <1>1, <1>2, <1>4, <1>6, <1>8
<1>11. ASSUME half, NEW i \in 1..(Len(t) - 1)
       PROVE  t[i].start < t[i + 1].start /\ t[i].end < t[i + 1].end
  <2>1. i \in 1..Len(slices) /\ t[i] = slices[i]
    BY <1>1, <1>4
  <2>2. CASE i < Len(slices)
    BY <1>1, <1>4, <1>7, <1>11, <2>1, <2>2
  <2>3. CASE i = Len(slices)
    <3>1. t[i] = slices[Len(slices)] /\ t[i + 1] = c /\ slices # <<>>
      BY <1>1, <1>4, <1>8, <2>1, <2>3
    <3>2. end < e /\ slices[Len(slices)] \in Slice
      BY <1>1, <1>11, <2>1, <2>3 DEF half
    <3> QED
      BY <1>1, <1>2, <1>6, <1>11, <3>1, <3>2 DEF Slice
  <2> QED
    BY <1>1, <2>1, <2>2, <2>3
<1>12. CASE Cut(start, e) = t
  BY <1>4, <1>9, <1>10, <1>11, <1>12, <1>1 DEF half
<1>13. CASE Cut(start, e) = slices
  <2>1. slices # <<>> => slices[Len(slices)] \in Slice
    BY <1>1, <1>8
  <2> QED
    BY <1>1, <1>5, <1>6, <1>7, <1>13, <2>1 DEF half, Slice
<1> QED
  BY <1>3, <1>12, <1>13

LEMMA WindowStep == ASSUME CInv, Window PROVE CInv'
<1>1. PICK e \in 1..(start + Target) :
        /\ WindowEnd(start, e) /\ end' = e /\ slices' = Cut(start, e)
        /\ IF e >= Len(text) THEN pc' = "done" /\ UNCHANGED start
           ELSE start' = NextStart(start, e) /\ UNCHANGED pc
  BY DEF Window
<1>2. /\ pc = "cut" /\ text' = text /\ IsText(text) /\ Len(text) \in Nat /\ start \in Nat
      /\ end \in Nat /\ Len(text) > Target /\ start < Len(text) /\ text # <<>>
  BY SizesAssumption DEF Window, CInv, TypeOK, IsText
<1>3. /\ e \in Nat /\ start < e /\ e <= Len(text) /\ e <= start + Target
      /\ e # Len(text) => e > start + (Target \div 2)
  BY <1>1, <1>2, WindowEndBounds
<1> DEFINE half == Overlap <= Target \div 2
<1>4. half => end < e
  <2>1. CASE start = 0 /\ end = 0
    BY <1>3, <2>1
  <2>2. CASE ~(start = 0 /\ end = 0)
    <3>1. end < Len(text) /\ end - start <= Overlap
      BY <1>2, <2>2 DEF CInv, LoopOK, OverlapBounded
    <3> QED
      BY <1>2, <1>3, <3>1, HalfWindow, SizesAssumption
  <2> QED
    BY <2>1, <2>2
<1> HIDE DEF half
<1>5. /\ slices' \in Seq(Slice)
      /\ \A i \in 1..Len(slices') : slices'[i].chunk_in_section = i - 1
      /\ slices' # <<>> => /\ slices'[1].start = 0
                           /\ slices'[Len(slices')].start <= start
                           /\ half => slices'[Len(slices')].end <= e
      /\ half => \A i \in 1..(Len(slices') - 1) :
                   /\ slices'[i].start < slices'[i + 1].start
                   /\ slices'[i].end < slices'[i + 1].end
  BY <1>1, <1>2, <1>3, <1>4, CutChunks DEF half
<1>6. slices \in Seq(Slice) /\ Len(slices) \in Nat
  BY DEF CInv, TypeOK
<1>7. start = 0 \/ e = Len(text) =>
        slices' # <<>> /\ slices'[Len(slices')].end = e
  <2>1. [start |-> start, end |-> e, chunk_in_section |-> Len(slices)] \in Slice
    BY <1>2, <1>3, <1>6 DEF Slice
  <2>2. start = 0 \/ e = Len(text) =>
          slices' = Append(slices, [start |-> start, end |-> e,
                                    chunk_in_section |-> Len(slices)])
    BY <1>1, <1>2, <1>3, CutAtEnds
  <2> QED
    BY <1>6, <2>1, <2>2
<1>8. slices' # <<>>
  <2>1. CASE slices = <<>>
    BY <1>2, <1>7, <2>1 DEF CInv, LoopOK
  <2>2. CASE slices # <<>>
    <3> DEFINE c == [start |-> start, end |-> e, chunk_in_section |-> Len(slices)]
    <3>1. c \in Slice
      BY <1>2, <1>3, <1>6 DEF Slice
    <3>2. slices' = Append(slices, c) \/ slices' = slices
      BY <1>1 DEF Cut
    <3> HIDE DEF c
    <3>3. Append(slices, c) # <<>>
      BY <1>6, <3>1
    <3> QED
      BY <2>2, <3>2, <3>3
  <2> QED
    BY <2>1, <2>2
<1>9. CASE e = Len(text)
  <2>1. pc' = "done" /\ start' = start
    BY <1>1, <1>2, <1>9
  <2>2. TypeOK' /\ LoopOK' /\ SlicesOK' /\ OverlapBounded' /\ ChunksAdvance'
    BY <1>1, <1>2, <1>3, <1>5, <2>1 DEF TypeOK, LoopOK, SlicesOK, OverlapBounded,
       ChunksAdvance, half
  <2>3. GapBounded'
    BY <1>1, <1>2, <1>3, <2>1 DEF GapBounded
  <2>4. EndsKept'
    BY <1>1, <1>2, <1>5, <1>7, <1>8, <1>9 DEF EndsKept
  <2> QED
    BY <2>2, <2>3, <2>4 DEF CInv
<1>10. CASE e # Len(text)
  <2>1. pc' = "cut" /\ start' = NextStart(start, e) /\ e < Len(text)
    BY <1>1, <1>2, <1>3, <1>10
  <2>2. start + Target < Len(text)
    BY <1>1, <1>2, <1>10, SizesAssumption DEF WindowEnd
  <2>3. /\ start' \in Nat /\ start < start' /\ start' < Len(text)
        /\ e - start' <= Overlap
        /\ \/ start' - e < Target - (Target \div 2) - Overlap
           \/ start' <= e
    <3>1. e > start + (Target \div 2)
      BY <1>3, <1>10
    <3>2. /\ NextStart(start, e) \in Nat /\ start < NextStart(start, e)
          /\ NextStart(start, e) <= start + Target
          /\ e - NextStart(start, e) <= Overlap
          /\ \/ NextStart(start, e) - e < Target - (Target \div 2) - Overlap
             \/ NextStart(start, e) <= e
      BY <1>2, <1>3, <3>1, NextStartBounds
    <3> QED
      BY <1>2, <2>1, <2>2, <3>2, SizesAssumption
  <2>4. TypeOK' /\ LoopOK'
    BY <1>1, <1>2, <1>3, <1>5, <1>8, <2>1, <2>3 DEF TypeOK, LoopOK
  <2>5. SlicesOK'
    <3>1. slices'[Len(slices')] \in Slice
      BY <1>5, <1>8
    <3> QED
      BY <1>1, <1>2, <1>3, <1>5, <1>8, <2>3, <3>1 DEF SlicesOK, half, Slice
  <2>6. OverlapBounded' /\ GapBounded'
    BY <1>1, <2>3 DEF OverlapBounded, GapBounded
  <2>7. ChunksAdvance' /\ EndsKept'
    BY <1>5, <2>1 DEF ChunksAdvance, EndsKept, half
  <2> QED
    BY <2>4, <2>5, <2>6, <2>7 DEF CInv
<1> QED
  BY <1>9, <1>10

\* A call that has returned, or a step elsewhere, changes nothing.
LEMMA NextCInv == CInv /\ [Next]_vars => CInv'
<1> SUFFICES ASSUME CInv, [Next]_vars PROVE CInv'
  OBVIOUS
<1>1. CASE UNCHANGED vars
  BY <1>1 DEF vars, CInv, TypeOK, IsText, LoopOK, SlicesOK, OverlapBounded, GapBounded,
     ChunksAdvance, EndsKept
<1> QED
  BY <1>1, ShortStep, WindowStep DEF Next

\* The inductive invariant of the loop of split_section_text.
THEOREM ChunkingInvariant == Spec => []CInv
BY InitCInv, NextCInv, PTL DEF Spec

\* Two windows share at most Overlap characters.
THEOREM OverlapCorrect == Spec => []OverlapBounded
<1>1. CInv => OverlapBounded
  BY DEF CInv
<1> QED
  BY <1>1, ChunkingInvariant, PTL

\* What two windows leave out between them is bounded: 479 characters at the
\* configured sizes 1200 and 120.
THEOREM GapCorrect == Spec => []GapBounded
<1>1. CInv => GapBounded
  BY DEF CInv
<1> QED
  BY <1>1, ChunkingInvariant, PTL

\* With an overlap of at most half a window each chunk ends and starts further on
\* than the one before.
THEOREM ChunksForward == Spec => []ChunksAdvance
<1>1. CInv => ChunksAdvance
  BY DEF CInv
<1> QED
  BY <1>1, ChunkingInvariant, PTL

\* The chunks of a text that is not empty reach from its beginning to its end.
THEOREM EndsCorrect == Spec => []EndsKept
<1>1. CInv => EndsKept
  BY DEF CInv
<1> QED
  BY <1>1, ChunkingInvariant, PTL
=============================================================================
