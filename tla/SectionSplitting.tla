--------------------------- MODULE SectionSplitting ---------------------------
(***************************************************************************)
(* From the assembled lines of a document to its sections: the cleaner      *)
(* drops lines that look like page furniture, then the splitter opens a     *)
(* section at every heading and rebuilds the path that leads to it.  Both   *)
(* are loops over lines and take a step for each.  A line is a sequence of  *)
(* pieces of text, of which only kind and length are kept.                  *)
(***************************************************************************)
EXTENDS Integers, Sequences, SequencesExt, FiniteSets

CONSTANT Token  \* the pieces of text that occur

ASSUME TokenAssumption ==
  Token \subseteq {"chapter", "section", "article", "article2",
                   "char", "short", "long", "number"}

VARIABLES
  assembled,  \* parsed_text.lines
  lines,      \* cleaned_text.lines
  at,         \* the loop's position
  current,    \* current_lines
  heading,    \* the heading of the current section, "none" before the first
  path,       \* current_path
  sections,
  pc

splitter == <<current, heading, path, sections>>

\* Lengths: a title fits a heading; "long" is a paragraph.
Chars(token) == CASE token = "char" -> 1
                  [] token = "number" -> 3
                  [] token = "short" -> 4
                  [] token = "long" -> 80
                  [] OTHER -> 8

Length(text) == FoldLeft(LAMBDA n, token : n + Chars(token), 0, text)

\* What match_heading says of a token at a line's beginning; 0 is no heading.
Level(token) == CASE token = "chapter" -> 1
                  [] token = "section" -> 2
                  [] token \in {"article", "article2"} -> 3
                  [] OTHER -> 0

HeadingLevel(text) == Level(Head(text))

Line == [text : Seq(Token) \ {<<>>}, block : Nat]

-----------------------------------------------------------------------------
\* Faulty variant: twice is already too often.
RepeatedTwice(text) ==
  /\ Length(text) <= 30
  /\ Cardinality({i \in 1..Len(assembled) : assembled[i].text = text}) >= 2

\* A short line that stands in the document three times is taken for a header or
\* footer, whatever it says.
Repeated(text) ==
  /\ Length(text) <= 30
  /\ Cardinality({i \in 1..Len(assembled) : assembled[i].text = text}) >= 3

PageNumber(text) == text = <<"number">>

CleanLine ==
  /\ pc = "clean"
  /\ at <= Len(assembled)
  /\ LET line == assembled[at]
     IN  lines' = IF Repeated(line.text) \/ PageNumber(line.text) THEN lines
                  ELSE Append(lines, line)
  /\ at' = at + 1
  /\ UNCHANGED <<assembled, splitter, pc>>

EndClean == /\ pc = "clean"
            /\ at > Len(assembled)
            /\ pc' = "split"
            /\ at' = 1
            /\ UNCHANGED <<assembled, lines, splitter>>

-----------------------------------------------------------------------------
\* How many of these lines have at most n characters.
AtMost(ls, n) == Cardinality({i \in 1..Len(ls) : Length(ls[i].text) <= n})

\* A few short lines before the first heading are a cover, and so is any text
\* with two lines of a single character.
KeepPreface(ls) ==
  /\ AtMost(ls, 1) < 2
  /\ \/ Len(ls) > 5
     \/ FoldLeft(LAMBDA n, line : n + Length(line.text), 0, ls) > 24
     \/ AtMost(ls, 4) < Len(ls) - 1

\* Faulty variant: a heading never replaces one of its own level.
RebuildPathDeeper(level, title) ==
  IF level = 1 THEN <<title>> ELSE Append(path, title)

\* A path that is too short for the level is extended as it is.
RebuildPath(level, title) ==
  IF level = 1 THEN <<title>>
  ELSE IF Len(path) < level - 1 THEN Append(path, title)
  ELSE Append(SubSeq(path, 1, level - 1), title)

Section(ls, title, way) == [heading |-> title,
                            path |-> way,
                            text |-> [i \in 1..Len(ls) |-> ls[i].text],
                            source_block_start |-> ls[1].block,
                            source_block_end |-> ls[Len(ls)].block]

Flushed(ls) == IF ls = <<>> THEN sections
               ELSE Append(sections, Section(ls, heading, path))

\* A line of text belongs to the current section.
AddLine == /\ pc = "split"
           /\ at <= Len(lines)
           /\ HeadingLevel(lines[at].text) = 0
           /\ current' = Append(current, lines[at])
           /\ at' = at + 1
           /\ UNCHANGED <<assembled, lines, heading, path, sections, pc>>

\* Faulty variant: the section before the heading is lost when it has no text but
\* its own heading.
OpenSectionAfterText ==
  /\ pc = "split"
  /\ at <= Len(lines)
  /\ HeadingLevel(lines[at].text) # 0
  /\ sections' = IF Len(current) > 1 THEN Flushed(current) ELSE sections
  /\ heading' = Head(lines[at].text)
  /\ path' = RebuildPath(HeadingLevel(lines[at].text), Head(lines[at].text))
  /\ current' = <<lines[at]>>
  /\ at' = at + 1
  /\ UNCHANGED <<assembled, lines, pc>>

\* A heading ends the current section; a cover before the first heading is dropped.
OpenSection ==
  /\ pc = "split"
  /\ at <= Len(lines)
  /\ HeadingLevel(lines[at].text) # 0
  /\ sections' = IF heading = "none" /\ ~KeepPreface(current) THEN sections
                 ELSE Flushed(current)
  /\ heading' = Head(lines[at].text)
  /\ path' = RebuildPath(HeadingLevel(lines[at].text), Head(lines[at].text))
  /\ current' = <<lines[at]>>
  /\ at' = at + 1
  /\ UNCHANGED <<assembled, lines, pc>>

\* Without any heading the whole text is one section.
EndSplit ==
  /\ pc = "split"
  /\ at > Len(lines)
  /\ sections' = IF heading = "none" /\ lines # <<>>
                 THEN <<Section(lines, "whole", <<"whole">>)>>
                 ELSE Flushed(current)
  /\ pc' = "done"
  /\ UNCHANGED <<assembled, lines, at, current, heading, path>>

PrepareNext == CleanLine \/ EndClean \/ AddLine \/ OpenSection \/ EndSplit

-----------------------------------------------------------------------------
Titles == Token \cup {"none", "whole"}

SectionType == [heading : Titles, path : Seq(Titles), text : Seq(Seq(Token)),
                source_block_start : Nat, source_block_end : Nat]

\* The loops' variables hold lines and sections.
PrepareTypeOK == /\ assembled \in Seq(Line)
                 /\ lines \in Seq(Line)
                 /\ at \in Nat
                 /\ current \in Seq(Line)
                 /\ heading \in Token \cup {"none"}
                 /\ path \in Seq(Token)
                 /\ sections \in Seq(SectionType)

\* The lines of the sections, one after the other.
SectionLines == FlattenSeq([i \in 1..Len(sections) |-> sections[i].text])

Texts(ls) == [i \in 1..Len(ls) |-> ls[i].text]

\* No line of the cleaned text is lost between two sections, doubled or moved:
\* the sections together are that text, but for a cover before the first heading,
\* and the source blocks that each names do not go back behind the one before.
SectionsCoverText ==
  pc = "done" =>
    /\ \/ SectionLines = Texts(lines)
       \/ \E d \in 1..(Len(lines) - 1) :
            /\ HeadingLevel(lines[d + 1].text) # 0
            /\ \A i \in 1..d : HeadingLevel(lines[i].text) = 0
            /\ ~KeepPreface(SubSeq(lines, 1, d))
            /\ SectionLines = SubSeq(Texts(lines), d + 1, Len(lines))
    /\ \A i \in 1..Len(sections) :
         /\ sections[i].source_block_start <= sections[i].source_block_end
         /\ i > 1 => sections[i - 1].source_block_end <= sections[i].source_block_start

\* How many of these numbers are not above n.
UpTo(n, S) == Cardinality({i \in S : i <= n})

\* Every heading opens a section, in the document's order, and nothing else does but
\* for the text before the first.  Short headings that stand three times are left
\* open: the cleaner takes them for headers and footers, while it notes that chapter,
\* section and article numbers are kept (policy_text_cleaner.py:59).
SectionsAtHeadings ==
  pc = "done" =>
    LET often(text) ==
          /\ Length(text) <= 30
          /\ Cardinality({i \in 1..Len(assembled) : assembled[i].text = text}) >= 3
        wanted == {i \in 1..Len(assembled) : /\ HeadingLevel(assembled[i].text) # 0
                                             /\ ~often(assembled[i].text)}
        opened == {k \in 1..Len(sections) : /\ sections[k].heading \notin {"none", "whole"}
                                            /\ ~often(sections[k].text[1])}
    IN  /\ Cardinality(opened) = Cardinality(wanted)
        /\ \A i \in wanted, k \in opened :
             UpTo(i, wanted) = UpTo(k, opened) => sections[k].text[1] = assembled[i].text
        /\ \A k \in 2..Len(sections) : HeadingLevel(sections[k].text[1]) # 0
        /\ \A i \in 1..Len(sections) :
             \A k \in 2..Len(sections[i].text) : HeadingLevel(sections[i].text[k]) = 0

\* The last section up to the i-th whose heading has this level.
LastOfLevel(i, level) == Max({j \in 1..i : Level(sections[j].heading) = level})

\* No heading so far skips a level: a chapter's headings of the next level are
\* sections, and theirs articles.
NoLevelSkipped(i) ==
  \A j \in 1..i : LET level == Level(sections[j].heading)
                  IN  \/ level <= 1
                      \/ j > 1 /\ Level(sections[j - 1].heading) >= level - 1

\* As long as no level is skipped, a section's path is the way to it: its own
\* heading, after the headings it stands under.
PathsNest ==
  \A i \in 1..Len(sections) :
    LET s == sections[i]
    IN  Level(s.heading) > 0 /\ NoLevelSkipped(i) =>
          s.path = [k \in 1..Level(s.heading) |->
                      sections[LastOfLevel(i, k)].heading]

\* A path names a way from the outside in: each heading stands under the one
\* before it.
SectionPathNests ==
  \A i \in 1..Len(sections) :
    \A k \in 1..(Len(sections[i].path) - 1) :
      Level(sections[i].path[k]) < Level(sections[i].path[k + 1])
=============================================================================
