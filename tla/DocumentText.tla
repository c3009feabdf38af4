----------------------------- MODULE DocumentText -----------------------------
(***************************************************************************)
(* From a file to the text that is stored: the parser turns the file into a *)
(* stream of blocks, OCR reads the pictures among them, one call each, and  *)
(* the assembler puts what it read where the pictures stood.  Cleaning and  *)
(* splitting, in SectionSplitting, follow.                                  *)
(***************************************************************************)
EXTENDS SectionSplitting

CONSTANTS MaxItems,  \* bound on the pages or paragraphs of a file
          MaxSize    \* bound on the pieces of text and pictures in it, and what OCR reads

ASSUME BoundsAssumption == MaxItems \in Nat \ {0} /\ MaxSize \in Nat

VARIABLES
  kind,      \* file_type
  file,      \* what the file holds, as far as it is parsed
  blocks,    \* document.blocks
  scanned,   \* document.suspected_scanned
  targets,   \* target_ids
  answers,   \* what OCR has read, for each picture
  tally,     \* succeeded_blocks, failed_blocks and skipped_blank_blocks
  method     \* parse_method of the result

parsed == <<kind, file, blocks, scanned>>
ocr == <<targets, answers, tally, method>>
text == <<assembled, lines, splitter>>
vars == <<parsed, ocr, text, at, pc>>

\* A page has lines of text and an embedded picture or none; a page without text
\* is a picture itself.  A paragraph has pieces of text and pictures in a line; the
\* relation of a picture may be missing.  A table has rows.
Page == [type : {"page"}, text : BoundedSeq(Token, 2), picture : BOOLEAN]
Paragraph == [type : {"paragraph"},
              pieces : BoundedSeq(Token \cup {"picture", "missing"}, 3)]
Table == [type : {"table"}, rows : BoundedSeq(Token, 2) \ {<<>>}]
Image == [type : {"image"}]

Items == [pdf |-> Page, docx |-> Paragraph \cup Table, image |-> Image]

\* A picture is named by its item and its place there; a page itself has place 0.
Pictures == (1..MaxItems) \X (0..3)
NoPicture == <<0, 0>>

\* A piece of a block's text: a word, or a placeholder for the picture in a slot.
Word(token) == [word |-> token, slot |-> 0]
Placeholder(n) == [word |-> "picture", slot |-> n]

Block(type, content, slot, picture, render) ==
  [type |-> type, text |-> content, slot |-> slot, picture |-> picture,
   render |-> render, source |-> "direct"]

Words(item) == CASE item.type = "page" -> Len(item.text)
                 [] item.type = "paragraph" ->
                      Len(SelectSeq(item.pieces, LAMBDA p : p \in Token))
                 [] item.type = "table" -> Len(item.rows)
                 [] OTHER -> 0

\* The bound counts pictures and pages without text as well.
Weight(item) == CASE item.type = "page" ->
                       IF item.text = <<>> THEN 1
                       ELSE Len(item.text) + (IF item.picture THEN 1 ELSE 0)
                  [] item.type = "paragraph" -> Len(item.pieces)
                  [] item.type = "table" -> Len(item.rows)
                  [] OTHER -> 1
Size == FoldLeft(LAMBDA n, item : n + Weight(item), 0, file)
          + FoldLeft(LAMBDA n, b : IF b.source = "ocr" THEN n + Len(b.text) ELSE n,
                     0, blocks)

Init == /\ kind \in {"pdf", "docx", "image"}
        /\ file = <<>>
        /\ blocks = <<>>
        /\ scanned = FALSE
        /\ targets = {}
        /\ answers = [p \in Pictures |-> <<>>]
        /\ tally = [succeeded |-> 0, failed |-> 0, blank |-> 0]
        /\ method = "direct"
        /\ assembled = <<>> /\ lines = <<>>
        /\ at = 1
        /\ current = <<>> /\ heading = "none" /\ path = <<>> /\ sections = <<>>
        /\ pc = "parse"

-----------------------------------------------------------------------------
\* The parser.

\* A page's text goes before its pictures; a page without text is one picture.
PageBlocks(page, i) ==
  (IF page.text = <<>>
   THEN <<Block("image", <<>>, 0, <<i, 0>>, TRUE)>>
   ELSE <<Block("text", [k \in 1..Len(page.text) |-> <<Word(page.text[k])>>],
                0, NoPicture, FALSE)>>
        \o (IF page.picture THEN <<Block("image", <<>>, 0, <<i, 1>>, FALSE)>>
            ELSE <<>>))
  \o <<Block("page_break", <<>>, 0, NoPicture, FALSE)>>

\* The pictures among the first k pieces of a paragraph.
PicturesIn(pieces, k) == {j \in 1..k : pieces[j] \in {"picture", "missing"}}

\* Faulty variant: the pictures are numbered within their paragraph.
SlotLocal(pieces, k) == Cardinality(PicturesIn(pieces, k))

\* The number in a picture's placeholder.
Slot(pieces, k) == Len(blocks) + Cardinality(PicturesIn(pieces, k))

\* These places in ascending order.
Ascending(S) == CHOOSE s \in [1..Cardinality(S) -> S] :
                  \A m, n \in 1..Cardinality(S) : m < n => s[m] < s[n]

\* The paragraph's text with placeholders, then its pictures.
ParagraphBlocks(pieces, i) ==
  LET pictures == Ascending(PicturesIn(pieces, Len(pieces)))
      line == [k \in 1..Len(pieces) |->
                 IF pieces[k] \in Token THEN Word(pieces[k])
                 ELSE Placeholder(Slot(pieces, k))]
  IN  IF pieces = <<>> THEN <<>>
      ELSE <<Block("text", <<line>>, 0, NoPicture, FALSE)>>
           \o [n \in 1..Len(pictures) |->
                 Block("image", <<>>, Slot(pieces, pictures[n]),
                       IF pieces[pictures[n]] = "picture" THEN <<i, pictures[n]>>
                       ELSE NoPicture, FALSE)]

TableBlocks(rows) ==
  <<Block("table", [k \in 1..Len(rows) |-> <<Word(rows[k])>>], 0, NoPicture, FALSE)>>

ItemBlocks(item, i) ==
  CASE item.type = "page" -> PageBlocks(item, i)
    [] item.type = "paragraph" -> ParagraphBlocks(item.pieces, i)
    [] item.type = "table" -> TableBlocks(item.rows)
    [] item.type = "image" -> <<Block("image", <<>>, 0, <<i, 1>>, FALSE)>>

ParseItem == /\ pc = "parse"
             /\ Len(file) < IF kind = "image" THEN 1 ELSE MaxItems
             /\ \E item \in Items[kind] :
                  /\ Size + Weight(item) <= MaxSize
                  /\ file' = Append(file, item)
                  /\ blocks' = blocks \o ItemBlocks(item, Len(file) + 1)
             /\ UNCHANGED <<kind, scanned, ocr, text, at, pc>>

\* The characters of a PDF's text, and the text of a DOCX.
PdfChars == FoldLeft(LAMBDA n, page : n + Length(page.text), 0, file)
DocxText == \E i \in 1..Len(file) : Words(file[i]) > 0

SuspectedScanned ==
  CASE kind = "pdf" -> PdfChars < 80
    [] kind = "docx" -> ~DocxText /\ \E b \in 1..Len(blocks) : blocks[b].type = "image"
    [] kind = "image" -> TRUE

-----------------------------------------------------------------------------
\* OCR.

\* The blocks of pictures with content, and those that stand for a page.
Pictured == {b \in 1..Len(blocks) : /\ blocks[b].type = "image"
                                    /\ blocks[b].picture # NoPicture
                                    /\ ~blocks[b].render}
Rendered == {b \in 1..Len(blocks) : blocks[b].type = "image" /\ blocks[b].render}

\* Faulty variant: embedded pictures are read also where pages are.
SelectOcrTargetsAll == Pictured \cup Rendered

\* In a scanned PDF the pages without text, if it has one; else the pictures.
SelectOcrTargets ==
  IF kind = "pdf" /\ scanned' /\ Rendered # {} THEN Rendered ELSE Pictured

\* The parser is done.  When OCR is disabled or has no credentials, what it should
\* have read has failed.
EndParse ==
  /\ pc = "parse"
  /\ kind = "image" => Len(file) = 1
  /\ scanned' = SuspectedScanned
  /\ targets' = SelectOcrTargets
  /\ \/ targets' # {} /\ pc' = "ocr" /\ UNCHANGED tally
     \/ pc' = "assemble" /\ tally' = [tally EXCEPT !.failed = Cardinality(targets')]
  /\ UNCHANGED <<kind, file, blocks, answers, method, text, at>>

\* Faulty variant: the picture is kept, and would be stored with the block.
StrippedNot(b) == b

\* A block that has been through OCR is no longer a picture; its slot stays.
Stripped(b) == [b EXCEPT !.picture = NoPicture, !.render = FALSE]

PassBlock == /\ pc = "ocr"
             /\ at <= Len(blocks)
             /\ at \notin targets
             /\ at' = at + 1
             /\ UNCHANGED <<parsed, ocr, text, pc>>

\* What the service may recognise in a picture: lines of text.
Recognised == BoundedSeq(Token, 2) \ {<<>>}

\* The picture has text.
ReadBlock ==
  /\ pc = "ocr"
  /\ at \in targets
  /\ \E read \in Recognised :
       /\ Size + Len(read) <= MaxSize
       /\ blocks' = [blocks EXCEPT ![at] =
                       [Stripped(@) EXCEPT
                          !.text = [k \in 1..Len(read) |-> <<Word(read[k])>>],
                          !.source = "ocr"]]
       /\ answers' = [answers EXCEPT ![blocks[at].picture] = read]
  /\ tally' = [tally EXCEPT !.succeeded = @ + 1]
  /\ at' = at + 1
  /\ UNCHANGED <<kind, file, scanned, targets, method, text, pc>>

\* The service says that there is no text; or it fails, or returns none.
MissBlock ==
  /\ pc = "ocr"
  /\ at \in targets
  /\ blocks' = [blocks EXCEPT ![at] = Stripped(@)]
  /\ \/ tally' = [tally EXCEPT !.blank = @ + 1]
     \/ tally' = [tally EXCEPT !.failed = @ + 1]
  /\ at' = at + 1
  /\ UNCHANGED <<kind, file, scanned, targets, answers, method, text, pc>>

ParseMethod == CASE tally.succeeded = 0 -> "direct"
                 [] tally.succeeded > 0 /\ tally.failed = 0 /\ scanned -> "ocr"
                 [] OTHER -> "mixed"

EndOcr == /\ pc = "ocr"
          /\ at > Len(blocks)
          /\ method' = ParseMethod
          /\ pc' = "assemble"
          /\ at' = 1
          /\ UNCHANGED <<parsed, targets, answers, tally, text>>

-----------------------------------------------------------------------------
\* The assembler.

Placed(b) == b.type = "image" /\ b.slot # 0

\* What stands in a slot: the text of the block that has it, else nothing.
InSlot(n) ==
  LET holders == {b \in 1..Len(blocks) : blocks[b].slot = n}
  IN  IF holders = {} THEN <<>>
      ELSE blocks[Max(holders)].text

\* The words of a line of a block.
Plain(line) == [k \in 1..Len(line) |-> line[k].word]

\* More lines run on from the last one.
RunOn(ls, more) ==
  IF more = <<>> THEN ls
  ELSE IF ls = <<>> THEN more
  ELSE Front(ls) \o <<Last(ls) \o Head(more)>> \o Tail(more)

\* Parts of a line, each of any number of lines, run together.
Together(parts) ==
  LET upTo[n \in 0..Len(parts)] ==
        IF n = 0 THEN <<>> ELSE RunOn(upTo[n - 1], parts[n])
  IN  upTo[Len(parts)]

\* What stands where a piece does: its word, or the text in its slot.
Standing(piece) ==
  IF piece.slot = 0 THEN <<<<piece.word>>>>
  ELSE LET inside == InSlot(piece.slot)
       IN  [k \in 1..Len(inside) |-> Plain(inside[k])]

\* A line whose placeholders are replaced.
Resolved(line) == Together([k \in 1..Len(line) |-> Standing(line[k])])

BlockLines(b) == FlattenSeq([k \in 1..Len(b.text) |-> Resolved(b.text[k])])

AssembleBlock ==
  /\ pc = "assemble"
  /\ at <= Len(blocks)
  /\ LET b == blocks[at]
         content == IF b.type = "page_break" \/ Placed(b) THEN <<>> ELSE BlockLines(b)
     IN  assembled' = assembled \o [k \in 1..Len(content) |->
                                      [text |-> content[k], block |-> at - 1]]
  /\ at' = at + 1
  /\ UNCHANGED <<parsed, ocr, lines, splitter, pc>>

EndAssemble == /\ pc = "assemble"
               /\ at > Len(blocks)
               /\ pc' = "clean"
               /\ at' = 1
               /\ UNCHANGED <<parsed, ocr, text>>

Next == \/ ParseItem \/ EndParse
        \/ PassBlock \/ ReadBlock \/ MissBlock \/ EndOcr
        \/ AssembleBlock \/ EndAssemble
        \/ PrepareNext /\ UNCHANGED <<parsed, ocr>>

Spec == Init /\ [][Next]_vars

-----------------------------------------------------------------------------
Stages == {"parse", "ocr", "assemble", "clean", "split", "done"}

\* The document, the OCR result and the texts have their types; blocks are pictures
\* only until OCR is through with them.
TypeOK == /\ kind \in DOMAIN Items
          /\ \A i \in 1..Len(file) : file[i] \in Items[kind]
          /\ \A b \in 1..Len(blocks) :
               /\ blocks[b].type \in {"text", "table", "image", "page_break"}
               /\ blocks[b].picture \in Pictures \cup {NoPicture}
               /\ blocks[b].source = "ocr" => /\ blocks[b].picture = NoPicture
                                              /\ blocks[b].text # <<>>
          /\ scanned \in BOOLEAN
          /\ targets \subseteq 1..Len(blocks)
          /\ answers \in [Pictures -> BoundedSeq(Token, 2)]
          /\ \A c \in DOMAIN tally : tally[c] \in 0..Len(blocks)
          /\ method \in {"direct", "ocr", "mixed"}
          /\ pc \in Stages
          /\ PrepareTypeOK

\* The text of an item, with what OCR has read in the place of its pictures.
Lines(words) == [k \in 1..Len(words) |-> <<words[k]>>]
Reading(i) ==
  LET item == file[i]
  IN  CASE item.type = "page" ->
             IF item.text = <<>> THEN Lines(answers[<<i, 0>>])
             ELSE Lines(item.text \o answers[<<i, 1>>])
        [] item.type = "image" -> Lines(answers[<<i, 1>>])
        [] item.type = "table" -> Lines(item.rows)
        [] item.type = "paragraph" ->
             Together([k \in 1..Len(item.pieces) |->
                         CASE item.pieces[k] \in Token -> <<<<item.pieces[k]>>>>
                           [] item.pieces[k] = "picture" -> Lines(answers[<<i, k>>])
                           [] OTHER -> <<>>])

\* The assembled text reads like the file: page by page, paragraph by paragraph, and
\* in it what OCR read in each picture where that picture stands and nowhere else,
\* although pictures are separate blocks and their placeholders only numbers.
TextInPlace ==
  pc \in {"clean", "split", "done"} =>
    Texts(assembled) = FlattenSeq([i \in 1..Len(file) |-> Reading(i)])

\* What the result says of OCR is what happened: every block to be read was read,
\* had no text or failed; text is called direct iff OCR added nothing, and is called
\* recognised only if nothing failed; and in a scanned PDF no page without text was
\* passed over.
OcrTold ==
  pc \in {"assemble", "clean", "split", "done"} =>
    LET asked == tally.succeeded + tally.failed + tally.blank
        pages == {i \in 1..Len(file) : kind = "pdf" /\ file[i].text = <<>>}
    IN  /\ asked = Cardinality(targets)
        /\ method = "direct" <=> \A p \in Pictures : answers[p] = <<>>
        /\ method = "ocr" => scanned /\ tally.failed = 0
        /\ kind = "pdf" /\ scanned /\ pages # {} => asked = Cardinality(pages)
=============================================================================
