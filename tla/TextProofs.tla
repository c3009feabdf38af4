------------------------------- MODULE TextProofs -------------------------------
(***************************************************************************)
(* Proofs about DocumentText and SectionSplitting, for files of any number   *)
(* of items and any texts in them: the assembled text reads like the file,   *)
(* the sections cover the cleaned text and open at its headings, their paths *)
(* nest, and what is said of OCR is what happened.                           *)
(***************************************************************************)
EXTENDS DocumentText, DataLemmas

-----------------------------------------------------------------------------
\* The blocks.

\* A piece stands for itself unless it has a slot.
Piece == {p \in [word : Token \cup {"picture"}, slot : Nat] : p.slot = 0 => p.word \in Token}
Plaintext == {p \in Piece : p.slot = 0}
TextOf(P) == Seq(Seq(P) \ {<<>>})

BlockTypes == {"text", "table", "image", "page_break"}

\* Only the text of paragraphs has placeholders, and only pictures have slots.
GoodBlock ==
  {b \in [type : BlockTypes, text : TextOf(Piece), slot : Nat,
          picture : Pictures \cup {NoPicture}, render : BOOLEAN,
          source : {"direct", "ocr"}] :
     /\ b.type # "text" => b.text \in TextOf(Plaintext)
     /\ b.slot # 0 => b.type = "image"
     /\ b.render => b.picture \in Pictures
     /\ b.source = "ocr" => b.picture = NoPicture /\ b.text # <<>>}

LEMMA BoundedIsSeq ==
  ASSUME NEW S, NEW n \in Nat, NEW s \in BoundedSeq(S, n)
  PROVE  s \in Seq(S) /\ Len(s) \in 0..n /\ \A i \in 1..Len(s) : s[i] \in S
<1>1. PICK m \in 0..n : s \in [1..m -> S]
  BY DEF BoundedSeq, SeqOf
<1> QED
  BY <1>1

LEMMA PlainIsPiece == TextOf(Plaintext) \subseteq TextOf(Piece)
<1>1. Seq(Plaintext) \subseteq Seq(Piece)
  BY DEF Plaintext
<1> QED
  BY <1>1 DEF TextOf

\* Lines of a word each.
LEMMA WordsArePlain ==
  ASSUME NEW s \in Seq(Token)
  PROVE  [k \in 1..Len(s) |-> <<Word(s[k])>>] \in TextOf(Plaintext)
<1>1. \A t \in Token : Word(t) \in Plaintext
  BY DEF Word, Plaintext, Piece
<1>2. \A k \in 1..Len(s) : <<Word(s[k])>> \in Seq(Plaintext) \ {<<>>}
  BY <1>1
<1>3. Len(s) \in Nat
  OBVIOUS
<1> QED
  BY <1>2, <1>3, IsASeq DEF TextOf

LEMMA NewBlocks ==
  /\ \A n \in Nat, p \in Pictures \cup {NoPicture} :
       Block("image", <<>>, n, p, FALSE) \in GoodBlock
  /\ \A p \in Pictures : Block("image", <<>>, 0, p, TRUE) \in GoodBlock
  /\ \A t \in TextOf(Piece) : Block("text", t, 0, NoPicture, FALSE) \in GoodBlock
  /\ \A t \in TextOf(Plaintext) : Block("table", t, 0, NoPicture, FALSE) \in GoodBlock
  /\ Block("page_break", <<>>, 0, NoPicture, FALSE) \in GoodBlock
<1>1. <<>> \in TextOf(Plaintext) /\ <<>> \in TextOf(Piece)
  BY DEF TextOf
<1>2. NoPicture \in Pictures \cup {NoPicture} /\ FALSE \in BOOLEAN
  OBVIOUS
<1> HIDE DEF Pictures, NoPicture, TextOf
<1>3. /\ \A n \in Nat, p \in Pictures \cup {NoPicture} :
           Block("image", <<>>, n, p, FALSE) \in GoodBlock
      /\ \A p \in Pictures : Block("image", <<>>, 0, p, TRUE) \in GoodBlock
  BY <1>1 DEF Block, GoodBlock, BlockTypes
<1>4. \A t \in TextOf(Piece) : Block("text", t, 0, NoPicture, FALSE) \in GoodBlock
  BY <1>1, <1>2 DEF Block, GoodBlock, BlockTypes
<1>5. \A t \in TextOf(Plaintext) : Block("table", t, 0, NoPicture, FALSE) \in GoodBlock
  BY <1>1, <1>2, PlainIsPiece DEF Block, GoodBlock, BlockTypes
<1>6. Block("page_break", <<>>, 0, NoPicture, FALSE) \in GoodBlock
  BY <1>1, <1>2 DEF Block, GoodBlock, BlockTypes
<1> QED
  BY <1>3, <1>4, <1>5, <1>6

\* The pictures of a paragraph in their order.
LEMMA AscendingIsList ==
  ASSUME NEW n \in Nat, NEW S \in SUBSET (1..n)
  PROVE  /\ Cardinality(S) \in Nat
         /\ Ascending(S) \in [1..Cardinality(S) -> S]
<1> DEFINE R == {p \in S \X S : p[1] < p[2]}
<1>1. IsFiniteSet(S) /\ Cardinality(S) \in Nat
  BY PartOfInterval
<1>2. \A x, y \in S : <<x, y>> \in R <=> x < y
  OBVIOUS
<1>3. TotalOrder(R, S)
  BY <1>2 DEF TotalOrder
<1>4. PICK s : Listing(s, R, S)
  BY <1>1, <1>3, Listed
<1>5. /\ s \in [1..Cardinality(S) -> S]
      /\ \A i, j \in 1..Cardinality(S) : i < j => s[i] < s[j]
  BY <1>1, <1>2, <1>4 DEF Listing
<1> QED
  BY <1>1, <1>5, Zenon DEF Ascending

LEMMA PictureNumbered ==
  ASSUME NEW pieces \in Seq(Token \cup {"picture", "missing"}), blocks \in Seq(GoodBlock)
  PROVE  /\ \A k \in 1..Len(pieces) : Slot(pieces, k) \in Nat
         /\ \A k \in 1..Len(pieces) : pieces[k] \notin Token => Slot(pieces, k) # 0
<1> SUFFICES ASSUME NEW k \in 1..Len(pieces)
             PROVE  /\ Slot(pieces, k) \in Nat
                    /\ pieces[k] \notin Token => Slot(pieces, k) # 0
  OBVIOUS
<1> DEFINE S == PicturesIn(pieces, k)
<1>1. IsFiniteSet(S) /\ Cardinality(S) \in Nat /\ Len(blocks) \in Nat
  <2>1. k \in Nat /\ S \in SUBSET (1..k)
    BY DEF PicturesIn
  <2> HIDE DEF S
  <2> QED
    BY <2>1, PartOfInterval
<1>2. ASSUME pieces[k] \notin Token
      PROVE  Cardinality(S) # 0
  <2>1. k \in S
    BY <1>2 DEF PicturesIn
  <2> QED
    BY <1>1, <2>1, FS_EmptySet
<1> HIDE DEF S
<1>3. Slot(pieces, k) = Len(blocks) + Cardinality(S)
  BY DEF Slot, S
<1> QED
  BY <1>1, <1>2, <1>3

\* An item that is one of its kind's is turned into such blocks.
LEMMA PageIsGood ==
  ASSUME NEW item \in Page, NEW i \in 1..MaxItems
  PROVE  PageBlocks(item, i) \in Seq(GoodBlock)
<1>1. item.text \in Seq(Token)
  BY BoundedIsSeq DEF Page
<1>2. [k \in 1..Len(item.text) |-> <<Word(item.text[k])>>] \in TextOf(Piece)
  BY <1>1, WordsArePlain, PlainIsPiece
<1>3. <<i, 0>> \in Pictures /\ <<i, 1>> \in Pictures
  BY DEF Pictures
<1>4. /\ Block("image", <<>>, 0, <<i, 0>>, TRUE) \in GoodBlock
      /\ Block("image", <<>>, 0, <<i, 1>>, FALSE) \in GoodBlock
      /\ Block("text", [k \in 1..Len(item.text) |-> <<Word(item.text[k])>>],
               0, NoPicture, FALSE) \in GoodBlock
      /\ Block("page_break", <<>>, 0, NoPicture, FALSE) \in GoodBlock
  BY <1>2, <1>3, NewBlocks
<1> DEFINE words == <<Block("text", [k \in 1..Len(item.text) |-> <<Word(item.text[k])>>],
                        0, NoPicture, FALSE)>>
           whole == <<Block("image", <<>>, 0, <<i, 0>>, TRUE)>>
           picture == IF item.picture THEN <<Block("image", <<>>, 0, <<i, 1>>, FALSE)>>
                      ELSE <<>>
           end == <<Block("page_break", <<>>, 0, NoPicture, FALSE)>>
           before == IF item.text = <<>> THEN whole ELSE words \o picture
<1>5. /\ words \in Seq(GoodBlock) /\ whole \in Seq(GoodBlock)
      /\ picture \in Seq(GoodBlock) /\ end \in Seq(GoodBlock)
  BY <1>4, SingleInSeq, EmptyInSeq
<1>6. PageBlocks(item, i) = before \o end
  BY DEF PageBlocks
<1> HIDE DEF words, whole, picture, end, GoodBlock
<1>7. before \in Seq(GoodBlock)
  BY <1>5, ConcatProperties
<1> QED
  BY <1>5, <1>6, <1>7, ConcatProperties

LEMMA ParagraphIsGood ==
  ASSUME NEW item \in Paragraph, NEW i \in 1..MaxItems, blocks \in Seq(GoodBlock)
  PROVE  ParagraphBlocks(item.pieces, i) \in Seq(GoodBlock)
<1> DEFINE pieces == item.pieces
           S == PicturesIn(pieces, Len(pieces))
           pictures == Ascending(S)
           line == [k \in 1..Len(pieces) |-> IF pieces[k] \in Token THEN Word(pieces[k])
                                             ELSE Placeholder(Slot(pieces, k))]
           image == [n \in 1..Len(pictures) |->
                       Block("image", <<>>, Slot(pieces, pictures[n]),
                             IF pieces[pictures[n]] = "picture" THEN <<i, pictures[n]>>
                             ELSE NoPicture, FALSE)]
<1>1. /\ pieces \in Seq(Token \cup {"picture", "missing"}) /\ Len(pieces) \in 0..3
      /\ \A k \in 1..Len(pieces) : pieces[k] \in Token \cup {"picture", "missing"}
  <2>1. pieces \in BoundedSeq(Token \cup {"picture", "missing"}, 3)
    BY DEF Paragraph
  <2> QED
    BY <2>1, BoundedIsSeq
<1>2. /\ \A k \in 1..Len(pieces) : Slot(pieces, k) \in Nat
      /\ \A k \in 1..Len(pieces) : pieces[k] \notin Token => Slot(pieces, k) # 0
  BY <1>1, PictureNumbered
<1>3. S \in SUBSET (1..Len(pieces))
  BY DEF PicturesIn
<1>4. Cardinality(S) \in Nat /\ pictures \in [1..Cardinality(S) -> S]
  <2>1. Len(pieces) \in Nat
    BY <1>1
  <2> HIDE DEF S, pieces
  <2> QED
    BY <1>3, <2>1, AscendingIsList
<1> HIDE DEF pieces, S, pictures
<1>5. \A n \in 1..Len(pictures) : pictures[n] \in 1..Len(pieces)
  <2>1. Len(pictures) = Cardinality(S)
    BY <1>4
  <2> QED
    BY <1>3, <1>4, <2>1
<1>6. ASSUME pieces # <<>>
      PROVE  <<line>> \in TextOf(Piece)
  <2>1. ASSUME NEW k \in 1..Len(pieces)
        PROVE  line[k] \in Piece
    BY <1>1, <1>2, <2>1 DEF Word, Placeholder, Piece
  <2>2. line \in Seq(Piece)
    BY <1>1, <2>1, IsASeq
  <2>3. Len(line) = Len(pieces) /\ Len(pieces) # 0
    BY <1>1, <1>6
  <2> HIDE DEF line
  <2>4. line # <<>>
    BY <2>3
  <2> QED
    BY <2>2, <2>4 DEF TextOf
<1>7. image \in Seq(GoodBlock)
  <2>1. ASSUME NEW n \in 1..Len(pictures)
        PROVE  image[n] \in GoodBlock
    <3>1. <<i, pictures[n]>> \in Pictures
      BY <1>1, <1>5 DEF Pictures
    <3>2. Slot(pieces, pictures[n]) \in Nat
      BY <1>2, <1>5
    <3> HIDE DEF Block, GoodBlock, Pictures, NoPicture
    <3> QED
      BY <3>1, <3>2, NewBlocks
  <2>2. Len(pictures) \in Nat
    BY <1>4
  <2> DEFINE last == Len(pictures)
             block(n) == Block("image", <<>>, Slot(pieces, pictures[n]),
                               IF pieces[pictures[n]] = "picture" THEN <<i, pictures[n]>>
                               ELSE NoPicture, FALSE)
  <2>3. last \in Nat /\ \A n \in 1..last : block(n) \in GoodBlock
    BY <2>1, <2>2
  <2>4. image = [n \in 1..last |-> block(n)]
    OBVIOUS
  <2> HIDE DEF last, block, image, GoodBlock
  <2>5. [n \in 1..last |-> block(n)] \in Seq(GoodBlock)
    BY <2>3, IsASeq
  <2> QED
    BY <2>4, <2>5
<1>8. pieces # <<>> => Block("text", <<line>>, 0, NoPicture, FALSE) \in GoodBlock
  BY <1>6, NewBlocks
<1>9. ParagraphBlocks(pieces, i) =
        IF pieces = <<>> THEN <<>>
        ELSE <<Block("text", <<line>>, 0, NoPicture, FALSE)>> \o image
  BY DEF ParagraphBlocks, S, pictures
<1> HIDE DEF line, image, Block, GoodBlock
<1>10. ParagraphBlocks(pieces, i) \in Seq(GoodBlock)
  <2> DEFINE first == <<Block("text", <<line>>, 0, NoPicture, FALSE)>>
  <2>1. pieces # <<>> => first \in Seq(GoodBlock)
    BY <1>8, SingleInSeq
  <2> HIDE DEF first
  <2>2. pieces # <<>> => first \o image \in Seq(GoodBlock)
    BY <1>7, <2>1, ConcatProperties
  <2> QED
    BY <1>9, <2>2, EmptyInSeq DEF first
<1> QED
  BY <1>10 DEF pieces

LEMMA ItemIsGood ==
  ASSUME NEW k \in {"pdf", "docx", "image"}, NEW item \in Items[k], NEW i \in 1..MaxItems,
         blocks \in Seq(GoodBlock)
  PROVE  ItemBlocks(item, i) \in Seq(GoodBlock)
<1>1. item \in Page \/ item \in Paragraph \/ item \in Table \/ item \in Image
  BY DEF Items
<1>2. CASE item \in Page
  <2>1. item.type = "page"
    BY <1>2 DEF Page
  <2> QED
    BY <1>2, <2>1, PageIsGood DEF ItemBlocks
<1>3. CASE item \in Paragraph
  <2>1. item.type = "paragraph"
    BY <1>3 DEF Paragraph
  <2> QED
    BY <1>3, <2>1, ParagraphIsGood DEF ItemBlocks
<1>4. CASE item \in Table
  <2>1. item.type = "table" /\ item.rows \in Seq(Token)
    BY <1>4, BoundedIsSeq DEF Table
  <2>2. TableBlocks(item.rows) \in Seq(GoodBlock)
    <3>1. [j \in 1..Len(item.rows) |-> <<Word(item.rows[j])>>] \in TextOf(Plaintext)
      BY <2>1, WordsArePlain
    <3>2. Block("table", [j \in 1..Len(item.rows) |-> <<Word(item.rows[j])>>],
                0, NoPicture, FALSE) \in GoodBlock
      BY <3>1, NewBlocks
    <3> QED
      BY <3>2, SingleInSeq DEF TableBlocks
  <2> QED
    BY <2>1, <2>2 DEF ItemBlocks
<1>5. CASE item \in Image
  <2>1. item.type = "image"
    BY <1>5 DEF Image
  <2>2. Block("image", <<>>, 0, <<i, 1>>, FALSE) \in GoodBlock
    <3>1. <<i, 1>> \in Pictures
      BY DEF Pictures
    <3> HIDE DEF Pictures, NoPicture
    <3> QED
      BY <3>1, NewBlocks
  <2> QED
    BY <2>1, <2>2, SingleInSeq DEF ItemBlocks
<1> QED
  BY <1>1, <1>2, <1>3, <1>4, <1>5

-----------------------------------------------------------------------------
\* The assembler.

TextLines == TextOf(Token)

LEMMA PlainWords ==
  ASSUME NEW t \in TextOf(Plaintext)
  PROVE  [k \in 1..Len(t) |-> Plain(t[k])] \in TextLines
<1>1. ASSUME NEW k \in 1..Len(t)
      PROVE  Plain(t[k]) \in Seq(Token) \ {<<>>}
  <2>1. t[k] \in Seq(Plaintext) /\ t[k] # <<>>
    BY DEF TextOf
  <2>2. PICK line \in Seq(Plaintext) : line = t[k] /\ line # <<>>
    BY <2>1
  <2>3. /\ Len(line) \in Nat /\ Len(line) # 0
        /\ \A j \in 1..Len(line) : line[j].word \in Token
    BY <2>2 DEF Plaintext, Piece
  <2>4. [j \in 1..Len(line) |-> line[j].word] \in Seq(Token)
    BY <2>3, IsASeq
  <2>5. Len([j \in 1..Len(line) |-> line[j].word]) # 0
    BY <2>3
  <2>6. Plain(line) \in Seq(Token) /\ Len(Plain(line)) # 0
    BY <2>4, <2>5 DEF Plain
  <2>7. Plain(line) # <<>>
    BY <2>6
  <2> QED
    BY <2>2, <2>6, <2>7
<1>2. Len(t) \in Nat
  BY DEF TextOf
<1> DEFINE n == Len(t)
           e(k) == Plain(t[k])
<1>3. n \in Nat /\ \A k \in 1..n : e(k) \in Seq(Token) \ {<<>>}
  BY <1>1, <1>2
<1>4. [k \in 1..Len(t) |-> Plain(t[k])] = [k \in 1..n |-> e(k)]
  OBVIOUS
<1> HIDE DEF n, e
<1>5. [k \in 1..n |-> e(k)] \in Seq(Seq(Token) \ {<<>>})
  BY <1>3, IsASeq
<1> QED
  BY <1>4, <1>5 DEF TextLines, TextOf

LEMMA SlotHasText ==
  ASSUME NEW n \in Nat, n # 0, blocks \in Seq(GoodBlock)
  PROVE  InSlot(n) \in TextOf(Plaintext)
<1> DEFINE holders == {b \in 1..Len(blocks) : blocks[b].slot = n}
<1>1. CASE holders = {}
  BY <1>1 DEF InSlot, TextOf
<1>2. CASE holders # {}
  <2>1. holders \in SUBSET Nat /\ Len(blocks) \in Nat /\ \A b \in holders : b <= Len(blocks)
    OBVIOUS
  <2>2. PICK b \in holders : \A c \in holders : c <= b
    <3> HIDE DEF holders
    <3> QED
      BY <1>2, <2>1, Largest
  <2>3. Max(holders) = b
    <3> HIDE DEF holders
    <3> QED
      BY <2>1, <2>2, MaxIs
  <2>4. InSlot(n) = blocks[b].text
    BY <1>2, <2>3 DEF InSlot
  <2>5. blocks[b] \in GoodBlock /\ blocks[b].slot = n
    BY <2>3
  <2>6. blocks[b].type = "image"
    BY <2>5 DEF GoodBlock
  <2>7. blocks[b].type # "text"
    BY <2>6
  <2>8. blocks[b].text \in TextOf(Plaintext)
    BY <2>5, <2>7 DEF GoodBlock
  <2> QED
    BY <2>4, <2>8
<1> QED
  BY <1>1, <1>2

LEMMA StandingIsLines ==
  ASSUME NEW p \in Piece, blocks \in Seq(GoodBlock)
  PROVE  Standing(p) \in TextLines
<1>1. CASE p.slot = 0
  <2>1. p.word \in Token
    BY <1>1 DEF Piece
  <2>2. <<p.word>> \in Seq(Token) \ {<<>>}
    BY <2>1
  <2> QED
    BY <1>1, <2>2, SingleInSeq DEF Standing, TextLines, TextOf
<1>2. CASE p.slot # 0
  <2>1. p.slot \in Nat
    BY DEF Piece
  <2>2. InSlot(p.slot) \in TextOf(Plaintext)
    BY <1>2, <2>1, SlotHasText
  <2> QED
    BY <1>2, <2>2, PlainWords DEF Standing
<1> QED
  BY <1>1, <1>2

LEMMA RunOnIsLines ==
  ASSUME NEW ls \in TextLines, NEW more \in TextLines
  PROVE  RunOn(ls, more) \in TextLines
<1> DEFINE E == Seq(Token) \ {<<>>}
<1>1. ls \in Seq(E) /\ more \in Seq(E) /\ E \subseteq Seq(Token) /\ <<>> \notin E
  BY DEF TextLines, TextOf
<1>2. CASE more = <<>> \/ ls = <<>>
  BY <1>2 DEF RunOn
<1>3. CASE more # <<>> /\ ls # <<>>
  <2>1. Len(ls) \in Nat \ {0} /\ ls[Len(ls)] \in E
    BY <1>1, <1>3
  <2>2. Front(ls) \in Seq(E)
    BY <1>1, <2>1 DEF Front
  <2>3. Head(more) \in E /\ Tail(more) \in Seq(E)
    <3> HIDE DEF E
    <3> QED
      BY <1>1, <1>3, HeadTailProperties
  <2>4. Last(ls) \o Head(more) \in E
    <3>1. Last(ls) \in E
      BY <2>1 DEF Last
    <3>2. Last(ls) \in Seq(Token) /\ Head(more) \in Seq(Token) /\ Last(ls) # <<>>
      BY <2>3, <3>1
    <3>3. Last(ls) \o Head(more) \in Seq(Token) /\ Last(ls) \o Head(more) # <<>>
      BY <3>2, ConcatProperties, ConcatEqualIffEmpty
    <3> QED
      BY <3>3
  <2> DEFINE joined == Last(ls) \o Head(more)
             front == Front(ls)
             tail == Tail(more)
  <2>5. <<joined>> \in Seq(E)
    BY <2>4, SingleInSeq
  <2>6. RunOn(ls, more) = front \o <<joined>> \o tail
    BY <1>3 DEF RunOn
  <2> HIDE DEF joined, front, tail, E
  <2>7. front \o <<joined>> \in Seq(E)
    BY <2>2, <2>5, ConcatProperties DEF front
  <2>8. front \o <<joined>> \o tail \in Seq(E)
    BY <2>3, <2>7, ConcatProperties DEF tail
  <2> QED
    BY <2>6, <2>8 DEF E, TextLines, TextOf
<1> QED
  BY <1>2, <1>3

\* What running together computes.
LEMMA TogetherIs ==
  ASSUME NEW parts \in Seq(TextLines)
  PROVE  /\ Together(parts) \in TextLines
         /\ \E f \in [0..Len(parts) -> TextLines] :
              /\ f[0] = <<>>
              /\ \A n \in 1..Len(parts) : f[n] = RunOn(f[n - 1], parts[n])
              /\ Together(parts) = f[Len(parts)]
<1> DEFINE N == Len(parts)
           step == [n \in 1..N |-> [ls \in TextLines |-> RunOn(ls, parts[n])]]
           Def(f, n) == IF n = 0 THEN <<>> ELSE RunOn(f[n - 1], parts[n])
           f == CHOOSE f : f = [n \in 0..N |-> Def(f, n)]
<1>1. N \in Nat /\ \A n \in 1..N : parts[n] \in TextLines
  BY LenProperties, ElementOfSeq
<1>2. <<>> \in TextLines
  BY DEF TextLines, TextOf
<1>3. step \in [1..N -> [TextLines -> TextLines]]
  BY <1>1, RunOnIsLines
<1>4. Together(parts) = f[N]
  BY DEF Together
<1> HIDE DEF N
<1>5. PICK g \in [0..N -> TextLines] :
        g[0] = <<>> /\ \A n \in 1..N : g[n] = step[n][g[n - 1]]
  <2> HIDE DEF step, TextLines
  <2>1. \E h \in [0..N -> TextLines] : Repeats(h, <<>>, step, N)
    BY <1>1, <1>2, <1>3, Recursion, Zenon
  <2> QED
    BY <2>1 DEF Repeats
<1>6. g = [n \in 0..N |-> Def(g, n)]
  <2>1. ASSUME NEW n \in 0..N PROVE g[n] = Def(g, n)
    <3>1. CASE n = 0
      BY <1>5, <3>1
    <3>2. CASE n # 0
      <4>1. n \in 1..N /\ n - 1 \in 0..N
        BY <1>1, <3>2
      <4>2. g[n - 1] \in TextLines
        BY <4>1
      <4> QED
        BY <1>5, <3>2, <4>1, <4>2
    <3> QED
      BY <3>1, <3>2
  <2> HIDE DEF Def
  <2> QED
    BY <2>1
<1>7. f = [n \in 0..N |-> Def(f, n)]
  BY <1>6
<1> HIDE DEF f
<1>8. \A n \in Nat : n \in {m \in Nat : m \in 0..N => f[m] = g[m]}
  <2> DEFINE Good == {m \in Nat : m \in 0..N => f[m] = g[m]}
  <2>1. 0 \in Good
    BY <1>1, <1>5, <1>7
  <2>2. ASSUME NEW n \in Nat, n \in Good
        PROVE  n + 1 \in Good
    <3> SUFFICES ASSUME n + 1 \in 0..N PROVE f[n + 1] = g[n + 1]
      OBVIOUS
    <3>1. n \in 0..N /\ f[n] = g[n] /\ n + 1 # 0 /\ n + 1 - 1 = n
      BY <1>1, <2>2
    <3>2. f[n + 1] = Def(f, n + 1) /\ g[n + 1] = Def(g, n + 1)
      <4> HIDE DEF Def
      <4> QED
        BY <1>6, <1>7
    <3> QED
      BY <3>1, <3>2
  <2> HIDE DEF Good
  <2>3. \A n \in Nat : n \in Good
    BY <2>1, <2>2, SetInduction
  <2> QED
    BY <2>3 DEF Good
<1>9. f[N] = g[N]
  BY <1>1, <1>8
<1>10. \A n \in 1..N : g[n] = RunOn(g[n - 1], parts[n])
  <2> SUFFICES ASSUME NEW n \in 1..N PROVE g[n] = RunOn(g[n - 1], parts[n])
    OBVIOUS
  <2>1. n - 1 \in 0..N
    BY <1>1
  <2>2. g[n - 1] \in TextLines
    BY <2>1
  <2> QED
    BY <1>5, <2>2
<1>11. g[N] \in TextLines /\ Together(parts) = g[N]
  BY <1>1, <1>4, <1>9
<1> QED
  BY <1>5, <1>10, <1>11 DEF N

LEMMA ResolvedIsLines ==
  ASSUME NEW line \in Seq(Piece), blocks \in Seq(GoodBlock)
  PROVE  Resolved(line) \in TextLines
<1> DEFINE n == Len(line)
           e(k) == Standing(line[k])
<1>1. n \in Nat /\ \A k \in 1..n : e(k) \in TextLines
  BY StandingIsLines
<1>2. Resolved(line) = Together([k \in 1..n |-> e(k)])
  BY DEF Resolved
<1> HIDE DEF n, e
<1>3. [k \in 1..n |-> e(k)] \in Seq(TextLines)
  BY <1>1, IsASeq
<1> QED
  BY <1>2, <1>3, TogetherIs

LEMMA BlockIsLines ==
  ASSUME NEW b \in GoodBlock, blocks \in Seq(GoodBlock)
  PROVE  BlockLines(b) \in TextLines
<1> DEFINE E == Seq(Token) \ {<<>>}
           ss == [k \in 1..Len(b.text) |-> Resolved(b.text[k])]
<1>1. b.text \in TextOf(Piece)
  BY DEF GoodBlock
<1>2. Len(b.text) \in Nat /\ \A k \in 1..Len(b.text) : b.text[k] \in Seq(Piece)
  BY <1>1 DEF TextOf
<1>3. \A k \in 1..Len(b.text) : Resolved(b.text[k]) \in Seq(E)
  BY <1>2, ResolvedIsLines DEF TextLines, TextOf
<1>4. ss \in Seq(Seq(E))
  <2> DEFINE n == Len(b.text)
             e(k) == Resolved(b.text[k])
  <2>1. n \in Nat /\ \A k \in 1..n : e(k) \in Seq(E)
    BY <1>2, <1>3
  <2>2. ss = [k \in 1..n |-> e(k)]
    OBVIOUS
  <2> HIDE DEF n, e, ss, E
  <2>3. [k \in 1..n |-> e(k)] \in Seq(Seq(E))
    BY <2>1, IsASeq
  <2> QED
    BY <2>2, <2>3
<1>5. BlockLines(b) = FlattenSeq(ss)
  BY DEF BlockLines
<1> HIDE DEF ss, E
<1>6. FlattenSeq(ss) \in Seq(E)
  BY <1>4, FlattenInSeq
<1> QED
  BY <1>5, <1>6 DEF E, TextLines, TextOf

-----------------------------------------------------------------------------
\* The document and what is said of OCR.

Sum == tally.succeeded + tally.failed + tally.blank

\* The pages without text.
Textless == {i \in 1..Len(file) : file[i].text = <<>>}

\* The blocks to be read that the loop has passed.
Behind == {b \in targets : b < at}

DocTypes == /\ kind \in {"pdf", "docx", "image"}
            /\ file \in Seq(Items[kind])
            /\ Len(file) <= MaxItems
            /\ blocks \in Seq(GoodBlock)
            /\ scanned \in BOOLEAN
            /\ targets \subseteq 1..Len(blocks)
            /\ \A b \in targets : blocks[b].type = "image"
            /\ answers \in [Pictures -> BoundedSeq(Token, 2)]
            /\ tally \in [succeeded : Nat, failed : Nat, blank : Nat]
            /\ method \in {"direct", "ocr", "mixed"}
            /\ at \in Nat \ {0}
            /\ pc \in Stages

Unread == \A p \in Pictures : answers[p] = <<>>

\* Before OCR nothing is read; in it the counters add up to the blocks passed, and the
\* others still have their pictures; after it they add up to all.
Counted ==
  /\ pc = "parse" => targets = {} /\ Unread /\ Sum = 0 /\ at = 1
  /\ pc \in {"parse", "ocr"} => method = "direct"
  /\ pc = "ocr" => /\ Sum = Cardinality(Behind)
                   /\ \A b \in targets : b >= at => blocks[b].picture \in Pictures
  /\ tally.succeeded = 0 <=> Unread
  /\ pc \notin {"parse", "ocr"} => Sum = Cardinality(targets) /\ method = ParseMethod

\* A block stands for each page without text, and in a scanned PDF it is to be read.
PagesToRead ==
  kind = "pdf" => /\ pc = "parse" => Cardinality(Rendered) = Cardinality(Textless)
                  /\ pc # "parse" /\ scanned /\ Textless # {} =>
                       Cardinality(targets) = Cardinality(Textless)

DocInv == DocTypes /\ Counted /\ PagesToRead

LEMMA FewBlocks ==
  ASSUME DocTypes
  PROVE  /\ IsFiniteSet(targets) /\ Cardinality(targets) \in 0..Len(blocks)
         /\ IsFiniteSet(Behind) /\ Cardinality(Behind) \in 0..Len(blocks)
         /\ Len(blocks) \in Nat
<1>1. Len(blocks) \in Nat /\ targets \in SUBSET (1..Len(blocks))
      /\ Behind \in SUBSET (1..Len(blocks))
  <2>1. blocks \in Seq(GoodBlock) /\ targets \subseteq 1..Len(blocks)
    BY DEF DocTypes
  <2>2. Len(blocks) \in Nat
    BY <2>1, LenProperties
  <2> QED
    BY <2>1, <2>2 DEF Behind
<1>2. IsFiniteSet(targets) /\ Cardinality(targets) \in 0..Len(blocks)
  BY <1>1, PartOfInterval
<1>3. IsFiniteSet(Behind) /\ Cardinality(Behind) \in 0..Len(blocks)
  BY <1>1, PartOfInterval
<1> QED
  BY <1>1, <1>2, <1>3

LEMMA DocInit == Init => DocInv
<1> SUFFICES ASSUME Init PROVE DocInv
  OBVIOUS
<1>1. <<>> \in BoundedSeq(Token, 2)
  <2>1. 0 \in 0..2 /\ <<>> \in [1..0 -> Token]
    OBVIOUS
  <2> QED
    BY <2>1 DEF BoundedSeq, SeqOf
<1>2. DocTypes
  <2>1. blocks \in Seq(GoodBlock) /\ file \in Seq(Items[kind]) /\ Len(file) <= MaxItems
    BY BoundsAssumption, EmptyInSeq DEF Init
  <2>2. answers \in [Pictures -> BoundedSeq(Token, 2)]
    BY <1>1 DEF Init
  <2>3. tally \in [succeeded : Nat, failed : Nat, blank : Nat]
    BY DEF Init
  <2>4. /\ kind \in {"pdf", "docx", "image"} /\ scanned \in BOOLEAN
        /\ targets = {} /\ method = "direct" /\ at = 1 /\ pc \in Stages
    BY DEF Init, Stages
  <2> QED
    BY <2>1, <2>2, <2>3, <2>4 DEF DocTypes
<1>3. Unread /\ Sum = 0
  BY DEF Init, Unread, Sum
<1>4. Rendered = {} /\ Textless = {}
  BY DEF Init, Rendered, Textless
<1> QED
  BY <1>2, <1>3, <1>4 DEF Init, DocInv, Counted, PagesToRead

\* A page's first block is its picture if it has no text, and no other block stands for it.
LEMMA PageRendered ==
  ASSUME NEW item \in Page, NEW i \in 1..MaxItems
  PROVE  LET new == PageBlocks(item, i)
         IN  /\ Len(new) \in Nat /\ Len(new) >= 1
             /\ \A b \in 1..Len(new) :
                  new[b].type = "image" /\ new[b].render <=> b = 1 /\ item.text = <<>>
<1>1. CASE item.text = <<>>
  BY <1>1 DEF PageBlocks, Block
<1>2. CASE item.text # <<>> /\ item.picture
  BY <1>2 DEF PageBlocks, Block
<1>3. CASE item.text # <<>> /\ ~item.picture
  BY <1>3 DEF PageBlocks, Block
<1> QED
  BY <1>1, <1>2, <1>3

LEMMA PagesKept ==
  ASSUME DocInv, pc = "parse", kind = "pdf", NEW item \in Page, Len(file) < MaxItems,
         file' = Append(file, item), blocks' = blocks \o PageBlocks(item, Len(file) + 1)
  PROVE  Cardinality(Rendered') = Cardinality(Textless')
<1> DEFINE n == Len(blocks)
           m == Len(file)
           new == PageBlocks(item, m + 1)
<1>1. /\ n \in Nat /\ m \in Nat /\ m + 1 \in 1..MaxItems
      /\ blocks \in Seq(GoodBlock) /\ file \in Seq(Page)
      /\ Cardinality(Rendered) = Cardinality(Textless)
  <2>1. Items[kind] = Page
    BY DEF Items
  <2>2. /\ blocks \in Seq(GoodBlock) /\ file \in Seq(Items[kind])
        /\ Cardinality(Rendered) = Cardinality(Textless)
    BY DEF DocInv, DocTypes, PagesToRead
  <2>3. n \in Nat /\ m \in Nat
    BY <2>2, LenProperties
  <2> QED
    BY <2>1, <2>2, <2>3, BoundsAssumption
<1>2. /\ Len(new) \in Nat /\ Len(new) >= 1
      /\ \A b \in 1..Len(new) :
           new[b].type = "image" /\ new[b].render <=> b = 1 /\ item.text = <<>>
  BY <1>1, PageRendered
<1>3. new \in Seq(GoodBlock)
  BY <1>1, PageIsGood
<1> HIDE DEF new
<1>4. /\ Len(blocks') = n + Len(new)
      /\ \A b \in 1..n : blocks'[b] = blocks[b]
      /\ \A b \in 1..Len(new) : n + b \in 1..Len(blocks') /\ blocks'[n + b] = new[b]
  <2>1. /\ Len(blocks \o new) = n + Len(new)
        /\ \A b \in 1..(n + Len(new)) :
             (blocks \o new)[b] = IF b <= n THEN blocks[b] ELSE new[b - n]
    BY <1>1, <1>3, ConcatProperties
  <2>2. blocks' = blocks \o new
    BY DEF new
  <2> HIDE DEF n
  <2>3. /\ Len(blocks') = n + Len(new) /\ n \in Nat /\ Len(new) \in Nat
        /\ \A b \in 1..(n + Len(new)) :
             blocks'[b] = IF b <= n THEN blocks[b] ELSE new[b - n]
    BY <1>1, <1>2, <2>1, <2>2 DEF n
  <2>4. ASSUME NEW b \in 1..Len(new)
        PROVE  n + b \in 1..Len(blocks') /\ blocks'[n + b] = new[b]
    <3>1. PICK c \in 1..(n + Len(new)) : c = n + b /\ ~(c <= n) /\ c - n = b
      BY <2>3
    <3> QED
      BY <2>3, <3>1
  <2> QED
    BY <2>3, <2>4
<1>5. \A b \in 1..Len(blocks') : b \in 1..n \/ \E k \in 1..Len(new) : b = n + k
  <2> SUFFICES ASSUME NEW b \in 1..Len(blocks'), b \notin 1..n
               PROVE  \E k \in 1..Len(new) : b = n + k
    OBVIOUS
  <2>1. b - n \in 1..Len(new) /\ b = n + (b - n)
    BY <1>1, <1>2, <1>4
  <2> QED
    BY <2>1
<1>6. Rendered' = IF item.text = <<>> THEN Rendered \cup {n + 1} ELSE Rendered
  <2>1. \A b \in 1..n : b \in Rendered' <=> b \in Rendered
    BY <1>1, <1>2, <1>4 DEF Rendered
  <2>2. \A k \in 1..Len(new) : n + k \in Rendered' <=> k = 1 /\ item.text = <<>>
    BY <1>2, <1>4 DEF Rendered
  <2>3. Rendered \subseteq 1..n /\ Rendered' \subseteq 1..Len(blocks') /\ 1 \in 1..Len(new)
    BY <1>2 DEF Rendered
  <2>4. \A k \in 1..Len(new) : n + k \notin 1..n
    BY <1>1
  <2> HIDE DEF n
  <2>5. \A k \in 1..Len(new) : k = 1 <=> n + k = n + 1
    BY <1>1
  <2> DEFINE all == Rendered \cup (IF item.text = <<>> THEN {n + 1} ELSE {})
  <2>6. \A b \in Rendered' : b \in all
    <3> SUFFICES ASSUME NEW b \in Rendered' PROVE b \in all
      OBVIOUS
    <3>1. CASE b \in 1..n
      BY <2>1, <3>1
    <3>2. CASE b \notin 1..n
      <4>1. b \in 1..Len(blocks')
        BY <2>3
      <4>2. PICK k \in 1..Len(new) : b = n + k
        BY <1>5, <3>2, <4>1
      <4> QED
        BY <2>2, <4>2
    <3> QED
      BY <3>1, <3>2
  <2>7. \A b \in all : b \in Rendered'
    <3>1. \A b \in Rendered : b \in Rendered'
      BY <2>1, <2>3
    <3>2. item.text = <<>> => n + 1 \in Rendered'
      BY <2>2, <2>3
    <3> QED
      BY <3>1, <3>2
  <2> QED
    BY <2>6, <2>7
<1>7. Textless' = IF item.text = <<>> THEN Textless \cup {m + 1} ELSE Textless
  <2>1. /\ Len(file') = m + 1 /\ file'[m + 1] = item
        /\ \A i \in 1..m : file'[i] = file[i]
    BY <1>1
  <2> QED
    BY <1>1, <2>1 DEF Textless
<1>8. IsFiniteSet(Rendered) /\ IsFiniteSet(Textless) /\ n + 1 \notin Rendered /\ m + 1 \notin Textless
  <2>1. Rendered \in SUBSET (1..n) /\ Textless \in SUBSET (1..m)
    BY DEF Rendered, Textless
  <2>2. n \in Nat /\ m \in Nat /\ n + 1 \notin 1..n /\ m + 1 \notin 1..m
    BY <1>1
  <2> HIDE DEF n, m
  <2>3. IsFiniteSet(Rendered)
    BY <2>1, <2>2, PartOfInterval, Zenon
  <2>4. IsFiniteSet(Textless)
    BY <2>1, <2>2, PartOfInterval, Zenon
  <2> QED
    BY <2>1, <2>2, <2>3, <2>4
<1>9. CASE item.text = <<>>
  <2>1. Cardinality(Rendered \cup {n + 1}) = Cardinality(Rendered) + 1
    BY <1>8, FS_AddElement
  <2>2. Cardinality(Textless \cup {m + 1}) = Cardinality(Textless) + 1
    BY <1>8, FS_AddElement
  <2> HIDE DEF n, m
  <2>3. Rendered' = Rendered \cup {n + 1} /\ Textless' = Textless \cup {m + 1}
    BY <1>6, <1>7, <1>9
  <2> QED
    BY <1>1, <2>1, <2>2, <2>3
<1>10. CASE item.text # <<>>
  <2>1. Rendered' = Rendered /\ Textless' = Textless
    BY <1>6, <1>7, <1>10
  <2> QED
    BY <1>1, <2>1
<1> QED
  BY <1>9, <1>10

\* The parser's steps.
LEMMA DocParse ==
  ASSUME DocInv, ParseItem
  PROVE  DocInv'
<1>1. /\ pc = "parse" /\ pc' = pc /\ at' = at /\ kind' = kind /\ scanned' = scanned
      /\ targets' = targets /\ answers' = answers /\ tally' = tally /\ method' = method
  BY DEF ParseItem, ocr
<1>2. PICK item \in Items[kind] :
        /\ file' = Append(file, item)
        /\ blocks' = blocks \o ItemBlocks(item, Len(file) + 1)
  BY DEF ParseItem
<1>3. Len(file) < MaxItems
  BY BoundsAssumption, <1>2 DEF ParseItem, DocInv, DocTypes
<1>4. /\ kind \in {"pdf", "docx", "image"} /\ file \in Seq(Items[kind])
      /\ blocks \in Seq(GoodBlock) /\ targets = {}
  BY <1>1 DEF DocInv, DocTypes, Counted
<1>5. Len(file) \in Nat /\ Len(file) + 1 \in 1..MaxItems
  BY <1>3, <1>4, BoundsAssumption
<1> DEFINE new == ItemBlocks(item, Len(file) + 1)
<1>6. new \in Seq(GoodBlock)
  BY <1>2, <1>4, <1>5, ItemIsGood
<1> HIDE DEF new
<1>7. blocks' \in Seq(GoodBlock)
  BY <1>2, <1>4, <1>6, ConcatProperties DEF new
<1>8. file' \in Seq(Items[kind']) /\ Len(file') <= MaxItems
  <2>1. file' \in Seq(Items[kind]) /\ Len(file') = Len(file) + 1
    BY <1>2, <1>4, AppendProperties
  <2> QED
    BY <1>1, <1>5, <2>1
<1>9. DocTypes'
  BY <1>1, <1>4, <1>7, <1>8 DEF DocInv, DocTypes
<1>10. Counted'
  <2>1. Unread' <=> Unread
    BY <1>1 DEF Unread
  <2>2. Sum' = Sum
    BY <1>1 DEF Sum
  <2> QED
    BY <1>1, <2>1, <2>2 DEF DocInv, Counted
<1>11. PagesToRead'
  <2>1. CASE kind = "pdf"
    <3>1. Items[kind] = Page
      BY <2>1 DEF Items
    <3>2. item.type = "page"
      BY <1>2, <3>1 DEF Page
    <3>3. ItemBlocks(item, Len(file) + 1) = PageBlocks(item, Len(file) + 1)
      BY <3>2 DEF ItemBlocks
    <3>4. Cardinality(Rendered') = Cardinality(Textless')
      BY <1>1, <1>2, <1>3, <2>1, <3>1, <3>3, PagesKept
    <3> QED
      BY <1>1, <3>4 DEF PagesToRead
  <2>2. CASE kind # "pdf"
    BY <1>1, <2>2 DEF PagesToRead
  <2> QED
    BY <2>1, <2>2
<1> QED
  BY <1>9, <1>10, <1>11 DEF DocInv

LEMMA DocEndParse ==
  ASSUME DocInv, EndParse
  PROVE  DocInv'
<1>1. /\ pc = "parse" /\ kind' = kind /\ file' = file /\ blocks' = blocks
      /\ answers' = answers /\ method' = method /\ at' = at
      /\ targets' = SelectOcrTargets /\ scanned' = SuspectedScanned
      /\ pc' \in {"ocr", "assemble"}
  BY DEF EndParse
<1>2. /\ DocTypes /\ Unread /\ Sum = 0 /\ at = 1 /\ method = "direct"
      /\ tally.succeeded = 0
  BY <1>1 DEF DocInv, Counted
<1>3. /\ targets' \subseteq 1..Len(blocks)
      /\ \A b \in targets' : blocks[b].type = "image" /\ blocks[b].picture \in Pictures
  <2>1. \A b \in 1..Len(blocks) : blocks[b] \in GoodBlock
    BY <1>2 DEF DocTypes
  <2>2. \A b \in Pictured : /\ b \in 1..Len(blocks) /\ blocks[b].type = "image"
                            /\ blocks[b].picture # NoPicture
    BY DEF Pictured
  <2>3. \A b \in Rendered : /\ b \in 1..Len(blocks) /\ blocks[b].type = "image"
                            /\ blocks[b].render
    BY DEF Rendered
  <2>4. \A x \in GoodBlock : /\ x.picture \in Pictures \cup {NoPicture}
                             /\ x.render => x.picture \in Pictures
    BY DEF GoodBlock
  <2>5. \A b \in Pictured \cup Rendered :
          /\ b \in 1..Len(blocks)
          /\ blocks[b].type = "image" /\ blocks[b].picture \in Pictures
    <3> HIDE DEF Pictures, NoPicture, GoodBlock, Pictured, Rendered
    <3> QED
      BY <2>1, <2>2, <2>3, <2>4
  <2>6. targets' \subseteq Pictured \cup Rendered
    BY <1>1 DEF SelectOcrTargets
  <2> QED
    BY <2>5, <2>6
<1>4. scanned' \in BOOLEAN
  <2>1. kind \in {"pdf", "docx", "image"}
    BY <1>2 DEF DocTypes
  <2>2. CASE kind = "pdf"
    BY <1>1, <2>2 DEF SuspectedScanned
  <2>3. CASE kind = "docx"
    BY <1>1, <2>3 DEF SuspectedScanned
  <2>4. CASE kind = "image"
    BY <1>1, <2>4 DEF SuspectedScanned
  <2> QED
    BY <2>1, <2>2, <2>3, <2>4
<1>5. targets' \in SUBSET (1..Len(blocks)) /\ Len(blocks) \in Nat
  BY <1>2, <1>3 DEF DocTypes
<1>6. Cardinality(targets') \in Nat
  BY <1>5, PartOfInterval
<1>7. tally' \in [succeeded : Nat, failed : Nat, blank : Nat] /\ tally'.succeeded = 0
      /\ (pc' = "ocr" => Sum' = 0) /\ (pc' = "assemble" => Sum' = Cardinality(targets'))
  <2>1. tally \in [succeeded : Nat, failed : Nat, blank : Nat]
        /\ tally.succeeded = 0 /\ tally.failed = 0 /\ tally.blank = 0
    BY <1>2 DEF DocTypes, Sum
  <2>2. CASE pc' = "ocr" /\ tally' = tally
    BY <1>2, <2>1, <2>2 DEF Sum
  <2>3. CASE pc' = "assemble" /\ tally' = [tally EXCEPT !.failed = Cardinality(targets')]
    BY <1>6, <2>1, <2>3 DEF Sum
  <2> QED
    BY <2>2, <2>3 DEF EndParse
<1>8. DocTypes'
  BY <1>1, <1>2, <1>3, <1>4, <1>7 DEF DocTypes, Stages
<1>9. Counted'
  <2>1. Unread'
    BY <1>1, <1>2 DEF Unread
  <2>2. Behind' = {}
    <3>1. \A b \in targets' : b \in Nat /\ b >= 1
      BY <1>5
    <3>2. at' = 1
      BY <1>1, <1>2
    <3> QED
      BY <3>1, <3>2 DEF Behind
  <2>3. pc' = "assemble" => method' = ParseMethod'
    BY <1>1, <1>2, <1>7 DEF ParseMethod
  <2> QED
    BY <1>1, <1>2, <1>3, <1>7, <2>1, <2>2, <2>3, FS_EmptySet DEF Counted
<1>10. PagesToRead'
  <2> SUFFICES ASSUME kind' = "pdf", scanned', Textless' # {}
               PROVE  Cardinality(targets') = Cardinality(Textless')
    BY <1>1 DEF PagesToRead
  <2>1. Textless' = Textless
    BY <1>1 DEF Textless
  <2>2. Cardinality(Rendered) = Cardinality(Textless)
    BY <1>1 DEF DocInv, PagesToRead
  <2>3. Rendered # {}
    <3>1. Textless \in SUBSET (1..Len(file)) /\ Len(file) \in Nat
      BY <1>2 DEF Textless, DocTypes
    <3>2. IsFiniteSet(Textless)
      BY <3>1, PartOfInterval
    <3>3. Cardinality(Textless) # 0
      BY <2>1, <3>2, FS_EmptySet
    <3> QED
      BY <2>2, <3>3, FS_EmptySet
  <2>4. targets' = Rendered
    BY <1>1, <2>3 DEF SelectOcrTargets
  <2> QED
    BY <2>1, <2>2, <2>4
<1> QED
  BY <1>8, <1>9, <1>10 DEF DocInv

\* OCR's steps.
LEMMA OneMoreBehind ==
  ASSUME DocTypes, at \in targets, targets' = targets, at' = at + 1
  PROVE  Cardinality(Behind') = Cardinality(Behind) + 1
<1>1. targets \subseteq Nat /\ at \in Nat
  BY DEF DocTypes
<1>2. Behind' = Behind \cup {at} /\ at \notin Behind
  <2>1. \A b \in targets : b < at + 1 <=> b < at \/ b = at
    BY <1>1
  <2>2. ~(at < at)
    BY <1>1
  <2> QED
    BY <2>1, <2>2 DEF Behind
<1>3. IsFiniteSet(Behind)
  BY FewBlocks
<1> QED
  BY <1>2, <1>3, FS_AddElement

LEMMA DocThrough ==
  ASSUME DocInv, pc = "ocr", at \in targets, at' = at + 1,
         NEW b \in GoodBlock, b.type = "image", blocks' = [blocks EXCEPT ![at] = b],
         UNCHANGED <<kind, file, scanned, targets, method, pc>>,
         answers' \in [Pictures -> BoundedSeq(Token, 2)],
         tally' \in [succeeded : Nat, failed : Nat, blank : Nat], Sum' = Sum + 1,
         tally'.succeeded = 0 <=> Unread'
  PROVE  DocInv'
<1>1. /\ blocks \in Seq(GoodBlock) /\ at \in Nat \ {0} /\ targets \subseteq 1..Len(blocks)
      /\ at \in 1..Len(blocks)
  BY DEF DocInv, DocTypes
<1>2. /\ blocks' \in Seq(GoodBlock) /\ Len(blocks') = Len(blocks) /\ blocks'[at] = b
      /\ \A c \in 1..Len(blocks) : c # at => blocks'[c] = blocks[c]
  <2>1. /\ [blocks EXCEPT ![at] = b] \in Seq(GoodBlock)
        /\ Len([blocks EXCEPT ![at] = b]) = Len(blocks)
        /\ \A c \in 1..Len(blocks) :
             [blocks EXCEPT ![at] = b][c] = IF c = at THEN b ELSE blocks[c]
    BY <1>1, ExceptSeq
  <2> QED
    BY <1>1, <2>1
<1>3. /\ \A c \in targets' : blocks'[c].type = "image"
      /\ \A c \in targets' : c >= at' => blocks'[c].picture \in Pictures
  <2> SUFFICES ASSUME NEW c \in targets
               PROVE  /\ blocks'[c].type = "image"
                      /\ c >= at + 1 => blocks'[c].picture \in Pictures
    OBVIOUS
  <2>1. c \in 1..Len(blocks) /\ c \in Nat
    BY <1>1
  <2>2. CASE c = at
    BY <1>1, <1>2, <2>2
  <2>3. CASE c # at
    <3>1. blocks'[c] = blocks[c]
      BY <1>2, <2>1, <2>3
    <3>2. blocks[c].type = "image" /\ (c >= at => blocks[c].picture \in Pictures)
      BY DEF DocInv, DocTypes, Counted
    <3>3. c >= at + 1 => c >= at
      BY <1>1, <2>1
    <3> QED
      BY <3>1, <3>2, <3>3
  <2> QED
    BY <2>2, <2>3
<1>4. Cardinality(Behind') = Cardinality(Behind) + 1
  BY OneMoreBehind DEF DocInv
<1>5. DocTypes'
  BY <1>1, <1>2, <1>3 DEF DocInv, DocTypes
<1>6. Counted'
  BY <1>3, <1>4 DEF DocInv, Counted
<1>7. PagesToRead'
  <2>1. Textless' = Textless
    BY DEF Textless
  <2> QED
    BY <2>1 DEF DocInv, PagesToRead
<1> QED
  BY <1>5, <1>6, <1>7 DEF DocInv

\* A picture that has been through OCR is still a good block.
LEMMA StrippedIsGood ==
  ASSUME NEW b \in GoodBlock, b.type = "image"
  PROVE  /\ b.source = "direct" \/ b.text # <<>>
         /\ Stripped(b) \in GoodBlock /\ Stripped(b).type = "image"
         /\ \A t \in TextOf(Plaintext) \ {<<>>} :
              LET new == [Stripped(b) EXCEPT !.text = t, !.source = "ocr"]
              IN  new \in GoodBlock /\ new.type = "image"
<1>1. /\ b \in [type : BlockTypes, text : TextOf(Piece), slot : Nat,
                picture : Pictures \cup {NoPicture}, render : BOOLEAN,
                source : {"direct", "ocr"}]
      /\ b.text \in TextOf(Plaintext)
      /\ b.source = "ocr" => b.text # <<>>
  BY DEF GoodBlock
<1>2. NoPicture \in Pictures \cup {NoPicture} /\ FALSE \in BOOLEAN
  OBVIOUS
<1> HIDE DEF Pictures, NoPicture
<1>3. Stripped(b) \in GoodBlock /\ Stripped(b).type = "image"
  BY <1>1, <1>2 DEF Stripped, GoodBlock
<1>4. ASSUME NEW t \in TextOf(Plaintext) \ {<<>>}
      PROVE  LET new == [Stripped(b) EXCEPT !.text = t, !.source = "ocr"]
             IN  new \in GoodBlock /\ new.type = "image"
  BY <1>1, <1>2, PlainIsPiece DEF Stripped, GoodBlock
<1> QED
  BY <1>1, <1>3, <1>4

LEMMA DocReadBlock ==
  ASSUME DocInv, ReadBlock
  PROVE  DocInv'
<1>1. PICK read \in Recognised :
        /\ blocks' = [blocks EXCEPT ![at] =
                        [Stripped(@) EXCEPT
                           !.text = [k \in 1..Len(read) |-> <<Word(read[k])>>],
                           !.source = "ocr"]]
        /\ answers' = [answers EXCEPT ![blocks[at].picture] = read]
  BY DEF ReadBlock
<1>2. /\ pc = "ocr" /\ at \in targets /\ at' = at + 1
      /\ tally' = [tally EXCEPT !.succeeded = @ + 1]
      /\ UNCHANGED <<kind, file, scanned, targets, method, pc>>
  BY DEF ReadBlock
<1>3. read \in BoundedSeq(Token, 2) /\ read # <<>>
  BY DEF Recognised
<1>4. read \in Seq(Token)
  BY <1>3, BoundedIsSeq
<1>5. /\ blocks \in Seq(GoodBlock) /\ at \in 1..Len(blocks) /\ blocks[at] \in GoodBlock
      /\ blocks[at].type = "image" /\ blocks[at].picture \in Pictures
      /\ tally \in [succeeded : Nat, failed : Nat, blank : Nat]
      /\ answers \in [Pictures -> BoundedSeq(Token, 2)]
  <2>1. /\ blocks \in Seq(GoodBlock) /\ at \in 1..Len(blocks)
        /\ blocks[at].type = "image"
        /\ tally \in [succeeded : Nat, failed : Nat, blank : Nat]
        /\ answers \in [Pictures -> BoundedSeq(Token, 2)]
    BY <1>2 DEF DocInv, DocTypes
  <2>2. at >= at
    BY <2>1
  <2> QED
    BY <1>2, <2>1, <2>2 DEF DocInv, Counted
<1> DEFINE t == [k \in 1..Len(read) |-> <<Word(read[k])>>]
           new == [Stripped(blocks[at]) EXCEPT !.text = t, !.source = "ocr"]
<1>6. t \in TextOf(Plaintext) \ {<<>>}
  <2>1. t \in TextOf(Plaintext)
    BY <1>4, WordsArePlain
  <2>2. Len(t) # 0
    BY <1>3, <1>4
  <2> HIDE DEF t
  <2> QED
    BY <2>1, <2>2
<1>7. blocks' = [blocks EXCEPT ![at] = new]
  BY <1>1
<1> HIDE DEF t
<1>8. new \in GoodBlock /\ new.type = "image"
  BY <1>5, <1>6, StrippedIsGood
<1>9. /\ tally' \in [succeeded : Nat, failed : Nat, blank : Nat]
      /\ Sum' = Sum + 1 /\ tally'.succeeded # 0
  <2>1. /\ tally' \in [succeeded : Nat, failed : Nat, blank : Nat]
        /\ tally'.succeeded = tally.succeeded + 1
        /\ tally'.failed = tally.failed /\ tally'.blank = tally.blank
    BY <1>2, <1>5
  <2>2. tally.succeeded \in Nat /\ tally.failed \in Nat /\ tally.blank \in Nat
    BY <1>5
  <2> QED
    BY <2>1, <2>2 DEF Sum
<1>10. answers' \in [Pictures -> BoundedSeq(Token, 2)] /\ ~Unread'
  <2> HIDE DEF Pictures
  <2>1. answers'[blocks[at].picture] = read
    BY <1>1, <1>5
  <2>2. answers' \in [Pictures -> BoundedSeq(Token, 2)]
    BY <1>1, <1>3, <1>5
  <2> QED
    BY <1>3, <1>5, <2>1, <2>2 DEF Unread
<1> HIDE DEF new
<1> QED
  BY <1>2, <1>7, <1>8, <1>9, <1>10, DocThrough

LEMMA DocMissBlock ==
  ASSUME DocInv, MissBlock
  PROVE  DocInv'
<1>1. /\ pc = "ocr" /\ at \in targets /\ at' = at + 1
      /\ blocks' = [blocks EXCEPT ![at] = Stripped(@)]
      /\ UNCHANGED <<kind, file, scanned, targets, answers, method, pc>>
  BY DEF MissBlock
<1>2. /\ blocks \in Seq(GoodBlock) /\ at \in 1..Len(blocks) /\ blocks[at] \in GoodBlock
      /\ blocks[at].type = "image"
      /\ tally \in [succeeded : Nat, failed : Nat, blank : Nat]
      /\ answers \in [Pictures -> BoundedSeq(Token, 2)]
  BY <1>1 DEF DocInv, DocTypes
<1>3. /\ tally' \in [succeeded : Nat, failed : Nat, blank : Nat]
      /\ Sum' = Sum + 1 /\ tally'.succeeded = tally.succeeded
  <2>1. /\ tally' \in [succeeded : Nat, failed : Nat, blank : Nat]
        /\ tally'.succeeded = tally.succeeded
        /\ \/ tally'.failed = tally.failed /\ tally'.blank = tally.blank + 1
           \/ tally'.failed = tally.failed + 1 /\ tally'.blank = tally.blank
    <3>1. CASE tally' = [tally EXCEPT !.blank = @ + 1]
      BY <1>2, <3>1
    <3>2. CASE tally' = [tally EXCEPT !.failed = @ + 1]
      BY <1>2, <3>2
    <3> QED
      BY <3>1, <3>2 DEF MissBlock
  <2>2. tally.succeeded \in Nat /\ tally.failed \in Nat /\ tally.blank \in Nat
    BY <1>2
  <2> QED
    BY <2>1, <2>2 DEF Sum
<1>4. tally'.succeeded = 0 <=> Unread'
  <2>1. Unread' <=> Unread
    BY <1>1 DEF Unread
  <2> QED
    BY <1>3, <2>1 DEF DocInv, Counted
<1> DEFINE new == Stripped(blocks[at])
<1>5. new \in GoodBlock /\ new.type = "image"
  BY <1>2, StrippedIsGood
<1>6. blocks' = [blocks EXCEPT ![at] = new]
  BY <1>1
<1> HIDE DEF new
<1> QED
  BY <1>1, <1>2, <1>3, <1>4, <1>5, <1>6, DocThrough

LEMMA DocPassBlock ==
  ASSUME DocInv, PassBlock
  PROVE  DocInv'
<1>1. /\ pc = "ocr" /\ at \notin targets /\ at' = at + 1
      /\ UNCHANGED <<kind, file, blocks, scanned, targets, answers, tally, method, pc>>
  BY DEF PassBlock, parsed, ocr
<1>2. targets \subseteq Nat /\ at \in Nat \ {0}
  BY DEF DocInv, DocTypes
<1>3. Behind' = Behind
  <2>1. \A b \in targets : b < at + 1 <=> b < at
    BY <1>1, <1>2
  <2> QED
    BY <1>1, <2>1 DEF Behind
<1>4. DocTypes'
  BY <1>1, <1>2 DEF DocInv, DocTypes
<1>5. Counted'
  <2>1. (Unread' <=> Unread) /\ Sum' = Sum
    BY <1>1 DEF Unread, Sum
  <2>2. \A b \in targets : b >= at + 1 => b >= at
    BY <1>2
  <2> QED
    BY <1>1, <1>3, <2>1, <2>2 DEF DocInv, Counted
<1>6. PagesToRead'
  <2>1. Textless' = Textless
    BY <1>1 DEF Textless
  <2> QED
    BY <1>1, <2>1 DEF DocInv, PagesToRead
<1> QED
  BY <1>4, <1>5, <1>6 DEF DocInv

LEMMA DocEndOcr ==
  ASSUME DocInv, EndOcr
  PROVE  DocInv'
<1>1. /\ pc = "ocr" /\ pc' = "assemble" /\ at > Len(blocks) /\ at' = 1
      /\ method' = ParseMethod
      /\ UNCHANGED <<kind, file, blocks, scanned, targets, answers, tally>>
  BY DEF EndOcr, parsed
<1>2. Behind = targets
  <2>1. \A b \in targets : b \in Nat /\ b <= Len(blocks)
    BY DEF DocInv, DocTypes
  <2>2. at \in Nat /\ Len(blocks) \in Nat
    BY DEF DocInv, DocTypes
  <2> QED
    BY <1>1, <2>1, <2>2 DEF Behind
<1>3. ParseMethod \in {"direct", "ocr", "mixed"} /\ ParseMethod' = ParseMethod
  <2>1. tally.succeeded \in Nat /\ tally.failed \in Nat
    BY DEF DocInv, DocTypes
  <2> QED
    BY <1>1, <2>1 DEF ParseMethod
<1>4. DocTypes'
  BY <1>1, <1>3 DEF DocInv, DocTypes, Stages
<1>5. Counted'
  <2>1. (Unread' <=> Unread) /\ Sum' = Sum
    BY <1>1 DEF Unread, Sum
  <2> QED
    BY <1>1, <1>2, <1>3, <2>1 DEF DocInv, Counted
<1>6. PagesToRead'
  <2>1. Textless' = Textless
    BY <1>1 DEF Textless
  <2> QED
    BY <1>1, <2>1 DEF DocInv, PagesToRead
<1> QED
  BY <1>4, <1>5, <1>6 DEF DocInv

\* What follows changes neither the document nor what is said of OCR.
LEMMA DocKept ==
  ASSUME DocInv, UNCHANGED <<parsed, ocr>>, at' \in Nat \ {0}, pc' \in Stages,
         pc \notin {"parse", "ocr"} /\ pc' \notin {"parse", "ocr"}
  PROVE  DocInv'
<1>1. UNCHANGED <<kind, file, blocks, scanned, targets, answers, tally, method>>
  BY DEF parsed, ocr
<1>2. DocTypes'
  BY <1>1 DEF DocInv, DocTypes
<1>3. Counted'
  <2>1. (Unread' <=> Unread) /\ Sum' = Sum /\ ParseMethod' = ParseMethod
    BY <1>1 DEF Unread, Sum, ParseMethod
  <2> QED
    BY <1>1, <2>1 DEF DocInv, Counted
<1>4. PagesToRead'
  <2>1. Textless' = Textless
    BY <1>1 DEF Textless
  <2> QED
    BY <1>1, <2>1 DEF DocInv, PagesToRead
<1> QED
  BY <1>2, <1>3, <1>4 DEF DocInv

LEMMA DocStep ==
  ASSUME DocInv, [Next]_vars
  PROVE  DocInv'
<1>1. CASE ParseItem
  BY <1>1, DocParse
<1>2. CASE EndParse
  BY <1>2, DocEndParse
<1>3. CASE PassBlock
  BY <1>3, DocPassBlock
<1>4. CASE ReadBlock
  BY <1>4, DocReadBlock
<1>5. CASE MissBlock
  BY <1>5, DocMissBlock
<1>6. CASE EndOcr
  BY <1>6, DocEndOcr
<1>7. CASE AssembleBlock \/ EndAssemble \/ (PrepareNext /\ UNCHANGED <<parsed, ocr>>)
  <2>1. /\ pc \notin {"parse", "ocr"} /\ pc' \notin {"parse", "ocr"} /\ pc' \in Stages
        /\ at' \in {at, at + 1, 1} /\ UNCHANGED <<parsed, ocr>>
    BY <1>7 DEF AssembleBlock, EndAssemble, PrepareNext, CleanLine, EndClean, AddLine,
                OpenSection, EndSplit, Stages
  <2>2. at' \in Nat \ {0}
    BY <2>1 DEF DocInv, DocTypes
  <2> QED
    BY <2>1, <2>2, DocKept
<1>8. CASE UNCHANGED vars
  <2>1. UNCHANGED <<kind, file, blocks, scanned, targets, answers, tally, method, at, pc>>
    BY <1>8 DEF vars, parsed, ocr
  <2>2. /\ Unread' <=> Unread
        /\ Sum' = Sum /\ ParseMethod' = ParseMethod /\ Behind' = Behind
        /\ Textless' = Textless /\ Rendered' = Rendered
    BY <2>1 DEF Unread, Sum, ParseMethod, Behind, Textless, Rendered
  <2>3. DocTypes'
    BY <2>1 DEF DocInv, DocTypes
  <2>4. Counted'
    BY <2>1, <2>2 DEF DocInv, Counted
  <2>5. PagesToRead'
    BY <2>1, <2>2 DEF DocInv, PagesToRead
  <2> QED
    BY <2>3, <2>4, <2>5 DEF DocInv
<1> QED
  BY <1>1, <1>2, <1>3, <1>4, <1>5, <1>6, <1>7, <1>8 DEF Next

-----------------------------------------------------------------------------
\* The lines before and after cleaning.

\* No line's block is before that of an earlier line.
Rising(ls) == \A i, j \in 1..Len(ls) : i < j => ls[i].block <= ls[j].block

Heads(ls) == {i \in 1..Len(ls) : HeadingLevel(ls[i].text) # 0}

\* The headings that are not taken for headers or footers, and those before a line.
Wanted == {i \in Heads(assembled) : ~Repeated(assembled[i].text)}
WantedBefore(n) == {i \in Wanted : i < n}

\* As many places in s and in t, and place by place the same there.
Same(S, T, s, t) ==
  /\ Cardinality(S) = Cardinality(T)
  /\ \A i \in S, k \in T : UpTo(i, S) = UpTo(k, T) => t[k] = s[i]

LinesInv ==
  /\ assembled \in Seq(Line) /\ lines \in Seq(Line)
  /\ Rising(assembled) /\ Rising(lines)
  /\ pc \in {"parse", "ocr"} => assembled = <<>>
  /\ pc \in {"parse", "ocr", "assemble"} => lines = <<>>
  /\ pc = "assemble" => \A i \in 1..Len(assembled) : assembled[i].block < at
  /\ pc = "clean" =>
       /\ at <= Len(assembled) + 1
       /\ \A i \in 1..Len(lines), j \in at..Len(assembled) :
            lines[i].block <= assembled[j].block
       /\ Same(WantedBefore(at), Heads(lines), Texts(assembled), Texts(lines))
  /\ pc \in {"split", "done"} =>
       Same(Wanted, Heads(lines), Texts(assembled), Texts(lines))

-----------------------------------------------------------------------------
\* The sections.

\* The lines before those of the current section.
Cut == at - 1 - Len(current)

\* The first d lines are a cover.
Dropped(ls, d) == d = 0 \/ /\ d + 1 \in Heads(ls)
                           /\ \A i \in 1..d : i \notin Heads(ls)
                           /\ ~KeepPreface(SubSeq(ls, 1, d))

\* These sections hold the first n lines, but for a cover.
SectionTexts(ss) == [i \in 1..Len(ss) |-> ss[i].text]
Covers(ls, ss, n) ==
  \E d \in 0..n :
    Dropped(ls, d) /\ FlattenSeq(SectionTexts(ss)) = SubSeq(Texts(ls), d + 1, n)

Ordered(ls, ss, n) ==
  \A i \in 1..Len(ss) :
    /\ ss[i].source_block_start <= ss[i].source_block_end
    /\ i > 1 => ss[i - 1].source_block_end <= ss[i].source_block_start
    /\ \A j \in (n + 1)..Len(ls) : ss[i].source_block_end <= ls[j].block

\* A section for each heading among the first n lines, and one before them at most.
OpenedIn(ss) == {i \in 1..Len(ss) : ss[i].heading \notin {"none", "whole"}}
FirstTexts(ss) == [i \in 1..Len(ss) |-> ss[i].text[1]]
HeadsUpTo(ls, n) == {j \in Heads(ls) : j <= n}
Opens(ls, ss, n) ==
  /\ Same(HeadsUpTo(ls, n), OpenedIn(ss), Texts(ls), FirstTexts(ss))
  /\ \A i \in 2..Len(ss) : i \in OpenedIn(ss)
  /\ \A i \in 1..Len(ss) : \A k \in 2..Len(ss[i].text) : HeadingLevel(ss[i].text[k]) = 0

\* With these headings, none so far skips a level; the way to the i-th.
Skipless(hs, i) == \A j \in 1..i : LET level == Level(hs[j])
                                   IN  \/ level <= 1
                                       \/ j > 1 /\ Level(hs[j - 1]) >= level - 1
Way(hs, i) == [k \in 1..Level(hs[i]) |-> hs[Max({j \in 1..i : Level(hs[j]) = k})]]

Headings(ss) == [i \in 1..Len(ss) |-> ss[i].heading]
Ways(ss) == \A i \in 1..Len(ss) :
              Level(ss[i].heading) > 0 /\ Skipless(Headings(ss), i) =>
                ss[i].path = Way(Headings(ss), i)

\* The current section: the lines from its heading on.
CurrentInv ==
  /\ at <= Len(lines) + 1
  /\ Cut \in Nat
  /\ current = SubSeq(lines, Cut + 1, at - 1)
  /\ \A j \in (Cut + 2)..(at - 1) : j \notin Heads(lines)
  /\ heading = "none" => /\ Cut = 0 /\ sections = <<>> /\ path = <<>>
                         /\ \A j \in 1..(at - 1) : j \notin Heads(lines)
  /\ heading # "none" => /\ Cut + 1 \in Heads(lines) /\ Cut + 1 <= at - 1
                         /\ heading = Head(lines[Cut + 1].text)
                         /\ LET hs == Append(Headings(sections), heading)
                            IN  Skipless(hs, Len(hs)) => path = Way(hs, Len(hs))

\* The sections so far hold the first n lines as they should.
Cover(n) == /\ Covers(lines, sections, n) /\ Ordered(lines, sections, n)
            /\ Opens(lines, sections, n)

SplitInv ==
  /\ current \in Seq(Line) /\ heading \in Token \cup {"none"} /\ path \in Seq(Token)
  /\ sections \in Seq(SectionType)
  /\ Ways(sections)
  /\ pc \notin {"split", "done"} =>
       current = <<>> /\ heading = "none" /\ path = <<>> /\ sections = <<>>
  /\ pc = "split" => CurrentInv /\ Cover(Cut)
  /\ pc = "done" => Cover(Len(lines))

TextInv == DocInv /\ LinesInv /\ SplitInv

-----------------------------------------------------------------------------
\* Places in a list and their ranks.

LEMMA UpToGrows ==
  ASSUME NEW n \in Nat, NEW S \in SUBSET (1..n), NEW m \in Nat, m > n
  PROVE  /\ \A i \in S : UpTo(i, S \cup {m}) = UpTo(i, S) /\ UpTo(i, S) \in 0..Cardinality(S)
         /\ UpTo(m, S \cup {m}) = Cardinality(S) + 1
         /\ Cardinality(S \cup {m}) = Cardinality(S) + 1
         /\ Cardinality(S) \in Nat
<1>1. IsFiniteSet(S) /\ Cardinality(S) \in Nat
  BY PartOfInterval
<1>2. \A i \in S : i \in Nat /\ i < m /\ ~(m <= i) /\ i <= m
  OBVIOUS
<1>3. Cardinality(S \cup {m}) = Cardinality(S) + 1
  <2>1. m \notin S
    BY <1>2
  <2> QED
    BY <1>1, <2>1, FS_AddElement
<1>4. ASSUME NEW i \in S
      PROVE  UpTo(i, S \cup {m}) = UpTo(i, S) /\ UpTo(i, S) \in 0..Cardinality(S)
  <2>1. {j \in S \cup {m} : j <= i} = {j \in S : j <= i}
    BY <1>2
  <2>2. {j \in S : j <= i} \in SUBSET S
    OBVIOUS
  <2>3. Cardinality({j \in S : j <= i}) \in 0..Cardinality(S)
    <3> DEFINE T == {j \in S : j <= i}
    <3>1. IsFiniteSet(T) /\ Cardinality(T) <= Cardinality(S)
      BY <1>1, <2>2, FS_Subset
    <3>2. Cardinality(T) \in Nat
      BY <3>1, FS_CardinalityType
    <3> QED
      BY <1>1, <3>1, <3>2
  <2> QED
    BY <2>1, <2>3 DEF UpTo
<1>5. UpTo(m, S \cup {m}) = Cardinality(S) + 1
  <2>1. \A j \in S \cup {m} : j <= m
    BY <1>2
  <2>2. {j \in S \cup {m} : j <= m} = S \cup {m}
    BY <2>1, Zenon
  <2> QED
    BY <1>3, <2>2 DEF UpTo
<1> QED
  BY <1>1, <1>3, <1>4, <1>5

\* Two lists with the same at their places still have when each gets one more place.
LEMMA SameGrows ==
  ASSUME NEW n \in Nat, NEW S \in SUBSET (1..n), NEW m \in Nat, m > n,
         NEW p \in Nat, NEW T \in SUBSET (1..p), NEW q \in Nat, q > p,
         NEW s, NEW t, NEW ss, NEW tt, Same(S, T, s, t),
         \A i \in S : ss[i] = s[i], \A k \in T : tt[k] = t[k], tt[q] = ss[m]
  PROVE  Same(S \cup {m}, T \cup {q}, ss, tt)
<1>1. /\ \A i \in S : UpTo(i, S \cup {m}) = UpTo(i, S) /\ UpTo(i, S) \in 0..Cardinality(S)
      /\ UpTo(m, S \cup {m}) = Cardinality(S) + 1
      /\ Cardinality(S \cup {m}) = Cardinality(S) + 1
      /\ Cardinality(S) \in Nat
  BY UpToGrows
<1>2. /\ \A k \in T : UpTo(k, T \cup {q}) = UpTo(k, T) /\ UpTo(k, T) \in 0..Cardinality(T)
      /\ UpTo(q, T \cup {q}) = Cardinality(T) + 1
      /\ Cardinality(T \cup {q}) = Cardinality(T) + 1
      /\ Cardinality(T) \in Nat
  BY UpToGrows
<1>3. Cardinality(S) = Cardinality(T)
  BY DEF Same
<1>4. ASSUME NEW i \in S \cup {m}, NEW k \in T \cup {q},
             UpTo(i, S \cup {m}) = UpTo(k, T \cup {q})
      PROVE  tt[k] = ss[i]
  <2>1. CASE i \in S /\ k \in T
    BY <1>1, <1>2, <1>4, <2>1 DEF Same
  <2>2. CASE i \in S /\ k = q
    BY <1>1, <1>2, <1>3, <1>4, <2>2
  <2>3. CASE i = m /\ k \in T
    BY <1>1, <1>2, <1>3, <1>4, <2>3
  <2>4. CASE i = m /\ k = q
    BY <2>4
  <2> QED
    BY <2>1, <2>2, <2>3, <2>4
<1> QED
  BY <1>1, <1>2, <1>3, <1>4 DEF Same

\* Some place has each rank.
LEMMA RankTaken ==
  ASSUME NEW n \in Nat, NEW S \in SUBSET (1..n), NEW r \in 1..Cardinality(S)
  PROVE  \E i \in S : UpTo(i, S) = r
<1> DEFINE Good == {k \in Nat : \A T \in SUBSET (1..k) : \A x \in 1..Cardinality(T) :
                                  \E i \in T : UpTo(i, T) = x}
<1>1. 0 \in Good
  <2>1. ASSUME NEW T \in SUBSET (1..0) PROVE T = {}
    OBVIOUS
  <2> QED
    BY <2>1, FS_EmptySet
<1>2. ASSUME NEW k \in Nat, k \in Good
      PROVE  k + 1 \in Good
  <2> SUFFICES ASSUME NEW T \in SUBSET (1..(k + 1)), NEW x \in 1..Cardinality(T)
               PROVE  \E i \in T : UpTo(i, T) = x
    OBVIOUS
  <2>1. CASE k + 1 \notin T
    <3>1. T \in SUBSET (1..k)
      BY <2>1
    <3> QED
      BY <1>2, <3>1
  <2>2. CASE k + 1 \in T
    <3> DEFINE R == T \ {k + 1}
               m == k + 1
    <3>1. R \in SUBSET (1..k) /\ m \in Nat /\ m > k /\ T = R \cup {m}
      BY <2>2
    <3> HIDE DEF R, m
    <3>2. /\ \A i \in R : UpTo(i, R \cup {m}) = UpTo(i, R)
          /\ UpTo(m, R \cup {m}) = Cardinality(R) + 1
          /\ Cardinality(R \cup {m}) = Cardinality(R) + 1
          /\ Cardinality(R) \in Nat
      BY <3>1, UpToGrows
    <3>3. CASE x \in 1..Cardinality(R)
      BY <1>2, <3>1, <3>2, <3>3
    <3>4. CASE x = Cardinality(R) + 1
      BY <3>1, <3>2, <3>4
    <3> QED
      BY <3>1, <3>2, <3>3, <3>4
  <2> QED
    BY <2>1, <2>2
<1> HIDE DEF Good
<1>3. n \in Good
  BY <1>1, <1>2, SetInduction
<1> QED
  BY <1>3 DEF Good

LEMMA SameTransitive ==
  ASSUME NEW n \in Nat, NEW S \in SUBSET (1..n), NEW p \in Nat, NEW T \in SUBSET (1..p),
         NEW U, NEW s, NEW t, NEW u, Same(S, T, s, t), Same(T, U, t, u)
  PROVE  Same(S, U, s, u)
<1>1. Cardinality(S) = Cardinality(T) /\ Cardinality(T) = Cardinality(U)
  BY DEF Same
<1>2. ASSUME NEW i \in S, NEW k \in U, UpTo(i, S) = UpTo(k, U)
      PROVE  u[k] = s[i]
  <2>1. UpTo(i, S) \in 1..Cardinality(S)
    <3> DEFINE R == {j \in S : j <= i}
    <3>1. IsFiniteSet(S) /\ R \in SUBSET S /\ i \in R
      BY PartOfInterval
    <3>2. IsFiniteSet(R) /\ Cardinality(R) <= Cardinality(S)
      BY <3>1, FS_Subset
    <3>3. Cardinality(R) \in Nat /\ Cardinality(R) # 0 /\ Cardinality(S) \in Nat
      BY <3>1, <3>2, FS_CardinalityType, FS_EmptySet
    <3> QED
      BY <3>2, <3>3 DEF UpTo
  <2>2. PICK j \in T : UpTo(j, T) = UpTo(i, S)
    BY <1>1, <2>1, RankTaken
  <2>3. t[j] = s[i] /\ u[k] = t[j]
    BY <1>2, <2>2 DEF Same
  <2> QED
    BY <2>3
<1> QED
  BY <1>1, <1>2 DEF Same

LEMMA SameKept ==
  ASSUME NEW S, NEW T, NEW s, NEW t, NEW ss, NEW tt, Same(S, T, s, t),
         \A i \in S : ss[i] = s[i], \A k \in T : tt[k] = t[k]
  PROVE  Same(S, T, ss, tt)
BY DEF Same

-----------------------------------------------------------------------------
\* Lines of an assembled or a cleaned text.

LEMMA HeadsOfAppend ==
  ASSUME NEW ls \in Seq(Line), NEW x \in Line
  PROVE  /\ Len(ls) \in Nat /\ Heads(ls) \in SUBSET (1..Len(ls))
         /\ Append(ls, x) \in Seq(Line) /\ Len(Append(ls, x)) = Len(ls) + 1
         /\ \A i \in 1..Len(ls) : Append(ls, x)[i] = ls[i]
         /\ Append(ls, x)[Len(ls) + 1] = x
         /\ Heads(Append(ls, x)) = IF HeadingLevel(x.text) # 0
                                   THEN Heads(ls) \cup {Len(ls) + 1} ELSE Heads(ls)
<1>1. Len(ls) \in Nat
  BY LenProperties
<1>2. Heads(ls) \in SUBSET (1..Len(ls))
  BY DEF Heads
<1> DEFINE more == Append(ls, x)
<1>3. /\ more \in Seq(Line) /\ Len(more) = Len(ls) + 1
      /\ \A i \in 1..Len(ls) : more[i] = ls[i]
      /\ more[Len(ls) + 1] = x
  BY AppendProperties
<1> HIDE DEF more
<1>4. \A i \in 1..Len(ls) : i \in Heads(more) <=> i \in Heads(ls)
  BY <1>1, <1>3 DEF Heads
<1>5. Len(ls) + 1 \in Heads(more) <=> HeadingLevel(x.text) # 0
  BY <1>1, <1>3 DEF Heads
<1>6. \A i \in Heads(more) : i \in 1..Len(ls) \/ i = Len(ls) + 1
  BY <1>1, <1>3 DEF Heads
<1>7. Heads(more) = IF HeadingLevel(x.text) # 0
                    THEN Heads(ls) \cup {Len(ls) + 1} ELSE Heads(ls)
  <2>1. CASE HeadingLevel(x.text) # 0
    BY <1>2, <1>4, <1>5, <1>6, <2>1
  <2>2. CASE ~(HeadingLevel(x.text) # 0)
    BY <1>2, <1>4, <1>5, <1>6, <2>2
  <2> QED
    BY <2>1, <2>2
<1> QED
  BY <1>1, <1>2, <1>3, <1>7 DEF more

LEMMA TextsOf ==
  ASSUME NEW ls \in Seq(Line)
  PROVE  /\ Texts(ls) \in Seq(Seq(Token)) /\ Len(Texts(ls)) = Len(ls) /\ Len(ls) \in Nat
         /\ \A i \in 1..Len(ls) : Texts(ls)[i] = ls[i].text /\ ls[i] \in Line
         /\ \A i \in 1..Len(ls) : ls[i].text \in Seq(Token) \ {<<>>} /\ ls[i].block \in Nat
<1>1. Len(ls) \in Nat /\ \A i \in 1..Len(ls) : ls[i] \in Line
  BY LenProperties, ElementOfSeq
<1>2. \A i \in 1..Len(ls) : ls[i].text \in Seq(Token) \ {<<>>} /\ ls[i].block \in Nat
  BY <1>1 DEF Line
<1> DEFINE n == Len(ls)
           e(i) == ls[i].text
<1>3. n \in Nat /\ \A i \in 1..n : e(i) \in Seq(Token)
  BY <1>1, <1>2
<1>4. Texts(ls) = [i \in 1..n |-> e(i)]
  BY DEF Texts
<1> HIDE DEF n, e
<1>5. [i \in 1..n |-> e(i)] \in Seq(Seq(Token))
  BY <1>3, IsASeq
<1>6. Len([i \in 1..n |-> e(i)]) = n /\ \A i \in 1..n : [j \in 1..n |-> e(j)][i] = e(i)
  BY <1>3
<1> QED
  BY <1>1, <1>2, <1>4, <1>5, <1>6 DEF n, e

LEMMA EmptyLines ==
  /\ <<>> \in Seq(Line) /\ Rising(<<>>) /\ Heads(<<>>) = {} /\ Len(<<>>) = 0
  /\ \A s, t : Same({}, {}, s, t)
BY EmptyInSeq, FS_EmptySet DEF Rising, Heads, Same

\* A line is appended whose block is not before the last.
LEMMA RisingAppend ==
  ASSUME NEW ls \in Seq(Line), Rising(ls), NEW x \in Line,
         \A i \in 1..Len(ls) : ls[i].block <= x.block
  PROVE  Rising(Append(ls, x))
<1> DEFINE more == Append(ls, x)
<1>1. /\ Len(ls) \in Nat /\ Len(more) = Len(ls) + 1
      /\ \A i \in 1..Len(ls) : more[i] = ls[i]
      /\ more[Len(ls) + 1] = x
  BY HeadsOfAppend
<1> HIDE DEF more
<1>2. ASSUME NEW i \in 1..Len(more), NEW j \in 1..Len(more), i < j
      PROVE  more[i].block <= more[j].block
  <2>1. i \in 1..Len(ls) /\ more[i] = ls[i]
    BY <1>1, <1>2
  <2>2. CASE j \in 1..Len(ls)
    BY <1>1, <1>2, <2>1, <2>2 DEF Rising
  <2>3. CASE j = Len(ls) + 1
    BY <1>1, <2>1, <2>3
  <2> QED
    BY <1>1, <2>2, <2>3
<1> QED
  BY <1>2 DEF Rising, more

\* The wanted headings up to a line and with it.
LEMMA WantedGrows ==
  ASSUME assembled \in Seq(Line), NEW n \in 1..Len(assembled)
  PROVE  /\ WantedBefore(n) \in SUBSET (1..(n - 1))
         /\ WantedBefore(n + 1) = IF n \in Wanted THEN WantedBefore(n) \cup {n}
                                  ELSE WantedBefore(n)
<1>1. Wanted \in SUBSET (1..Len(assembled)) /\ Len(assembled) \in Nat
  BY LenProperties DEF Wanted, Heads
<1>2. \A i \in Wanted : i \in Nat /\ i >= 1
  BY <1>1
<1>3. \A i \in Wanted : i < n + 1 <=> i < n \/ i = n
  BY <1>1
<1>4. \A i \in Wanted : i < n => i \in 1..(n - 1)
  BY <1>2
<1>5. WantedBefore(n) \in SUBSET (1..(n - 1))
  BY <1>4 DEF WantedBefore
<1>6. CASE n \in Wanted
  BY <1>3, <1>5, <1>6 DEF WantedBefore
<1>7. CASE n \notin Wanted
  BY <1>3, <1>5, <1>7 DEF WantedBefore
<1> QED
  BY <1>5, <1>6, <1>7

LEMMA LinesInit == Init => LinesInv
BY EmptyLines DEF Init, LinesInv

LEMMA LinesAssemble ==
  ASSUME DocInv, LinesInv, AssembleBlock
  PROVE  LinesInv'
<1> DEFINE b == blocks[at]
           content == IF b.type = "page_break" \/ Placed(b) THEN <<>> ELSE BlockLines(b)
           new == [k \in 1..Len(content) |-> [text |-> content[k], block |-> at - 1]]
<1>1. /\ pc = "assemble" /\ pc' = pc /\ at <= Len(blocks) /\ at' = at + 1 /\ lines' = lines
      /\ assembled' = assembled \o new
  BY DEF AssembleBlock
<1>2. /\ blocks \in Seq(GoodBlock) /\ at \in Nat \ {0} /\ at \in 1..Len(blocks)
      /\ b \in GoodBlock
  BY <1>1 DEF DocInv, DocTypes
<1>3. content \in TextLines
  <2>1. BlockLines(b) \in TextLines
    BY <1>2, BlockIsLines
  <2>2. <<>> \in TextLines
    BY EmptyInSeq DEF TextLines, TextOf
  <2> QED
    BY <2>1, <2>2
<1> HIDE DEF content
<1>4. /\ new \in Seq(Line) /\ Len(new) \in Nat
      /\ \A k \in 1..Len(new) : new[k].block = at - 1
  <2>1. Len(content) \in Nat /\ \A k \in 1..Len(content) : content[k] \in Seq(Token) \ {<<>>}
    BY <1>3 DEF TextLines, TextOf
  <2> DEFINE n == Len(content)
             e(k) == [text |-> content[k], block |-> at - 1]
  <2>2. n \in Nat /\ \A k \in 1..n : e(k) \in Line /\ e(k).block = at - 1
    BY <1>2, <2>1 DEF Line
  <2>3. new = [k \in 1..n |-> e(k)]
    OBVIOUS
  <2> HIDE DEF n, e, new
  <2>4. [k \in 1..n |-> e(k)] \in Seq(Line)
    BY <2>2, IsASeq
  <2>5. Len(new) = n /\ \A k \in 1..n : new[k] = e(k)
    BY <2>2, <2>3
  <2> QED
    BY <2>2, <2>3, <2>4, <2>5
<1> HIDE DEF new
<1> DEFINE n == Len(assembled)
<1>5. /\ assembled \in Seq(Line) /\ n \in Nat /\ Rising(assembled) /\ lines = <<>>
      /\ \A i \in 1..n : assembled[i].block \in Nat /\ assembled[i].block < at
  <2>1. assembled \in Seq(Line)
    BY DEF LinesInv
  <2> QED
    BY <1>1, <2>1, TextsOf DEF LinesInv
<1>6. /\ assembled' \in Seq(Line) /\ Len(assembled') = n + Len(new)
      /\ \A i \in 1..(n + Len(new)) :
           assembled'[i] = IF i <= n THEN assembled[i] ELSE new[i - n]
  <2>1. /\ assembled \o new \in Seq(Line) /\ Len(assembled \o new) = n + Len(new)
        /\ \A i \in 1..(n + Len(new)) :
             (assembled \o new)[i] = IF i <= n THEN assembled[i] ELSE new[i - n]
    BY <1>4, <1>5, ConcatProperties
  <2> QED
    BY <1>1, <2>1
<1>7. \A i \in 1..Len(assembled') :
        \/ i \in 1..n /\ assembled'[i] = assembled[i]
        \/ i > n /\ assembled'[i].block = at - 1
  <2> SUFFICES ASSUME NEW i \in 1..(n + Len(new))
               PROVE  \/ i \in 1..n /\ assembled'[i] = assembled[i]
                      \/ i > n /\ assembled'[i].block = at - 1
    BY <1>6
  <2> HIDE DEF n
  <2>1. CASE i <= n
    BY <1>4, <1>5, <1>6, <2>1
  <2>2. CASE ~(i <= n)
    <3>1. i - n \in 1..Len(new) /\ i > n
      BY <1>4, <1>5, <2>2
    <3>2. assembled'[i] = new[i - n]
      BY <1>6, <2>2
    <3> QED
      BY <1>4, <3>1, <3>2
  <2> QED
    BY <2>1, <2>2
<1>8. Rising(assembled')
  <2> SUFFICES ASSUME NEW i \in 1..Len(assembled'), NEW j \in 1..Len(assembled'), i < j
               PROVE  assembled'[i].block <= assembled'[j].block
    BY DEF Rising
  <2>1. i \in Nat /\ j \in Nat
    BY <1>4, <1>5, <1>6
  <2>2. CASE j \in 1..n
    <3>1. i \in 1..n /\ assembled'[i] = assembled[i] /\ assembled'[j] = assembled[j]
      BY <1>5, <1>7, <2>1, <2>2
    <3> QED
      BY <1>5, <2>2, <3>1 DEF Rising
  <2>3. CASE j > n /\ assembled'[j].block = at - 1
    <3>1. \/ assembled'[i].block = at - 1
          \/ assembled'[i].block \in Nat /\ assembled'[i].block < at
      BY <1>5, <1>7
    <3> QED
      BY <1>2, <2>3, <3>1
  <2> QED
    BY <1>7, <2>2, <2>3
<1>9. \A i \in 1..Len(assembled') : assembled'[i].block < at'
  BY <1>1, <1>2, <1>5, <1>7
<1>10. lines' \in Seq(Line) /\ Rising(lines') /\ lines' = <<>>
  BY <1>1, <1>5, EmptyLines
<1> QED
  BY <1>1, <1>6, <1>8, <1>9, <1>10 DEF LinesInv

LEMMA LinesEndAssemble ==
  ASSUME DocInv, LinesInv, EndAssemble
  PROVE  LinesInv'
<1>1. pc = "assemble" /\ pc' = "clean" /\ at' = 1 /\ assembled' = assembled /\ lines' = lines
  BY DEF EndAssemble, text
<1>2. /\ assembled \in Seq(Line) /\ lines = <<>> /\ Rising(assembled)
      /\ Len(assembled) \in Nat
  BY <1>1, LenProperties DEF LinesInv
<1>3. WantedBefore(at)' = {}
  <2>1. \A i \in Wanted' : i \in 1..Len(assembled)
    BY <1>1 DEF Wanted, Heads
  <2>2. \A i \in Wanted' : ~(i < 1)
    BY <1>2, <2>1
  <2> QED
    BY <1>1, <2>2 DEF WantedBefore
<1>4. Heads(lines)' = {} /\ Len(lines') = 0
  BY <1>1, <1>2, EmptyLines
<1>5. Same(WantedBefore(at), Heads(lines), Texts(assembled), Texts(lines))'
  BY <1>3, <1>4, EmptyLines
<1>6. lines' \in Seq(Line) /\ Rising(lines')
  BY <1>1, <1>2, EmptyLines
<1> QED
  BY <1>1, <1>2, <1>4, <1>5, <1>6 DEF LinesInv

LEMMA LinesClean ==
  ASSUME DocInv, LinesInv, CleanLine
  PROVE  LinesInv'
<1> DEFINE x == assembled[at]
<1>1. /\ pc = "clean" /\ pc' = pc /\ at <= Len(assembled) /\ at' = at + 1
      /\ assembled' = assembled
      /\ lines' = IF Repeated(x.text) \/ PageNumber(x.text) THEN lines ELSE Append(lines, x)
  BY DEF CleanLine
<1>2. /\ assembled \in Seq(Line) /\ lines \in Seq(Line) /\ Rising(assembled) /\ Rising(lines)
      /\ \A i \in 1..Len(lines), j \in at..Len(assembled) :
           lines[i].block <= assembled[j].block
      /\ Same(WantedBefore(at), Heads(lines), Texts(assembled), Texts(lines))
  BY <1>1 DEF LinesInv
<1>3. Len(assembled) \in Nat /\ at \in 1..Len(assembled) /\ x \in Line
  <2>1. at \in Nat \ {0}
    BY DEF DocInv, DocTypes
  <2>2. Len(assembled) \in Nat
    BY <1>2, LenProperties
  <2>3. at \in 1..Len(assembled)
    BY <1>1, <2>1, <2>2
  <2> QED
    BY <1>2, <2>2, <2>3, ElementOfSeq
<1>4. /\ Len(lines) \in Nat /\ Heads(lines) \in SUBSET (1..Len(lines))
      /\ Append(lines, x) \in Seq(Line) /\ Len(Append(lines, x)) = Len(lines) + 1
      /\ \A i \in 1..Len(lines) : Append(lines, x)[i] = lines[i]
      /\ Append(lines, x)[Len(lines) + 1] = x
      /\ Heads(Append(lines, x)) = IF HeadingLevel(x.text) # 0
                                   THEN Heads(lines) \cup {Len(lines) + 1} ELSE Heads(lines)
  BY <1>2, <1>3, HeadsOfAppend
<1>5. /\ WantedBefore(at) \in SUBSET (1..(at - 1))
      /\ WantedBefore(at + 1) = IF at \in Wanted THEN WantedBefore(at) \cup {at}
                                ELSE WantedBefore(at)
  BY <1>2, <1>3, WantedGrows
<1>6. at \in Wanted <=> HeadingLevel(x.text) # 0 /\ ~Repeated(x.text)
  BY <1>3 DEF Wanted, Heads
<1>7. PageNumber(x.text) => HeadingLevel(x.text) = 0
  BY DEF PageNumber, HeadingLevel, Level
<1>8. at' <= Len(assembled') + 1
  BY <1>1, <1>3
<1>9. WantedBefore(at)' = WantedBefore(at + 1)
  <2>1. Wanted' = Wanted
    BY <1>1 DEF Wanted, Repeated
  <2> QED
    BY <1>1, <2>1 DEF WantedBefore
<1>10. CASE Repeated(x.text) \/ PageNumber(x.text)
  <2>1. lines' = lines /\ WantedBefore(at)' = WantedBefore(at)
    BY <1>1, <1>5, <1>6, <1>7, <1>9, <1>10
  <2>2. \A j \in at'..Len(assembled') : j \in at..Len(assembled)
    BY <1>1, <1>3
  <2>3. \A i \in 1..Len(lines'), j \in at'..Len(assembled') :
          lines'[i].block <= assembled'[j].block
    BY <1>1, <1>2, <2>1, <2>2
  <2>4. Same(WantedBefore(at), Heads(lines), Texts(assembled), Texts(lines))'
    BY <1>1, <1>2, <2>1
  <2> QED
    BY <1>1, <1>2, <1>8, <2>1, <2>3, <2>4 DEF LinesInv
<1>11. CASE ~(Repeated(x.text) \/ PageNumber(x.text))
  <2>1. lines' = Append(lines, x)
    BY <1>1, <1>11
  <2>2. lines' \in Seq(Line)
    BY <1>4, <2>1
  <2>3. Rising(lines')
    <3>1. \A i \in 1..Len(lines) : lines[i].block <= x.block
      BY <1>2, <1>3
    <3> HIDE DEF x
    <3> QED
      BY <1>2, <1>3, <2>1, <3>1, RisingAppend
  <2>4. \A i \in 1..Len(lines'), j \in at'..Len(assembled') :
          lines'[i].block <= assembled'[j].block
    <3> SUFFICES ASSUME NEW i \in 1..Len(lines'), NEW j \in (at + 1)..Len(assembled)
                 PROVE  lines'[i].block <= assembled[j].block
      BY <1>1
    <3>1. j \in at..Len(assembled) /\ at < j /\ j \in 1..Len(assembled)
      BY <1>3
    <3>2. CASE i \in 1..Len(lines)
      <4>1. lines'[i] = lines[i]
        BY <1>4, <2>1, <3>2
      <4> QED
        BY <1>2, <3>1, <3>2, <4>1
    <3>3. CASE i = Len(lines) + 1
      <4>1. lines'[i] = x
        BY <1>4, <2>1, <3>3
      <4> QED
        BY <1>2, <1>3, <3>1, <4>1 DEF Rising
    <3> QED
      BY <1>4, <2>1, <3>2, <3>3
  <2>5. Same(WantedBefore(at), Heads(lines), Texts(assembled), Texts(lines))'
    <3>1. /\ \A k \in Heads(lines) : Texts(lines')[k] = Texts(lines)[k]
          /\ Texts(lines')[Len(lines) + 1] = x.text
          /\ Texts(assembled)[at] = x.text
      <4>1. \A k \in 1..Len(lines') : Texts(lines')[k] = lines'[k].text
        BY DEF Texts
      <4>2. \A k \in 1..Len(lines) : Texts(lines)[k] = lines[k].text
        BY DEF Texts
      <4>3. Texts(assembled)[at] = x.text
        BY <1>3 DEF Texts
      <4>4. /\ \A k \in 1..Len(lines) : k \in 1..Len(lines') /\ lines'[k] = lines[k]
            /\ Len(lines) + 1 \in 1..Len(lines') /\ lines'[Len(lines) + 1] = x
        BY <1>4, <2>1
      <4> HIDE DEF x
      <4> QED
        BY <1>4, <4>1, <4>2, <4>3, <4>4
    <3> HIDE DEF x
    <3>2. CASE HeadingLevel(x.text) # 0
      <4>1. /\ WantedBefore(at)' = WantedBefore(at) \cup {at}
            /\ Heads(lines)' = Heads(lines) \cup {Len(lines) + 1}
        BY <1>4, <1>5, <1>6, <1>9, <1>11, <2>1, <3>2
      <4> DEFINE n == at - 1
                 p == Len(lines)
                 q == p + 1
                 S == WantedBefore(at)
                 T == Heads(lines)
                 s == Texts(assembled)
                 t == Texts(lines)
                 tt == Texts(lines')
      <4>2. /\ n \in Nat /\ S \in SUBSET (1..n) /\ at \in Nat /\ at > n
            /\ p \in Nat /\ T \in SUBSET (1..p) /\ q \in Nat /\ q > p
            /\ Same(S, T, s, t) /\ \A k \in T : tt[k] = t[k]
            /\ tt[q] = s[at]
        BY <1>2, <1>3, <1>4, <1>5, <3>1
      <4> HIDE DEF n, p, q, S, T, s, t, tt
      <4>3. Same(S \cup {at}, T \cup {q}, s, tt)
        BY <4>2, SameGrows
      <4> QED
        BY <1>1, <4>1, <4>3 DEF S, T, s, tt, p, q
    <3>3. CASE HeadingLevel(x.text) = 0
      <4>1. WantedBefore(at)' = WantedBefore(at) /\ Heads(lines)' = Heads(lines)
        BY <1>4, <1>5, <1>6, <1>9, <2>1, <3>3
      <4>2. Same(WantedBefore(at), Heads(lines), Texts(assembled), Texts(lines'))
        BY <1>2, <3>1, SameKept
      <4> QED
        BY <1>1, <4>1, <4>2
    <3> QED
      BY <3>2, <3>3
  <2> QED
    BY <1>1, <1>2, <1>8, <2>2, <2>3, <2>4, <2>5 DEF LinesInv
<1> QED
  BY <1>10, <1>11

LEMMA LinesEndClean ==
  ASSUME DocInv, LinesInv, EndClean
  PROVE  LinesInv'
<1>1. /\ pc = "clean" /\ pc' = "split" /\ assembled' = assembled /\ lines' = lines
      /\ at > Len(assembled)
  BY DEF EndClean
<1>2. Wanted' = Wanted
  BY <1>1 DEF Wanted, Repeated
<1>3. WantedBefore(at) = Wanted
  <2>1. Len(assembled) \in Nat /\ at \in Nat
    BY LenProperties DEF DocInv, DocTypes, LinesInv
  <2>2. \A i \in Wanted : i \in 1..Len(assembled)
    BY DEF Wanted, Heads
  <2>3. \A i \in Wanted : i < at
    BY <1>1, <2>1, <2>2
  <2> QED
    BY <2>3 DEF WantedBefore
<1>4. Same(Wanted, Heads(lines), Texts(assembled), Texts(lines))'
  BY <1>1, <1>2, <1>3 DEF LinesInv
<1> QED
  BY <1>1, <1>4 DEF LinesInv

LEMMA LinesKept ==
  ASSUME LinesInv, assembled' = assembled, lines' = lines,
         \/ pc \in {"parse", "ocr"} /\ pc' \in {"parse", "ocr", "assemble"}
         \/ pc \in {"split", "done"} /\ pc' \in {"split", "done"}
         \/ pc' = pc /\ at' = at
  PROVE  LinesInv'
<1>1. Wanted' = Wanted
  BY DEF Wanted, Repeated
<1>2. at' = at => WantedBefore(at)' = WantedBefore(at)
  BY <1>1 DEF WantedBefore
<1>3. CASE pc \in {"parse", "ocr"} /\ pc' \in {"parse", "ocr", "assemble"}
  <2>1. assembled' = <<>> /\ Len(<<>>) = 0
    BY <1>3 DEF LinesInv
  <2> QED
    BY <1>3, <2>1 DEF LinesInv
<1>4. CASE pc \in {"split", "done"} /\ pc' \in {"split", "done"}
  BY <1>1, <1>4 DEF LinesInv
<1>5. CASE pc' = pc /\ at' = at
  BY <1>1, <1>2, <1>5 DEF LinesInv
<1> QED
  BY <1>3, <1>4, <1>5

LEMMA LinesStep ==
  ASSUME DocInv, LinesInv, [Next]_vars
  PROVE  LinesInv'
<1>1. CASE ParseItem \/ EndParse \/ PassBlock \/ ReadBlock \/ MissBlock \/ EndOcr
  <2>1. /\ pc \in {"parse", "ocr"} /\ pc' \in {"parse", "ocr", "assemble"}
        /\ assembled' = assembled /\ lines' = lines
    BY <1>1 DEF ParseItem, EndParse, PassBlock, ReadBlock, MissBlock, EndOcr, text
  <2> QED
    BY <2>1, LinesKept
<1>2. CASE AssembleBlock
  BY <1>2, LinesAssemble
<1>3. CASE EndAssemble
  BY <1>3, LinesEndAssemble
<1>4. CASE CleanLine
  BY <1>4, LinesClean
<1>5. CASE EndClean
  BY <1>5, LinesEndClean
<1>6. CASE AddLine \/ OpenSection \/ EndSplit
  <2>1. /\ pc = "split" /\ pc' \in {"split", "done"}
        /\ assembled' = assembled /\ lines' = lines
    BY <1>6 DEF AddLine, OpenSection, EndSplit
  <2> QED
    BY <2>1, LinesKept
<1>7. CASE UNCHANGED vars
  <2>1. pc' = pc /\ at' = at /\ assembled' = assembled /\ lines' = lines
    BY <1>7 DEF vars, text
  <2> QED
    BY <2>1, LinesKept
<1> QED
  BY <1>1, <1>2, <1>3, <1>4, <1>5, <1>6, <1>7 DEF Next, PrepareNext

-----------------------------------------------------------------------------
\* Sections put together from lines.

LEMMA SectionOfLines ==
  ASSUME NEW ls \in Seq(Line), ls # <<>>, NEW title \in Titles, NEW way \in Seq(Titles)
  PROVE  LET x == Section(ls, title, way)
         IN  /\ x \in SectionType /\ x.heading = title /\ x.path = way
             /\ x.text = Texts(ls) /\ x.text \in Seq(Seq(Token))
             /\ x.source_block_start = ls[1].block
             /\ x.source_block_end = ls[Len(ls)].block
<1>1. Len(ls) \in Nat \ {0}
  BY EmptySeq
<1>2. Texts(ls) \in Seq(Seq(Token)) /\ ls[1].block \in Nat /\ ls[Len(ls)].block \in Nat
  BY <1>1, TextsOf
<1>3. Section(ls, title, way) =
        [heading |-> title, path |-> way, text |-> Texts(ls),
         source_block_start |-> ls[1].block, source_block_end |-> ls[Len(ls)].block]
  BY DEF Section, Texts
<1> HIDE DEF Titles
<1> QED
  BY <1>2, <1>3 DEF SectionType

LEMMA AppendSection ==
  ASSUME NEW ss \in Seq(SectionType), NEW x \in SectionType
  PROVE  /\ Append(ss, x) \in Seq(SectionType) /\ Len(Append(ss, x)) = Len(ss) + 1
         /\ Len(ss) \in Nat
         /\ \A i \in 1..Len(ss) : Append(ss, x)[i] = ss[i]
         /\ Append(ss, x)[Len(ss) + 1] = x
BY AppendProperties, LenProperties

\* The next section holds the lines from c + 1 to n.
LEMMA CoversMore ==
  ASSUME NEW ls \in Seq(Line), NEW ss \in Seq(SectionType), NEW x \in SectionType,
         NEW c \in 0..Len(ls), NEW n \in c..Len(ls), Covers(ls, ss, c),
         x.text = SubSeq(Texts(ls), c + 1, n)
  PROVE  Covers(ls, Append(ss, x), n)
<1> DEFINE ts == Texts(ls)
<1>1. ts \in Seq(Seq(Token)) /\ Len(ts) = Len(ls) /\ Len(ls) \in Nat
  BY TextsOf
<1>2. PICK d \in 0..c :
        Dropped(ls, d) /\ FlattenSeq(SectionTexts(ss)) = SubSeq(ts, d + 1, c)
  BY DEF Covers
<1>3. /\ Append(ss, x) \in Seq(SectionType) /\ Len(Append(ss, x)) = Len(ss) + 1
      /\ Len(ss) \in Nat
      /\ \A i \in 1..Len(ss) : Append(ss, x)[i] = ss[i]
      /\ Append(ss, x)[Len(ss) + 1] = x
  BY AppendSection
<1>4. SectionTexts(ss) \in Seq(Seq(Seq(Token))) /\ x.text \in Seq(Seq(Token))
      /\ Len(SectionTexts(ss)) = Len(ss)
  <2>1. \A i \in 1..Len(ss) : ss[i].text \in Seq(Seq(Token))
    <3>1. \A i \in 1..Len(ss) : ss[i] \in SectionType
      BY ElementOfSeq
    <3> QED
      BY <3>1 DEF SectionType
  <2> DEFINE m == Len(ss)
             e(i) == ss[i].text
  <2>2. m \in Nat /\ \A i \in 1..m : e(i) \in Seq(Seq(Token))
    BY <1>3, <2>1
  <2>3. SectionTexts(ss) = [i \in 1..m |-> e(i)]
    BY DEF SectionTexts
  <2>4. x.text \in Seq(Seq(Token))
    BY DEF SectionType
  <2>5. Len([i \in 1..m |-> e(i)]) = m
    BY <2>2
  <2> HIDE DEF m, e
  <2>6. [i \in 1..m |-> e(i)] \in Seq(Seq(Seq(Token)))
    BY <2>2, IsASeq
  <2> QED
    BY <2>3, <2>4, <2>5, <2>6 DEF m
<1>5. SectionTexts(Append(ss, x)) = Append(SectionTexts(ss), x.text)
  <2> DEFINE left == SectionTexts(Append(ss, x))
             right == Append(SectionTexts(ss), x.text)
  <2>1. left = [i \in 1..(Len(ss) + 1) |-> Append(ss, x)[i].text]
    BY <1>3 DEF SectionTexts
  <2>2. /\ right \in [1..(Len(ss) + 1) -> Seq(Seq(Token))]
        /\ \A i \in 1..Len(ss) : right[i] = SectionTexts(ss)[i]
        /\ right[Len(ss) + 1] = x.text
    <3>1. /\ right \in Seq(Seq(Seq(Token))) /\ Len(right) = Len(SectionTexts(ss)) + 1
          /\ \A i \in 1..Len(SectionTexts(ss)) : right[i] = SectionTexts(ss)[i]
          /\ right[Len(SectionTexts(ss)) + 1] = x.text
      BY <1>4, AppendProperties
    <3>2. right \in [1..Len(right) -> Seq(Seq(Token))]
      BY <3>1, LenProperties
    <3> HIDE DEF right
    <3> QED
      BY <1>4, <3>1, <3>2
  <2>3. \A i \in 1..Len(ss) : SectionTexts(ss)[i] = ss[i].text
    BY DEF SectionTexts
  <2>4. \A i \in 1..(Len(ss) + 1) : Append(ss, x)[i].text = right[i]
    <3> HIDE DEF right
    <3>1. ASSUME NEW i \in 1..Len(ss)
          PROVE  Append(ss, x)[i].text = right[i]
      BY <1>3, <2>2, <2>3
    <3>2. Append(ss, x)[Len(ss) + 1].text = right[Len(ss) + 1]
      BY <1>3, <2>2
    <3>3. \A i \in 1..(Len(ss) + 1) : i \in 1..Len(ss) \/ i = Len(ss) + 1
      BY <1>3
    <3> QED
      BY <3>1, <3>2, <3>3, Zenon
  <2> HIDE DEF right
  <2>5. right = [i \in 1..(Len(ss) + 1) |-> right[i]]
    BY <2>2
  <2> QED
    BY <2>1, <2>4, <2>5, Zenon DEF right
<1>6. FlattenSeq(SectionTexts(Append(ss, x))) = SubSeq(ts, d + 1, c) \o SubSeq(ts, c + 1, n)
  BY <1>2, <1>4, <1>5, FlattenAppend
<1>7. SubSeq(ts, d + 1, c) \o SubSeq(ts, c + 1, n) = SubSeq(ts, d + 1, n)
  <2> DEFINE m == d + 1
  <2>1. m \in 1..(Len(ts) + 1) /\ c \in (m - 1)..Len(ts) /\ n \in c..Len(ts)
    BY <1>1
  <2> HIDE DEF ts, m
  <2>2. SubSeq(ts, m, c) \o SubSeq(ts, c + 1, n) = SubSeq(ts, m, n)
    BY <1>1, <2>1, ConcatAdjacentSubSeq
  <2> QED
    BY <2>2 DEF m
<1>8. d \in 0..n
  BY <1>1
<1> QED
  BY <1>2, <1>6, <1>7, <1>8 DEF Covers

LEMMA OrderedMore ==
  ASSUME NEW ls \in Seq(Line), NEW ss \in Seq(SectionType), NEW x \in SectionType,
         NEW c \in 0..Len(ls), NEW n \in (c + 1)..Len(ls), Ordered(ls, ss, c), Rising(ls),
         x.source_block_start = ls[c + 1].block, x.source_block_end = ls[n].block
  PROVE  Ordered(ls, Append(ss, x), n)
<1> DEFINE more == Append(ss, x)
<1>1. /\ Len(more) = Len(ss) + 1 /\ Len(ss) \in Nat
      /\ \A i \in 1..Len(ss) : more[i] = ss[i]
      /\ more[Len(ss) + 1] = x
  BY AppendSection
<1> HIDE DEF more
<1>2. Len(ls) \in Nat /\ \A i \in 1..Len(ls) : ls[i].block \in Nat
  BY TextsOf
<1>3. ASSUME NEW i \in 1..Len(more)
      PROVE  /\ more[i].source_block_start <= more[i].source_block_end
             /\ i > 1 => more[i - 1].source_block_end <= more[i].source_block_start
             /\ \A j \in (n + 1)..Len(ls) : more[i].source_block_end <= ls[j].block
  <2>1. CASE i \in 1..Len(ss)
    <3>1. more[i] = ss[i] /\ (i > 1 => i - 1 \in 1..Len(ss) /\ more[i - 1] = ss[i - 1])
      BY <1>1, <2>1
    <3>2. \A j \in (n + 1)..Len(ls) : j \in (c + 1)..Len(ls)
      BY <1>2
    <3> QED
      BY <2>1, <3>1, <3>2 DEF Ordered
  <2>2. CASE i = Len(ss) + 1
    <3>1. more[i] = x
      BY <1>1, <2>2
    <3>2. x.source_block_start <= x.source_block_end
      <4>1. c + 1 \in 1..Len(ls) /\ n \in 1..Len(ls) /\ (c + 1 < n \/ c + 1 = n)
        BY <1>2
      <4> QED
        BY <1>2, <4>1 DEF Rising
    <3>3. ASSUME i > 1
          PROVE  more[i - 1].source_block_end <= x.source_block_start
      <4>1. i - 1 \in 1..Len(ss) /\ more[i - 1] = ss[i - 1]
        BY <1>1, <2>2, <3>3
      <4>2. c + 1 \in (c + 1)..Len(ls)
        BY <1>2
      <4> QED
        BY <4>1, <4>2 DEF Ordered
    <3>4. \A j \in (n + 1)..Len(ls) : x.source_block_end <= ls[j].block
      <4>1. \A j \in (n + 1)..Len(ls) : n \in 1..Len(ls) /\ j \in 1..Len(ls) /\ n < j
        BY <1>2
      <4> QED
        BY <4>1 DEF Rising
    <3> QED
      BY <3>1, <3>2, <3>3, <3>4
  <2> QED
    BY <1>1, <2>1, <2>2
<1> QED
  BY <1>3 DEF Ordered, more

\* Its first line is the only heading among them.
LEMMA OpensMore ==
  ASSUME NEW ls \in Seq(Line), NEW ss \in Seq(SectionType), NEW x \in SectionType,
         NEW c \in 0..Len(ls), NEW n \in (c + 1)..Len(ls), Opens(ls, ss, c),
         x.heading \in Token, x.text = SubSeq(Texts(ls), c + 1, n),
         c + 1 \in Heads(ls), \A j \in (c + 2)..n : j \notin Heads(ls)
  PROVE  Opens(ls, Append(ss, x), n)
<1> DEFINE more == Append(ss, x)
           m == Len(ss)
<1>1. /\ Len(more) = m + 1 /\ m \in Nat
      /\ \A i \in 1..m : more[i] = ss[i]
      /\ more[m + 1] = x
  BY AppendSection
<1> HIDE DEF more
<1>2. /\ Len(ls) \in Nat /\ Texts(ls) \in Seq(Seq(Token)) /\ Len(Texts(ls)) = Len(ls)
      /\ \A i \in 1..Len(ls) : Texts(ls)[i] = ls[i].text
  BY TextsOf
<1>3. /\ Len(x.text) = n - c
      /\ \A k \in 1..(n - c) : x.text[k] = ls[c + k].text
  <2>1. \A i \in (c + 1)..n : Texts(ls)[i] \in Seq(Token)
    BY <1>2
  <2> DEFINE l == c + 1
  <2>2. l \in Int /\ n \in Int /\ l <= n /\ \A i \in l..n : Texts(ls)[i] \in Seq(Token)
    BY <1>2, <2>1
  <2> HIDE DEF l
  <2>3. /\ Len(SubSeq(Texts(ls), l, n)) = n - l + 1
        /\ \A k \in 1..(n - l + 1) : SubSeq(Texts(ls), l, n)[k] = Texts(ls)[l + k - 1]
    BY <2>2, SubSeqProperties
  <2>4. n - l + 1 = n - c
    BY <1>2 DEF l
  <2>5. \A k \in 1..(n - c) : l + k - 1 = c + k /\ c + k \in 1..Len(ls)
    BY <1>2 DEF l
  <2> QED
    BY <1>2, <2>3, <2>4, <2>5 DEF l
<1>4. HeadsUpTo(ls, n) = HeadsUpTo(ls, c) \cup {c + 1}
      /\ HeadsUpTo(ls, c) \in SUBSET (1..c)
  <2>1. \A j \in Heads(ls) : j \in 1..Len(ls)
    BY DEF Heads
  <2>2. \A j \in Heads(ls) : j <= n <=> j <= c \/ j = c + 1
    BY <1>2, <2>1
  <2>3. \A j \in Heads(ls) : j <= c => j \in 1..c
    BY <1>2, <2>1
  <2> QED
    BY <2>2, <2>3 DEF HeadsUpTo
<1>5. OpenedIn(more) = OpenedIn(ss) \cup {m + 1} /\ OpenedIn(ss) \in SUBSET (1..m)
  <2>1. x.heading \notin {"none", "whole"}
    BY TokenAssumption
  <2>2. \A i \in 1..m : i \in OpenedIn(more) <=> i \in OpenedIn(ss)
    BY <1>1 DEF OpenedIn
  <2>3. m + 1 \in OpenedIn(more)
    BY <1>1, <2>1 DEF OpenedIn
  <2>4. \A i \in OpenedIn(more) : i \in 1..m \/ i = m + 1
    BY <1>1 DEF OpenedIn
  <2>5. OpenedIn(ss) \in SUBSET (1..m)
    BY DEF OpenedIn
  <2> HIDE DEF m
  <2> QED
    BY <2>2, <2>3, <2>4, <2>5
<1>6. /\ \A i \in OpenedIn(ss) : FirstTexts(more)[i] = FirstTexts(ss)[i]
      /\ FirstTexts(more)[m + 1] = ls[c + 1].text
  <2>1. /\ \A i \in 1..m : FirstTexts(ss)[i] = ss[i].text[1]
        /\ \A i \in 1..(m + 1) : FirstTexts(more)[i] = more[i].text[1]
    BY <1>1 DEF FirstTexts
  <2>2. x.text[1] = ls[c + 1].text
    BY <1>2, <1>3
  <2>3. FirstTexts(more)[m + 1] = ls[c + 1].text
    BY <1>1, <2>1, <2>2
  <2>4. ASSUME NEW i \in 1..m
        PROVE  FirstTexts(more)[i] = FirstTexts(ss)[i]
    <3>1. i \in 1..(m + 1)
      BY <1>1
    <3> HIDE DEF m
    <3> QED
      BY <1>1, <2>1, <3>1
  <2> QED
    BY <1>5, <2>3, <2>4
<1>7. Same(HeadsUpTo(ls, n), OpenedIn(more), Texts(ls), FirstTexts(more))
  <2> DEFINE S == HeadsUpTo(ls, c)
             T == OpenedIn(ss)
             s == Texts(ls)
             t == FirstTexts(ss)
             tt == FirstTexts(more)
             p == c + 1
             q == m + 1
  <2>1. /\ c \in Nat /\ S \in SUBSET (1..c) /\ p \in Nat /\ p > c
        /\ m \in Nat /\ T \in SUBSET (1..m) /\ q \in Nat /\ q > m
        /\ Same(S, T, s, t) /\ \A k \in T : tt[k] = t[k]
        /\ tt[q] = s[p]
    BY <1>1, <1>2, <1>4, <1>5, <1>6 DEF Opens
  <2> HIDE DEF m, S, T, s, t, tt, p, q
  <2>2. Same(S \cup {p}, T \cup {q}, s, tt)
    BY <2>1, SameGrows
  <2> QED
    BY <1>4, <1>5, <2>2 DEF S, T, s, tt, p, q
<1>8. ASSUME NEW i \in 2..Len(more) PROVE i \in OpenedIn(more)
  <2>1. \A k \in 2..m : k \in OpenedIn(ss)
    BY DEF Opens
  <2> HIDE DEF m
  <2>2. i \in 2..(m + 1)
    BY <1>1, <1>8
  <2>3. i = m + 1 \/ i \in 2..m
    BY <1>1, <2>2
  <2> QED
    BY <1>5, <2>1, <2>3
<1>9. ASSUME NEW i \in 1..Len(more), NEW k \in 2..Len(more[i].text)
       PROVE  HeadingLevel(more[i].text[k]) = 0
  <2>1. CASE i \in 1..m
    BY <1>1, <1>9, <2>1 DEF Opens
  <2>2. CASE i = m + 1
    <3>1. more[i] = x /\ k \in 2..(n - c)
      BY <1>1, <1>3, <1>9, <2>2
    <3>2. c + k \in (c + 2)..n /\ c + k \in 1..Len(ls) /\ k \in 1..(n - c)
      <4>1. c \in Nat /\ n \in Nat /\ n <= Len(ls) /\ k \in Nat /\ 2 <= k /\ k <= n - c
        BY <1>2, <3>1
      <4> QED
        BY <1>2, <4>1
    <3>3. c + k \notin Heads(ls)
      BY <3>2
    <3> QED
      BY <1>3, <3>1, <3>2, <3>3 DEF Heads
  <2> QED
    BY <1>1, <2>1, <2>2
<1> QED
  <2>1. \A i \in 2..Len(more) : i \in OpenedIn(more)
    BY <1>8
  <2>2. \A i \in 1..Len(more) : \A k \in 2..Len(more[i].text) : HeadingLevel(more[i].text[k]) = 0
    BY <1>9
  <2>3. Opens(ls, more, n)
    BY <1>7, <2>1, <2>2 DEF Opens
  <2> QED
    BY <2>3 DEF more

-----------------------------------------------------------------------------
\* The first section.

LEMMA NothingCovers ==
  ASSUME NEW ls \in Seq(Line), NEW n \in Nat
  PROVE  /\ Ordered(ls, <<>>, n) /\ Ways(<<>>)
         /\ Dropped(ls, n) => Covers(ls, <<>>, n)
         /\ (\A j \in 1..n : j \notin Heads(ls)) => Opens(ls, <<>>, n)
<1>1. Ordered(ls, <<>>, n) /\ Ways(<<>>)
  BY DEF Ordered, Ways
<1>2. ASSUME Dropped(ls, n) PROVE Covers(ls, <<>>, n)
  <2>1. SectionTexts(<<>>) = <<>>
    BY DEF SectionTexts
  <2>2. SubSeq(Texts(ls), n + 1, n) = <<>>
    <3> DEFINE m == n + 1
    <3>1. m \in Int /\ n \in Int /\ n < m
      OBVIOUS
    <3> HIDE DEF m
    <3>2. SubSeq(Texts(ls), m, n) = <<>>
      BY <3>1, SubSeqEmpty
    <3> QED
      BY <3>2 DEF m
  <2>3. n \in 0..n
    OBVIOUS
  <2> QED
    BY <1>2, <2>1, <2>2, <2>3, FlattenEmpty DEF Covers
<1>3. ASSUME \A j \in 1..n : j \notin Heads(ls) PROVE Opens(ls, <<>>, n)
  <2>1. HeadsUpTo(ls, n) = {}
    <3>1. \A j \in Heads(ls) : j \in Nat /\ j >= 1
      BY DEF Heads
    <3>2. \A j \in Heads(ls) : ~(j <= n)
      BY <1>3, <3>1
    <3> QED
      BY <3>2 DEF HeadsUpTo
  <2>2. OpenedIn(<<>>) = {} /\ Len(<<>>) = 0
    BY DEF OpenedIn
  <2>3. Same(HeadsUpTo(ls, n), OpenedIn(<<>>), Texts(ls), FirstTexts(<<>>))
    BY <2>1, <2>2, FS_EmptySet DEF Same
  <2> DEFINE none == <<>>
  <2>4. Len(none) = 0 /\ OpenedIn(none) = {}
    BY <2>2
  <2> HIDE DEF none
  <2>5. \A i \in 2..Len(none) : i \in OpenedIn(none)
    BY <2>4
  <2>6. \A i \in 1..Len(none) : \A k \in 2..Len(none[i].text) : HeadingLevel(none[i].text[k]) = 0
    BY <2>4
  <2>7. Opens(ls, none, n)
    BY <2>3, <2>5, <2>6 DEF Opens, none
  <2> QED
    BY <2>7 DEF none
<1> QED
  BY <1>1, <1>2, <1>3

\* A first section without a heading: the text before the first, or all of it.
LEMMA OpensFirst ==
  ASSUME NEW ls \in Seq(Line), NEW n \in 0..Len(ls), \A j \in 1..n : j \notin Heads(ls),
         NEW x \in SectionType, x.heading \in {"none", "whole"},
         x.text = SubSeq(Texts(ls), 1, n)
  PROVE  Opens(ls, <<x>>, n)
<1>1. HeadsUpTo(ls, n) = {}
  <2>1. \A j \in Heads(ls) : j \in Nat /\ j >= 1
    BY DEF Heads
  <2>2. \A j \in Heads(ls) : ~(j <= n)
    BY <2>1
  <2> QED
    BY <2>2 DEF HeadsUpTo
<1>2. Len(<<x>>) = 1 /\ <<x>>[1] = x
  OBVIOUS
<1>3. OpenedIn(<<x>>) = {}
  BY <1>2 DEF OpenedIn
<1>4. /\ Len(x.text) = n
      /\ \A k \in 1..n : x.text[k] = ls[k].text /\ k \in 1..Len(ls)
  <2>1. /\ Len(ls) \in Nat /\ Len(Texts(ls)) = Len(ls)
        /\ \A i \in 1..Len(ls) : Texts(ls)[i] = ls[i].text /\ Texts(ls)[i] \in Seq(Token)
    BY TextsOf
  <2>2. 1 \in Int /\ n \in Int /\ \A i \in 1..n : i \in 1..Len(ls) /\ Texts(ls)[i] \in Seq(Token)
    BY <2>1
  <2>3. /\ Len(SubSeq(Texts(ls), 1, n)) = IF 1 <= n THEN n - 1 + 1 ELSE 0
        /\ \A k \in 1..(n - 1 + 1) : SubSeq(Texts(ls), 1, n)[k] = Texts(ls)[1 + k - 1]
    BY <2>2, SubSeqProperties
  <2>4. n - 1 + 1 = n /\ \A k \in 1..n : 1 + k - 1 = k
    BY <2>1
  <2> QED
    BY <2>1, <2>2, <2>3, <2>4
<1>5. \A k \in 2..n : k \in 1..n
  OBVIOUS
<1>6. \A k \in 2..Len(x.text) : HeadingLevel(x.text[k]) = 0
  BY <1>4, <1>5 DEF Heads
<1> QED
  <2> DEFINE one == <<x>>
  <2>1. Len(one) = 1 /\ \A i \in 1..Len(one) : one[i] = x
    BY <1>2
  <2>2. Cardinality(HeadsUpTo(ls, n)) = 0 /\ Cardinality(OpenedIn(one)) = 0
    BY <1>1, <1>3, FS_EmptySet
  <2>3. Same(HeadsUpTo(ls, n), OpenedIn(one), Texts(ls), FirstTexts(one))
    BY <1>1, <2>2 DEF Same
  <2> HIDE DEF one
  <2>4. \A i \in 1..Len(one) : \A k \in 2..Len(one[i].text) : HeadingLevel(one[i].text[k]) = 0
    BY <1>6, <2>1
  <2> QED
    BY <2>1, <2>2, <2>3, <2>4 DEF Opens, one

-----------------------------------------------------------------------------
\* The way to a section.

LEMMA LevelIsNat == \A t : Level(t) \in 0..3
BY DEF Level

\* Every level above a heading's occurs before it when none is skipped.
LEMMA LevelsOccur ==
  ASSUME NEW hs \in Seq(Titles), NEW i \in 1..Len(hs), Skipless(hs, i),
         NEW k \in 1..Level(hs[i])
  PROVE  LET places == {j \in 1..i : Level(hs[j]) = k}
         IN  Max(places) \in places
<1> DEFINE Good == {n \in Nat : n + 1 \in 1..Len(hs) /\ Skipless(hs, n + 1) =>
                      \A l \in 1..Level(hs[n + 1]) : \E j \in 1..(n + 1) : Level(hs[j]) = l}
<1>1. \A t : Level(t) \in Nat
  BY LevelIsNat
<1>2. 0 \in Good
  <2> SUFFICES ASSUME Skipless(hs, 1), NEW l \in 1..Level(hs[1])
               PROVE  \E j \in 1..1 : Level(hs[j]) = l
    OBVIOUS
  <2>1. Level(hs[1]) <= 1
    BY DEF Skipless
  <2>2. Level(hs[1]) \in Nat
    BY <1>1
  <2>3. l = Level(hs[1])
    BY <2>1, <2>2
  <2> QED
    BY <2>3
<1>3. ASSUME NEW n \in Nat, n \in Good
      PROVE  n + 1 \in Good
  <2> DEFINE m == n + 1
  <2> SUFFICES ASSUME m + 1 \in 1..Len(hs), Skipless(hs, m + 1), NEW l \in 1..Level(hs[m + 1])
               PROVE  \E j \in 1..(m + 1) : Level(hs[j]) = l
    OBVIOUS
  <2>1. m \in Nat /\ m \in 1..Len(hs) /\ m + 1 > 1 /\ m + 1 - 1 = m /\ m + 1 \in 1..(m + 1)
    OBVIOUS
  <2>2. Skipless(hs, m)
    BY <2>1 DEF Skipless
  <2>3. \A y \in 1..Level(hs[m]) : \E j \in 1..m : Level(hs[j]) = y
    BY <1>3, <2>1, <2>2
  <2> HIDE DEF m
  <2>4. Level(hs[m + 1]) \in Nat /\ Level(hs[m]) \in Nat
    BY <1>1
  <2>5. CASE l = Level(hs[m + 1])
    BY <2>1, <2>5
  <2>6. CASE l # Level(hs[m + 1])
    <3>1. Level(hs[m + 1]) <= 1 \/ Level(hs[m]) >= Level(hs[m + 1]) - 1
      BY <2>1 DEF Skipless
    <3>2. l \in 1..Level(hs[m])
      BY <2>4, <2>6, <3>1
    <3>3. PICK j \in 1..m : Level(hs[j]) = l
      BY <2>3, <3>2
    <3> QED
      BY <2>1, <3>3
  <2> QED
    BY <2>5, <2>6
<1> HIDE DEF Good
<1>4. \A n \in Nat : n \in Good
  BY <1>2, <1>3, SetInduction
<1>5. PICK j \in 1..i : Level(hs[j]) = k
  <2>1. i - 1 \in Nat /\ i - 1 + 1 = i
    OBVIOUS
  <2>2. i - 1 \in Good
    BY <1>4, <2>1
  <2> QED
    BY <2>1, <2>2 DEF Good
<1> DEFINE places == {m \in 1..i : Level(hs[m]) = k}
<1>6. places \in SUBSET Nat /\ places # {} /\ i \in Nat /\ \A m \in places : m <= i
  BY <1>5
<1> HIDE DEF places
<1>7. PICK m \in places : \A l \in places : l <= m
  BY <1>6, Largest
<1>8. Max(places) = m
  BY <1>6, <1>7, MaxIs
<1> QED
  BY <1>7, <1>8 DEF places

\* Another heading changes nothing for those before it.
LEMMA WayKept ==
  ASSUME NEW hs \in Seq(Titles), NEW t \in Titles, NEW i \in 1..Len(hs)
  PROVE  /\ Skipless(Append(hs, t), i) <=> Skipless(hs, i)
         /\ Skipless(hs, i) => Way(Append(hs, t), i) = Way(hs, i)
<1> DEFINE more == Append(hs, t)
<1>1. Len(hs) \in Nat /\ \A j \in 1..i : j \in 1..Len(hs) /\ more[j] = hs[j]
  BY AppendProperties
<1>2. \A j \in 1..i : j > 1 => j - 1 \in 1..i
  BY <1>1
<1> HIDE DEF more
<1>3. Skipless(more, i) <=> Skipless(hs, i)
  BY <1>1, <1>2 DEF Skipless
<1>4. ASSUME Skipless(hs, i) PROVE Way(more, i) = Way(hs, i)
  <2>1. more[i] = hs[i]
    BY <1>1
  <2>2. ASSUME NEW k \in 1..Level(hs[i])
        PROVE  more[Max({j \in 1..i : Level(more[j]) = k})]
                 = hs[Max({j \in 1..i : Level(hs[j]) = k})]
    <3>1. {j \in 1..i : Level(more[j]) = k} = {j \in 1..i : Level(hs[j]) = k}
      BY <1>1
    <3> DEFINE m == Max({j \in 1..i : Level(hs[j]) = k})
    <3>2. m \in {j \in 1..i : Level(hs[j]) = k}
      BY <1>4, LevelsOccur
    <3> HIDE DEF m
    <3>3. more[m] = hs[m]
      BY <1>1, <3>2
    <3> QED
      BY <3>1, <3>3 DEF m
  <2> QED
    BY <2>1, <2>2, Zenon DEF Way
<1> QED
  BY <1>3, <1>4 DEF more

\* RebuildPath makes the way to the next heading out of the way to the last.
LEMMA NextWay ==
  ASSUME NEW hs \in Seq(Titles), NEW t \in Token, Level(t) # 0, path \in Seq(Token),
         Len(hs) # 0 /\ Level(hs[Len(hs)]) > 0 /\ Skipless(hs, Len(hs)) =>
           path = Way(hs, Len(hs)),
         Skipless(Append(hs, t), Len(hs) + 1)
  PROVE  RebuildPath(Level(t), t) = Way(Append(hs, t), Len(hs) + 1)
<1> DEFINE m == Len(hs)
           more == Append(hs, t)
           l == Level(t)
<1>1. /\ m \in Nat /\ m + 1 \in 1..(m + 1) /\ t \in Titles
      /\ \A j \in 1..m : more[j] = hs[j] /\ j \in 1..(m + 1)
      /\ more[m + 1] = t
  <2>1. t \in Titles
    BY DEF Titles
  <2> QED
    BY <2>1, AppendProperties, LenProperties
<1> HIDE DEF more, m, l
<1>2. l \in Nat /\ l >= 1
  BY LevelIsNat DEF l
<1>3. Max({j \in 1..(m + 1) : Level(more[j]) = l}) = m + 1
  <2> DEFINE places == {j \in 1..(m + 1) : Level(more[j]) = l}
  <2>1. places \in SUBSET Nat /\ m + 1 \in places /\ \A j \in places : j <= m + 1
    BY <1>1 DEF l
  <2> HIDE DEF places
  <2>2. Max(places) = m + 1
    BY <2>1, MaxIs
  <2> QED
    BY <2>2 DEF places
<1>4. Way(more, m + 1) = [k \in 1..l |-> more[Max({j \in 1..(m + 1) : Level(more[j]) = k})]]
  BY <1>1 DEF Way, l
<1>5. CASE l = 1
  <2>1. Way(more, m + 1) = [k \in 1..1 |-> t]
    <3>1. \A k \in 1..1 : more[Max({j \in 1..(m + 1) : Level(more[j]) = k})] = t
      BY <1>1, <1>3, <1>5
    <3> QED
      BY <1>4, <1>5, <3>1
  <2>2. RebuildPath(l, t) = <<t>>
    BY <1>5 DEF RebuildPath
  <2>3. <<t>> = [k \in 1..1 |-> t]
    OBVIOUS
  <2> QED
    BY <2>1, <2>2, <2>3 DEF l, more, m
<1>6. CASE l # 1
  <2>1. /\ m + 1 > 1 /\ m \in 1..m
        /\ Level(hs[m]) >= l - 1
    <3>1. /\ m + 1 > 1
          /\ Level(more[m + 1 - 1]) >= l - 1
      BY <1>1, <1>2, <1>6 DEF Skipless, more, m, l
    <3>2. m \in 1..m /\ m + 1 - 1 = m
      BY <1>1, <3>1
    <3> QED
      BY <1>1, <3>1, <3>2
  <2>2. Level(hs[m]) \in Nat /\ Level(hs[m]) > 0
    BY <1>2, <1>6, <2>1, LevelIsNat
  <2>3. Skipless(hs, m)
    <3>1. Skipless(more, m)
      <4>1. \A j \in 1..m : j \in 1..(m + 1)
        BY <1>1
      <4> QED
        BY <4>1 DEF Skipless, more, m
    <3> QED
      BY <1>1, <2>1, <3>1, WayKept DEF more, m
  <2>4. path = Way(hs, m)
    BY <1>1, <2>1, <2>2, <2>3 DEF m
  <2>5. Len(path) = Level(hs[m])
        /\ \A k \in 1..(l - 1) : k \in 1..Level(hs[m]) /\
             path[k] = hs[Max({j \in 1..m : Level(hs[j]) = k})]
    BY <1>2, <2>1, <2>2, <2>4 DEF Way
  <2>6. RebuildPath(l, t) = Append(SubSeq(path, 1, l - 1), t)
    BY <1>2, <1>6, <2>1, <2>2, <2>5 DEF RebuildPath
  <2> DEFINE left == Append(SubSeq(path, 1, l - 1), t)
  <2>7. /\ left \in Seq(Token) /\ Len(left) = l /\ left[l] = t
        /\ \A k \in 1..(l - 1) : left[k] = path[k]
    <3> DEFINE front == SubSeq(path, 1, l - 1)
    <3>1. front \in Seq(Token) /\ Len(front) = l - 1 /\ \A k \in 1..(l - 1) : front[k] = path[k]
      BY <1>2, <2>1, <2>2, <2>5
    <3>2. left = Append(front, t)
      OBVIOUS
    <3> HIDE DEF front, left
    <3>3. /\ left \in Seq(Token) /\ Len(left) = l - 1 + 1
          /\ \A k \in 1..(l - 1) : left[k] = front[k] /\ left[l - 1 + 1] = t
      BY <3>1, <3>2, AppendProperties
    <3>4. left[Len(front) + 1] = t
      BY <3>1, <3>2, AppendProperties
    <3>5. Len(front) + 1 = l /\ l - 1 + 1 = l
      BY <1>2, <3>1
    <3> QED
      BY <3>1, <3>3, <3>4, <3>5
  <2>8. ASSUME NEW k \in 1..l
        PROVE  left[k] = more[Max({j \in 1..(m + 1) : Level(more[j]) = k})]
    <3>1. CASE k = l
      BY <1>1, <1>3, <2>7, <3>1
    <3>2. CASE k # l
      <4>1. k \in 1..(l - 1) /\ k \in 1..Level(hs[m])
        <5>1. k \in 1..(l - 1)
          BY <1>2, <3>2
        <5> QED
          BY <2>5, <5>1
      <4>2. {j \in 1..(m + 1) : Level(more[j]) = k} = {j \in 1..m : Level(hs[j]) = k}
        <5>1. \A j \in 1..(m + 1) : j \in 1..m \/ j = m + 1
          BY <1>1
        <5>2. Level(more[m + 1]) # k
          BY <1>1, <3>2 DEF l
        <5> QED
          BY <1>1, <5>1, <5>2
      <4> DEFINE x == Max({j \in 1..m : Level(hs[j]) = k})
      <4>3. x \in {j \in 1..m : Level(hs[j]) = k}
        BY <2>1, <2>3, <4>1, LevelsOccur DEF m
      <4> HIDE DEF x, left
      <4>4. more[x] = hs[x]
        BY <1>1, <4>3
      <4>5. left[k] = hs[x]
        BY <2>5, <2>7, <4>1 DEF x
      <4> QED
        BY <4>2, <4>4, <4>5 DEF x
    <3> QED
      BY <3>1, <3>2
  <2>9. left = [k \in 1..l |-> left[k]]
    <3> HIDE DEF left
    <3> QED
      BY <2>7
  <2> HIDE DEF left
  <2>10. left = Way(more, m + 1)
    BY <1>4, <2>8, <2>9, Zenon
  <2> QED
    BY <2>6, <2>10 DEF left, l, more, m
<1> QED
  BY <1>5, <1>6

-----------------------------------------------------------------------------
\* The splitter's steps.

LEMMA CurrentLines ==
  ASSUME DocInv, LinesInv, SplitInv, pc = "split"
  PROVE  /\ lines \in Seq(Line) /\ Rising(lines) /\ Len(lines) \in Nat /\ at \in Nat \ {0}
         /\ Cut \in 0..Len(lines) /\ at - 1 \in Cut..Len(lines)
         /\ current \in Seq(Line) /\ Len(current) = at - 1 - Cut
         /\ \A i \in 1..Len(current) : current[i] = lines[Cut + i]
         /\ Texts(current) = SubSeq(Texts(lines), Cut + 1, at - 1)
         /\ current # <<>> => /\ Cut + 1 <= at - 1
                              /\ current[1] = lines[Cut + 1]
                              /\ current[Len(current)] = lines[at - 1]
<1>1. /\ lines \in Seq(Line) /\ Rising(lines) /\ Len(lines) \in Nat
      /\ current \in Seq(Line) /\ at \in Nat \ {0}
      /\ at <= Len(lines) + 1 /\ Cut \in Nat /\ current = SubSeq(lines, Cut + 1, at - 1)
  <2>1. lines \in Seq(Line)
    BY DEF LinesInv
  <2> QED
    BY <2>1, LenProperties DEF DocInv, DocTypes, LinesInv, SplitInv, CurrentInv
<1>2. Len(current) \in Nat /\ Cut = at - 1 - Len(current)
  BY <1>1, LenProperties DEF Cut
<1> DEFINE c == Cut
           l == c + 1
           n == at - 1
<1> HIDE DEF c
<1>3. c \in 0..Len(lines) /\ n \in c..Len(lines) /\ Len(current) = n - c
  BY <1>1, <1>2 DEF c
<1>4. \A i \in 1..(n - c) : current[i] = lines[c + i] /\ c + i \in 1..Len(lines)
  <2>1. l \in Int /\ n \in Int /\ \A i \in l..n : lines[i] \in Line
    BY <1>1, <1>3
  <2>2. current = SubSeq(lines, l, n)
    BY <1>1 DEF c
  <2> HIDE DEF l, n
  <2>3. \A i \in 1..(n - l + 1) : SubSeq(lines, l, n)[i] = lines[l + i - 1]
    BY <2>1, SubSeqProperties
  <2>4. n - l + 1 = n - c /\ \A i \in 1..(n - c) : l + i - 1 = c + i /\ c + i \in 1..Len(lines)
    BY <1>1, <1>3 DEF l, n
  <2> QED
    BY <2>2, <2>3, <2>4
<1>5. Texts(current) = SubSeq(Texts(lines), l, n)
  <2> DEFINE s == Texts(current)
             ts == Texts(lines)
             t == SubSeq(ts, l, n)
  <2>1. /\ s \in Seq(Seq(Token)) /\ Len(s) = n - c
        /\ \A i \in 1..(n - c) : s[i] = current[i].text
    BY <1>1, <1>3, TextsOf
  <2>2. /\ ts \in Seq(Seq(Token))
        /\ \A i \in 1..Len(lines) : ts[i] = lines[i].text /\ ts[i] \in Seq(Token)
    BY <1>1, TextsOf
  <2>3. l \in Int /\ n \in Int /\ \A i \in l..n : ts[i] \in Seq(Token)
    BY <1>1, <1>3, <2>2
  <2> HIDE DEF l, n, s, ts
  <2>4. /\ t \in Seq(Seq(Token)) /\ Len(t) = IF l <= n THEN n - l + 1 ELSE 0
        /\ \A i \in 1..(n - l + 1) : t[i] = ts[l + i - 1]
    BY <2>3, SubSeqProperties
  <2>5. /\ n - l + 1 = n - c /\ (IF l <= n THEN n - l + 1 ELSE 0) = n - c
        /\ \A i \in 1..(n - c) : l + i - 1 = c + i
    BY <1>1, <1>3 DEF l, n
  <2> HIDE DEF t
  <2>6. \A i \in 1..Len(s) : s[i] = t[i]
    <3> SUFFICES ASSUME NEW i \in 1..(n - c) PROVE s[i] = t[i]
      BY <2>1
    <3>1. s[i] = lines[c + i].text
      BY <1>4, <2>1
    <3>2. t[i] = ts[c + i]
      <4>1. i \in 1..(n - l + 1) /\ l + i - 1 = c + i
        BY <2>5
      <4> QED
        BY <2>4, <4>1
    <3>3. ts[c + i] = lines[c + i].text
      BY <1>4, <2>2
    <3> QED
      BY <3>1, <3>2, <3>3
  <2>7. s = t
    BY <2>1, <2>4, <2>5, <2>6, SeqEqual
  <2> QED
    BY <2>7 DEF s, t, ts
<1>6. ASSUME current # <<>>
      PROVE  l <= n /\ current[1] = lines[l] /\ current[Len(current)] = lines[n]
  <2>1. Len(current) # 0
    BY <1>1, <1>6, EmptySeq
  <2>2. /\ 1 \in 1..(n - c) /\ n - c \in 1..(n - c) /\ c + (n - c) = n
    BY <1>1, <1>2, <1>3, <2>1
  <2> HIDE DEF n
  <2> QED
    BY <1>3, <1>4, <2>2
<1> QED
  BY <1>1, <1>3, <1>4, <1>5, <1>6 DEF c

LEMMA TokensAreTitles ==
  /\ Token \subseteq Titles /\ "none" \in Titles /\ "whole" \in Titles
  /\ Seq(Token) \subseteq Seq(Titles)
  /\ "none" \notin Token /\ "whole" \notin Token
  /\ Level("none") = 0 /\ Level("whole") = 0
<1>1. Token \subseteq Titles
  BY DEF Titles
<1>2. Seq(Token) \subseteq Seq(Titles)
  BY <1>1, SeqMonotonic
<1>3. "none" \notin Token /\ "whole" \notin Token
  BY TokenAssumption
<1> QED
  BY <1>1, <1>2, <1>3 DEF Titles, Level

LEMMA HeadingsOf ==
  ASSUME NEW ss \in Seq(SectionType)
  PROVE  /\ Headings(ss) \in Seq(Titles) /\ Len(Headings(ss)) = Len(ss) /\ Len(ss) \in Nat
         /\ \A i \in 1..Len(ss) : Headings(ss)[i] = ss[i].heading
<1> DEFINE m == Len(ss)
           e(i) == ss[i].heading
<1>1. m \in Nat /\ \A i \in 1..m : e(i) \in Titles
  <2>1. m \in Nat /\ \A i \in 1..m : ss[i] \in SectionType
    BY LenProperties, ElementOfSeq
  <2> QED
    BY <2>1 DEF SectionType
<1>2. Headings(ss) = [i \in 1..m |-> e(i)]
  BY DEF Headings
<1>3. Len([i \in 1..m |-> e(i)]) = m /\ \A i \in 1..m : [j \in 1..m |-> e(j)][i] = e(i)
  BY <1>1
<1> HIDE DEF m, e
<1>4. [i \in 1..m |-> e(i)] \in Seq(Titles)
  BY <1>1, IsASeq
<1> QED
  BY <1>1, <1>2, <1>3, <1>4 DEF m, e

LEMMA HeadingsMore ==
  ASSUME NEW ss \in Seq(SectionType), NEW x \in SectionType
  PROVE  Headings(Append(ss, x)) = Append(Headings(ss), x.heading)
<1> DEFINE more == Append(ss, x)
           left == Headings(more)
           hs == Headings(ss)
           right == Append(hs, x.heading)
<1>1. /\ more \in Seq(SectionType) /\ Len(more) = Len(ss) + 1 /\ Len(ss) \in Nat
      /\ \A i \in 1..Len(ss) : more[i] = ss[i]
      /\ more[Len(ss) + 1] = x
  BY AppendSection
<1>2. /\ hs \in Seq(Titles) /\ Len(hs) = Len(ss)
      /\ \A i \in 1..Len(ss) : hs[i] = ss[i].heading
  BY HeadingsOf
<1> HIDE DEF more
<1>3. /\ left \in Seq(Titles) /\ Len(left) = Len(ss) + 1
      /\ \A i \in 1..(Len(ss) + 1) : left[i] = more[i].heading
  BY <1>1, HeadingsOf
<1> HIDE DEF hs, left
<1>4. x.heading \in Titles
  BY DEF SectionType
<1>5. /\ right \in Seq(Titles) /\ Len(right) = Len(ss) + 1
      /\ \A i \in 1..Len(ss) : right[i] = hs[i]
      /\ right[Len(ss) + 1] = x.heading
  <2>1. /\ right \in Seq(Titles) /\ Len(right) = Len(hs) + 1
        /\ \A i \in 1..Len(hs) : right[i] = hs[i]
        /\ right[Len(hs) + 1] = x.heading
    BY <1>2, <1>4, AppendProperties
  <2> HIDE DEF right
  <2> QED
    BY <1>2, <2>1
<1> HIDE DEF right
<1>6. \A i \in 1..Len(left) : left[i] = right[i]
  <2>1. \A i \in 1..Len(left) : i \in 1..Len(ss) \/ i = Len(ss) + 1
    BY <1>1, <1>3
  <2>2. ASSUME NEW i \in 1..Len(ss)
        PROVE  left[i] = right[i]
    <3>1. i \in 1..(Len(ss) + 1)
      BY <1>1
    <3> QED
      BY <1>1, <1>2, <1>3, <1>5, <3>1
  <2>3. left[Len(ss) + 1] = right[Len(ss) + 1]
    BY <1>1, <1>3, <1>5
  <2> QED
    BY <2>1, <2>2, <2>3
<1>7. left = right
  BY <1>3, <1>5, <1>6, SeqEqual
<1> QED
  BY <1>7 DEF left, right, hs, more

LEMMA WaysMore ==
  ASSUME NEW ss \in Seq(SectionType), NEW x \in SectionType, Ways(ss),
         LET hs == Append(Headings(ss), x.heading)
         IN  Level(x.heading) > 0 /\ Skipless(hs, Len(hs)) => x.path = Way(hs, Len(hs))
  PROVE  Ways(Append(ss, x))
<1> DEFINE more == Append(ss, x)
           hs == Headings(ss)
           t == x.heading
           m == Len(ss)
<1>1. /\ Len(more) = m + 1 /\ m \in Nat
      /\ \A i \in 1..m : more[i] = ss[i]
      /\ more[m + 1] = x
  BY AppendSection
<1>2. hs \in Seq(Titles) /\ Len(hs) = m /\ t \in Titles
  BY HeadingsOf DEF SectionType
<1>3. Headings(more) = Append(hs, t) /\ Len(Append(hs, t)) = m + 1
  BY <1>2, HeadingsMore
<1>4. Level(t) > 0 /\ Skipless(Append(hs, t), m + 1) => x.path = Way(Append(hs, t), m + 1)
  BY <1>3
<1> HIDE DEF more, hs, t, m
<1>5. ASSUME NEW i \in 1..(m + 1), Level(more[i].heading) > 0, Skipless(Headings(more), i)
      PROVE  more[i].path = Way(Headings(more), i)
  <2>1. CASE i \in 1..m
    <3>1. i \in 1..Len(hs)
      BY <1>2, <2>1
    <3>2. Skipless(hs, i) /\ Way(Append(hs, t), i) = Way(hs, i)
      BY <1>2, <1>3, <1>5, <3>1, WayKept
    <3>3. ss[i].path = Way(hs, i)
      BY <1>1, <1>5, <2>1, <3>2 DEF Ways, hs, m
    <3> QED
      BY <1>1, <1>3, <2>1, <3>2, <3>3
  <2>2. CASE i = m + 1
    BY <1>1, <1>3, <1>4, <1>5, <2>2 DEF t
  <2> QED
    BY <1>1, <2>1, <2>2
<1> QED
  BY <1>1, <1>5 DEF Ways, more

\* The current section is put with the others.
LEMMA FlushCurrent ==
  ASSUME DocInv, LinesInv, SplitInv, pc = "split", current # <<>>
  PROVE  LET ss == Append(sections, Section(current, heading, path))
         IN  /\ ss \in Seq(SectionType) /\ Ways(ss)
             /\ Covers(lines, ss, at - 1) /\ Ordered(lines, ss, at - 1)
             /\ Opens(lines, ss, at - 1)
             /\ Headings(ss) = Append(Headings(sections), heading)
<1> DEFINE x == Section(current, heading, path)
           ss == Append(sections, x)
           c == Cut
           n == at - 1
<1>1. /\ lines \in Seq(Line) /\ Rising(lines) /\ Len(lines) \in Nat
      /\ c \in 0..Len(lines) /\ n \in c..Len(lines) /\ n \in (c + 1)..Len(lines)
      /\ current \in Seq(Line)
      /\ Texts(current) = SubSeq(Texts(lines), c + 1, n)
      /\ current[1] = lines[c + 1] /\ current[Len(current)] = lines[n]
  <2>1. /\ lines \in Seq(Line) /\ Rising(lines) /\ Len(lines) \in Nat
        /\ c \in 0..Len(lines) /\ n \in c..Len(lines)
        /\ current \in Seq(Line)
        /\ Texts(current) = SubSeq(Texts(lines), c + 1, n)
        /\ c + 1 <= n
        /\ current[1] = lines[c + 1] /\ current[Len(current)] = lines[n]
    BY CurrentLines
  <2> HIDE DEF c, n
  <2> QED
    BY <2>1
<1>2. /\ heading \in Titles /\ path \in Seq(Titles) /\ sections \in Seq(SectionType)
      /\ heading \in Token \cup {"none"} /\ Ways(sections)
  BY TokensAreTitles DEF SplitInv
<1>3. CurrentInv /\ Covers(lines, sections, c) /\ Ordered(lines, sections, c)
      /\ Opens(lines, sections, c)
  BY DEF SplitInv, Cover
<1>4. /\ x \in SectionType /\ x.heading = heading /\ x.path = path
      /\ x.text = Texts(current)
      /\ x.source_block_start = current[1].block
      /\ x.source_block_end = current[Len(current)].block
  BY <1>1, <1>2, SectionOfLines
<1>5. heading = "none" => /\ c = 0 /\ sections = <<>>
                          /\ \A j \in 1..n : j \notin Heads(lines)
  BY <1>3 DEF CurrentInv
<1>6. heading # "none" => /\ c + 1 \in Heads(lines)
                          /\ \A j \in (c + 2)..n : j \notin Heads(lines)
                          /\ LET hs == Append(Headings(sections), heading)
                             IN  Skipless(hs, Len(hs)) => path = Way(hs, Len(hs))
  BY <1>3 DEF CurrentInv
<1> HIDE DEF x, c, n
<1>7. ss \in Seq(SectionType)
  BY <1>2, <1>4, AppendSection
<1>8. Covers(lines, ss, n)
  BY <1>1, <1>2, <1>3, <1>4, CoversMore
<1>9. Ordered(lines, ss, n)
  BY <1>1, <1>2, <1>3, <1>4, OrderedMore
<1>10. Opens(lines, ss, n)
  <2>1. CASE heading = "none"
    <3>1. ss = <<x>>
      BY <1>5, <2>1
    <3>2. n \in 0..Len(lines) /\ x.heading \in {"none", "whole"}
          /\ x.text = SubSeq(Texts(lines), 1, n)
      BY <1>1, <1>4, <1>5, <2>1
    <3> QED
      BY <1>1, <1>4, <1>5, <2>1, <3>1, <3>2, OpensFirst
  <2>2. CASE heading # "none"
    <3>1. x.heading \in Token /\ x.text = SubSeq(Texts(lines), c + 1, n)
      BY <1>1, <1>2, <1>4, <2>2
    <3> QED
      BY <1>1, <1>2, <1>3, <1>4, <1>6, <2>2, <3>1, OpensMore
  <2> QED
    BY <2>1, <2>2
<1>11. Ways(ss)
  <2>1. LET hs == Append(Headings(sections), x.heading)
        IN  Level(x.heading) > 0 /\ Skipless(hs, Len(hs)) => x.path = Way(hs, Len(hs))
    <3>1. CASE heading = "none"
      BY <1>4, <3>1, TokensAreTitles
    <3>2. CASE heading # "none"
      BY <1>4, <1>6, <3>2
    <3> QED
      BY <3>1, <3>2
  <2> QED
    BY <1>2, <1>4, <2>1, WaysMore
<1>12. Headings(ss) = Append(Headings(sections), heading)
  BY <1>2, <1>4, HeadingsMore
<1> QED
  BY <1>7, <1>8, <1>9, <1>10, <1>11, <1>12 DEF x, n

LEMMA SplitAddLine ==
  ASSUME DocInv, LinesInv, SplitInv, AddLine
  PROVE  SplitInv'
<1>1. /\ pc = "split" /\ pc' = pc /\ at <= Len(lines) /\ at' = at + 1
      /\ HeadingLevel(lines[at].text) = 0
      /\ current' = Append(current, lines[at])
      /\ UNCHANGED <<lines, heading, path, sections>>
  BY DEF AddLine
<1>2. /\ lines \in Seq(Line) /\ Len(lines) \in Nat /\ at \in Nat \ {0}
      /\ Cut \in 0..Len(lines) /\ at - 1 \in Cut..Len(lines) /\ Cut \in Nat
      /\ current \in Seq(Line) /\ Len(current) = at - 1 - Cut
  BY <1>1, CurrentLines
<1>3. at \in 1..Len(lines) /\ lines[at] \in Line /\ at \notin Heads(lines)
  <2>1. at \in 1..Len(lines)
    BY <1>1, <1>2
  <2> QED
    BY <1>1, <1>2, <2>1, ElementOfSeq DEF Heads
<1>4. current' \in Seq(Line) /\ Len(current') = Len(current) + 1
  BY <1>1, <1>2, <1>3, HeadsOfAppend
<1>5. Cut' = Cut
  BY <1>1, <1>2, <1>4 DEF Cut
<1>6. CurrentInv /\ Cover(Cut)
  BY <1>1 DEF SplitInv
<1> DEFINE c == Cut
           l == c + 1
<1>7. current' = SubSeq(lines, l, at)
  <2>1. l \in 1..Len(lines) /\ at \in l..Len(lines)
    BY <1>1, <1>2
  <2>2. current = SubSeq(lines, l, at - 1)
    BY <1>6 DEF CurrentInv
  <2> HIDE DEF l
  <2>3. SubSeq(lines, l, at) = SubSeq(lines, l, at - 1) \o <<lines[at]>>
    BY <1>2, <2>1, SubSeqRecursiveSecond
  <2>4. Append(current, lines[at]) = current \o <<lines[at]>>
    BY <1>2, <1>3, AppendIsConcat
  <2> QED
    BY <1>1, <2>2, <2>3, <2>4
<1>8. CurrentInv'
  <2>1. at' - 1 = at /\ at' <= Len(lines') + 1 /\ Cut' \in Nat
    BY <1>1, <1>2, <1>5
  <2>2. current' = SubSeq(lines', Cut' + 1, at' - 1)
    BY <1>1, <1>5, <1>7, <2>1
  <2>3. \A j \in (c + 2)..at : j \notin Heads(lines)
    <3>1. \A j \in (c + 2)..(at - 1) : j \notin Heads(lines)
      BY <1>6 DEF CurrentInv
    <3>2. \A j \in (c + 2)..at : j = at \/ j \in (c + 2)..(at - 1)
      BY <1>2
    <3> QED
      BY <1>3, <3>1, <3>2
  <2>4. heading = "none" => \A j \in 1..at : j \notin Heads(lines)
    <3>1. heading = "none" => \A j \in 1..(at - 1) : j \notin Heads(lines)
      BY <1>6 DEF CurrentInv
    <3>2. \A j \in 1..at : j = at \/ j \in 1..(at - 1)
      BY <1>2
    <3> QED
      BY <1>3, <3>1, <3>2
  <2>5. heading # "none" => c + 1 <= at
    BY <1>2
  <2> QED
    BY <1>1, <1>5, <1>6, <2>1, <2>2, <2>3, <2>4, <2>5 DEF CurrentInv
<1>9. Cover(Cut)'
  BY <1>1, <1>5, <1>6 DEF Cover
<1> QED
  BY <1>1, <1>4, <1>8, <1>9 DEF SplitInv

LEMMA SplitOpen ==
  ASSUME DocInv, LinesInv, SplitInv, OpenSection
  PROVE  SplitInv'
<1> DEFINE t == Head(lines[at].text)
           n == at - 1
<1>1. /\ pc = "split" /\ pc' = pc /\ at <= Len(lines) /\ at' = at + 1
      /\ HeadingLevel(lines[at].text) # 0
      /\ sections' = IF heading = "none" /\ ~KeepPreface(current) THEN sections
                     ELSE Flushed(current)
      /\ heading' = t
      /\ path' = RebuildPath(HeadingLevel(lines[at].text), t)
      /\ current' = <<lines[at]>> /\ lines' = lines
  BY DEF OpenSection
<1>2. /\ lines \in Seq(Line) /\ Len(lines) \in Nat /\ at \in Nat \ {0}
      /\ Cut \in 0..Len(lines) /\ n \in Cut..Len(lines) /\ Cut \in Nat
      /\ current \in Seq(Line) /\ Len(current) = n - Cut
  BY <1>1, CurrentLines
<1>3. at \in 1..Len(lines) /\ lines[at] \in Line /\ at \in Heads(lines)
  <2>1. at \in 1..Len(lines)
    BY <1>1, <1>2
  <2> QED
    BY <1>1, <1>2, <2>1, ElementOfSeq DEF Heads
<1>4. /\ t \in Token /\ t \in Titles /\ t # "none" /\ Level(t) # 0
      /\ HeadingLevel(lines[at].text) = Level(t)
  <2>1. lines[at].text \in Seq(Token) /\ lines[at].text # <<>>
    BY <1>3 DEF Line
  <2>2. t \in Token
    BY <2>1, HeadTailProperties
  <2> QED
    BY <1>1, <2>2, TokensAreTitles DEF HeadingLevel
<1>5. /\ CurrentInv /\ Cover(Cut)
      /\ heading \in Token \cup {"none"} /\ path \in Seq(Token)
      /\ sections \in Seq(SectionType) /\ Ways(sections)
  BY <1>1 DEF SplitInv
<1>6. current' \in Seq(Line) /\ Cut' = n
  <2>1. current' \in Seq(Line) /\ Len(current') = 1
    BY <1>1, <1>3, SingleInSeq
  <2> QED
    BY <1>1, <1>2, <2>1 DEF Cut
<1>7. heading = "none" => /\ Cut = 0 /\ sections = <<>>
                          /\ \A j \in 1..n : j \notin Heads(lines)
                          /\ current = SubSeq(lines, 1, n)
  <2>1. /\ current = SubSeq(lines, Cut + 1, n)
        /\ heading = "none" => /\ Cut = 0 /\ sections = <<>>
                               /\ \A j \in 1..n : j \notin Heads(lines)
    BY <1>5 DEF CurrentInv
  <2>2. heading = "none" => Cut + 1 = 1
    BY <2>1
  <2> HIDE DEF n
  <2> QED
    BY <2>1, <2>2
<1>8. heading # "none" => /\ current # <<>>
                          /\ LET hs == Append(Headings(sections), heading)
                             IN  Skipless(hs, Len(hs)) => path = Way(hs, Len(hs))
  <2>1. heading # "none" => Cut + 1 <= n
    BY <1>5 DEF CurrentInv
  <2>2. heading # "none" => Len(current) # 0
    BY <1>2, <2>1
  <2> QED
    BY <1>5, <2>2 DEF CurrentInv
<1> HIDE DEF n
<1> DEFINE hs == Headings(sections')
<1>9. /\ sections' \in Seq(SectionType) /\ Ways(sections')
      /\ Covers(lines, sections', n) /\ Ordered(lines, sections', n)
      /\ Opens(lines, sections', n)
      /\ Len(hs) # 0 /\ Level(hs[Len(hs)]) > 0 /\ Skipless(hs, Len(hs)) =>
           path = Way(hs, Len(hs))
  <2>1. CASE current # <<>> /\ ~(heading = "none" /\ ~KeepPreface(current))
    <3> DEFINE ss == Append(sections, Section(current, heading, path))
    <3>1. sections' = ss
      BY <1>1, <2>1 DEF Flushed
    <3>2. /\ ss \in Seq(SectionType) /\ Ways(ss)
          /\ Covers(lines, ss, n) /\ Ordered(lines, ss, n) /\ Opens(lines, ss, n)
          /\ Headings(ss) = Append(Headings(sections), heading)
      BY <1>1, <2>1, FlushCurrent DEF n
    <3> HIDE DEF ss
    <3>3. hs = Append(Headings(sections), heading)
      BY <3>1, <3>2
    <3> HIDE DEF hs
    <3>4. ASSUME Level(hs[Len(hs)]) > 0, Skipless(hs, Len(hs))
          PROVE  path = Way(hs, Len(hs))
      <4>1. CASE heading = "none"
        <5>1. Headings(sections) = <<>>
          BY <1>7, <4>1 DEF Headings
        <5>2. hs = <<"none">>
          BY <3>3, <4>1, <5>1
        <5>3. hs[Len(hs)] = "none"
          BY <5>2
        <5>4. ~(Level("none") > 0)
          BY TokensAreTitles
        <5> QED
          BY <3>4, <5>3, <5>4
      <4>2. CASE heading # "none"
        BY <1>8, <3>3, <3>4, <4>2
      <4> QED
        BY <4>1, <4>2
    <3> QED
      BY <3>1, <3>2, <3>4
  <2>2. CASE current = <<>> \/ (heading = "none" /\ ~KeepPreface(current))
    <3>1. sections' = sections /\ heading = "none" /\ sections = <<>>
      BY <1>1, <1>7, <1>8, <2>2 DEF Flushed
    <3>2. Dropped(lines, n)
      <4>1. CASE current = <<>>
        <5>1. n = 0
          BY <1>2, <1>7, <3>1, <4>1
        <5> QED
          BY <5>1 DEF Dropped
      <4>2. CASE ~KeepPreface(current)
        <5>1. n + 1 \in Heads(lines)
          BY <1>2, <1>3 DEF n
        <5> QED
          BY <1>7, <3>1, <4>2, <5>1 DEF Dropped
      <4> QED
        BY <2>2, <4>1, <4>2
    <3>3. n \in Nat
      BY <1>2
    <3>4. /\ Ordered(lines, <<>>, n) /\ Ways(<<>>) /\ Covers(lines, <<>>, n)
          /\ Opens(lines, <<>>, n)
      BY <1>2, <1>7, <3>1, <3>2, <3>3, NothingCovers
    <3>5. Len(hs) = 0
      BY <3>1 DEF Headings
    <3> HIDE DEF hs
    <3> QED
      BY <1>5, <3>1, <3>4, <3>5
  <2> QED
    BY <2>1, <2>2
<1>10. hs \in Seq(Titles)
  BY <1>9, HeadingsOf
<1> HIDE DEF hs
<1>11. /\ Len(Append(hs, t)) = Len(hs) + 1
       /\ Skipless(Append(hs, t), Len(hs) + 1) => path' = Way(Append(hs, t), Len(hs) + 1)
  <2> HIDE DEF t
  <2>1. Len(Append(hs, t)) = Len(hs) + 1
    BY <1>4, <1>10, AppendProperties
  <2>2. path' = RebuildPath(Level(t), t)
    BY <1>1, <1>4
  <2> QED
    BY <1>4, <1>5, <1>9, <1>10, <2>1, <2>2, NextWay
<1>12. path' \in Seq(Token)
  <2>1. Level(t) \in Nat
    BY LevelIsNat
  <2>2. path' = RebuildPath(Level(t), t)
    BY <1>1, <1>4
  <2> HIDE DEF t
  <2>3. <<t>> \in Seq(Token) /\ Append(path, t) \in Seq(Token)
    BY <1>4, <1>5, SingleInSeq, AppendProperties
  <2>4. ASSUME ~(Len(path) < Level(t) - 1)
        PROVE  Append(SubSeq(path, 1, Level(t) - 1), t) \in Seq(Token)
    <3> DEFINE l == Level(t) - 1
    <3>1. 1 \in Int /\ l \in Int /\ \A i \in 1..l : path[i] \in Token
      BY <1>5, <2>1, <2>4
    <3> HIDE DEF l
    <3>2. SubSeq(path, 1, l) \in Seq(Token)
      BY <3>1, SubSeqProperties
    <3> QED
      BY <1>4, <3>2, AppendProperties DEF l
  <2> QED
    BY <2>2, <2>3, <2>4 DEF RebuildPath
<1>13. current' = SubSeq(lines, at, at)
  <2>1. SubSeq(lines, at, at) = SubSeq(lines, at, at - 1) \o <<lines[at]>>
    BY <1>2, <1>3, SubSeqRecursiveSecond
  <2>2. SubSeq(lines, at, at - 1) = <<>>
    <3>1. at \in Int /\ at - 1 \in Int /\ at - 1 < at
      BY <1>2
    <3> QED
      BY <3>1, SubSeqEmpty
  <2>3. <<>> \o <<lines[at]>> = <<lines[at]>>
    OBVIOUS
  <2> QED
    BY <1>1, <2>1, <2>2, <2>3
<1>14. CurrentInv'
  <2>1. at' - 1 = at /\ at' <= Len(lines') + 1 /\ n + 1 = at /\ n \in Nat /\ n + 2 > at
    BY <1>1, <1>2 DEF n
  <2>2. current' = SubSeq(lines', Cut' + 1, at' - 1)
    BY <1>1, <1>6, <1>13, <2>1
  <2>3. \A j \in (Cut' + 2)..(at' - 1) : j \notin Heads(lines')
    BY <1>2, <1>6, <2>1
  <2>4. heading' # "none" /\ Cut' + 1 \in Heads(lines') /\ Cut' + 1 <= at' - 1
        /\ heading' = Head(lines'[Cut' + 1].text)
    BY <1>1, <1>2, <1>3, <1>4, <1>6, <2>1
  <2>5. LET ways == Append(Headings(sections'), heading')
        IN  Skipless(ways, Len(ways)) => path' = Way(ways, Len(ways))
    BY <1>1, <1>11 DEF hs
  <2>6. Cut' \in Nat
    BY <1>6, <2>1
  <2> QED
    BY <2>1, <2>2, <2>3, <2>4, <2>5, <2>6 DEF CurrentInv
<1>15. Cover(Cut)'
  BY <1>1, <1>6, <1>9 DEF Cover
<1> HIDE DEF t
<1> QED
  BY <1>1, <1>4, <1>6, <1>9, <1>12, <1>14, <1>15 DEF SplitInv

LEMMA SplitEnd ==
  ASSUME DocInv, LinesInv, SplitInv, EndSplit
  PROVE  SplitInv'
<1> DEFINE n == Len(lines)
<1>1. /\ pc = "split" /\ pc' = "done" /\ at > n
      /\ sections' = IF heading = "none" /\ lines # <<>>
                     THEN <<Section(lines, "whole", <<"whole">>)>> ELSE Flushed(current)
      /\ UNCHANGED <<lines, at, current, heading, path>>
  BY DEF EndSplit
<1>2. /\ lines \in Seq(Line) /\ Rising(lines) /\ n \in Nat /\ at \in Nat \ {0}
      /\ at - 1 \in Cut..n /\ Cut \in 0..n /\ Len(current) = at - 1 - Cut
      /\ current \in Seq(Line)
  BY <1>1, CurrentLines
<1>3. at - 1 = n
  BY <1>1, <1>2
<1>4. CurrentInv /\ Cover(Cut) /\ sections \in Seq(SectionType) /\ Ways(sections)
  BY <1>1 DEF SplitInv
<1>5. heading = "none" => /\ Cut = 0 /\ sections = <<>>
                          /\ \A j \in 1..n : j \notin Heads(lines)
  BY <1>3, <1>4 DEF CurrentInv
<1>6. heading # "none" => current # <<>>
  <2>1. heading # "none" => Cut + 1 <= at - 1
    BY <1>4 DEF CurrentInv
  <2>2. heading # "none" => Len(current) # 0
    BY <1>2, <2>1
  <2> QED
    BY <2>2
<1> HIDE DEF n
<1>7. /\ sections' \in Seq(SectionType) /\ Ways(sections')
      /\ Covers(lines, sections', n) /\ Ordered(lines, sections', n)
      /\ Opens(lines, sections', n)
  <2>1. CASE heading = "none" /\ lines # <<>>
    <3> DEFINE x == Section(lines, "whole", <<"whole">>)
    <3>1. "whole" \in Titles /\ <<"whole">> \in Seq(Titles)
      BY TokensAreTitles, SingleInSeq
    <3>2. /\ x \in SectionType /\ x.heading = "whole" /\ x.text = Texts(lines)
          /\ x.source_block_start = lines[1].block
          /\ x.source_block_end = lines[n].block
      <4> DEFINE whole == <<"whole">>
      <4>1. whole \in Seq(Titles) /\ "whole" \in Titles
        BY <3>1
      <4>2. lines \in Seq(Line) /\ lines # <<>>
        BY <1>2, <2>1
      <4> HIDE DEF whole
      <4>3. LET z == Section(lines, "whole", whole)
            IN  /\ z \in SectionType /\ z.heading = "whole" /\ z.text = Texts(lines)
                /\ z.source_block_start = lines[1].block
                /\ z.source_block_end = lines[Len(lines)].block
        BY <4>1, <4>2, SectionOfLines
      <4> QED
        BY <4>3 DEF n, whole
    <3>3. sections' = <<x>>
      BY <1>1, <2>1
    <3> HIDE DEF x
    <3>4. x.text = SubSeq(Texts(lines), 0 + 1, n) /\ x.text = SubSeq(Texts(lines), 1, n)
      <4>1. SubSeq(Texts(lines), 1, n) = Texts(lines)
        BY <1>2, TextsOf, SubSeqFull DEF n
      <4>2. 0 + 1 = 1
        OBVIOUS
      <4> QED
        BY <3>2, <4>1, <4>2
    <3>5. n \in 1..n /\ 0 \in 0..n /\ n \in 0..n /\ n \in (0 + 1)..n /\ 0 + 1 = 1
      <4>1. n # 0
        BY <1>2, <2>1, EmptySeq DEF n
      <4> QED
        BY <1>2, <4>1
    <3> DEFINE none == <<>>
    <3>6. /\ Ordered(lines, none, 0) /\ Ways(none) /\ Covers(lines, none, 0)
          /\ none \in Seq(SectionType) /\ Append(none, x) = <<x>>
      <4>1. Dropped(lines, 0) /\ 0 \in Nat
        BY DEF Dropped
      <4> QED
        BY <1>2, <4>1, NothingCovers, EmptyInSeq
    <3> HIDE DEF none
    <3>7. Covers(lines, <<x>>, n)
      BY <1>2, <3>2, <3>4, <3>5, <3>6, CoversMore DEF n
    <3>8. Ordered(lines, <<x>>, n)
      <4>1. x.source_block_start = lines[0 + 1].block
        BY <3>2, <3>5
      <4> QED
        BY <1>2, <3>2, <3>5, <3>6, <4>1, OrderedMore DEF n
    <3>9. Opens(lines, <<x>>, n)
      BY <1>2, <1>5, <2>1, <3>2, <3>4, <3>5, OpensFirst DEF n
    <3>10. Ways(<<x>>)
      <4>1. LET hs == Append(Headings(none), x.heading)
            IN  Level(x.heading) > 0 /\ Skipless(hs, Len(hs)) => x.path = Way(hs, Len(hs))
        BY <3>2, TokensAreTitles
      <4> QED
        BY <3>2, <3>6, <4>1, WaysMore
    <3>11. <<x>> \in Seq(SectionType)
      BY <3>2, SingleInSeq
    <3> QED
      BY <3>3, <3>7, <3>8, <3>9, <3>10, <3>11
  <2>2. CASE ~(heading = "none" /\ lines # <<>>) /\ current # <<>>
    <3>1. sections' = Append(sections, Section(current, heading, path))
      BY <1>1, <2>2 DEF Flushed
    <3> QED
      BY <1>1, <1>3, <2>2, <3>1, FlushCurrent
  <2>3. CASE ~(heading = "none" /\ lines # <<>>) /\ current = <<>>
    <3>1. sections' = sections /\ heading = "none" /\ lines = <<>>
      BY <1>1, <1>6, <2>3 DEF Flushed
    <3>2. n = 0 /\ Cut = 0
      BY <1>5, <3>1 DEF n
    <3> QED
      BY <1>4, <3>1, <3>2 DEF Cover
  <2> QED
    BY <2>1, <2>2, <2>3
<1>8. Cover(Len(lines))'
  BY <1>1, <1>7 DEF Cover, n
<1> QED
  BY <1>1, <1>7, <1>8 DEF SplitInv

LEMMA SplitBegin ==
  ASSUME DocInv, LinesInv, SplitInv, EndClean
  PROVE  SplitInv'
<1>1. /\ pc = "clean" /\ pc' = "split" /\ at' = 1 /\ lines' = lines
      /\ UNCHANGED <<current, heading, path, sections>>
  BY DEF EndClean, splitter
<1>2. /\ current = <<>> /\ heading = "none" /\ path = <<>> /\ sections = <<>>
      /\ lines \in Seq(Line) /\ Len(lines) \in Nat
  <2>1. lines \in Seq(Line)
    BY DEF LinesInv
  <2> QED
    BY <1>1, <2>1, LenProperties DEF SplitInv
<1>3. Cut' = 0
  <2>1. current' = current /\ Len(current) = 0 /\ at' = 1
    BY <1>1, <1>2
  <2>2. Len(current') = 0
    BY <2>1
  <2>3. Cut' = at' - 1 - Len(current')
    BY DEF Cut
  <2>4. Cut' = 1 - 1 - 0
    BY <2>1, <2>2, <2>3
  <2> QED
    BY <2>4
<1>4. CurrentInv'
  <2>1. at' - 1 = 0 /\ at' <= Len(lines') + 1 /\ 0 + 1 = 1
    BY <1>1, <1>2
  <2>2. SubSeq(lines, 1, 0) = <<>>
    BY SubSeqEmpty
  <2>3. current' = SubSeq(lines', Cut' + 1, at' - 1)
    BY <1>1, <1>2, <1>3, <2>1, <2>2
  <2>4. Cut' \in Nat /\ \A j \in (Cut' + 2)..(at' - 1) : FALSE
    BY <1>3, <2>1
  <2>5. \A j \in 1..(at' - 1) : FALSE
    BY <2>1
  <2> QED
    BY <1>1, <1>2, <1>3, <2>1, <2>3, <2>4, <2>5 DEF CurrentInv
<1>5. Cover(Cut)'
  <2>1. Dropped(lines, 0) /\ 0 \in Nat /\ \A j \in 1..0 : j \notin Heads(lines)
    BY DEF Dropped
  <2>2. Covers(lines, <<>>, 0) /\ Ordered(lines, <<>>, 0) /\ Opens(lines, <<>>, 0)
    BY <1>2, <2>1, NothingCovers
  <2> QED
    BY <1>1, <1>2, <1>3, <2>2 DEF Cover
<1> QED
  BY <1>1, <1>4, <1>5 DEF SplitInv

LEMMA SplitInit == Init => SplitInv
BY EmptyInSeq DEF Init, SplitInv, Ways

LEMMA SplitStep ==
  ASSUME DocInv, LinesInv, SplitInv, [Next]_vars
  PROVE  SplitInv'
<1>1. CASE ParseItem \/ EndParse \/ PassBlock \/ ReadBlock \/ MissBlock \/ EndOcr
           \/ AssembleBlock \/ EndAssemble \/ CleanLine
  <2>1. /\ pc \notin {"split", "done"} /\ pc' \notin {"split", "done"}
        /\ UNCHANGED <<current, heading, path, sections>>
    BY <1>1 DEF ParseItem, EndParse, PassBlock, ReadBlock, MissBlock, EndOcr, AssembleBlock,
                EndAssemble, CleanLine, text, splitter
  <2> QED
    BY <2>1 DEF SplitInv
<1>2. CASE EndClean
  BY <1>2, SplitBegin
<1>3. CASE AddLine
  BY <1>3, SplitAddLine
<1>4. CASE OpenSection
  BY <1>4, SplitOpen
<1>5. CASE EndSplit
  BY <1>5, SplitEnd
<1>6. CASE UNCHANGED vars
  <2>1. UNCHANGED <<current, heading, path, sections, lines, at, pc>>
    BY <1>6 DEF vars, text, splitter
  <2>2. Cut' = Cut
    BY <2>1 DEF Cut
  <2>3. CurrentInv => CurrentInv'
    BY <2>1, <2>2 DEF CurrentInv
  <2>4. (Cover(Cut) => Cover(Cut)') /\ (Cover(Len(lines)) => Cover(Len(lines))')
    BY <2>1, <2>2 DEF Cover
  <2> QED
    BY <2>1, <2>2, <2>3, <2>4 DEF SplitInv
<1> QED
  BY <1>1, <1>2, <1>3, <1>4, <1>5, <1>6 DEF Next, PrepareNext

-----------------------------------------------------------------------------
\* Where the items of the file stand among the blocks.

WordLines(s) == [k \in 1..Len(s) |-> <<Word(s[k])>>]

\* The item has a picture at this place of it.
HasPicture(item, k) ==
  CASE item.type = "page" -> IF item.text = <<>> THEN k = 0 ELSE item.picture /\ k = 1
    [] item.type = "paragraph" -> k \in 1..Len(item.pieces) /\ item.pieces[k] = "picture"
    [] item.type = "image" -> k = 1
    [] OTHER -> FALSE
Held == {p \in Pictures : p[1] \in 1..Len(file) /\ HasPicture(file[p[1]], p[2])}

\* The block has these lines of a word each and is no picture.
HasWords(b, s) == /\ blocks[b].type \notin {"image", "page_break"}
                  /\ blocks[b].slot = 0
                  /\ blocks[b].text = WordLines(s)

\* The i-th item's blocks are those behind o up to e, and block place[p] is picture p.
PageLaid(page, i, o, e, place) ==
  /\ blocks[e].type = "page_break"
  /\ page.text = <<>> =>
       e = o + 2 /\ place[<<i, 0>>] = o + 1 /\ blocks[o + 1].slot = 0
  /\ page.text # <<>> =>
       /\ HasWords(o + 1, page.text)
       /\ ~page.picture => e = o + 2
       /\ page.picture => e = o + 3 /\ place[<<i, 1>>] = o + 2 /\ blocks[o + 2].slot = 0

Rank(pieces, k) == UpTo(k, PicturesIn(pieces, Len(pieces)))

LineAt(pieces, o) ==
  [k \in 1..Len(pieces) |-> IF pieces[k] \in Token THEN Word(pieces[k])
                            ELSE Placeholder(o + Rank(pieces, k))]

ParagraphLaid(pieces, i, o, e, place) ==
  /\ pieces = <<>> => e = o
  /\ pieces # <<>> =>
       /\ e = o + 1 + Cardinality(PicturesIn(pieces, Len(pieces)))
       /\ blocks[o + 1].type = "text" /\ blocks[o + 1].text = <<LineAt(pieces, o)>>
       /\ \A b \in (o + 2)..e : blocks[b].type = "image" /\ blocks[b].slot = b - 1
       /\ \A k \in PicturesIn(pieces, Len(pieces)) :
            LET b == o + 1 + Rank(pieces, k)
            IN  /\ b \in (o + 2)..e
                /\ pieces[k] = "picture" => place[<<i, k>>] = b
                /\ pieces[k] = "missing" =>
                     blocks[b].picture = NoPicture /\ blocks[b].text = <<>>

Laid(item, i, o, e, place) ==
  /\ item.type = "page" => PageLaid(item, i, o, e, place)
  /\ item.type = "paragraph" => ParagraphLaid(item.pieces, i, o, e, place)
  /\ item.type = "table" => e = o + 1 /\ HasWords(e, item.rows)
  /\ item.type = "image" => e = o + 1 /\ place[<<i, 1>>] = e /\ blocks[e].slot = 0

\* Items go one after the other.
Starts(s) == /\ s \in [1..(Len(file) + 1) -> 0..Len(blocks)]
             /\ s[1] = 0 /\ s[Len(file) + 1] = Len(blocks)
             /\ \A i \in 1..Len(file) : s[i] <= s[i + 1]

\* Each picture has a block of its own, with what was read in it.
Places(place) ==
  /\ place \in [Held -> 1..Len(blocks)]
  /\ \A p, q \in Held : place[p] = place[q] => p = q
  /\ \A p \in Held : /\ blocks[place[p]].type = "image"
                     /\ blocks[place[p]].text = WordLines(answers[p])
  /\ \A b \in 1..Len(blocks) : blocks[b].picture \in Pictures =>
       blocks[b].picture \in Held /\ place[blocks[b].picture] = b
  /\ \A p \in Pictures \ Held : answers[p] = <<>>

LaidOut(s, place) ==
  /\ Starts(s) /\ Places(place)
  /\ \A i \in 1..Len(file) : Laid(file[i], i, s[i], s[i + 1], place)

\* The number of a slot tells its block.
Slots == \A b \in 1..Len(blocks) : blocks[b].slot \in {0, b - 1}

\* What a block contributes to the text.
Contribution(b) == IF blocks[b].type = "page_break" \/ Placed(blocks[b]) THEN <<>>
                   ELSE BlockLines(blocks[b])
Contributions(n) == [b \in 1..n |-> Contribution(b)]

PlaceInv ==
  /\ Slots
  /\ \E s, place : LaidOut(s, place)
  /\ pc = "assemble" => /\ at <= Len(blocks) + 1
                        /\ Texts(assembled) = FlattenSeq(Contributions(at - 1))
  /\ pc \in {"clean", "split", "done"} =>
       Texts(assembled) = FlattenSeq(Contributions(Len(blocks)))

-----------------------------------------------------------------------------
\* A step that only reads pictures, or appends blocks, leaves items where they are.

\* A block that keeps what it is, and its text unless it is a picture.
Alike(b) == /\ blocks'[b].type = blocks[b].type /\ blocks'[b].slot = blocks[b].slot
            /\ blocks[b].type # "image" => blocks'[b].text = blocks[b].text
            /\ blocks[b].picture = NoPicture => /\ blocks'[b].text = blocks[b].text
                                                /\ blocks'[b].picture = NoPicture

LEMMA WordsKept ==
  ASSUME NEW b, NEW s, HasWords(b, s), Alike(b)
  PROVE  HasWords(b, s)'
BY DEF HasWords, Alike

LEMMA LaidKept ==
  ASSUME NEW item, NEW i, NEW o \in Nat, NEW e \in Nat, NEW place, NEW place2,
         item.type = "paragraph" => item.pieces \in Seq(Token \cup {"picture", "missing"}),
         Laid(item, i, o, e, place), \A b \in (o + 1)..e : Alike(b),
         \A k : HasPicture(item, k) => place2[<<i, k>>] = place[<<i, k>>]
  PROVE  Laid(item, i, o, e, place2)'
<1>1. CASE item.type = "page"
  <2>1. PageLaid(item, i, o, e, place)
    BY <1>1 DEF Laid
  <2>2. e \in {o + 2, o + 3} /\ o + 1 \in (o + 1)..e /\ e \in (o + 1)..e
    BY <2>1 DEF PageLaid
  <2>3. Alike(e) /\ Alike(o + 1)
    BY <2>2
  <2>4. blocks'[e].type = "page_break"
    BY <2>1, <2>3 DEF PageLaid, Alike
  <2>5. CASE item.text = <<>>
    <3>1. HasPicture(item, 0)
      BY <1>1, <2>5 DEF HasPicture
    <3>2. place2[<<i, 0>>] = place[<<i, 0>>]
      BY <3>1
    <3>3. PageLaid(item, i, o, e, place2)'
      BY <2>1, <2>3, <2>4, <2>5, <3>2 DEF PageLaid, Alike
    <3> QED
      BY <1>1, <3>3 DEF Laid
  <2>6. CASE item.text # <<>>
    <3>1. HasWords(o + 1, item.text)'
      BY <2>1, <2>3, <2>6, WordsKept DEF PageLaid
    <3>2. CASE ~item.picture
      <4>1. PageLaid(item, i, o, e, place2)'
        BY <2>1, <2>4, <2>6, <3>1, <3>2 DEF PageLaid
      <4> QED
        BY <1>1, <4>1 DEF Laid
    <3>3. CASE item.picture
      <4>1. HasPicture(item, 1)
        BY <1>1, <2>6, <3>3 DEF HasPicture
      <4>2. place2[<<i, 1>>] = place[<<i, 1>>]
        BY <4>1
      <4>3. e = o + 3 /\ place[<<i, 1>>] = o + 2 /\ blocks[o + 2].slot = 0
        BY <2>1, <2>6, <3>3 DEF PageLaid
      <4>4. Alike(o + 2)
        BY <4>3
      <4>5. PageLaid(item, i, o, e, place2)'
        BY <2>4, <2>6, <3>1, <3>3, <4>2, <4>3, <4>4 DEF PageLaid, Alike
      <4> QED
        BY <1>1, <4>5 DEF Laid
    <3> QED
      BY <3>2, <3>3
  <2> QED
    BY <2>5, <2>6
<1>2. CASE item.type = "paragraph"
  <2> DEFINE pieces == item.pieces
             S == PicturesIn(pieces, Len(pieces))
  <2>1. ParagraphLaid(pieces, i, o, e, place)
    BY <1>2 DEF Laid
  <2>2. CASE pieces = <<>>
    BY <1>2, <2>1, <2>2 DEF Laid, ParagraphLaid
  <2>3. CASE pieces # <<>>
    <3>1. Cardinality(S) \in Nat
      <4>1. Len(pieces) \in Nat /\ S \in SUBSET (1..Len(pieces))
        BY <1>2, LenProperties DEF PicturesIn
      <4> HIDE DEF S, pieces
      <4> QED
        BY <4>1, PartOfInterval
    <3>2. /\ e = o + 1 + Cardinality(S)
          /\ blocks[o + 1].type = "text" /\ blocks[o + 1].text = <<LineAt(pieces, o)>>
          /\ \A b \in (o + 2)..e : blocks[b].type = "image" /\ blocks[b].slot = b - 1
      BY <2>1, <2>3 DEF ParagraphLaid
    <3>3. Alike(o + 1) /\ \A b \in (o + 2)..e : Alike(b)
      <4>1. o + 1 \in (o + 1)..e /\ \A b \in (o + 2)..e : b \in (o + 1)..e
        BY <3>1, <3>2
      <4> QED
        BY <4>1
    <3>4. /\ blocks'[o + 1].type = "text" /\ blocks'[o + 1].text = <<LineAt(pieces, o)>>
          /\ \A b \in (o + 2)..e : blocks'[b].type = "image" /\ blocks'[b].slot = b - 1
      BY <3>2, <3>3 DEF Alike
    <3>5. ASSUME NEW k \in S
          PROVE  LET b == o + 1 + Rank(pieces, k)
                 IN  /\ b \in (o + 2)..e
                     /\ pieces[k] = "picture" => place2[<<i, k>>] = b
                     /\ pieces[k] = "missing" =>
                          blocks'[b].picture = NoPicture /\ blocks'[b].text = <<>>
      <4> DEFINE b == o + 1 + Rank(pieces, k)
      <4>1. /\ b \in (o + 2)..e
            /\ pieces[k] = "picture" => place[<<i, k>>] = b
            /\ pieces[k] = "missing" => blocks[b].picture = NoPicture /\ blocks[b].text = <<>>
        BY <2>1, <2>3 DEF ParagraphLaid
      <4>2. pieces[k] = "picture" => HasPicture(item, k)
        BY <1>2 DEF HasPicture, PicturesIn
      <4>3. pieces[k] = "picture" => place2[<<i, k>>] = place[<<i, k>>]
        BY <4>2
      <4> HIDE DEF b, S
      <4>4. Alike(b)
        BY <3>3, <4>1
      <4>5. pieces[k] = "missing" =>
              blocks'[b].picture = NoPicture /\ blocks'[b].text = <<>>
        BY <4>1, <4>4 DEF Alike
      <4> QED
        BY <4>1, <4>3, <4>5 DEF b
    <3>6. ParagraphLaid(pieces, i, o, e, place2)'
      BY <2>3, <3>2, <3>4, <3>5 DEF ParagraphLaid
    <3> QED
      BY <1>2, <3>6 DEF Laid
  <2> QED
    BY <2>2, <2>3
<1>3. CASE item.type = "table"
  <2>1. e = o + 1 /\ HasWords(e, item.rows)
    BY <1>3 DEF Laid
  <2>2. Alike(e)
    BY <2>1
  <2>3. HasWords(e, item.rows)'
    BY <2>1, <2>2, WordsKept
  <2> QED
    BY <1>3, <2>1, <2>3 DEF Laid
<1>4. CASE item.type = "image"
  <2>1. e = o + 1 /\ place[<<i, 1>>] = e /\ blocks[e].slot = 0
    BY <1>4 DEF Laid
  <2>2. Alike(e)
    BY <2>1
  <2>3. HasPicture(item, 1)
    BY <1>4 DEF HasPicture
  <2>4. place2[<<i, 1>>] = e /\ blocks'[e].slot = 0
    BY <2>1, <2>2, <2>3 DEF Alike
  <2> QED
    BY <1>4, <2>1, <2>4 DEF Laid
<1>5. CASE item.type \notin {"page", "paragraph", "table", "image"}
  BY <1>5 DEF Laid
<1> QED
  BY <1>1, <1>2, <1>3, <1>4, <1>5

LEMMA ItemsOf ==
  ASSUME DocTypes, NEW i \in 1..Len(file)
  PROVE  /\ i \in 1..MaxItems /\ Len(file) \in Nat
         /\ file[i] \in Page \/ file[i] \in Paragraph \/ file[i] \in Table
              \/ file[i] \in Image
         /\ file[i].type = "paragraph" =>
              file[i].pieces \in Seq(Token \cup {"picture", "missing"})
<1>1. file \in Seq(Items[kind]) /\ Len(file) <= MaxItems /\ kind \in {"pdf", "docx", "image"}
  BY DEF DocTypes
<1>2. Len(file) \in Nat /\ file[i] \in Items[kind]
  BY <1>1
<1>3. i \in 1..MaxItems
  BY <1>1, <1>2, BoundsAssumption
<1>4. file[i] \in Page \/ file[i] \in Paragraph \/ file[i] \in Table \/ file[i] \in Image
  BY <1>1, <1>2 DEF Items
<1>5. ASSUME file[i].type = "paragraph"
      PROVE  file[i].pieces \in Seq(Token \cup {"picture", "missing"})
  <2>1. file[i] \in Paragraph
    BY <1>4, <1>5 DEF Page, Table, Image
  <2> QED
    BY <2>1, BoundedIsSeq DEF Paragraph
<1> QED
  BY <1>2, <1>3, <1>4, <1>5

LEMMA NoPictureIsNone == NoPicture \notin Pictures
BY BoundsAssumption DEF NoPicture, Pictures

\* A picture is read, or has no text.
LEMMA PictureDone ==
  ASSUME DocInv, PlaceInv, pc = "ocr", pc' = pc, at \in targets, file' = file,
         NEW b, b.type = "image", b.slot = blocks[at].slot, b.picture = NoPicture,
         NEW words, b.text = WordLines(words), blocks' = [blocks EXCEPT ![at] = b],
         \A q \in Pictures : answers'[q] = IF q = blocks[at].picture THEN words
                                           ELSE answers[q]
  PROVE  PlaceInv'
<1>1. DocTypes
  BY DEF DocInv
<1>2. /\ at \in 1..Len(blocks) /\ blocks[at].type = "image" /\ blocks[at].picture \in Pictures
      /\ blocks \in Seq(GoodBlock)
  <2>1. at >= at
    BY <1>1 DEF DocTypes
  <2> QED
    BY <1>1, <2>1 DEF DocTypes, DocInv, Counted
<1>3. /\ Len(blocks') = Len(blocks) /\ blocks'[at] = b
      /\ \A c \in 1..Len(blocks) : c # at => blocks'[c] = blocks[c]
  BY <1>2
<1>4. \A c \in 1..Len(blocks) : Alike(c)
  BY <1>2, <1>3, NoPictureIsNone DEF Alike
<1>5. Slots'
  BY <1>3, <1>4 DEF PlaceInv, Slots, Alike
<1> DEFINE p == blocks[at].picture
<1>6. PICK s, place : LaidOut(s, place)
  BY DEF PlaceInv
<1>7. Held' = Held
  BY DEF Held
<1> HIDE DEF Pictures, Held
<1>8. p \in Held /\ place[p] = at
  BY <1>2, <1>6 DEF LaidOut, Places
<1>9. Places(place)'
  <2>1. /\ place \in [Held -> 1..Len(blocks)]
        /\ \A x, y \in Held : place[x] = place[y] => x = y
        /\ Held \subseteq Pictures
    BY <1>6 DEF LaidOut, Places, Held
  <2>2. ASSUME NEW q \in Held
        PROVE  /\ blocks'[place[q]].type = "image"
               /\ blocks'[place[q]].text = WordLines(answers'[q])
    <3>1. CASE q = p
      <4>1. answers'[q] = words
        BY <2>1, <3>1
      <4> QED
        BY <1>3, <1>8, <3>1, <4>1
    <3>2. CASE q # p
      <4>1. place[q] # at /\ place[q] \in 1..Len(blocks) /\ answers'[q] = answers[q]
        BY <1>8, <2>1, <3>2
      <4>2. blocks'[place[q]] = blocks[place[q]]
        BY <1>3, <4>1
      <4> QED
        BY <1>6, <4>1, <4>2 DEF LaidOut, Places
    <3> QED
      BY <3>1, <3>2
  <2>3. ASSUME NEW c \in 1..Len(blocks), blocks'[c].picture \in Pictures
        PROVE  blocks'[c].picture \in Held /\ place[blocks'[c].picture] = c
    <3>1. c # at
      BY <1>3, <2>3, NoPictureIsNone
    <3>2. blocks'[c] = blocks[c]
      BY <1>3, <3>1
    <3> QED
      BY <1>6, <2>3, <3>2 DEF LaidOut, Places
  <2>4. ASSUME NEW q \in Pictures \ Held
        PROVE  answers'[q] = <<>>
    BY <1>6, <1>8 DEF LaidOut, Places
  <2> QED
    BY <1>3, <1>7, <2>1, <2>2, <2>3, <2>4 DEF Places
<1>10. Starts(s)'
  BY <1>3, <1>6 DEF LaidOut, Starts
<1>11. ASSUME NEW i \in 1..Len(file)
       PROVE  Laid(file[i], i, s[i], s[i + 1], place)'
  <2>1. Len(file) \in Nat /\ Len(blocks) \in Nat
    BY <1>1, <1>2, ItemsOf
  <2>2. s[i] \in Nat /\ s[i + 1] \in 0..Len(blocks)
    <3>1. i \in 1..(Len(file) + 1) /\ i + 1 \in 1..(Len(file) + 1)
      BY <2>1
    <3> QED
      BY <1>6, <3>1 DEF LaidOut, Starts
  <2>3. \A c \in (s[i] + 1)..s[i + 1] : Alike(c)
    <3>1. \A c \in (s[i] + 1)..s[i + 1] : c \in 1..Len(blocks)
      BY <2>1, <2>2
    <3> QED
      BY <1>4, <3>1
  <2>4. Laid(file[i], i, s[i], s[i + 1], place)
    BY <1>6 DEF LaidOut
  <2> DEFINE item == file[i]
             o == s[i]
             e == s[i + 1]
  <2>5. item.type = "paragraph" => item.pieces \in Seq(Token \cup {"picture", "missing"})
    BY <1>1, ItemsOf
  <2>6. o \in Nat /\ e \in Nat
    BY <2>1, <2>2
  <2>7. item = file'[i]
    OBVIOUS
  <2> HIDE DEF item, o, e
  <2>8. Laid(item, i, o, e, place) /\ \A c \in (o + 1)..e : Alike(c)
    BY <2>3, <2>4 DEF item, o, e
  <2>9. \A it \in {item} : Laid(it, i, o, e, place)'
    <3> SUFFICES ASSUME NEW it, it = item PROVE Laid(it, i, o, e, place)'
      OBVIOUS
    <3> QED
      BY <2>5, <2>6, <2>8, LaidKept
  <2> QED
    BY <2>7, <2>9 DEF o, e
<1>12. LaidOut(s, place)'
  BY <1>9, <1>10, <1>11 DEF LaidOut
<1> QED
  BY <1>5, <1>12 DEF PlaceInv

LEMMA PlaceReadBlock ==
  ASSUME DocInv, PlaceInv, ReadBlock
  PROVE  PlaceInv'
<1>1. PICK read \in Recognised :
        /\ blocks' = [blocks EXCEPT ![at] =
                        [Stripped(@) EXCEPT
                           !.text = [k \in 1..Len(read) |-> <<Word(read[k])>>],
                           !.source = "ocr"]]
        /\ answers' = [answers EXCEPT ![blocks[at].picture] = read]
  BY DEF ReadBlock
<1>2. pc = "ocr" /\ at \in targets /\ pc' = pc /\ file' = file
  BY DEF ReadBlock
<1> DEFINE new == [Stripped(blocks[at]) EXCEPT !.text = WordLines(read), !.source = "ocr"]
<1>3. blocks' = [blocks EXCEPT ![at] = new]
  BY <1>1 DEF WordLines
<1>4. /\ blocks[at] \in GoodBlock /\ blocks[at].type = "image"
      /\ answers \in [Pictures -> BoundedSeq(Token, 2)]
  BY <1>2 DEF DocInv, DocTypes
<1>5. new.type = "image" /\ new.slot = blocks[at].slot /\ new.picture = NoPicture
      /\ new.text = WordLines(read)
  BY <1>4 DEF GoodBlock, Stripped
<1>6. \A q \in Pictures : answers'[q] = IF q = blocks[at].picture THEN read ELSE answers[q]
  BY <1>1, <1>4
<1> HIDE DEF new, Pictures
<1> QED
  BY <1>2, <1>3, <1>5, <1>6, PictureDone

LEMMA PlaceMissBlock ==
  ASSUME DocInv, PlaceInv, MissBlock
  PROVE  PlaceInv'
<1>1. /\ pc = "ocr" /\ at \in targets /\ pc' = pc /\ file' = file /\ answers' = answers
      /\ blocks' = [blocks EXCEPT ![at] = Stripped(@)]
  BY DEF MissBlock
<1> DEFINE new == Stripped(blocks[at])
           p == blocks[at].picture
<1>2. blocks[at] \in GoodBlock /\ blocks[at].type = "image" /\ p \in Pictures
      /\ at \in 1..Len(blocks)
  <2>1. at >= at /\ DocTypes
    BY DEF DocInv, DocTypes
  <2> QED
    BY <1>1, <2>1 DEF DocInv, DocTypes, Counted
<1>3. /\ new.type = "image" /\ new.slot = blocks[at].slot /\ new.picture = NoPicture
      /\ new.text = blocks[at].text
  BY <1>2 DEF GoodBlock, Stripped
<1>4. blocks[at].text = WordLines(answers[p])
  <2>1. PICK s, place : LaidOut(s, place)
    BY DEF PlaceInv
  <2>2. p \in Held /\ place[p] = at
    BY <1>2, <2>1 DEF LaidOut, Places
  <2> HIDE DEF p
  <2> QED
    BY <2>1, <2>2 DEF LaidOut, Places
<1>5. blocks' = [blocks EXCEPT ![at] = new]
  BY <1>1
<1>6. \A q \in Pictures : answers'[q] = IF q = blocks[at].picture THEN answers[p]
                                        ELSE answers[q]
  BY <1>1
<1> HIDE DEF new, Pictures
<1>7. new.text = WordLines(answers[p])
  BY <1>3, <1>4
<1> DEFINE words == answers[p]
<1>8. \A q \in Pictures : answers'[q] = IF q = blocks[at].picture THEN words ELSE answers[q]
  BY <1>6
<1>9. new.text = WordLines(words)
  BY <1>7
<1> HIDE DEF words
<1> QED
  BY <1>1, <1>3, <1>5, <1>8, <1>9, PictureDone

\* Steps that leave the document alone.
LEMMA LayoutKept ==
  ASSUME UNCHANGED <<file, blocks, answers>>
  PROVE  /\ Slots' = Slots
         /\ \A s, place : LaidOut(s, place) => LaidOut(s, place)'
         /\ \A n : Contributions(n)' = Contributions(n)
<1>1. Slots' = Slots
  BY DEF Slots
<1>2. ASSUME NEW s, NEW place, LaidOut(s, place)
      PROVE  LaidOut(s, place)'
  <2>1. Starts(s)'
    BY <1>2 DEF LaidOut, Starts
  <2>2. Places(place)'
    BY <1>2 DEF LaidOut, Places, Held
  <2>3. ASSUME NEW item, NEW i, NEW o, NEW e, Laid(item, i, o, e, place)
        PROVE  Laid(item, i, o, e, place)'
    <3>1. \A b, t : HasWords(b, t)' = HasWords(b, t)
      BY DEF HasWords
    <3>2. PageLaid(item, i, o, e, place)' = PageLaid(item, i, o, e, place)
      BY <3>1 DEF PageLaid
    <3>3. ParagraphLaid(item.pieces, i, o, e, place)' =
            ParagraphLaid(item.pieces, i, o, e, place)
      BY DEF ParagraphLaid
    <3> QED
      BY <2>3, <3>1, <3>2, <3>3 DEF Laid
  <2>4. ASSUME NEW i \in 1..Len(file)
        PROVE  Laid(file[i], i, s[i], s[i + 1], place)'
    <3> DEFINE item == file[i]
               o == s[i]
               e == s[i + 1]
    <3>1. Laid(item, i, o, e, place)
      BY <1>2 DEF LaidOut
    <3>2. item = file'[i]
      OBVIOUS
    <3> HIDE DEF item, o, e
    <3>3. \A it : it = item => Laid(it, i, o, e, place)'
      BY <2>3, <3>1
    <3> QED
      BY <3>2, <3>3 DEF o, e
  <2> QED
    BY <1>2, <2>1, <2>2, <2>4 DEF LaidOut
<1>3. ASSUME NEW n
      PROVE  Contributions(n)' = Contributions(n)
  <2>1. \A m : InSlot(m)' = InSlot(m)
    BY DEF InSlot
  <2>2. \A piece : Standing(piece)' = Standing(piece)
    BY <2>1 DEF Standing
  <2>3. \A line : Resolved(line)' = Resolved(line)
    BY <2>2 DEF Resolved
  <2>4. \A b : BlockLines(b)' = BlockLines(b)
    BY <2>3 DEF BlockLines
  <2>5. \A b : Contribution(b)' = Contribution(b)
    BY <2>4 DEF Contribution
  <2> QED
    BY <2>5 DEF Contributions
<1> QED
  BY <1>1, <1>2, <1>3

LEMMA ContributionsGrow ==
  ASSUME blocks \in Seq(GoodBlock), NEW n \in Nat, n < Len(blocks)
  PROVE  /\ Contribution(n + 1) \in TextLines
         /\ FlattenSeq(Contributions(n)) \in TextLines
         /\ FlattenSeq(Contributions(n + 1)) =
              FlattenSeq(Contributions(n)) \o Contribution(n + 1)
<1> DEFINE E == Seq(Token) \ {<<>>}
<1>1. ASSUME NEW b \in 1..Len(blocks)
      PROVE  Contribution(b) \in Seq(E)
  <2>1. blocks[b] \in GoodBlock
    BY ElementOfSeq
  <2>2. BlockLines(blocks[b]) \in Seq(E)
    BY <2>1, BlockIsLines DEF TextLines, TextOf
  <2> QED
    BY <2>2, EmptyInSeq DEF Contribution
<1>2. Len(blocks) \in Nat /\ n + 1 \in 1..Len(blocks) /\ n \in 0..Len(blocks)
  BY LenProperties
<1> HIDE DEF E
<1>3. Contributions(n) \in Seq(Seq(E)) /\ Len(Contributions(n)) = n
  <2>1. \A b \in 1..n : Contribution(b) \in Seq(E)
    BY <1>1, <1>2
  <2>2. [b \in 1..n |-> Contribution(b)] \in Seq(Seq(E))
    BY <2>1, IsASeq
  <2> QED
    BY <2>2 DEF Contributions
<1>4. Contributions(n + 1) = Append(Contributions(n), Contribution(n + 1))
  <2> DEFINE c == Contributions(n)
             x == Contribution(n + 1)
             d == Contributions(n + 1)
  <2>1. /\ d = [b \in 1..(n + 1) |-> Contribution(b)]
        /\ \A b \in 1..n : c[b] = Contribution(b)
    BY DEF Contributions
  <2>2. c \in Seq(Seq(E)) /\ Len(c) = n /\ x \in Seq(E)
    BY <1>1, <1>2, <1>3
  <2> HIDE DEF c, d
  <2>3. /\ Append(c, x) = [b \in 1..(n + 1) |-> IF b = n + 1 THEN x ELSE c[b]]
    BY <2>2
  <2>4. \A b \in 1..(n + 1) : (IF b = n + 1 THEN x ELSE c[b]) = Contribution(b)
    BY <2>1
  <2>5. Append(c, x) = d
    BY <2>1, <2>3, <2>4
  <2> QED
    BY <2>5 DEF c, d
<1> DEFINE c == Contributions(n)
           x == Contribution(n + 1)
<1>5. c \in Seq(Seq(E)) /\ x \in Seq(E)
  BY <1>1, <1>2, <1>3
<1> HIDE DEF c, x
<1>6. FlattenSeq(Append(c, x)) = FlattenSeq(c) \o x /\ FlattenSeq(c) \in Seq(E)
  BY <1>5, FlattenAppend, FlattenInSeq
<1> QED
  BY <1>4, <1>5, <1>6 DEF c, x, E, TextLines, TextOf

LEMMA PlaceInit == Init => PlaceInv
<1> SUFFICES ASSUME Init PROVE PlaceInv
  OBVIOUS
<1>1. /\ blocks = <<>> /\ file = <<>> /\ pc = "parse" /\ Len(blocks) = 0 /\ Len(file) = 0
      /\ answers = [p \in Pictures |-> <<>>]
  BY DEF Init
<1>2. Slots
  BY <1>1 DEF Slots
<1> DEFINE s == [i \in 1..1 |-> 0]
           place == [p \in {} |-> 0]
<1>3. Held = {}
  BY <1>1 DEF Held
<1>4. Starts(s)
  BY <1>1 DEF Starts
<1> HIDE DEF Pictures, Held
<1>5. Places(place)
  BY <1>1, <1>3 DEF Places
<1>6. LaidOut(s, place)
  BY <1>1, <1>4, <1>5 DEF LaidOut
<1> QED
  BY <1>1, <1>2, <1>6 DEF PlaceInv

LEMMA PlaceAssemble ==
  ASSUME DocInv, LinesInv, PlaceInv, AssembleBlock
  PROVE  PlaceInv'
<1>1. /\ pc = "assemble" /\ pc' = pc /\ at <= Len(blocks) /\ at' = at + 1
      /\ UNCHANGED <<file, blocks, answers>>
  BY DEF AssembleBlock, parsed, ocr
<1>2. /\ blocks \in Seq(GoodBlock) /\ Len(blocks) \in Nat /\ at \in Nat \ {0}
  <2>1. blocks \in Seq(GoodBlock) /\ at \in Nat \ {0}
    BY DEF DocInv, DocTypes
  <2> QED
    BY <2>1, LenProperties
<1> DEFINE n == at - 1
           content == Contribution(n + 1)
           new == [k \in 1..Len(content) |-> [text |-> content[k], block |-> n]]
<1>3. n \in Nat /\ n + 1 = at /\ n < Len(blocks)
  BY <1>1, <1>2
<1>4. assembled' = assembled \o new
  BY <1>3 DEF AssembleBlock, Contribution
<1> HIDE DEF n
<1>5. /\ content \in TextLines /\ FlattenSeq(Contributions(n)) \in TextLines
      /\ FlattenSeq(Contributions(n + 1)) = FlattenSeq(Contributions(n)) \o content
  BY <1>2, <1>3, ContributionsGrow
<1>6. Texts(assembled) = FlattenSeq(Contributions(n)) /\ assembled \in Seq(Line)
  BY <1>1 DEF PlaceInv, LinesInv, n
<1> HIDE DEF content
<1>7. Texts(assembled') = Texts(assembled) \o content
  <2>1. /\ Len(content) \in Nat /\ content \in Seq(Seq(Token) \ {<<>>})
        /\ \A k \in 1..Len(content) : content[k] \in Seq(Token) \ {<<>>}
    BY <1>5 DEF TextLines, TextOf
  <2> DEFINE m == Len(content)
             e(k) == [text |-> content[k], block |-> n]
  <2>2. m \in Nat /\ \A k \in 1..m : e(k) \in Line /\ e(k).text = content[k]
    BY <1>3, <2>1 DEF Line
  <2>3. new = [k \in 1..m |-> e(k)]
    OBVIOUS
  <2> HIDE DEF m, e, new
  <2>4. [k \in 1..m |-> e(k)] \in Seq(Line)
    BY <2>2, IsASeq
  <2>5. new \in Seq(Line) /\ Len(new) = m /\ \A k \in 1..m : new[k].text = content[k]
    BY <2>2, <2>3, <2>4
  <2>6. /\ Len(assembled) \in Nat /\ Len(assembled') = Len(assembled) + m
        /\ \A i \in 1..(Len(assembled) + m) :
             assembled'[i] = IF i <= Len(assembled) THEN assembled[i]
                             ELSE new[i - Len(assembled)]
    <3>1. /\ Len(assembled \o new) = Len(assembled) + Len(new)
          /\ \A i \in 1..(Len(assembled) + Len(new)) :
               (assembled \o new)[i] = IF i <= Len(assembled) THEN assembled[i]
                                       ELSE new[i - Len(assembled)]
      BY <1>6, <2>5, ConcatProperties
    <3> QED
      BY <1>4, <1>6, <2>5, <3>1, LenProperties
  <2> DEFINE a == Len(assembled)
             t == Texts(assembled)
  <2>7. /\ t \in Seq(Seq(Token)) /\ Len(t) = a /\ a \in Nat
        /\ \A i \in 1..a : t[i] = assembled[i].text
    BY <1>6, TextsOf
  <2>8. m = Len(content) /\ content \in Seq(Seq(Token) \ {<<>>})
    BY <2>1 DEF m
  <2>9. ASSUME NEW i \in 1..(a + m)
        PROVE  assembled'[i].text = IF i <= a THEN t[i] ELSE content[i - a]
    <3>1. CASE i <= a
      BY <2>2, <2>6, <2>7, <3>1
    <3>2. CASE ~(i <= a)
      <4>1. i - a \in 1..m
        BY <2>2, <2>7, <3>2
      <4> QED
        BY <2>5, <2>6, <3>2, <4>1
    <3> QED
      BY <3>1, <3>2
  <2>10. Texts(assembled') = [i \in 1..(a + m) |-> assembled'[i].text]
    BY <2>6 DEF Texts
  <2> HIDE DEF a, t
  <2>11. t \o content = [i \in 1..(a + m) |-> IF i <= a THEN t[i] ELSE content[i - a]]
    <3>1. content \in Seq(Seq(Token))
      BY <2>8
    <3> DEFINE whole == t \o content
    <3>2. /\ whole \in Seq(Seq(Token)) /\ Len(whole) = a + m
          /\ \A i \in 1..(a + m) : whole[i] = IF i <= a THEN t[i] ELSE content[i - a]
      BY <2>7, <2>8, <3>1, ConcatProperties
    <3> HIDE DEF whole
    <3>3. whole = [i \in 1..(a + m) |-> whole[i]]
      BY <3>2
    <3>4. whole = [i \in 1..(a + m) |-> IF i <= a THEN t[i] ELSE content[i - a]]
      BY <3>2, <3>3
    <3> QED
      BY <3>4 DEF whole
  <2>12. Texts(assembled') = t \o content
    BY <2>9, <2>10, <2>11
  <2> QED
    BY <2>12 DEF t
<1>8. Texts(assembled)' = FlattenSeq(Contributions(at' - 1))
  <2>1. at' - 1 = n + 1 /\ Texts(assembled)' = Texts(assembled')
    BY <1>1, <1>2, <1>3
  <2> QED
    BY <1>5, <1>6, <1>7, <2>1
<1>9. /\ Slots' = Slots /\ \A k : Contributions(k)' = Contributions(k)
      /\ \A s, place : LaidOut(s, place) => LaidOut(s, place)'
  BY <1>1, LayoutKept
<1>10. at' <= Len(blocks') + 1
  BY <1>1, <1>2
<1> QED
  BY <1>1, <1>8, <1>9, <1>10 DEF PlaceInv

\* The assembler starts with the first block, and no text.
LEMMA NothingContributed ==
  Texts(<<>>) = <<>> /\ \A n \in Nat : n = 0 => FlattenSeq(Contributions(n)) = <<>>
<1>1. Texts(<<>>) = <<>>
  BY DEF Texts
<1>2. ASSUME NEW n \in Nat, n = 0
      PROVE  Contributions(n) = <<>>
  BY <1>2 DEF Contributions
<1> QED
  BY <1>1, <1>2, FlattenEmpty

LEMMA PlaceOcr ==
  ASSUME DocInv, LinesInv, PlaceInv, EndParse \/ PassBlock \/ EndOcr
  PROVE  PlaceInv'
<1>1. UNCHANGED <<file, blocks, answers, assembled>>
  BY DEF EndParse, PassBlock, EndOcr, parsed, ocr, text
<1>2. pc \in {"parse", "ocr"} /\ pc' \in {"ocr", "assemble"}
  BY DEF EndParse, PassBlock, EndOcr
<1>3. pc' = "assemble" => at' = 1
  <2>1. CASE EndParse
    BY <2>1 DEF EndParse, DocInv, Counted
  <2>2. CASE PassBlock
    BY <2>2 DEF PassBlock
  <2>3. CASE EndOcr
    BY <2>3 DEF EndOcr
  <2> QED
    BY <2>1, <2>2, <2>3
<1>4. assembled = <<>> /\ Texts(assembled') = <<>>
  BY <1>1, <1>2, NothingContributed DEF LinesInv
<1>5. /\ Slots' = Slots /\ \A k : Contributions(k)' = Contributions(k)
      /\ \A s, place : LaidOut(s, place) => LaidOut(s, place)'
  BY <1>1, LayoutKept
<1>6. Len(blocks) \in Nat /\ blocks' = blocks
  <2>1. blocks \in Seq(GoodBlock)
    BY DEF DocInv, DocTypes
  <2> QED
    BY <1>1, <2>1, LenProperties
<1>7. ASSUME pc' = "assemble"
      PROVE  /\ at' <= Len(blocks') + 1
             /\ Texts(assembled)' = FlattenSeq(Contributions(at - 1)')
  <2>1. at' = 1 /\ at' - 1 = 0 /\ 0 \in Nat
    BY <1>3, <1>7
  <2>2. FlattenSeq(Contributions(at' - 1)) = <<>>
    BY <2>1, NothingContributed
  <2>3. Contributions(at - 1)' = Contributions(at' - 1)
    BY <1>5
  <2> QED
    BY <1>4, <1>6, <2>1, <2>2, <2>3
<1> QED
  BY <1>2, <1>5, <1>7 DEF PlaceInv

LEMMA PlacePrepare ==
  ASSUME DocInv, PlaceInv,
         \/ EndAssemble
         \/ PrepareNext /\ UNCHANGED <<parsed, ocr>>
  PROVE  PlaceInv'
<1>1. UNCHANGED <<file, blocks, answers, assembled>>
  BY DEF EndAssemble, PrepareNext, CleanLine, EndClean, AddLine, OpenSection, EndSplit,
         parsed, ocr, text, splitter
<1>2. pc \in {"assemble", "clean", "split"} /\ pc' \in {"clean", "split", "done"}
  BY DEF EndAssemble, PrepareNext, CleanLine, EndClean, AddLine, OpenSection, EndSplit
<1>3. pc = "assemble" => at > Len(blocks)
  BY DEF EndAssemble, PrepareNext, CleanLine, EndClean, AddLine, OpenSection, EndSplit
<1>4. Len(blocks) \in Nat /\ blocks' = blocks /\ at \in Nat
  <2>1. blocks \in Seq(GoodBlock) /\ at \in Nat
    BY DEF DocInv, DocTypes
  <2> QED
    BY <1>1, <2>1, LenProperties
<1>5. /\ Slots' = Slots /\ \A k : Contributions(k)' = Contributions(k)
      /\ \A s, place : LaidOut(s, place) => LaidOut(s, place)'
  BY <1>1, LayoutKept
<1>6. Texts(assembled) = FlattenSeq(Contributions(Len(blocks)))
  <2>1. CASE pc = "assemble"
    <3>1. at - 1 = Len(blocks)
      BY <1>3, <1>4, <2>1 DEF PlaceInv
    <3> QED
      BY <2>1, <3>1 DEF PlaceInv
  <2>2. CASE pc # "assemble"
    BY <1>2, <2>2 DEF PlaceInv
  <2> QED
    BY <2>1, <2>2
<1>7. Texts(assembled)' = FlattenSeq(Contributions(Len(blocks))')
  <2>1. Contributions(Len(blocks))' = Contributions(Len(blocks'))
    BY <1>5
  <2>2. Texts(assembled)' = Texts(assembled)
    BY <1>1 DEF Texts
  <2> QED
    BY <1>4, <1>6, <2>1, <2>2
<1> QED
  BY <1>2, <1>5, <1>7 DEF PlaceInv

-----------------------------------------------------------------------------
\* Ranks.

LEMMA AscendingRanks ==
  ASSUME NEW n \in Nat, NEW S \in SUBSET (1..n)
  PROVE  /\ Cardinality(S) \in Nat /\ Ascending(S) \in [1..Cardinality(S) -> S]
         /\ \A m \in 1..Cardinality(S) : UpTo(Ascending(S)[m], S) = m
         /\ \A k \in S : /\ UpTo(k, S) \in 1..Cardinality(S)
                         /\ Ascending(S)[UpTo(k, S)] = k
<1> DEFINE R == {p \in S \X S : p[1] < p[2]}
           s == Ascending(S)
           N == Cardinality(S)
<1>1. IsFiniteSet(S) /\ N \in Nat
  BY PartOfInterval
<1>2. \A x, y \in S : <<x, y>> \in R <=> x < y
  OBVIOUS
<1>3. TotalOrder(R, S)
  BY <1>2 DEF TotalOrder
<1>4. \E t : Listing(t, R, S)
  BY <1>1, <1>3, Listed
<1>5. \A t : Listing(t, R, S) <=> /\ t \in [1..N -> S]
                                  /\ \A i, j \in 1..N : i < j => t[i] < t[j]
  <2> SUFFICES ASSUME NEW t, t \in [1..N -> S]
               PROVE  \A i, j \in 1..N : <<t[i], t[j]>> \in R <=> t[i] < t[j]
    BY DEF Listing
  <2> QED
    BY <1>2
<1>6. s \in [1..N -> S] /\ \A i, j \in 1..N : i < j => s[i] < s[j]
  BY <1>1, <1>4, <1>5, Zenon DEF Ascending
<1>7. Listing(s, R, S)
  BY <1>5, <1>6
<1> HIDE DEF s, R
<1>8. \A k \in S : \E m \in 1..N : s[m] = k
  BY <1>1, <1>3, <1>7, ListIsComplete
<1>9. ASSUME NEW m \in 1..N
      PROVE  UpTo(s[m], S) = m
  <2> DEFINE T == {j \in S : j <= s[m]}
             f == [l \in 1..m |-> s[l]]
  <2>1. \A l \in 1..N : s[l] \in S /\ s[l] \in Nat
    <3>1. \A x \in S : x \in Nat
      OBVIOUS
    <3>2. \A l \in 1..N : s[l] \in S
      BY <1>6
    <3> QED
      BY <3>1, <3>2
  <2>2. \A l \in 1..N : l \in 1..m <=> s[l] <= s[m]
    <3> SUFFICES ASSUME NEW l \in 1..N PROVE l \in 1..m <=> s[l] <= s[m]
      OBVIOUS
    <3>1. l < m \/ l = m \/ m < l
      BY <1>1
    <3>2. l < m => s[l] < s[m]
      BY <1>6
    <3>3. m < l => s[m] < s[l]
      BY <1>6
    <3> QED
      BY <1>1, <2>1, <3>1, <3>2, <3>3
  <2>3. f \in [1..m -> T] /\ \A j, l \in 1..m : f[j] = f[l] => j = l
    <3>1. \A l \in 1..m : l \in 1..N /\ s[l] \in T
      BY <1>1, <2>1, <2>2
    <3>2. \A j, l \in 1..m : j < l \/ j = l \/ l < j
      OBVIOUS
    <3>3. \A j, l \in 1..m : j < l => s[j] < s[l]
      BY <1>6, <3>1
    <3>4. \A j, l \in 1..m : s[j] = s[l] => j = l
      BY <2>1, <3>1, <3>2, <3>3
    <3> QED
      BY <3>1, <3>4
  <2>4. \A x \in T : \E l \in 1..m : f[l] = x
    <3> SUFFICES ASSUME NEW x \in T PROVE \E l \in 1..m : s[l] = x
      OBVIOUS
    <3>1. PICK l \in 1..N : s[l] = x
      BY <1>8
    <3> QED
      BY <2>2, <3>1
  <2> HIDE DEF T, f
  <2>5. f \in Bijection(1..m, T)
    BY <2>3, <2>4, Fun_IsBij
  <2>6. IsFiniteSet(1..m) /\ Cardinality(1..m) = m
    BY FS_Interval
  <2>7. Cardinality(T) = m
    BY <2>5, <2>6, FS_Bijection DEF ExistsBijection
  <2> QED
    BY <2>7 DEF UpTo, T
<1>10. ASSUME NEW k \in S
       PROVE  UpTo(k, S) \in 1..N /\ s[UpTo(k, S)] = k
  <2>1. PICK m \in 1..N : s[m] = k
    BY <1>8
  <2> QED
    BY <1>9, <2>1
<1> QED
  BY <1>1, <1>6, <1>9, <1>10 DEF s

\* The number in a placeholder tells the rank of its picture.
LEMMA SlotIsRank ==
  ASSUME NEW pieces \in Seq(Token \cup {"picture", "missing"}), NEW k \in 1..Len(pieces)
  PROVE  Slot(pieces, k) = Len(blocks) + Rank(pieces, k)
<1>1. PicturesIn(pieces, k) = {j \in PicturesIn(pieces, Len(pieces)) : j <= k}
  <2>1. Len(pieces) \in Nat
    BY LenProperties
  <2>2. \A j \in Nat : j \in 1..k <=> j \in 1..Len(pieces) /\ j <= k
    BY <2>1
  <2> QED
    BY <2>2 DEF PicturesIn
<1> QED
  BY <1>1 DEF Slot, Rank, UpTo

-----------------------------------------------------------------------------
\* An item is parsed.

\* The last blocks, behind o, are those of the i-th item, and block more[k] is the
\* picture at its place k, not read yet.
Fresh(item, i, o, e, more) ==
  /\ \A k : HasPicture(item, k) =>
       /\ <<i, k>> \in Pictures /\ more[k] \in (o + 1)..e
       /\ blocks[more[k]].type = "image" /\ blocks[more[k]].text = <<>>
  /\ \A j, k : HasPicture(item, j) /\ HasPicture(item, k) /\ more[j] = more[k] => j = k
  /\ \A b \in (o + 1)..e :
       /\ blocks[b].slot \in {0, b - 1}
       /\ blocks[b].picture \in Pictures =>
            \E k : HasPicture(item, k) /\ blocks[b].picture = <<i, k>> /\ more[k] = b
  /\ \A place : (\A k : HasPicture(item, k) => place[<<i, k>>] = more[k]) =>
                  Laid(item, i, o, e, place)

LEMMA BlocksAppended ==
  ASSUME blocks \in Seq(GoodBlock), NEW new \in Seq(GoodBlock), blocks' = blocks \o new
  PROVE  /\ Len(blocks) \in Nat /\ Len(new) \in Nat
         /\ Len(blocks') = Len(blocks) + Len(new)
         /\ \A b \in 1..Len(blocks) : blocks'[b] = blocks[b]
         /\ \A n \in 1..Len(new) : blocks'[Len(blocks) + n] = new[n]
<1>1. Len(blocks) \in Nat /\ Len(new) \in Nat
  BY LenProperties
<1> DEFINE all == blocks \o new
<1>2. /\ Len(all) = Len(blocks) + Len(new)
      /\ \A b \in 1..(Len(blocks) + Len(new)) :
           all[b] = IF b <= Len(blocks) THEN blocks[b] ELSE new[b - Len(blocks)]
  BY ConcatProperties
<1>3. blocks' = all
  OBVIOUS
<1> HIDE DEF all
<1>4. \A b \in 1..Len(blocks) : all[b] = blocks[b]
  BY <1>1, <1>2
<1>5. \A n \in 1..Len(new) : all[Len(blocks) + n] = new[n]
  BY <1>1, <1>2
<1> QED
  BY <1>1, <1>2, <1>3, <1>4, <1>5

LEMMA Joined ==
  ASSUME NEW x, NEW y, NEW z
  PROVE  /\ <<x>> \o <<y>> = <<x, y>> /\ <<x>> \o <<>> = <<x>>
         /\ <<x, y>> \o <<z>> = <<x, y, z>>
<1> DEFINE X == {x, y, z}
<1>1. x \in X /\ y \in X /\ z \in X
  OBVIOUS
<1> HIDE DEF X
<1>2. /\ <<x>> \in Seq(X) /\ <<y>> \in Seq(X) /\ <<z>> \in Seq(X) /\ <<x, y>> \in Seq(X)
      /\ <<>> \in Seq(X)
  BY <1>1
<1>3. <<x>> \o <<y>> = <<x, y>>
  <2> DEFINE a == <<x>>
             b == <<y>>
             s == a \o b
  <2>1. a \in Seq(X) /\ b \in Seq(X) /\ Len(a) = 1 /\ Len(b) = 1 /\ a[1] = x /\ b[1] = y
    BY <1>2
  <2> HIDE DEF a, b
  <2>2. /\ s \in Seq(X) /\ Len(s) = Len(a) + Len(b)
        /\ \A i \in 1..(Len(a) + Len(b)) : s[i] = IF i <= Len(a) THEN a[i] ELSE b[i - Len(a)]
    BY <2>1, ConcatProperties
  <2> HIDE DEF s
  <2>3. Len(s) = 2 /\ s[1] = x /\ s[2] = y
    BY <2>1, <2>2
  <2> DEFINE t == <<x, y>>
  <2>4. t \in Seq(X) /\ Len(t) = 2 /\ t[1] = x /\ t[2] = y
    BY <1>1
  <2> HIDE DEF t
  <2>5. \A i \in 1..2 : s[i] = t[i]
    <3>1. \A i \in 1..2 : i = 1 \/ i = 2
      OBVIOUS
    <3> QED
      BY <2>3, <2>4, <3>1
  <2>6. s = t
    BY <2>2, <2>3, <2>4, <2>5, SeqEqual
  <2> QED
    BY <2>6 DEF s, a, b, t
<1>4. <<x>> \o <<>> = <<x>>
  BY <1>2, ConcatEmptySeq
<1>5. <<x, y>> \o <<z>> = <<x, y, z>>
  <2> DEFINE a == <<x, y>>
             b == <<z>>
             s == a \o b
  <2>1. /\ a \in Seq(X) /\ b \in Seq(X) /\ Len(a) = 2 /\ Len(b) = 1
        /\ a[1] = x /\ a[2] = y /\ b[1] = z
    BY <1>2
  <2> HIDE DEF a, b
  <2>2. /\ s \in Seq(X) /\ Len(s) = Len(a) + Len(b)
        /\ \A i \in 1..(Len(a) + Len(b)) : s[i] = IF i <= Len(a) THEN a[i] ELSE b[i - Len(a)]
    BY <2>1, ConcatProperties
  <2> HIDE DEF s
  <2>3. Len(s) = 3 /\ s[1] = x /\ s[2] = y /\ s[3] = z
    BY <2>1, <2>2
  <2> DEFINE t == <<x, y, z>>
  <2>4. t \in Seq(X) /\ Len(t) = 3 /\ t[1] = x /\ t[2] = y /\ t[3] = z
    BY <1>1
  <2> HIDE DEF t
  <2>5. \A i \in 1..3 : s[i] = t[i]
    <3>1. \A i \in 1..3 : i = 1 \/ i = 2 \/ i = 3
      OBVIOUS
    <3> QED
      BY <2>3, <2>4, <3>1
  <2>6. s = t
    BY <2>2, <2>3, <2>4, <2>5, SeqEqual
  <2> QED
    BY <2>6 DEF s, a, b, t
<1> QED
  BY <1>3, <1>4, <1>5

LEMMA ImageFresh ==
  ASSUME NEW item \in Image, NEW i \in 1..MaxItems, blocks \in Seq(GoodBlock),
         blocks' = blocks \o <<Block("image", <<>>, 0, <<i, 1>>, FALSE)>>,
         NEW o, o = Len(blocks), NEW e, e = Len(blocks')
  PROVE  \E more : Fresh(item, i, o, e, more)'
<1> DEFINE picture == Block("image", <<>>, 0, <<i, 1>>, FALSE)
           more == [k \in {1} |-> e]
<1>1. item.type = "image" /\ \A k : HasPicture(item, k) <=> k = 1
  BY DEF Image, HasPicture
<1>2. <<i, 1>> \in Pictures
  BY DEF Pictures
<1>3. /\ picture.type = "image" /\ picture.text = <<>> /\ picture.slot = 0
      /\ picture.picture = <<i, 1>>
  BY DEF Block
<1>4. picture \in GoodBlock
  BY <1>2, NewBlocks
<1> HIDE DEF picture, GoodBlock, Pictures
<1>5. blocks' = blocks \o <<picture>> /\ <<picture>> \in Seq(GoodBlock)
  BY <1>4, SingleInSeq DEF picture
<1>6. o \in Nat /\ e = o + 1 /\ blocks'[e] = picture
  <2> DEFINE new == <<picture>>
  <2>1. Len(new) = 1 /\ new[1] = picture /\ 1 \in 1..1
    OBVIOUS
  <2>2. blocks' = blocks \o new /\ new \in Seq(GoodBlock)
    BY <1>5
  <2> HIDE DEF new
  <2>3. /\ Len(blocks) \in Nat /\ Len(blocks') = Len(blocks) + Len(new)
        /\ \A n \in 1..Len(new) : blocks'[Len(blocks) + n] = new[n]
    BY <2>2, BlocksAppended
  <2> QED
    BY <2>1, <2>3
<1>7. \A place : (\A k : HasPicture(item, k) => place[<<i, k>>] = more[k]) =>
                   Laid(item, i, o, e, place)'
  BY <1>1, <1>3, <1>6 DEF Laid
<1>8. \A b \in (o + 1)..e : b = e
  BY <1>6
<1>9. more[1] = e /\ e \in (o + 1)..e
  BY <1>6
<1> HIDE DEF more
<1>10. \A b \in (o + 1)..e :
         /\ blocks'[b].slot \in {0, b - 1}
         /\ blocks'[b].picture \in Pictures =>
              \E k : HasPicture(item, k) /\ blocks'[b].picture = <<i, k>> /\ more[k] = b
  BY <1>1, <1>3, <1>6, <1>8, <1>9
<1>11. \A k : HasPicture(item, k) =>
         /\ <<i, k>> \in Pictures /\ more[k] \in (o + 1)..e
         /\ blocks'[more[k]].type = "image" /\ blocks'[more[k]].text = <<>>
  BY <1>1, <1>2, <1>3, <1>6, <1>9
<1>12. \A j, k : HasPicture(item, j) /\ HasPicture(item, k) => j = k
  BY <1>1
<1>13. Fresh(item, i, o, e, more)'
  BY <1>7, <1>10, <1>11, <1>12 DEF Fresh
<1> QED
  BY <1>13

LEMMA TableFresh ==
  ASSUME NEW item \in Table, NEW i \in 1..MaxItems, blocks \in Seq(GoodBlock),
         blocks' = blocks \o TableBlocks(item.rows),
         NEW o, o = Len(blocks), NEW e, e = Len(blocks')
  PROVE  \E more : Fresh(item, i, o, e, more)'
<1> DEFINE table == Block("table", WordLines(item.rows), 0, NoPicture, FALSE)
<1>1. /\ item.type = "table" /\ \A k : ~HasPicture(item, k)
      /\ item.rows \in Seq(Token)
  BY BoundedIsSeq DEF Table, HasPicture
<1>2. /\ table.type = "table" /\ table.text = WordLines(item.rows) /\ table.slot = 0
      /\ table.picture = NoPicture
  BY DEF Block
<1>3. table \in GoodBlock
  <2>1. WordLines(item.rows) \in TextOf(Plaintext)
    BY <1>1, WordsArePlain DEF WordLines
  <2> QED
    BY <2>1, NewBlocks
<1>4. TableBlocks(item.rows) = <<table>>
  BY DEF TableBlocks, WordLines
<1> HIDE DEF table, GoodBlock, Pictures, NoPicture
<1>5. blocks' = blocks \o <<table>> /\ <<table>> \in Seq(GoodBlock)
  BY <1>3, <1>4, SingleInSeq
<1>6. o \in Nat /\ e = o + 1 /\ blocks'[e] = table
  BY <1>5, BlocksAppended
<1>7. \A place : Laid(item, i, o, e, place)'
  BY <1>1, <1>2, <1>6 DEF Laid, HasWords
<1>8. \A b \in (o + 1)..e : b = e
  BY <1>6
<1>9. Fresh(item, i, o, e, <<>>)'
  BY <1>1, <1>2, <1>6, <1>7, <1>8, NoPictureIsNone DEF Fresh
<1> QED
  BY <1>9

LEMMA PageFresh ==
  ASSUME NEW item \in Page, NEW i \in 1..MaxItems, blocks \in Seq(GoodBlock),
         blocks' = blocks \o PageBlocks(item, i),
         NEW o, o = Len(blocks), NEW e, e = Len(blocks')
  PROVE  \E more : Fresh(item, i, o, e, more)'
<1> DEFINE words == Block("text", WordLines(item.text), 0, NoPicture, FALSE)
           whole == Block("image", <<>>, 0, <<i, 0>>, TRUE)
           picture == Block("image", <<>>, 0, <<i, 1>>, FALSE)
           end == Block("page_break", <<>>, 0, NoPicture, FALSE)
<1>1. /\ item.type = "page" /\ item.text \in Seq(Token) /\ item.picture \in BOOLEAN
      /\ \A k : HasPicture(item, k) <=> IF item.text = <<>> THEN k = 0
                                        ELSE item.picture /\ k = 1
  <2>1. item.type = "page" /\ item.text \in Seq(Token) /\ item.picture \in BOOLEAN
    BY BoundedIsSeq DEF Page
  <2> QED
    BY <2>1 DEF HasPicture
<1>2. <<i, 0>> \in Pictures /\ <<i, 1>> \in Pictures
  BY DEF Pictures
<1>3. /\ words.type = "text" /\ words.text = WordLines(item.text) /\ words.slot = 0
      /\ words.picture = NoPicture
      /\ whole.type = "image" /\ whole.text = <<>> /\ whole.slot = 0
      /\ whole.picture = <<i, 0>>
      /\ picture.type = "image" /\ picture.text = <<>> /\ picture.slot = 0
      /\ picture.picture = <<i, 1>>
      /\ end.type = "page_break" /\ end.slot = 0 /\ end.picture = NoPicture
  BY DEF Block
<1>4. /\ words \in GoodBlock /\ whole \in GoodBlock /\ picture \in GoodBlock
      /\ end \in GoodBlock
  <2>1. WordLines(item.text) \in TextOf(Piece)
    BY <1>1, WordsArePlain, PlainIsPiece DEF WordLines
  <2> QED
    BY <1>2, <2>1, NewBlocks
<1>5. PageBlocks(item, i) =
        IF item.text = <<>> THEN <<whole>> \o <<end>>
        ELSE <<words>> \o (IF item.picture THEN <<picture>> ELSE <<>>) \o <<end>>
  BY DEF PageBlocks, WordLines
<1> HIDE DEF words, whole, picture, end, GoodBlock, Pictures, NoPicture
<1>6. CASE item.text = <<>>
  <2>1. PageBlocks(item, i) = <<whole, end>>
    BY <1>5, <1>6, Joined
  <2>2. <<whole, end>> \in Seq(GoodBlock) /\ Len(<<whole, end>>) = 2
    BY <1>4
  <2>3. /\ o \in Nat /\ e = o + 2
        /\ \A n \in 1..2 : blocks'[o + n] = <<whole, end>>[n]
    BY <2>1, <2>2, BlocksAppended
  <2>4. blocks'[o + 1] = whole /\ blocks'[o + 2] = end
    <3> DEFINE new == <<whole, end>>
    <3>1. new[1] = whole /\ new[2] = end
      OBVIOUS
    <3>2. 1 \in 1..2 /\ 2 \in 1..2
      OBVIOUS
    <3>3. \A n \in 1..2 : blocks'[o + n] = new[n]
      BY <2>3
    <3> HIDE DEF new
    <3> QED
      BY <3>1, <3>2, <3>3
  <2>5. \A b \in (o + 1)..e : b = o + 1 \/ b = o + 2
    BY <2>3
  <2> DEFINE more == [k \in {0} |-> o + 1]
  <2>6. more[0] = o + 1 /\ o + 1 \in (o + 1)..e
    BY <2>3
  <2> HIDE DEF more
  <2>7. \A place : (\A k : HasPicture(item, k) => place[<<i, k>>] = more[k]) =>
                     Laid(item, i, o, e, place)'
    BY <1>1, <1>3, <1>6, <2>3, <2>4, <2>6 DEF Laid, PageLaid
  <2>8. \A b \in (o + 1)..e : b - 1 \in Nat
    BY <2>3
  <2>9. \A k : HasPicture(item, k) <=> k = 0
    BY <1>1, <1>6
  <2>10. \A b \in (o + 1)..e :
           /\ blocks'[b].slot \in {0, b - 1}
           /\ blocks'[b].picture \in Pictures =>
                \E k : HasPicture(item, k) /\ blocks'[b].picture = <<i, k>> /\ more[k] = b
    BY <1>3, <2>4, <2>5, <2>6, <2>9, NoPictureIsNone
  <2>11. \A k : HasPicture(item, k) =>
           /\ <<i, k>> \in Pictures /\ more[k] \in (o + 1)..e
           /\ blocks'[more[k]].type = "image" /\ blocks'[more[k]].text = <<>>
    BY <1>2, <1>3, <2>4, <2>6, <2>9
  <2>12. \A j, k : HasPicture(item, j) /\ HasPicture(item, k) => j = k
    BY <2>9
  <2>13. Fresh(item, i, o, e, more)'
    BY <2>7, <2>10, <2>11, <2>12 DEF Fresh
  <2> QED
    BY <2>13
<1>7. CASE item.text # <<>> /\ item.picture
  <2>1. PageBlocks(item, i) = <<words, picture, end>>
    BY <1>5, <1>7, Joined
  <2>2. <<words, picture, end>> \in Seq(GoodBlock) /\ Len(<<words, picture, end>>) = 3
    BY <1>4
  <2>3. /\ o \in Nat /\ e = o + 3
        /\ \A n \in 1..3 : blocks'[o + n] = <<words, picture, end>>[n]
    BY <2>1, <2>2, BlocksAppended
  <2>4. blocks'[o + 1] = words /\ blocks'[o + 2] = picture /\ blocks'[o + 3] = end
    <3> DEFINE new == <<words, picture, end>>
    <3>1. new[1] = words /\ new[2] = picture /\ new[3] = end
      OBVIOUS
    <3>2. 1 \in 1..3 /\ 2 \in 1..3 /\ 3 \in 1..3
      OBVIOUS
    <3>3. \A n \in 1..3 : blocks'[o + n] = new[n]
      BY <2>3
    <3> HIDE DEF new
    <3> QED
      BY <3>1, <3>2, <3>3
  <2>5. \A b \in (o + 1)..e : b = o + 1 \/ b = o + 2 \/ b = o + 3
    BY <2>3
  <2> DEFINE more == [k \in {1} |-> o + 2]
  <2>6. more[1] = o + 2 /\ o + 2 \in (o + 1)..e
    BY <2>3
  <2> HIDE DEF more
  <2>7. \A place : (\A k : HasPicture(item, k) => place[<<i, k>>] = more[k]) =>
                     Laid(item, i, o, e, place)'
    BY <1>1, <1>3, <1>7, <2>3, <2>4, <2>6 DEF Laid, PageLaid, HasWords
  <2>8. \A b \in (o + 1)..e : b - 1 \in Nat
    BY <2>3
  <2>9. \A k : HasPicture(item, k) <=> k = 1
    BY <1>1, <1>7
  <2>10. \A b \in (o + 1)..e :
           /\ blocks'[b].slot \in {0, b - 1}
           /\ blocks'[b].picture \in Pictures =>
                \E k : HasPicture(item, k) /\ blocks'[b].picture = <<i, k>> /\ more[k] = b
    BY <1>3, <2>4, <2>5, <2>6, <2>9, NoPictureIsNone
  <2>11. \A k : HasPicture(item, k) =>
           /\ <<i, k>> \in Pictures /\ more[k] \in (o + 1)..e
           /\ blocks'[more[k]].type = "image" /\ blocks'[more[k]].text = <<>>
    BY <1>2, <1>3, <2>4, <2>6, <2>9
  <2>12. \A j, k : HasPicture(item, j) /\ HasPicture(item, k) => j = k
    BY <2>9
  <2>13. Fresh(item, i, o, e, more)'
    BY <2>7, <2>10, <2>11, <2>12 DEF Fresh
  <2> QED
    BY <2>13
<1>8. CASE item.text # <<>> /\ ~item.picture
  <2>1. PageBlocks(item, i) = <<words, end>>
    BY <1>5, <1>8, Joined
  <2>2. <<words, end>> \in Seq(GoodBlock) /\ Len(<<words, end>>) = 2
    BY <1>4
  <2>3. /\ o \in Nat /\ e = o + 2
        /\ \A n \in 1..2 : blocks'[o + n] = <<words, end>>[n]
    BY <2>1, <2>2, BlocksAppended
  <2>4. blocks'[o + 1] = words /\ blocks'[o + 2] = end
    <3> DEFINE new == <<words, end>>
    <3>1. new[1] = words /\ new[2] = end
      OBVIOUS
    <3>2. 1 \in 1..2 /\ 2 \in 1..2
      OBVIOUS
    <3>3. \A n \in 1..2 : blocks'[o + n] = new[n]
      BY <2>3
    <3> HIDE DEF new
    <3> QED
      BY <3>1, <3>2, <3>3
  <2>5. \A b \in (o + 1)..e : b = o + 1 \/ b = o + 2
    BY <2>3
  <2>6. \A k : ~HasPicture(item, k)
    BY <1>1, <1>8
  <2>7. \A place : Laid(item, i, o, e, place)'
    BY <1>1, <1>3, <1>8, <2>3, <2>4 DEF Laid, PageLaid, HasWords
  <2>8. Fresh(item, i, o, e, <<>>)'
    BY <1>3, <2>4, <2>5, <2>6, <2>7, NoPictureIsNone DEF Fresh
  <2> QED
    BY <2>8
<1> QED
  BY <1>1, <1>6, <1>7, <1>8

LEMMA ParagraphFresh ==
  ASSUME NEW item \in Paragraph, NEW i \in 1..MaxItems, blocks \in Seq(GoodBlock),
         blocks' = blocks \o ParagraphBlocks(item.pieces, i),
         NEW o, o = Len(blocks), NEW e, e = Len(blocks')
  PROVE  \E more : Fresh(item, i, o, e, more)'
<1> DEFINE pieces == item.pieces
           S == PicturesIn(pieces, Len(pieces))
           N == Cardinality(S)
           pictures == Ascending(S)
<1>1. /\ item.type = "paragraph" /\ pieces \in Seq(Token \cup {"picture", "missing"})
      /\ Len(pieces) \in 0..3
      /\ \A k \in 1..Len(pieces) : pieces[k] \in Token \cup {"picture", "missing"}
  <2>1. pieces \in BoundedSeq(Token \cup {"picture", "missing"}, 3)
    BY DEF Paragraph
  <2>2. item.type = "paragraph"
    BY DEF Paragraph
  <2> QED
    BY <2>1, <2>2, BoundedIsSeq
<1>2. \A k : HasPicture(item, k) <=> k \in 1..Len(pieces) /\ pieces[k] = "picture"
  BY <1>1 DEF HasPicture
<1>3. /\ blocks' = blocks \o ParagraphBlocks(pieces, i)
      /\ ParagraphBlocks(pieces, i) \in Seq(GoodBlock)
  BY ParagraphIsGood
<1>4. /\ S \in SUBSET (1..Len(pieces))
      /\ \A k \in S : pieces[k] \in {"picture", "missing"}
      /\ \A k \in 1..Len(pieces) : pieces[k] \notin Token => k \in S
  BY <1>1 DEF PicturesIn
<1>5. Len(pieces) \in Nat
  BY <1>1
<1>6. \A k \in 1..Len(pieces) : pieces[k] = "picture" => k \in S
  BY DEF PicturesIn
<1>7. \A k \in S : k \in 0..3
  <2> DEFINE n == Len(pieces)
  <2>1. n \in 0..3 /\ \A k \in S : k \in 1..n
    BY <1>1, <1>4
  <2> HIDE DEF n
  <2> QED
    BY <2>1
<1> HIDE DEF pieces, S
<1>8. /\ N \in Nat /\ pictures \in [1..N -> S]
      /\ \A m \in 1..N : UpTo(pictures[m], S) = m
      /\ \A k \in S : UpTo(k, S) \in 1..N /\ pictures[UpTo(k, S)] = k
  BY <1>4, <1>5, AscendingRanks
<1> HIDE DEF N, pictures
<1>9. \A k : Rank(pieces, k) = UpTo(k, S)
  BY DEF Rank, S
<1>10. \A k \in 1..Len(pieces) : Slot(pieces, k) = o + Rank(pieces, k)
  BY <1>1, SlotIsRank
<1>11. CASE pieces = <<>>
  <2>1. ParagraphBlocks(pieces, i) = <<>>
    BY <1>11 DEF ParagraphBlocks
  <2>2. o \in Nat /\ e = o
    <3> DEFINE new == ParagraphBlocks(pieces, i)
    <3>1. Len(new) = 0 /\ blocks' = blocks \o new /\ new \in Seq(GoodBlock)
      BY <1>3, <2>1
    <3> HIDE DEF new
    <3>2. Len(blocks) \in Nat /\ Len(blocks') = Len(blocks) + Len(new)
      BY <3>1, BlocksAppended
    <3> QED
      BY <3>1, <3>2
  <2>3. \A k : ~HasPicture(item, k)
    BY <1>2, <1>11
  <2>4. \A place : Laid(item, i, o, e, place)'
    BY <1>1, <1>11, <2>2 DEF Laid, ParagraphLaid, pieces
  <2>5. \A b \in (o + 1)..e : FALSE
    BY <2>2
  <2>6. Fresh(item, i, o, e, <<>>)'
    BY <2>3, <2>4, <2>5 DEF Fresh
  <2> QED
    BY <2>6
<1>12. CASE pieces # <<>>
  <2> DEFINE line == [k \in 1..Len(pieces) |-> IF pieces[k] \in Token THEN Word(pieces[k])
                                               ELSE Placeholder(Slot(pieces, k))]
             first == Block("text", <<line>>, 0, NoPicture, FALSE)
             picture(n) == Block("image", <<>>, Slot(pieces, pictures[n]),
                                 IF pieces[pictures[n]] = "picture" THEN <<i, pictures[n]>>
                                 ELSE NoPicture, FALSE)
             images == [n \in 1..N |-> picture(n)]
             new == <<first>> \o images
  <2>1. ParagraphBlocks(pieces, i) = new
    <3>1. Len(pictures) = N
      BY <1>8
    <3> QED
      BY <1>12, <3>1 DEF ParagraphBlocks, S, pictures
  <2>2. line = LineAt(pieces, o)
    BY <1>10 DEF LineAt
  <2>3. /\ first.type = "text" /\ first.text = <<LineAt(pieces, o)>> /\ first.slot = 0
        /\ first.picture = NoPicture
    BY <2>2 DEF Block
  <2>4. ASSUME NEW n \in 1..N
        PROVE  /\ picture(n).type = "image" /\ picture(n).text = <<>>
               /\ picture(n).slot = o + n
               /\ picture(n).picture = IF pieces[pictures[n]] = "picture"
                                       THEN <<i, pictures[n]>> ELSE NoPicture
    <3>1. pictures[n] \in S /\ pictures[n] \in 1..Len(pieces)
      BY <1>4, <1>8
    <3>2. Slot(pieces, pictures[n]) = o + n
      BY <1>8, <1>9, <1>10, <3>1
    <3> QED
      BY <3>2 DEF Block
  <2> HIDE DEF line, first, picture, GoodBlock, Pictures, NoPicture
  <2>5. /\ Len(new) = N + 1 /\ new[1] = first /\ \A n \in 1..N : new[n + 1] = picture(n)
    <3> DEFINE X == {first} \cup {picture(n) : n \in 1..N}
               head == <<first>>
    <3>1. head \in Seq(X) /\ Len(head) = 1 /\ head[1] = first
      OBVIOUS
    <3>2. images \in Seq(X) /\ Len(images) = N /\ \A n \in 1..N : images[n] = picture(n)
      <4>1. \A n \in 1..N : picture(n) \in X
        OBVIOUS
      <4> HIDE DEF X
      <4>2. [n \in 1..N |-> picture(n)] \in Seq(X)
        BY <1>8, <4>1, IsASeq
      <4> QED
        BY <1>8, <4>2
    <3> DEFINE all == head \o images
    <3>3. new = all
      OBVIOUS
    <3> HIDE DEF X, head, images, new
    <3>4. /\ Len(all) = Len(head) + Len(images)
          /\ \A k \in 1..(Len(head) + Len(images)) :
               all[k] = IF k <= Len(head) THEN head[k] ELSE images[k - Len(head)]
      BY <3>1, <3>2, ConcatProperties
    <3>5. /\ Len(all) = 1 + N
          /\ \A k \in 1..(1 + N) : all[k] = IF k <= 1 THEN head[k] ELSE images[k - 1]
      BY <3>1, <3>2, <3>4
    <3> HIDE DEF all
    <3>6. \A n \in 1..N : n + 1 \in 1..(1 + N) /\ ~(n + 1 <= 1) /\ n + 1 - 1 = n
      BY <1>8
    <3>7. 1 \in 1..(1 + N)
      BY <1>8
    <3> QED
      BY <1>8, <3>1, <3>2, <3>3, <3>5, <3>6, <3>7
  <2>6. blocks' = blocks \o new /\ new \in Seq(GoodBlock)
    BY <1>3, <2>1
  <2> HIDE DEF images, new
  <2>7. /\ o \in Nat /\ e = o + 1 + N /\ blocks'[o + 1] = first
        /\ \A n \in 1..N : blocks'[o + 1 + n] = picture(n)
    <3>1. /\ Len(blocks) \in Nat /\ Len(blocks') = Len(blocks) + Len(new)
          /\ \A n \in 1..Len(new) : blocks'[Len(blocks) + n] = new[n]
      BY <2>6, BlocksAppended
    <3>2. 1 \in 1..Len(new) /\ \A n \in 1..N : n + 1 \in 1..Len(new)
      BY <1>8, <2>5
    <3>3. \A n \in 1..N : blocks'[o + (n + 1)] = picture(n) /\ o + (n + 1) = o + 1 + n
      BY <2>5, <3>1, <3>2
    <3> QED
      BY <1>8, <2>5, <3>1, <3>2, <3>3
  <2>8. \A b \in (o + 2)..e : b - o - 1 \in 1..N /\ b = o + 1 + (b - o - 1)
    BY <1>8, <2>7
  <2>9. \A b \in (o + 2)..e : /\ blocks'[b].type = "image" /\ blocks'[b].text = <<>>
                              /\ blocks'[b].slot = b - 1
    <3> SUFFICES ASSUME NEW b \in (o + 2)..e
                 PROVE  /\ blocks'[b].type = "image" /\ blocks'[b].text = <<>>
                        /\ blocks'[b].slot = b - 1
      OBVIOUS
    <3>1. PICK n \in 1..N : b = o + 1 + n
      BY <2>8
    <3>2. o + n = b - 1
      BY <1>8, <2>7, <3>1
    <3> QED
      BY <2>4, <2>7, <3>1, <3>2
  <2>10. ASSUME NEW k \in S
         PROVE  LET b == o + 1 + Rank(pieces, k)
                IN  /\ b \in (o + 2)..e
                    /\ blocks'[b].picture = IF pieces[k] = "picture" THEN <<i, k>>
                                            ELSE NoPicture
                    /\ blocks'[b].text = <<>> /\ blocks'[b].type = "image"
    <3> DEFINE n == Rank(pieces, k)
    <3>1. n \in 1..N /\ pictures[n] = k
      BY <1>8, <1>9
    <3> HIDE DEF n
    <3>2. blocks'[o + 1 + n] = picture(n)
      BY <2>7, <3>1
    <3>3. o + 1 + n \in (o + 2)..e
      <4>1. o \in Nat /\ N \in Nat /\ e = o + 1 + N
        BY <1>8, <2>7
      <4> QED
        BY <3>1, <4>1
    <3> QED
      BY <2>4, <3>1, <3>2, <3>3 DEF n
  <2> DEFINE more == [k \in S |-> o + 1 + Rank(pieces, k)]
  <2>11. \A k \in S : more[k] = o + 1 + Rank(pieces, k)
    OBVIOUS
  <2> HIDE DEF more
  <2>12. \A j, k \in S : more[j] = more[k] => j = k
    <3> SUFFICES ASSUME NEW j \in S, NEW k \in S, more[j] = more[k] PROVE j = k
      OBVIOUS
    <3> DEFINE a == Rank(pieces, j)
               b == Rank(pieces, k)
    <3>1. a \in 1..N /\ b \in 1..N /\ pictures[a] = j /\ pictures[b] = k
      BY <1>8, <1>9
    <3>2. o + 1 + a = o + 1 + b
      BY <2>11
    <3> HIDE DEF a, b
    <3>3. a = b
      BY <1>8, <2>7, <3>1, <3>2
    <3> QED
      BY <3>1, <3>3
  <2>13. ASSUME NEW k, HasPicture(item, k)
         PROVE  k \in S /\ pieces[k] = "picture"
    <3>1. k \in 1..Len(pieces) /\ pieces[k] = "picture"
      BY <1>2, <2>13
    <3> QED
      BY <1>6, <3>1
  <2>14. \A k : HasPicture(item, k) =>
           /\ <<i, k>> \in Pictures /\ more[k] \in (o + 1)..e
           /\ blocks'[more[k]].type = "image" /\ blocks'[more[k]].text = <<>>
    <3> SUFFICES ASSUME NEW k, HasPicture(item, k)
                 PROVE  /\ <<i, k>> \in Pictures /\ more[k] \in (o + 1)..e
                        /\ blocks'[more[k]].type = "image" /\ blocks'[more[k]].text = <<>>
      OBVIOUS
    <3>1. k \in S /\ k \in 0..3
      BY <1>7, <2>13
    <3>2. <<i, k>> \in Pictures
      BY <3>1 DEF Pictures
    <3>3. more[k] \in (o + 2)..e
      BY <2>10, <2>11, <3>1
    <3>4. more[k] \in (o + 1)..e
      BY <2>7, <3>3
    <3> QED
      BY <2>9, <3>2, <3>3, <3>4
  <2>15. \A b \in (o + 1)..e :
           /\ blocks'[b].slot \in {0, b - 1}
           /\ blocks'[b].picture \in Pictures =>
                \E k : HasPicture(item, k) /\ blocks'[b].picture = <<i, k>> /\ more[k] = b
    <3> SUFFICES ASSUME NEW b \in (o + 1)..e
                 PROVE  /\ blocks'[b].slot \in {0, b - 1}
                        /\ blocks'[b].picture \in Pictures =>
                             \E k : /\ HasPicture(item, k) /\ blocks'[b].picture = <<i, k>>
                                    /\ more[k] = b
      OBVIOUS
    <3>1. CASE b = o + 1
      BY <2>3, <2>7, <3>1, NoPictureIsNone
    <3>2. CASE b # o + 1
      <4>1. b \in (o + 2)..e
        BY <2>7, <3>2
      <4>2. PICK n \in 1..N : b = o + 1 + n
        BY <2>8, <4>1
      <4>3. pictures[n] \in S /\ Rank(pieces, pictures[n]) = n
        BY <1>8, <1>9
      <4>4. more[pictures[n]] = b
        BY <2>11, <4>2, <4>3
      <4>5. blocks'[b].picture = IF pieces[pictures[n]] = "picture" THEN <<i, pictures[n]>>
                                 ELSE NoPicture
        BY <2>4, <2>7, <4>2
      <4>6. blocks'[b].picture \in Pictures => pieces[pictures[n]] = "picture"
        BY <4>5, NoPictureIsNone
      <4>7. pieces[pictures[n]] = "picture" => HasPicture(item, pictures[n])
        BY <1>2, <1>4, <4>3
      <4> QED
        BY <2>9, <4>1, <4>4, <4>5, <4>6, <4>7
    <3> QED
      BY <3>1, <3>2
  <2>16. ASSUME NEW place, \A k : HasPicture(item, k) => place[<<i, k>>] = more[k]
         PROVE  Laid(item, i, o, e, place)'
    <3>1. ASSUME NEW k \in S
          PROVE  LET b == o + 1 + Rank(pieces, k)
                 IN  /\ b \in (o + 2)..e
                     /\ pieces[k] = "picture" => place[<<i, k>>] = b
                     /\ pieces[k] = "missing" =>
                          blocks'[b].picture = NoPicture /\ blocks'[b].text = <<>>
      <4>1. pieces[k] = "picture" => HasPicture(item, k)
        BY <1>2, <1>4
      <4>2. pieces[k] = "picture" => place[<<i, k>>] = o + 1 + Rank(pieces, k)
        BY <2>11, <2>16, <4>1
      <4> QED
        BY <2>10, <4>2
    <3>2. ParagraphLaid(pieces, i, o, e, place)'
      BY <1>12, <2>3, <2>7, <2>9, <3>1 DEF ParagraphLaid, S, N
    <3> QED
      BY <1>1, <3>2 DEF Laid, pieces
  <2>17. Fresh(item, i, o, e, more)'
    BY <2>12, <2>13, <2>14, <2>15, <2>16 DEF Fresh
  <2> QED
    BY <2>17
<1> QED
  BY <1>11, <1>12

LEMMA PicturePlaces ==
  ASSUME NEW item, item \in Page \/ item \in Paragraph \/ item \in Table \/ item \in Image,
         NEW k, HasPicture(item, k)
  PROVE  k \in 0..3
<1>1. CASE item \in Page
  BY <1>1 DEF Page, HasPicture
<1>2. CASE item \in Paragraph
  <2>1. item.type = "paragraph" /\ item.pieces \in BoundedSeq(Token \cup {"picture", "missing"}, 3)
    BY <1>2 DEF Paragraph
  <2> DEFINE n == Len(item.pieces)
  <2>2. n \in 0..3
    BY <2>1, BoundedIsSeq
  <2>3. k \in 1..n
    BY <2>1 DEF HasPicture
  <2> HIDE DEF n
  <2> QED
    BY <2>2, <2>3
<1>3. CASE item \in Table
  BY <1>3 DEF Table, HasPicture
<1>4. CASE item \in Image
  BY <1>4 DEF Image, HasPicture
<1> QED
  BY <1>1, <1>2, <1>3, <1>4

LEMMA ItemFresh ==
  ASSUME NEW item, item \in Page \/ item \in Paragraph \/ item \in Table \/ item \in Image,
         NEW i \in 1..MaxItems, blocks \in Seq(GoodBlock),
         blocks' = blocks \o ItemBlocks(item, i),
         NEW o, o = Len(blocks), NEW e, e = Len(blocks')
  PROVE  \E more : Fresh(item, i, o, e, more)'
<1>1. CASE item \in Page
  <2>1. item.type = "page"
    BY <1>1 DEF Page
  <2>2. blocks' = blocks \o PageBlocks(item, i)
    BY <2>1 DEF ItemBlocks
  <2> QED
    BY <1>1, <2>2, PageFresh
<1>2. CASE item \in Paragraph
  <2>1. item.type = "paragraph"
    BY <1>2 DEF Paragraph
  <2>2. blocks' = blocks \o ParagraphBlocks(item.pieces, i)
    BY <2>1 DEF ItemBlocks
  <2> QED
    BY <1>2, <2>2, ParagraphFresh
<1>3. CASE item \in Table
  <2>1. item.type = "table"
    BY <1>3 DEF Table
  <2>2. blocks' = blocks \o TableBlocks(item.rows)
    BY <2>1 DEF ItemBlocks
  <2> QED
    BY <1>3, <2>2, TableFresh
<1>4. CASE item \in Image
  <2>1. item.type = "image"
    BY <1>4 DEF Image
  <2>2. blocks' = blocks \o <<Block("image", <<>>, 0, <<i, 1>>, FALSE)>>
    BY <2>1 DEF ItemBlocks
  <2> QED
    BY <1>4, <2>2, ImageFresh
<1> QED
  BY <1>1, <1>2, <1>3, <1>4

LEMMA PlaceParse ==
  ASSUME DocInv, PlaceInv, ParseItem
  PROVE  PlaceInv'
<1>1. pc = "parse" /\ pc' = pc /\ answers' = answers
  BY DEF ParseItem, ocr
<1>2. PICK item \in Items[kind] :
        /\ file' = Append(file, item)
        /\ blocks' = blocks \o ItemBlocks(item, Len(file) + 1)
  BY DEF ParseItem
<1>3. /\ Len(file) < MaxItems /\ kind \in {"pdf", "docx", "image"}
      /\ file \in Seq(Items[kind]) /\ blocks \in Seq(GoodBlock)
      /\ \A p \in Pictures : answers[p] = <<>>
  BY BoundsAssumption, <1>1, <1>2 DEF ParseItem, DocInv, DocTypes, Counted, Unread
<1>4. PICK L, i, o, e : L = Len(file) /\ i = L + 1 /\ o = Len(blocks) /\ e = Len(blocks')
  OBVIOUS
<1>5. L \in Nat /\ i \in 1..MaxItems /\ i \in Nat
  BY <1>3, <1>4, BoundsAssumption
<1>6. item \in Page \/ item \in Paragraph \/ item \in Table \/ item \in Image
  BY <1>3 DEF Items
<1>7. PICK more : Fresh(item, i, o, e, more)'
  BY <1>2, <1>3, <1>4, <1>5, <1>6, ItemFresh
<1>8. o \in Nat /\ e \in Nat /\ o <= e /\ \A b \in 1..o : blocks'[b] = blocks[b]
  <2> DEFINE new == ItemBlocks(item, i)
  <2>1. new \in Seq(GoodBlock) /\ blocks' = blocks \o new
    BY <1>2, <1>3, <1>4, <1>5, ItemIsGood
  <2> HIDE DEF new
  <2>2. /\ Len(blocks) \in Nat /\ Len(new) \in Nat
        /\ Len(blocks') = Len(blocks) + Len(new)
        /\ \A b \in 1..Len(blocks) : blocks'[b] = blocks[b]
    BY <1>3, <2>1, BlocksAppended
  <2> QED
    BY <1>4, <2>2
<1>9. Len(file') = i /\ file'[i] = item /\ \A j \in 1..L : file'[j] = file[j]
  BY <1>2, <1>3, <1>4, <1>5
<1>10. \A k : HasPicture(item, k) =>
         /\ <<i, k>> \in Pictures /\ more[k] \in (o + 1)..e
         /\ blocks'[more[k]].type = "image" /\ blocks'[more[k]].text = <<>>
  BY <1>7 DEF Fresh
<1>11. \A j, k : HasPicture(item, j) /\ HasPicture(item, k) /\ more[j] = more[k] => j = k
  BY <1>7 DEF Fresh
<1>12. \A b \in (o + 1)..e :
         /\ blocks'[b].slot \in {0, b - 1}
         /\ blocks'[b].picture \in Pictures =>
              \E k : HasPicture(item, k) /\ blocks'[b].picture = <<i, k>> /\ more[k] = b
  BY <1>7 DEF Fresh
<1>13. \A place : (\A k : HasPicture(item, k) => place[<<i, k>>] = more[k]) =>
                    Laid(item, i, o, e, place)'
  BY <1>7 DEF Fresh
<1>14. \A b \in 1..e : b \in 1..o \/ b \in (o + 1)..e
  BY <1>8
<1>15. Slots'
  <2> SUFFICES ASSUME NEW b \in 1..e PROVE blocks'[b].slot \in {0, b - 1}
    BY <1>4 DEF Slots
  <2>1. CASE b \in 1..o
    BY <1>4, <1>8, <2>1 DEF PlaceInv, Slots
  <2> QED
    BY <1>12, <1>14, <2>1
<1>16. PICK s, place : LaidOut(s, place)
  BY DEF PlaceInv
<1>17. /\ s \in [1..(L + 1) -> 0..o] /\ s[1] = 0 /\ s[i] = o
       /\ \A j \in 1..L : s[j] <= s[j + 1]
  BY <1>4, <1>16 DEF LaidOut, Starts
<1>18. PICK starts : starts = [j \in 1..(i + 1) |-> IF j = i + 1 THEN e ELSE s[j]]
  OBVIOUS
<1>19. Starts(starts)'
  <2>1. starts \in [1..(i + 1) -> 0..e]
    <3>1. ASSUME NEW j \in 1..(i + 1)
          PROVE  (IF j = i + 1 THEN e ELSE s[j]) \in 0..e
      <4>1. CASE j = i + 1
        BY <1>8, <4>1
      <4>2. CASE j # i + 1
        <5>1. j \in 1..(L + 1)
          BY <1>4, <1>5, <4>2
        <5>2. s[j] \in 0..o
          BY <1>17, <5>1
        <5> QED
          BY <1>8, <4>2, <5>2
      <4> QED
        BY <4>1, <4>2
    <3> QED
      BY <1>18, <3>1
  <2>2. starts[1] = 0 /\ starts[i + 1] = e
    BY <1>4, <1>5, <1>17, <1>18
  <2>3. ASSUME NEW j \in 1..i
        PROVE  starts[j] <= starts[j + 1]
    <3>1. CASE j = i
      BY <1>5, <1>8, <1>17, <1>18, <3>1
    <3>2. CASE j # i
      <4>1. j \in 1..L /\ j \in 1..(i + 1) /\ j + 1 \in 1..(i + 1) /\ j # i + 1 /\ j + 1 # i + 1
        BY <1>4, <1>5, <3>2
      <4> QED
        BY <1>17, <1>18, <4>1
    <3> QED
      BY <3>1, <3>2
  <2> QED
    BY <1>4, <1>9, <2>1, <2>2, <2>3 DEF Starts
<1>20. \A p \in Held : p \in Pictures /\ p[1] \in 1..L /\ p[1] # i
  <2>1. \A p \in Held : p \in Pictures /\ p[1] \in 1..Len(file)
    BY DEF Held
  <2> QED
    BY <1>4, <1>5, <2>1
<1>21. \A p : p \in Held' <=> p \in Held \/ \E k : HasPicture(item, k) /\ p = <<i, k>>
  <2>1. \A p : p \in Held' <=> /\ p \in Pictures /\ p[1] \in 1..i
                               /\ HasPicture(file'[p[1]], p[2])
    BY <1>9 DEF Held
  <2>2. \A p : p \in Held <=> /\ p \in Pictures /\ p[1] \in 1..L
                              /\ HasPicture(file[p[1]], p[2])
    BY <1>4 DEF Held
  <2>3. \A j : j \in 1..i <=> j \in 1..L \/ j = i
    BY <1>4, <1>5
  <2>4. \A p \in Pictures : p = <<p[1], p[2]>>
    BY DEF Pictures
  <2> HIDE DEF Pictures
  <2>5. \A p : p \in Held => p \in Held'
    BY <1>9, <2>1, <2>2, <2>3
  <2>6. \A k : HasPicture(item, k) => <<i, k>> \in Held'
    BY <1>9, <1>10, <2>1, <2>3
  <2>7. ASSUME NEW p \in Held'
        PROVE  p \in Held \/ \E k : HasPicture(item, k) /\ p = <<i, k>>
    <3>1. CASE p[1] \in 1..L
      BY <1>9, <2>1, <2>2, <3>1
    <3>2. CASE p[1] = i
      <4>1. HasPicture(item, p[2]) /\ p = <<i, p[2]>>
        BY <1>9, <2>1, <2>4, <3>2
      <4> QED
        BY <4>1
    <3> QED
      BY <2>1, <2>3, <3>1, <3>2
  <2> QED
    BY <2>5, <2>6, <2>7
<1> HIDE DEF Pictures, HasPicture
<1>22. PICK H : H = Held'
  OBVIOUS
<1>23. PICK all : all = [p \in H |-> IF p[1] = i THEN more[p[2]] ELSE place[p]]
  OBVIOUS
<1>24. /\ \A p \in Held : p \in H /\ all[p] = place[p]
       /\ \A k : HasPicture(item, k) => <<i, k>> \in H /\ all[<<i, k>>] = more[k]
  BY <1>20, <1>21, <1>22, <1>23
<1>25. /\ place \in [Held -> 1..o]
       /\ \A p, q \in Held : place[p] = place[q] => p = q
       /\ \A p \in Held : /\ blocks[place[p]].type = "image"
                          /\ blocks[place[p]].text = WordLines(answers[p])
       /\ \A b \in 1..o : blocks[b].picture \in Pictures =>
            blocks[b].picture \in Held /\ place[blocks[b].picture] = b
  BY <1>4, <1>16 DEF LaidOut, Places
<1>26. Places(all)'
  <2>1. \A p \in H : \/ p \in Held /\ all[p] \in 1..o /\ all[p] = place[p]
                     \/ \E k : /\ HasPicture(item, k) /\ p = <<i, k>>
                               /\ all[p] = more[k] /\ more[k] \in (o + 1)..e
    BY <1>10, <1>21, <1>22, <1>24, <1>25
  <2>2. \A b : b \in 1..o \/ b \in (o + 1)..e => b \in 1..e
    BY <1>8
  <2>3. all \in [H -> 1..e]
    BY <1>23, <2>1, <2>2
  <2>4. ASSUME NEW p \in H, NEW q \in H, all[p] = all[q]
        PROVE  p = q
    <3>1. \A b : ~(b \in 1..o /\ b \in (o + 1)..e)
      BY <1>8
    <3> QED
      BY <1>11, <1>25, <2>1, <2>4, <3>1
  <2>5. WordLines(<<>>) = <<>>
    BY DEF WordLines
  <2>6. ASSUME NEW p \in H
        PROVE  /\ blocks'[all[p]].type = "image"
               /\ blocks'[all[p]].text = WordLines(answers'[p])
    <3>1. CASE p \in Held
      <4>1. all[p] = place[p] /\ place[p] \in 1..o
        BY <1>24, <1>25, <3>1
      <4> QED
        BY <1>1, <1>8, <1>25, <3>1, <4>1
    <3>2. ASSUME NEW k, HasPicture(item, k), p = <<i, k>>
          PROVE  /\ blocks'[all[p]].type = "image"
                 /\ blocks'[all[p]].text = WordLines(answers'[p])
      <4>1. all[p] = more[k] /\ p \in Pictures
        BY <1>10, <1>24, <3>2
      <4>2. answers'[p] = <<>>
        BY <1>1, <1>3, <4>1
      <4> QED
        BY <1>10, <2>5, <3>2, <4>1, <4>2
    <3> QED
      BY <2>1, <3>1, <3>2
  <2>7. ASSUME NEW b \in 1..e, blocks'[b].picture \in Pictures
        PROVE  blocks'[b].picture \in H /\ all[blocks'[b].picture] = b
    <3>1. CASE b \in 1..o
      <4>1. blocks[b].picture \in Held /\ place[blocks[b].picture] = b
        BY <1>8, <1>25, <2>7, <3>1
      <4> QED
        BY <1>8, <1>24, <3>1, <4>1
    <3>2. CASE b \in (o + 1)..e
      <4>1. PICK k : /\ HasPicture(item, k) /\ blocks'[b].picture = <<i, k>> /\ more[k] = b
        BY <1>12, <2>7, <3>2
      <4>2. <<i, k>> \in H /\ all[<<i, k>>] = more[k]
        BY <1>24, <4>1
      <4> QED
        BY <4>1, <4>2
    <3> QED
      BY <1>14, <3>1, <3>2
  <2>8. \A p \in Pictures \ H : answers'[p] = <<>>
    BY <1>1, <1>3
  <2> QED
    BY <1>4, <1>22, <2>3, <2>4, <2>6, <2>7, <2>8 DEF Places
<1>27. ASSUME NEW j \in 1..i
       PROVE  Laid(file[j], j, starts[j], starts[j + 1], all)'
  <2>1. CASE j = i
    <3>1. starts[j] = o /\ starts[j + 1] = e
      BY <1>5, <1>17, <1>18, <2>1
    <3>2. Laid(item, i, o, e, all)'
      BY <1>13, <1>24
    <3>3. \A it, a, b : it = item /\ a = o /\ b = e => Laid(it, j, a, b, all)'
      BY <2>1, <3>2
    <3> QED
      BY <1>9, <2>1, <3>1, <3>3
  <2>2. CASE j # i
    <3>1. PICK it, a, b : it = file[j] /\ a = s[j] /\ b = s[j + 1]
      OBVIOUS
    <3>2. /\ j \in 1..L /\ j \in 1..(i + 1) /\ j + 1 \in 1..(i + 1)
          /\ j # i + 1 /\ j + 1 # i + 1 /\ j + 1 \in 1..(L + 1) /\ j \in 1..(L + 1)
      BY <1>4, <1>5, <2>2
    <3>3. starts[j] = a /\ starts[j + 1] = b /\ file'[j] = it /\ a \in 0..o /\ b \in 0..o
      BY <1>9, <1>17, <1>18, <3>1, <3>2
    <3>4. Laid(it, j, a, b, place)
      BY <1>4, <1>16, <3>1, <3>2 DEF LaidOut
    <3>5. /\ it.type = "paragraph" => it.pieces \in Seq(Token \cup {"picture", "missing"})
          /\ j \in 1..MaxItems
      <4>1. DocTypes /\ j \in 1..Len(file)
        BY <1>4, <3>2 DEF DocInv
      <4> QED
        BY <3>1, <4>1, ItemsOf
    <3>6. \A c \in (a + 1)..b : Alike(c)
      <4>1. \A c \in (a + 1)..b : c \in 1..o
        BY <1>8, <3>3
      <4> QED
        BY <1>8, <4>1 DEF Alike
    <3>7. \A k : HasPicture(it, k) => all[<<j, k>>] = place[<<j, k>>]
      <4> SUFFICES ASSUME NEW k, HasPicture(it, k) PROVE all[<<j, k>>] = place[<<j, k>>]
        OBVIOUS
      <4>1. <<j, k>> \in Pictures
        <5>1. file[j] \in Page \/ file[j] \in Paragraph \/ file[j] \in Table
                \/ file[j] \in Image
          BY <1>4, <3>2, ItemsOf DEF DocInv
        <5>2. k \in 0..3
          BY <3>1, <5>1, PicturePlaces
        <5> QED
          BY <3>5, <5>2 DEF Pictures
      <4>2. <<j, k>> \in Held
        BY <1>4, <3>1, <3>2, <4>1 DEF Held
      <4> QED
        BY <1>24, <4>2
    <3>8. Laid(it, j, a, b, all)'
      <4>1. a \in Nat /\ b \in Nat
        BY <1>8, <3>3
      <4> QED
        BY <3>4, <3>5, <3>6, <3>7, <4>1, LaidKept
    <3>9. \A x, y, z : x = it /\ y = a /\ z = b => Laid(x, j, y, z, all)'
      BY <3>8
    <3> QED
      BY <3>3, <3>9
  <2> QED
    BY <2>1, <2>2
<1>28. LaidOut(starts, all)'
  BY <1>9, <1>19, <1>26, <1>27 DEF LaidOut
<1> QED
  BY <1>1, <1>15, <1>28 DEF PlaceInv

-----------------------------------------------------------------------------
\* What the blocks of an item contribute is what it reads.

\* One part alone, and no part at all.
LEMMA TogetherOne ==
  /\ Together(<<>>) = <<>>
  /\ \A part \in TextLines : Together(<<part>>) = part
<1>1. Together(<<>>) = <<>>
  <2>1. <<>> \in Seq(TextLines) /\ Len(<<>>) = 0
    BY EmptyInSeq
  <2> QED
    BY <2>1, TogetherIs
<1>2. ASSUME NEW part \in TextLines
      PROVE  Together(<<part>>) = part
  <2> DEFINE parts == <<part>>
  <2>1. parts \in Seq(TextLines) /\ Len(parts) = 1 /\ parts[1] = part
    OBVIOUS
  <2> HIDE DEF parts
  <2>2. PICK f \in [0..1 -> TextLines] :
          /\ f[0] = <<>> /\ \A n \in 1..1 : f[n] = RunOn(f[n - 1], parts[n])
          /\ Together(parts) = f[1]
    BY <2>1, TogetherIs
  <2>3. f[1] = RunOn(<<>>, part)
    <3>1. 1 \in 1..1 /\ 1 - 1 = 0
      OBVIOUS
    <3>2. f[1] = RunOn(f[1 - 1], parts[1])
      BY <2>2, <3>1
    <3> QED
      BY <2>1, <2>2, <3>1, <3>2
  <2>4. RunOn(<<>>, part) = part
    BY DEF RunOn
  <2> QED
    BY <2>2, <2>3, <2>4 DEF parts
<1> QED
  BY <1>1, <1>2

\* Words stand for themselves.
LEMMA WordReads ==
  ASSUME NEW t \in Token
  PROVE  /\ Resolved(<<Word(t)>>) = <<<<t>>>> /\ Plain(<<Word(t)>>) = <<t>>
         /\ Standing(Word(t)) = <<<<t>>>> /\ <<<<t>>>> \in TextLines
<1> DEFINE line == <<Word(t)>>
<1>1. Len(line) = 1 /\ line[1] = Word(t) /\ line[1].word = t /\ line[1].slot = 0
  BY DEF Word
<1>2. Standing(Word(t)) = <<<<t>>>>
  BY DEF Standing, Word
<1>3. <<<<t>>>> \in TextLines
  <2>1. <<t>> \in Seq(Token) \ {<<>>}
    OBVIOUS
  <2> QED
    BY <2>1, SingleInSeq DEF TextLines, TextOf
<1> HIDE DEF line
<1>4. Resolved(line) = <<<<t>>>>
  <2>1. [k \in 1..Len(line) |-> Standing(line[k])] = <<Standing(Word(t))>>
    <3>1. \A k \in 1..1 : Standing(line[k]) = Standing(Word(t))
      BY <1>1
    <3>2. [k \in 1..1 |-> Standing(line[k])] = [k \in 1..1 |-> Standing(Word(t))]
      BY <3>1
    <3>3. \A x : [k \in 1..1 |-> x] = <<x>>
      OBVIOUS
    <3> QED
      BY <1>1, <3>2, <3>3
  <2>2. Together(<<Standing(Word(t))>>) = <<<<t>>>>
    BY <1>2, <1>3, TogetherOne
  <2> QED
    BY <2>1, <2>2 DEF Resolved
<1>5. Plain(line) = <<t>>
  <2>1. Plain(line) = [k \in 1..1 |-> line[k].word]
    BY <1>1 DEF Plain
  <2>2. \A k \in 1..1 : line[k].word = t
    BY <1>1
  <2>3. [k \in 1..1 |-> line[k].word] = [k \in 1..1 |-> t]
    BY <2>2
  <2> QED
    BY <2>1, <2>3
<1> QED
  BY <1>2, <1>3, <1>4, <1>5 DEF line

LEMMA WordsContribute ==
  ASSUME NEW b, NEW s \in Seq(Token), blocks[b].text = WordLines(s),
         blocks[b].type # "page_break", blocks[b].slot = 0
  PROVE  Contribution(b) = Lines(s)
<1> DEFINE n == Len(s)
           t == blocks[b].text
           xs == Lines(s)
<1>1. n \in Nat /\ \A k \in 1..n : s[k] \in Token
  BY LenProperties, ElementOfSeq
<1>2. Len(t) = n /\ \A k \in 1..n : t[k] = <<Word(s[k])>>
  BY <1>1 DEF WordLines
<1>3. xs \in Seq(Seq(Token)) /\ Len(xs) = n /\ \A k \in 1..n : xs[k] = <<s[k]>>
  <2>1. \A k \in 1..n : <<s[k]>> \in Seq(Token)
    BY <1>1
  <2>2. [k \in 1..n |-> <<s[k]>>] \in Seq(Seq(Token))
    BY <1>1, <2>1, IsASeq
  <2> QED
    BY <1>1, <2>2 DEF Lines
<1>4. \A k \in 1..n : Resolved(t[k]) = <<xs[k]>>
  BY <1>1, <1>2, <1>3, WordReads
<1>5. Contribution(b) = FlattenSeq([k \in 1..Len(t) |-> Resolved(t[k])])
  BY DEF Contribution, Placed, BlockLines
<1> HIDE DEF n, t, xs
<1>6. [k \in 1..n |-> Resolved(t[k])] = [k \in 1..n |-> <<xs[k]>>]
  BY <1>4
<1>7. FlattenSeq([k \in 1..Len(xs) |-> <<xs[k]>>]) = xs
  BY <1>3, FlattenSingles
<1> QED
  BY <1>2, <1>3, <1>5, <1>6, <1>7 DEF xs

LEMMA LinesJoin ==
  ASSUME NEW a \in Seq(Token), NEW b \in Seq(Token)
  PROVE  /\ Lines(a) \o Lines(b) = Lines(a \o b)
         /\ Lines(a) \in TextLines /\ Lines(<<>>) = <<>>
<1>1. \A s \in Seq(Token) : /\ Len(s) \in Nat /\ Lines(s) \in Seq(Seq(Token) \ {<<>>})
                            /\ Len(Lines(s)) = Len(s)
                            /\ \A k \in 1..Len(s) : Lines(s)[k] = <<s[k]>>
  <2> SUFFICES ASSUME NEW s \in Seq(Token)
               PROVE  /\ Len(s) \in Nat /\ Lines(s) \in Seq(Seq(Token) \ {<<>>})
                      /\ Len(Lines(s)) = Len(s)
                      /\ \A k \in 1..Len(s) : Lines(s)[k] = <<s[k]>>
    OBVIOUS
  <2> DEFINE n == Len(s)
  <2>1. n \in Nat /\ \A k \in 1..n : s[k] \in Token
    BY LenProperties, ElementOfSeq
  <2>2. \A k \in 1..n : <<s[k]>> \in Seq(Token) \ {<<>>}
    BY <2>1
  <2>3. Lines(s) = [k \in 1..n |-> <<s[k]>>]
    BY DEF Lines
  <2> HIDE DEF n
  <2>4. [k \in 1..n |-> <<s[k]>>] \in Seq(Seq(Token) \ {<<>>})
    BY <2>1, <2>2, IsASeq
  <2>5. Len([k \in 1..n |-> <<s[k]>>]) = n
    BY <2>1
  <2> QED
    BY <2>1, <2>3, <2>4, <2>5 DEF n
<1> DEFINE E == Seq(Token) \ {<<>>}
           c == a \o b
           x == Lines(a)
           y == Lines(b)
           z == Lines(c)
<1>2. /\ c \in Seq(Token) /\ Len(c) = Len(a) + Len(b)
      /\ \A k \in 1..(Len(a) + Len(b)) : c[k] = IF k <= Len(a) THEN a[k] ELSE b[k - Len(a)]
  BY ConcatProperties
<1> HIDE DEF c
<1>3. /\ x \in Seq(E) /\ Len(x) = Len(a) /\ \A k \in 1..Len(a) : x[k] = <<a[k]>>
      /\ y \in Seq(E) /\ Len(y) = Len(b) /\ \A k \in 1..Len(b) : y[k] = <<b[k]>>
      /\ z \in Seq(E) /\ Len(z) = Len(c) /\ \A k \in 1..Len(c) : z[k] = <<c[k]>>
      /\ Len(a) \in Nat /\ Len(b) \in Nat
  BY <1>1, <1>2
<1> HIDE DEF x, y, z, E
<1> DEFINE w == x \o y
<1>4. /\ w \in Seq(E) /\ Len(w) = Len(x) + Len(y)
      /\ \A k \in 1..(Len(x) + Len(y)) : w[k] = IF k <= Len(x) THEN x[k] ELSE y[k - Len(x)]
  <2>1. x \in Seq(E) /\ y \in Seq(E)
    BY <1>3
  <2> QED
    BY <2>1, ConcatProperties
<1> HIDE DEF w
<1>5. /\ w \in Seq(E) /\ Len(w) = Len(a) + Len(b)
      /\ \A k \in 1..(Len(a) + Len(b)) : w[k] = IF k <= Len(a) THEN x[k] ELSE y[k - Len(a)]
  BY <1>3, <1>4
<1>6. ASSUME NEW k \in 1..Len(w)
      PROVE  w[k] = z[k]
  <2>1. k \in 1..(Len(a) + Len(b)) /\ k \in 1..Len(c)
    BY <1>2, <1>5
  <2>2. CASE k <= Len(a)
    <3>1. k \in 1..Len(a)
      BY <1>3, <2>1, <2>2
    <3> QED
      BY <1>2, <1>3, <1>5, <2>1, <2>2, <3>1
  <2>3. CASE ~(k <= Len(a))
    <3>1. k - Len(a) \in 1..Len(b)
      BY <1>3, <2>1, <2>3
    <3> QED
      BY <1>2, <1>3, <1>5, <2>1, <2>3, <3>1
  <2> QED
    BY <2>2, <2>3
<1>7. w = z
  BY <1>2, <1>3, <1>5, <1>6, SeqEqual
<1>8. Lines(<<>>) = <<>>
  BY DEF Lines
<1> QED
  BY <1>3, <1>7, <1>8 DEF w, x, y, z, c, E, TextLines, TextOf

LEMMA AnswersAreWords ==
  ASSUME DocTypes, NEW p \in Pictures
  PROVE  answers[p] \in Seq(Token) /\ Lines(answers[p]) \in TextLines
<1>1. answers[p] \in BoundedSeq(Token, 2)
  BY DEF DocTypes
<1>2. answers[p] \in Seq(Token)
  BY <1>1, BoundedIsSeq
<1> QED
  BY <1>2, LinesJoin

\* A picture that no placeholder names contributes what was read in it.
LEMMA PictureContributes ==
  ASSUME DocTypes, NEW place, Places(place), NEW i \in 1..Len(file), NEW k,
         HasPicture(file[i], k), blocks[place[<<i, k>>]].slot = 0
  PROVE  Contribution(place[<<i, k>>]) = Lines(answers[<<i, k>>])
<1>1. i \in 1..MaxItems /\ k \in 0..3
  BY ItemsOf, PicturePlaces
<1>2. <<i, k>> \in Pictures
  BY <1>1 DEF Pictures
<1>3. <<i, k>> \in Held
  BY <1>2 DEF Held
<1> DEFINE p == <<i, k>>
           b == place[p]
<1>4. p \in Held /\ p \in Pictures /\ blocks[b].slot = 0
  BY <1>2, <1>3
<1> HIDE DEF p
<1>5. blocks[b].type = "image" /\ blocks[b].text = WordLines(answers[p])
  BY <1>4 DEF Places
<1>6. answers[p] \in Seq(Token)
  BY <1>4, AnswersAreWords
<1> HIDE DEF b
<1>7. Contribution(b) = Lines(answers[p])
  BY <1>4, <1>5, <1>6, WordsContribute
<1> QED
  BY <1>7 DEF b, p

\* What is added to the text by one block, and by blocks that stand elsewhere.
LEMMA OneMoreBlock ==
  ASSUME blocks \in Seq(GoodBlock), NEW o \in Nat, NEW b, b = o + 1, b <= Len(blocks)
  PROVE  /\ FlattenSeq(Contributions(b)) = FlattenSeq(Contributions(o)) \o Contribution(b)
         /\ FlattenSeq(Contributions(o)) \in TextLines /\ Contribution(b) \in TextLines
<1>1. o < Len(blocks)
  BY LenProperties
<1>2. /\ Contribution(o + 1) \in TextLines /\ FlattenSeq(Contributions(o)) \in TextLines
      /\ FlattenSeq(Contributions(o + 1)) =
           FlattenSeq(Contributions(o)) \o Contribution(o + 1)
  BY <1>1, ContributionsGrow
<1> QED
  BY <1>2

LEMMA NothingMore ==
  ASSUME blocks \in Seq(GoodBlock), NEW o \in Nat, NEW e \in Nat, o <= e, e <= Len(blocks),
         \A b \in (o + 1)..e : Contribution(b) = <<>>
  PROVE  FlattenSeq(Contributions(e)) = FlattenSeq(Contributions(o))
<1> DEFINE F(n) == FlattenSeq(Contributions(n))
           Good == {n \in Nat : o + n <= e => F(o + n) = F(o)}
<1>1. 0 \in Good
  <2>1. o + 0 = o
    OBVIOUS
  <2> HIDE DEF F
  <2> QED
    BY <2>1
<1>2. ASSUME NEW n \in Nat, n \in Good
      PROVE  n + 1 \in Good
  <2> SUFFICES ASSUME o + (n + 1) <= e PROVE F(o + (n + 1)) = F(o)
    OBVIOUS
  <2> HIDE DEF F
  <2>1. PICK m, b : m = o + n /\ b = m + 1
    OBVIOUS
  <2>2. /\ m \in Nat /\ b = o + (n + 1) /\ m <= e /\ b \in (o + 1)..e
        /\ F(m) = F(o)
    BY <1>2, <2>1
  <2>3. b <= Len(blocks)
    BY <2>2, LenProperties
  <2>4. F(b) = F(m) \o Contribution(b) /\ F(m) \in TextLines
    BY <2>1, <2>2, <2>3, OneMoreBlock DEF F
  <2>5. Contribution(b) = <<>>
    BY <2>2
  <2>6. F(m) \o <<>> = F(m)
    BY <2>4, ConcatEmptySeq DEF TextLines, TextOf
  <2> QED
    BY <2>2, <2>4, <2>5, <2>6
<1> HIDE DEF Good
<1>3. \A n \in Nat : n \in Good
  BY <1>1, <1>2, SetInduction
<1>4. e - o \in Nat /\ o + (e - o) = e
  OBVIOUS
<1>5. e - o \in Good
  BY <1>3, <1>4
<1> QED
  BY <1>4, <1>5 DEF Good

\* The number in a placeholder leads to its picture's block and no other.
LEMMA SlotLeads ==
  ASSUME DocTypes, Slots, NEW n \in Nat, n # 0, NEW b \in 1..Len(blocks), b = n + 1,
         blocks[b].slot = n
  PROVE  InSlot(n) = blocks[b].text
<1> DEFINE holders == {c \in 1..Len(blocks) : blocks[c].slot = n}
<1>1. Len(blocks) \in Nat
  BY LenProperties DEF DocTypes
<1>2. \A c \in holders : c = b
  BY DEF Slots
<1>3. b \in holders /\ holders \in SUBSET Nat
  BY <1>1
<1>4. InSlot(n) = blocks[Max(holders)].text
  BY <1>3 DEF InSlot
<1> HIDE DEF holders
<1>5. \A c \in holders : c <= b
  BY <1>2, <1>3
<1>6. Max(holders) = b
  BY <1>3, <1>5, MaxIs
<1> QED
  BY <1>4, <1>6

LEMMA PlaceholderReads ==
  ASSUME DocTypes, Slots, NEW n \in Nat, n # 0, NEW b \in 1..Len(blocks), b = n + 1,
         blocks[b].slot = n, NEW s \in Seq(Token), blocks[b].text = WordLines(s)
  PROVE  Standing(Placeholder(n)) = Lines(s)
<1> DEFINE t == blocks[b].text
<1>1. Standing(Placeholder(n)) = [k \in 1..Len(InSlot(n)) |-> Plain(InSlot(n)[k])]
  BY DEF Standing, Placeholder
<1>2. InSlot(n) = t
  BY SlotLeads
<1>3. Len(s) \in Nat /\ \A k \in 1..Len(s) : s[k] \in Token
  BY LenProperties, ElementOfSeq
<1>4. Len(t) = Len(s) /\ \A k \in 1..Len(s) : t[k] = <<Word(s[k])>>
  BY <1>3 DEF WordLines
<1>5. \A k \in 1..Len(s) : Plain(t[k]) = <<s[k]>>
  BY <1>3, <1>4, WordReads
<1> HIDE DEF t
<1>6. [k \in 1..Len(t) |-> Plain(t[k])] = [k \in 1..Len(s) |-> <<s[k]>>]
  BY <1>4, <1>5
<1> QED
  BY <1>1, <1>2, <1>6 DEF Lines

\* A paragraph's line reads as the paragraph does.
LEMMA ParagraphReads ==
  ASSUME DocTypes, Slots, NEW place, Places(place), NEW i \in 1..Len(file),
         file[i].type = "paragraph", file[i].pieces # <<>>,
         NEW o \in Nat, NEW e \in 0..Len(blocks),
         ParagraphLaid(file[i].pieces, i, o, e, place)
  PROVE  Resolved(LineAt(file[i].pieces, o)) = Reading(i)
<1> DEFINE pieces == file[i].pieces
           N == Len(pieces)
           S == PicturesIn(pieces, N)
           read(k) == CASE pieces[k] \in Token -> <<<<pieces[k]>>>>
                        [] pieces[k] = "picture" -> Lines(answers[<<i, k>>])
                        [] OTHER -> <<>>
           line == LineAt(pieces, o)
<1>1. i \in 1..MaxItems /\ pieces \in Seq(Token \cup {"picture", "missing"})
  BY ItemsOf
<1>2. /\ N \in Nat
      /\ \A k \in 1..N : pieces[k] \in Token \/ pieces[k] \in {"picture", "missing"}
  BY <1>1, LenProperties, ElementOfSeq
<1>3. "picture" \notin Token /\ "missing" \notin Token
  BY TokenAssumption
<1>4. Reading(i) = Together([k \in 1..N |-> read(k)])
  BY DEF Reading
<1>5. /\ Len(line) = N
      /\ \A k \in 1..N : line[k] = IF pieces[k] \in Token THEN Word(pieces[k])
                                   ELSE Placeholder(o + Rank(pieces, k))
  BY <1>2 DEF LineAt
<1>6. e = o + 1 + Cardinality(S) /\ \A b \in (o + 2)..e : blocks[b].type = "image"
                                                          /\ blocks[b].slot = b - 1
  BY DEF ParagraphLaid
<1>7. \A k \in S : LET b == o + 1 + Rank(pieces, k)
                   IN  /\ b \in (o + 2)..e
                       /\ pieces[k] = "picture" => place[<<i, k>>] = b
                       /\ pieces[k] = "missing" => blocks[b].text = <<>>
  BY DEF ParagraphLaid
<1>8. \A k \in 1..N : pieces[k] \in {"picture", "missing"} => k \in S
  BY DEF PicturesIn
<1>9. \A k \in 1..N : pieces[k] = "picture" => HasPicture(file[i], k)
  BY DEF HasPicture
<1>10. Len(blocks) \in Nat /\ e \in Nat
  BY LenProperties DEF DocTypes
<1>11. Resolved(line) = Together([k \in 1..N |-> Standing(line[k])])
  BY <1>5 DEF Resolved
<1>12. \A k : k \in S => Rank(pieces, k) \in Nat
  <2> SUFFICES ASSUME NEW k \in S PROVE Rank(pieces, k) \in Nat
    OBVIOUS
  <2>1. S \in SUBSET (1..N)
    BY DEF PicturesIn
  <2> HIDE DEF N
  <2>2. Rank(pieces, k) = UpTo(k, S)
    BY DEF Rank, N
  <2> HIDE DEF S
  <2>3. UpTo(k, S) \in 1..Cardinality(S)
    BY <1>2, <2>1, AscendingRanks
  <2> QED
    BY <2>2, <2>3
<1> HIDE DEF line, N, S
<1>13. ASSUME NEW k \in 1..N
       PROVE  Standing(line[k]) = read(k)
  <2>1. CASE pieces[k] \in Token
    <3>1. read(k) = <<<<pieces[k]>>>>
      BY <1>3, <2>1
    <3> HIDE DEF read, pieces
    <3>2. Standing(line[k]) = <<<<pieces[k]>>>>
      BY <1>5, <2>1, WordReads
    <3> QED
      BY <3>1, <3>2
  <2>2. CASE pieces[k] \notin Token
    <3>1. PICK n, b : n = o + Rank(pieces, k) /\ b = o + 1 + Rank(pieces, k)
      OBVIOUS
    <3>2. k \in S /\ Rank(pieces, k) \in Nat /\ b \in (o + 2)..e
      BY <1>2, <1>7, <1>8, <1>12, <2>2, <3>1
    <3>3. n \in Nat /\ n # 0 /\ b = n + 1 /\ b \in 1..Len(blocks) /\ b - 1 = n
      BY <1>10, <3>1, <3>2
    <3>4. blocks[b].slot = n /\ line[k] = Placeholder(n)
      BY <1>5, <1>6, <2>2, <3>1, <3>2, <3>3
    <3>5. CASE pieces[k] = "picture"
      <4> DEFINE p == <<i, k>>
      <4>1. place[p] = b /\ HasPicture(file[i], k)
        BY <1>7, <1>9, <3>1, <3>2, <3>5
      <4>2. k \in 0..3
        BY <4>1, ItemsOf, PicturePlaces
      <4>3. p \in Pictures
        BY <1>1, <4>2 DEF Pictures
      <4>4. p \in Held
        BY <4>1, <4>3 DEF Held
      <4> HIDE DEF p
      <4>5. blocks[b].text = WordLines(answers[p]) /\ answers[p] \in Seq(Token)
        BY <4>1, <4>3, <4>4, AnswersAreWords DEF Places
      <4>6. Standing(Placeholder(n)) = Lines(answers[p])
        BY <3>3, <3>4, <4>5, PlaceholderReads
      <4> QED
        BY <2>2, <3>4, <3>5, <4>6 DEF p
    <3>6. CASE pieces[k] # "picture"
      <4>1. blocks[b].text = <<>>
        BY <1>2, <1>7, <2>2, <3>1, <3>2, <3>6
      <4>2. <<>> \in Seq(Token) /\ WordLines(<<>>) = <<>>
        BY DEF WordLines
      <4>3. Standing(Placeholder(n)) = Lines(<<>>)
        BY <3>3, <3>4, <4>1, <4>2, PlaceholderReads
      <4>4. Lines(<<>>) = <<>>
        BY <4>2, LinesJoin
      <4> QED
        BY <2>2, <3>4, <3>6, <4>3, <4>4
    <3> QED
      BY <3>5, <3>6
  <2> QED
    BY <2>1, <2>2
<1> HIDE DEF read
<1>14. [k \in 1..N |-> Standing(line[k])] = [k \in 1..N |-> read(k)]
  BY <1>13
<1> QED
  BY <1>4, <1>11, <1>14 DEF line

\* The blocks of an item contribute what it reads.
LEMMA ItemReads ==
  ASSUME DocTypes, Slots, NEW s, NEW place, LaidOut(s, place), NEW i \in 1..Len(file)
  PROVE  /\ FlattenSeq(Contributions(s[i + 1])) = FlattenSeq(Contributions(s[i])) \o Reading(i)
         /\ Reading(i) \in TextLines /\ FlattenSeq(Contributions(s[i])) \in TextLines
<1>1. PICK item, o, e : item = file[i] /\ o = s[i] /\ e = s[i + 1]
  OBVIOUS
<1>2. /\ blocks \in Seq(GoodBlock) /\ Len(blocks) \in Nat
      /\ o \in Nat /\ e \in Nat /\ o <= e /\ e <= Len(blocks)
  <2>1. blocks \in Seq(GoodBlock) /\ Len(blocks) \in Nat /\ Len(file) \in Nat
    BY LenProperties DEF DocTypes
  <2>2. i \in 1..(Len(file) + 1) /\ i + 1 \in 1..(Len(file) + 1)
    BY <2>1
  <2>3. s[i] \in 0..Len(blocks) /\ s[i + 1] \in 0..Len(blocks) /\ s[i] <= s[i + 1]
    BY <2>2 DEF LaidOut, Starts
  <2> QED
    BY <1>1, <2>1, <2>3
<1>3. Laid(item, i, o, e, place) /\ Places(place)
  BY <1>1 DEF LaidOut
<1>4. item \in Page \/ item \in Paragraph \/ item \in Table \/ item \in Image
  BY <1>1, ItemsOf
<1> DEFINE F(n) == FlattenSeq(Contributions(n))
           R == Reading(i)
<1> HIDE DEF F, R
<1>5. \A n \in Nat : \A b : b = n + 1 /\ b <= Len(blocks) =>
        F(b) = F(n) \o Contribution(b) /\ F(n) \in TextLines /\ Contribution(b) \in TextLines
  BY <1>2, OneMoreBlock DEF F
<1>6. F(o) \in TextLines
  <2>1. CASE o < Len(blocks)
    <3>1. o + 1 <= Len(blocks)
      BY <1>2, <2>1
    <3> QED
      BY <1>2, <1>5, <3>1
  <2>2. CASE ~(o < Len(blocks))
    <3>1. CASE o = 0
      BY <3>1, NothingContributed, EmptyInSeq DEF F, TextLines, TextOf
    <3>2. CASE o # 0
      <4>1. PICK n : n = o - 1
        OBVIOUS
      <4>2. n \in Nat /\ o = n + 1 /\ o <= Len(blocks)
        BY <1>2, <3>2, <4>1
      <4>3. F(o) = F(n) \o Contribution(o) /\ F(n) \in TextLines
              /\ Contribution(o) \in TextLines
        BY <1>5, <4>2
      <4> QED
        BY <4>3, ConcatProperties DEF TextLines, TextOf
    <3> QED
      BY <3>1, <3>2
  <2> QED
    BY <2>1, <2>2
<1>7. \A x \in TextLines : x \o <<>> = x
  BY ConcatEmptySeq DEF TextLines, TextOf
<1>8. \A b : blocks[b].type = "page_break" => Contribution(b) = <<>>
  BY DEF Contribution
<1>9. \A a, b, c \in TextLines : (a \o b) \o c = a \o (b \o c)
  BY ConcatAssociative DEF TextLines, TextOf
<1>10. CASE item \in Page
  <2>1. item.type = "page" /\ item.text \in Seq(Token) /\ item.picture \in BOOLEAN
    BY <1>10, BoundedIsSeq DEF Page
  <2>2. PageLaid(item, i, o, e, place)
    BY <1>3, <2>1 DEF Laid
  <2>3. blocks[e].type = "page_break" /\ Contribution(e) = <<>>
    BY <1>8, <2>2 DEF PageLaid
  <2>4. CASE item.text = <<>>
    <3>1. R = Lines(answers[<<i, 0>>])
      BY <1>1, <2>1, <2>4 DEF Reading, R
    <3>2. e = o + 2 /\ place[<<i, 0>>] = o + 1 /\ blocks[o + 1].slot = 0
      BY <2>2, <2>4 DEF PageLaid
    <3>3. HasPicture(item, 0)
      BY <2>1, <2>4 DEF HasPicture
    <3>4. Contribution(o + 1) = R
      BY <1>1, <1>3, <3>1, <3>2, <3>3, PictureContributes
    <3>5. /\ o + 1 \in Nat /\ o + 1 <= Len(blocks) /\ e = (o + 1) + 1 /\ e <= Len(blocks)
      BY <1>2, <3>2
    <3>6. F(o + 1) = F(o) \o R /\ R \in TextLines
      BY <1>2, <1>5, <3>4, <3>5
    <3>7. F(e) = F(o + 1) \o <<>> /\ F(o + 1) \in TextLines
      BY <1>5, <2>3, <3>5
    <3> QED
      BY <1>1, <1>6, <1>7, <3>6, <3>7 DEF F, R
  <2>5. CASE item.text # <<>> /\ ~item.picture
    <3>1. HasWords(o + 1, item.text) /\ e = o + 2
      BY <2>2, <2>5 DEF PageLaid
    <3>2. answers[<<i, 1>>] = <<>>
      <4>1. i \in 1..MaxItems
        BY ItemsOf
      <4>2. <<i, 1>> \in Pictures
        BY <4>1 DEF Pictures
      <4>3. ~HasPicture(item, 1)
        BY <2>1, <2>5 DEF HasPicture
      <4>4. <<i, 1>> \notin Held
        BY <1>1, <4>3 DEF Held
      <4> QED
        BY <1>3, <4>2, <4>4 DEF Places
    <3>3. R = Lines(item.text)
      <4>1. R = Lines(item.text \o <<>>)
        BY <1>1, <2>1, <2>5, <3>2 DEF Reading, R
      <4>2. item.text \o <<>> = item.text
        BY <2>1, ConcatEmptySeq
      <4> QED
        BY <4>1, <4>2
    <3>4. Contribution(o + 1) = R
      BY <2>1, <3>1, <3>3, WordsContribute DEF HasWords
    <3>5. /\ o + 1 \in Nat /\ o + 1 <= Len(blocks) /\ e = (o + 1) + 1 /\ e <= Len(blocks)
      BY <1>2, <3>1
    <3>6. F(o + 1) = F(o) \o R /\ R \in TextLines
      BY <1>2, <1>5, <3>4, <3>5
    <3>7. F(e) = F(o + 1) \o <<>> /\ F(o + 1) \in TextLines
      BY <1>5, <2>3, <3>5
    <3> QED
      BY <1>1, <1>6, <1>7, <3>6, <3>7 DEF F, R
  <2>6. CASE item.text # <<>> /\ item.picture
    <3> DEFINE a == answers[<<i, 1>>]
    <3>1. /\ HasWords(o + 1, item.text) /\ e = o + 3
          /\ place[<<i, 1>>] = o + 2 /\ blocks[o + 2].slot = 0
      BY <2>2, <2>6 DEF PageLaid
    <3>2. R = Lines(item.text \o a)
      BY <1>1, <2>1, <2>6 DEF Reading, R
    <3>3. HasPicture(item, 1)
      BY <2>1, <2>6 DEF HasPicture
    <3>4. Contribution(o + 1) = Lines(item.text)
      BY <2>1, <3>1, WordsContribute DEF HasWords
    <3>5. Contribution(o + 2) = Lines(a)
      BY <1>1, <1>3, <3>1, <3>3, PictureContributes
    <3>6. a \in Seq(Token)
      <4>1. i \in 1..MaxItems
        BY ItemsOf
      <4>2. <<i, 1>> \in Pictures
        BY <4>1 DEF Pictures
      <4> QED
        BY <4>2, AnswersAreWords
    <3> HIDE DEF a
    <3>7. /\ Lines(item.text) \o Lines(a) = R
          /\ Lines(item.text) \in TextLines /\ Lines(a) \in TextLines
      BY <2>1, <3>2, <3>6, LinesJoin
    <3>8. /\ o + 1 \in Nat /\ o + 1 <= Len(blocks) /\ o + 2 = (o + 1) + 1
          /\ o + 2 \in Nat /\ o + 2 <= Len(blocks) /\ e = (o + 2) + 1 /\ e <= Len(blocks)
      BY <1>2, <3>1
    <3>9. F(o + 1) = F(o) \o Lines(item.text)
      BY <1>2, <1>5, <3>4, <3>8
    <3>10. F(o + 2) = F(o + 1) \o Lines(a)
      BY <1>5, <3>5, <3>8
    <3>11. F(e) = F(o + 2) \o <<>> /\ F(o + 2) \in TextLines
      BY <1>5, <2>3, <3>8
    <3>12. F(e) = (F(o) \o Lines(item.text)) \o Lines(a)
      BY <1>7, <3>9, <3>10, <3>11
    <3>13. F(e) = F(o) \o R
      BY <1>6, <1>9, <3>7, <3>12
    <3>14. R \in TextLines
      <4>1. Lines(item.text) \o Lines(a) \in TextLines
        BY <3>7, ConcatProperties DEF TextLines, TextOf
      <4> QED
        BY <3>7, <4>1
    <3> QED
      BY <1>1, <1>6, <3>13, <3>14 DEF F, R
  <2> QED
    BY <2>1, <2>4, <2>5, <2>6
<1>11. CASE item \in Paragraph
  <2>1. item.type = "paragraph"
    BY <1>11 DEF Paragraph
  <2>2. ParagraphLaid(item.pieces, i, o, e, place)
    BY <1>3, <2>1 DEF Laid
  <2>3. CASE item.pieces = <<>>
    <3>1. e = o
      BY <2>2, <2>3 DEF ParagraphLaid
    <3>2. R = <<>>
      <4>1. Len(item.pieces) = 0
        BY <2>3
      <4> DEFINE read(k) == CASE item.pieces[k] \in Token -> <<<<item.pieces[k]>>>>
                              [] item.pieces[k] = "picture" -> Lines(answers[<<i, k>>])
                              [] OTHER -> <<>>
      <4>2. R = Together([k \in 1..Len(item.pieces) |-> read(k)])
        BY <1>1, <2>1 DEF Reading, R
      <4> HIDE DEF read
      <4>3. [k \in 1..Len(item.pieces) |-> read(k)] = <<>>
        BY <4>1
      <4> QED
        BY <4>2, <4>3, TogetherOne
    <3>3. R \in TextLines
      BY <3>2, EmptyInSeq DEF TextLines, TextOf
    <3> QED
      BY <1>1, <1>6, <1>7, <3>1, <3>2, <3>3 DEF F, R
  <2>4. CASE item.pieces # <<>>
    <3> DEFINE line == LineAt(item.pieces, o)
    <3>1. /\ blocks[o + 1].type = "text" /\ blocks[o + 1].text = <<line>>
          /\ e = o + 1 + Cardinality(PicturesIn(item.pieces, Len(item.pieces)))
          /\ \A b \in (o + 2)..e : blocks[b].type = "image" /\ blocks[b].slot = b - 1
      BY <2>2, <2>4 DEF ParagraphLaid
    <3>2. Cardinality(PicturesIn(item.pieces, Len(item.pieces))) \in Nat
      <4> DEFINE n == Len(item.pieces)
                 S == PicturesIn(item.pieces, n)
      <4>1. n \in Nat
        BY <1>1, <2>1, ItemsOf, LenProperties
      <4>2. S \in SUBSET (1..n)
        BY DEF PicturesIn
      <4> HIDE DEF n, S
      <4>3. Cardinality(S) \in Nat
        BY <4>1, <4>2, PartOfInterval
      <4> QED
        BY <4>3 DEF n, S
    <3>3. o + 1 <= e /\ o + 1 <= Len(blocks) /\ o + 1 \in 1..Len(blocks) /\ o + 1 \in Nat
      BY <1>2, <3>1, <3>2
    <3>4. Resolved(line) = R
      <4>1. e \in 0..Len(blocks)
        BY <1>2
      <4> QED
        BY <1>1, <1>2, <1>3, <2>1, <2>2, <2>4, <4>1, ParagraphReads DEF R
    <3>5. Resolved(line) \in TextLines
      <4>1. blocks[o + 1] \in GoodBlock
        BY <1>2, <3>3, ElementOfSeq
      <4>2. <<line>> \in Seq(Seq(Piece) \ {<<>>})
        BY <3>1, <4>1 DEF GoodBlock, TextOf
      <4>3. <<line>>[1] = line /\ 1 \in 1..Len(<<line>>)
        OBVIOUS
      <4> HIDE DEF line
      <4>4. line \in Seq(Piece)
        BY <4>2, <4>3, ElementOfSeq
      <4> QED
        BY <1>2, <4>4, ResolvedIsLines
    <3>6. Contribution(o + 1) = R
      <4>1. Contribution(o + 1) = BlockLines(blocks[o + 1])
        BY <3>1 DEF Contribution, Placed
      <4> DEFINE t == <<line>>
      <4>2. BlockLines(blocks[o + 1]) = FlattenSeq([k \in 1..Len(t) |-> Resolved(t[k])])
        BY <3>1 DEF BlockLines
      <4>3. Len(t) = 1 /\ t[1] = line
        OBVIOUS
      <4> HIDE DEF t, line
      <4>4. [k \in 1..Len(t) |-> Resolved(t[k])] = <<R>>
        <5>1. \A k \in 1..1 : Resolved(t[k]) = R
          BY <3>4, <4>3
        <5>2. [k \in 1..1 |-> Resolved(t[k])] = [k \in 1..1 |-> R]
          BY <5>1
        <5>3. [k \in 1..1 |-> R] = <<R>>
          OBVIOUS
        <5> QED
          BY <4>3, <5>2, <5>3
      <4>5. FlattenSeq(<<R>>) = R
        BY <3>4, <3>5, FlattenOne DEF TextLines, TextOf
      <4> QED
        BY <4>1, <4>2, <4>4, <4>5
    <3> HIDE DEF line
    <3>7. F(o + 1) = F(o) \o R
      BY <1>2, <1>5, <3>3, <3>6
    <3>8. \A b \in ((o + 1) + 1)..e : Contribution(b) = <<>>
      <4> SUFFICES ASSUME NEW b \in ((o + 1) + 1)..e PROVE Contribution(b) = <<>>
        OBVIOUS
      <4>1. b \in (o + 2)..e /\ b - 1 # 0
        BY <1>2, <3>3
      <4>2. blocks[b].type = "image" /\ blocks[b].slot # 0
        BY <3>1, <4>1
      <4> QED
        BY <4>2 DEF Contribution, Placed
    <3>9. F(e) = F(o + 1)
      BY <1>2, <3>3, <3>8, NothingMore DEF F
    <3> QED
      BY <1>1, <1>6, <3>4, <3>5, <3>7, <3>9 DEF F, R
  <2> QED
    BY <2>3, <2>4
<1>12. CASE item \in Table
  <2>1. item.type = "table" /\ item.rows \in Seq(Token)
    BY <1>12, BoundedIsSeq DEF Table
  <2>2. e = o + 1 /\ HasWords(e, item.rows)
    BY <1>3, <2>1 DEF Laid
  <2>3. R = Lines(item.rows)
    BY <1>1, <2>1 DEF Reading, R
  <2>4. Contribution(e) = R
    BY <2>1, <2>2, <2>3, WordsContribute DEF HasWords
  <2>5. F(e) = F(o) \o R /\ R \in TextLines
    BY <1>2, <1>5, <2>2, <2>4
  <2> QED
    BY <1>1, <1>6, <2>5 DEF F, R
<1>13. CASE item \in Image
  <2>1. item.type = "image" /\ HasPicture(item, 1)
    BY <1>13 DEF Image, HasPicture
  <2>2. e = o + 1 /\ place[<<i, 1>>] = e /\ blocks[e].slot = 0
    BY <1>3, <2>1 DEF Laid
  <2>3. R = Lines(answers[<<i, 1>>])
    BY <1>1, <2>1 DEF Reading, R
  <2>4. Contribution(e) = R
    BY <1>1, <1>3, <2>1, <2>2, <2>3, PictureContributes
  <2>5. F(e) = F(o) \o R /\ R \in TextLines
    BY <1>2, <1>5, <2>2, <2>4
  <2> QED
    BY <1>1, <1>6, <2>5 DEF F, R
<1> QED
  BY <1>4, <1>10, <1>11, <1>12, <1>13

\* The items' readings.
Readings(n) == [i \in 1..n |-> Reading(i)]

LEMMA FileReads ==
  ASSUME DocTypes, Slots, NEW s, NEW place, LaidOut(s, place)
  PROVE  FlattenSeq(Contributions(Len(blocks))) = FlattenSeq(Readings(Len(file)))
<1> DEFINE F(n) == FlattenSeq(Contributions(n))
           G(n) == FlattenSeq(Readings(n))
           L == Len(file)
           E == Seq(Token) \ {<<>>}
<1>1. L \in Nat
  BY LenProperties DEF DocTypes
<1>2. s[1] = 0 /\ s[L + 1] = Len(blocks)
  BY DEF LaidOut, Starts
<1>3. \A i \in 1..L : /\ F(s[i + 1]) = F(s[i]) \o Reading(i)
                      /\ Reading(i) \in TextLines
  BY ItemReads
<1>4. F(s[1]) = <<>> /\ G(0) = <<>>
  <2>1. Readings(0) = <<>>
    BY DEF Readings
  <2>2. F(0) = <<>>
    BY NothingContributed
  <2> QED
    BY <1>2, <2>1, <2>2, FlattenEmpty
<1> HIDE DEF F, L
<1>5. ASSUME NEW n \in Nat, NEW m, m = n + 1, m <= L
      PROVE  G(m) = G(n) \o Reading(m)
  <2>1. \A i \in 1..m : Reading(i) \in Seq(E)
    BY <1>1, <1>3, <1>5 DEF TextLines, TextOf
  <2> HIDE DEF E
  <2> DEFINE c == Readings(n)
             x == Reading(m)
             d == Readings(m)
  <2>2. c \in Seq(Seq(E)) /\ Len(c) = n /\ x \in Seq(E)
    <3>1. m \in 1..m /\ \A i \in 1..n : i \in 1..m
      BY <1>5
    <3>2. \A i \in 1..n : Reading(i) \in Seq(E)
      BY <2>1, <3>1
    <3>3. [i \in 1..n |-> Reading(i)] \in Seq(Seq(E))
      BY <3>2, IsASeq
    <3>4. c \in Seq(Seq(E)) /\ Len(c) = n
      BY <3>3 DEF Readings
    <3> QED
      BY <2>1, <3>1, <3>4
  <2>3. /\ d = [i \in 1..m |-> Reading(i)]
        /\ \A i \in 1..n : c[i] = Reading(i)
    BY DEF Readings
  <2>4. d \in Seq(Seq(E)) /\ Len(d) = m
    <3>1. [i \in 1..m |-> Reading(i)] \in Seq(Seq(E))
      BY <1>5, <2>1, IsASeq
    <3>2. m \in Nat
      BY <1>5
    <3> QED
      BY <3>1, <3>2 DEF Readings
  <2>5. \A i \in 1..m : d[i] = IF i = m THEN x ELSE c[i]
    <3> HIDE DEF c, d
    <3> QED
      BY <1>5, <2>3
  <2> HIDE DEF c, d, x
  <2>6. Append(c, x) = d
    <3> DEFINE a == Append(c, x)
    <3>1. /\ a \in Seq(Seq(E)) /\ Len(a) = n + 1 /\ a[n + 1] = x
          /\ \A i \in 1..n : a[i] = c[i]
      BY <2>2, AppendProperties
    <3> HIDE DEF a
    <3>2. \A i \in 1..m : a[i] = d[i]
      BY <1>5, <2>5, <3>1
    <3>3. a = d
      BY <1>5, <2>4, <3>1, <3>2, SeqEqual
    <3> QED
      BY <3>3 DEF a
  <2>7. FlattenSeq(Append(c, x)) = FlattenSeq(c) \o x
    BY <2>2, FlattenAppend
  <2> QED
    BY <2>6, <2>7 DEF c, d, x
<1> HIDE DEF G
<1> DEFINE Good == {n \in Nat : n <= L => F(s[n + 1]) = G(n)}
<1>6. 0 \in Good
  <2>1. 0 + 1 = 1
    OBVIOUS
  <2>2. F(s[0 + 1]) = G(0)
    BY <1>4, <2>1
  <2> QED
    BY <2>2
<1>7. ASSUME NEW n \in Nat, n \in Good
      PROVE  n + 1 \in Good
  <2> SUFFICES ASSUME n + 1 <= L PROVE F(s[n + 1 + 1]) = G(n + 1)
    OBVIOUS
  <2>1. PICK m : m = n + 1
    OBVIOUS
  <2>2. m \in 1..L /\ m <= L /\ n <= L
    BY <1>1, <2>1
  <2>3. F(s[m]) = G(n)
    BY <1>7, <2>1, <2>2
  <2>4. F(s[m + 1]) = F(s[m]) \o Reading(m)
    BY <1>3, <2>2
  <2>5. G(m) = G(n) \o Reading(m)
    BY <1>5, <2>1, <2>2
  <2> QED
    BY <2>1, <2>3, <2>4, <2>5
<1> HIDE DEF Good
<1>8. L \in Good
  BY <1>1, <1>6, <1>7, SetInduction
<1>9. F(s[L + 1]) = G(L)
  BY <1>1, <1>8 DEF Good
<1> QED
  BY <1>2, <1>9 DEF F, G, L

LEMMA PlaceStep ==
  ASSUME DocInv, LinesInv, PlaceInv, [Next]_vars
  PROVE  PlaceInv'
<1>1. CASE ParseItem
  BY <1>1, PlaceParse
<1>2. CASE EndParse \/ PassBlock \/ EndOcr
  BY <1>2, PlaceOcr
<1>3. CASE ReadBlock
  BY <1>3, PlaceReadBlock
<1>4. CASE MissBlock
  BY <1>4, PlaceMissBlock
<1>5. CASE AssembleBlock
  BY <1>5, PlaceAssemble
<1>6. CASE EndAssemble
  BY <1>6, PlacePrepare
<1>7. CASE PrepareNext /\ UNCHANGED <<parsed, ocr>>
  BY <1>7, PlacePrepare
<1>8. CASE UNCHANGED vars
  <2>1. /\ UNCHANGED <<file, blocks, answers>>
        /\ pc' = pc /\ at' = at /\ assembled' = assembled
    BY <1>8 DEF vars, parsed, ocr, text
  <2>2. /\ Slots' = Slots /\ \A n : Contributions(n)' = Contributions(n)
        /\ \A s, place : LaidOut(s, place) => LaidOut(s, place)'
    BY <2>1, LayoutKept
  <2>3. Texts(assembled)' = Texts(assembled)
    BY <2>1 DEF Texts
  <2>4. /\ Contributions(at - 1)' = Contributions(at - 1)
        /\ Contributions(Len(blocks))' = Contributions(Len(blocks))
    <3>1. at' - 1 = at - 1 /\ Len(blocks') = Len(blocks)
      BY <2>1
    <3>2. /\ Contributions(at - 1)' = Contributions(at' - 1)
          /\ Contributions(Len(blocks))' = Contributions(Len(blocks'))
      BY <2>2
    <3> QED
      BY <3>1, <3>2
  <2> QED
    BY <2>1, <2>2, <2>3, <2>4 DEF PlaceInv
<1> QED
  BY <1>1, <1>2, <1>3, <1>4, <1>5, <1>6, <1>7, <1>8 DEF Next

-----------------------------------------------------------------------------
\* What holds of every file.

\* The document, the lines and the sections keep their invariant on the way from a file
\* to its sections.
THEOREM TextInvariant == Spec => []TextInv
<1>1. Init => TextInv
  BY DocInit, LinesInit, SplitInit DEF TextInv
<1>2. TextInv /\ [Next]_vars => TextInv'
  BY DocStep, LinesStep, SplitStep DEF TextInv
<1> QED
  BY <1>1, <1>2, PTL DEF Spec

\* The parser, OCR, the assembler and the splitter keep their variables' types, and a
\* block that OCR has read is a picture no longer.
THEOREM DocumentTypes == Spec => []TypeOK
<1>1. TextInv => TypeOK
  <2> SUFFICES ASSUME TextInv PROVE TypeOK
    OBVIOUS
  <2>1. DocTypes /\ Counted
    BY DEF TextInv, DocInv
  <2>2. kind \in DOMAIN Items /\ \A i \in 1..Len(file) : file[i] \in Items[kind]
    <3>1. kind \in {"pdf", "docx", "image"} /\ file \in Seq(Items[kind])
      BY <2>1 DEF DocTypes
    <3>2. \A i \in 1..Len(file) : file[i] \in Items[kind]
      BY <3>1, ElementOfSeq
    <3> QED
      BY <3>1, <3>2 DEF Items
  <2>3. \A b \in 1..Len(blocks) :
          /\ blocks[b].type \in {"text", "table", "image", "page_break"}
          /\ blocks[b].picture \in Pictures \cup {NoPicture}
          /\ blocks[b].source = "ocr" => blocks[b].picture = NoPicture /\ blocks[b].text # <<>>
    <3>1. \A b \in 1..Len(blocks) : blocks[b] \in GoodBlock
      BY <2>1, ElementOfSeq DEF DocTypes
    <3> HIDE DEF Pictures, NoPicture
    <3> QED
      BY <3>1 DEF GoodBlock, BlockTypes
  <2>4. \A c \in DOMAIN tally : tally[c] \in 0..Len(blocks)
    <3>1. /\ Cardinality(targets) \in 0..Len(blocks) /\ Cardinality(Behind) \in 0..Len(blocks)
          /\ Len(blocks) \in Nat
      BY <2>1, FewBlocks
    <3>2. Sum \in 0..Len(blocks)
      BY <2>1, <3>1 DEF Counted
    <3>3. tally \in [succeeded : Nat, failed : Nat, blank : Nat]
      BY <2>1 DEF DocTypes
    <3>4. DOMAIN tally = {"succeeded", "failed", "blank"}
          /\ tally.succeeded \in Nat /\ tally.failed \in Nat /\ tally.blank \in Nat
      BY <3>3
    <3>5. /\ tally.succeeded \in 0..Len(blocks) /\ tally.failed \in 0..Len(blocks)
          /\ tally.blank \in 0..Len(blocks)
      BY <3>1, <3>2, <3>4 DEF Sum
    <3> QED
      BY <3>4, <3>5
  <2>5. PrepareTypeOK
    BY <2>1 DEF TextInv, DocTypes, LinesInv, SplitInv, PrepareTypeOK
  <2> QED
    BY <2>1, <2>2, <2>3, <2>4, <2>5 DEF TypeOK, DocTypes
<1> QED
  BY <1>1, TextInvariant, PTL

\* Of every file, whatever OCR reads in its pictures, the assembled text reads item by
\* item as the file does: no step loses, doubles or misplaces what a picture stands for.
THEOREM TextStaysInPlace == Spec => []TextInPlace
<1>1. Init => TextInv /\ PlaceInv
  BY DocInit, LinesInit, SplitInit, PlaceInit DEF TextInv
<1>2. (TextInv /\ PlaceInv) /\ [Next]_vars => (TextInv /\ PlaceInv)'
  BY DocStep, LinesStep, SplitStep, PlaceStep DEF TextInv
<1>3. TextInv /\ PlaceInv => TextInPlace
  <2> SUFFICES ASSUME DocTypes, PlaceInv, pc \in {"clean", "split", "done"}
               PROVE  Texts(assembled) = FlattenSeq([i \in 1..Len(file) |-> Reading(i)])
    BY DEF TextInv, DocInv, TextInPlace
  <2>1. Slots /\ \E s, place : LaidOut(s, place)
    BY DEF PlaceInv
  <2>2. FlattenSeq(Contributions(Len(blocks))) = FlattenSeq(Readings(Len(file)))
    BY <2>1, FileReads
  <2> QED
    BY <2>2 DEF PlaceInv, Readings
<1> QED
  BY <1>1, <1>2, <1>3, PTL DEF Spec

\* What the result says of OCR is what happened, in files of any size: the counters add
\* up to the blocks to be read, the method says whether OCR added text and whether all
\* of it succeeded, and no page without text of a scanned PDF was passed over.
THEOREM OcrIsTold == Spec => []OcrTold
<1>1. TextInv => OcrTold
  <2> SUFFICES ASSUME TextInv, pc \in {"assemble", "clean", "split", "done"}
               PROVE  LET pages == {i \in 1..Len(file) : kind = "pdf" /\ file[i].text = <<>>}
                      IN  /\ Sum = Cardinality(targets)
                          /\ method = "direct" <=> \A p \in Pictures : answers[p] = <<>>
                          /\ method = "ocr" => scanned /\ tally.failed = 0
                          /\ kind = "pdf" /\ scanned /\ pages # {} => Sum = Cardinality(pages)
    BY DEF OcrTold, Sum
  <2>1. DocTypes /\ Counted /\ PagesToRead /\ pc \notin {"parse", "ocr"}
    BY DEF TextInv, DocInv
  <2>2. Sum = Cardinality(targets) /\ method = ParseMethod /\ (tally.succeeded = 0 <=> Unread)
    BY <2>1 DEF Counted
  <2>3. tally.succeeded \in Nat
    BY <2>1 DEF DocTypes
  <2>4. /\ method = "direct" <=> tally.succeeded = 0
        /\ method = "ocr" => scanned /\ tally.failed = 0
    BY <2>2, <2>3 DEF ParseMethod
  <2>5. kind = "pdf" => {i \in 1..Len(file) : kind = "pdf" /\ file[i].text = <<>>} = Textless
    BY DEF Textless
  <2> QED
    BY <2>1, <2>2, <2>4, <2>5 DEF PagesToRead, Unread
<1> QED
  BY <1>1, TextInvariant, PTL

\* No line of a cleaned text of any length is lost between two sections, doubled or
\* moved, but for a cover before the first heading, and source blocks go forward.
THEOREM SectionsAreTheText == Spec => []SectionsCoverText
<1>1. TextInv => SectionsCoverText
  <2> SUFFICES ASSUME TextInv, pc = "done"
               PROVE  /\ \/ SectionLines = Texts(lines)
                         \/ \E d \in 1..(Len(lines) - 1) :
                              /\ HeadingLevel(lines[d + 1].text) # 0
                              /\ \A i \in 1..d : HeadingLevel(lines[i].text) = 0
                              /\ ~KeepPreface(SubSeq(lines, 1, d))
                              /\ SectionLines = SubSeq(Texts(lines), d + 1, Len(lines))
                      /\ \A i \in 1..Len(sections) :
                           /\ sections[i].source_block_start <= sections[i].source_block_end
                           /\ i > 1 => sections[i - 1].source_block_end
                                         <= sections[i].source_block_start
    BY DEF SectionsCoverText
  <2>1. Cover(Len(lines)) /\ lines \in Seq(Line)
    BY DEF TextInv, LinesInv, SplitInv
  <2>2. /\ Texts(lines) \in Seq(Seq(Token)) /\ Len(Texts(lines)) = Len(lines)
        /\ Len(lines) \in Nat
    BY <2>1, TextsOf
  <2>3. PICK d \in 0..Len(lines) :
          /\ Dropped(lines, d)
          /\ FlattenSeq(SectionTexts(sections)) = SubSeq(Texts(lines), d + 1, Len(lines))
    BY <2>1 DEF Cover, Covers
  <2>4. SectionLines = FlattenSeq(SectionTexts(sections))
    BY DEF SectionLines, SectionTexts
  <2>5. CASE d = 0
    <3>1. SubSeq(Texts(lines), 1, Len(lines)) = Texts(lines)
      BY <2>2, SubSeqFull
    <3>2. d + 1 = 1
      BY <2>5
    <3>3. SectionLines = Texts(lines)
      BY <2>3, <2>4, <3>1, <3>2
    <3> QED
      BY <2>1, <3>3 DEF Cover, Ordered
  <2>6. CASE d # 0
    <3>1. d + 1 \in 1..Len(lines) /\ HeadingLevel(lines[d + 1].text) # 0
          /\ (\A i \in 1..d : i \notin Heads(lines)) /\ ~KeepPreface(SubSeq(lines, 1, d))
      BY <2>3, <2>6 DEF Dropped, Heads
    <3>2. d \in 1..(Len(lines) - 1) /\ \A i \in 1..d : i \in 1..Len(lines)
      BY <2>2, <2>3, <2>6, <3>1
    <3>3. \A i \in 1..d : HeadingLevel(lines[i].text) = 0
      BY <3>1, <3>2 DEF Heads
    <3> QED
      BY <2>1, <2>3, <2>4, <3>1, <3>2, <3>3 DEF Cover, Ordered
  <2> QED
    BY <2>5, <2>6
<1> QED
  BY <1>1, TextInvariant, PTL

\* A section opens at every heading of the document that does not look like a header or
\* footer, in the document's order, and all sections but the text before the first
\* open at headings (PolicyTextCleaner.clean, PolicySectionSplitter.split).
THEOREM HeadingsOpenSections == Spec => []SectionsAtHeadings
<1>1. TextInv => SectionsAtHeadings
  <2> SUFFICES ASSUME TextInv, pc = "done"
               PROVE  SectionsAtHeadings
    BY DEF SectionsAtHeadings
  <2> DEFINE often(x) == /\ Length(x) <= 30
                         /\ Cardinality({i \in 1..Len(assembled) : assembled[i].text = x}) >= 3
             wanted == {i \in 1..Len(assembled) : /\ HeadingLevel(assembled[i].text) # 0
                                                  /\ ~often(assembled[i].text)}
             opened == {k \in 1..Len(sections) :
                          /\ sections[k].heading \notin {"none", "whole"}
                          /\ ~often(sections[k].text[1])}
  <2>1. /\ assembled \in Seq(Line) /\ lines \in Seq(Line)
        /\ Same(Wanted, Heads(lines), Texts(assembled), Texts(lines))
        /\ Opens(lines, sections, Len(lines))
    BY DEF TextInv, LinesInv, SplitInv, Cover
  <2>2. Len(assembled) \in Nat /\ Len(lines) \in Nat
    BY <2>1, LenProperties
  <2>3. \A x : often(x) <=> Repeated(x)
    BY DEF Repeated
  <2> HIDE DEF often
  <2>4. wanted = Wanted
    BY <2>3, Zenon DEF Wanted, Heads
  <2>5. HeadsUpTo(lines, Len(lines)) = Heads(lines)
    <3>1. \A j \in Heads(lines) : j <= Len(lines)
      BY <2>2 DEF Heads
    <3> QED
      BY <3>1 DEF HeadsUpTo
  <2>6. Same(Wanted, OpenedIn(sections), Texts(assembled), FirstTexts(sections))
    <3>1. Same(Heads(lines), OpenedIn(sections), Texts(lines), FirstTexts(sections))
      BY <2>1, <2>5 DEF Opens
    <3>2. Wanted \in SUBSET (1..Len(assembled)) /\ Heads(lines) \in SUBSET (1..Len(lines))
      BY DEF Wanted, Heads
    <3> QED
      BY <2>1, <2>2, <3>1, <3>2, SameTransitive
  <2>7. /\ \A i \in Wanted : /\ Texts(assembled)[i] = assembled[i].text
                             /\ HeadingLevel(assembled[i].text) # 0
                             /\ ~Repeated(assembled[i].text)
        /\ \A k \in OpenedIn(sections) : FirstTexts(sections)[k] = sections[k].text[1]
    BY DEF Texts, FirstTexts, Wanted, Heads, OpenedIn
  <2>8. \A k \in OpenedIn(sections) :
          \E i \in Wanted : sections[k].text[1] = assembled[i].text
    <3> TAKE k \in OpenedIn(sections)
    <3> DEFINE r == UpTo(k, OpenedIn(sections))
    <3>1. /\ OpenedIn(sections) \in SUBSET (1..Len(sections)) /\ Len(sections) \in Nat
          /\ Wanted \in SUBSET (1..Len(assembled))
      BY LenProperties DEF OpenedIn, Wanted, Heads, TextInv, SplitInv
    <3>2. r \in 1..Cardinality(OpenedIn(sections))
      BY <3>1, AscendingRanks
    <3>3. r \in 1..Cardinality(Wanted)
      BY <2>6, <3>2 DEF Same
    <3> HIDE DEF r
    <3>4. PICK i \in Wanted : UpTo(i, Wanted) = r
      BY <2>2, <3>1, <3>3, RankTaken
    <3>5. FirstTexts(sections)[k] = Texts(assembled)[i]
      BY <2>6, <3>4 DEF Same, r
    <3> QED
      BY <2>7, <3>5
  <2>9. opened = OpenedIn(sections)
    BY <2>3, <2>7, <2>8 DEF OpenedIn
  <2> HIDE DEF wanted, opened
  <2>10. /\ Cardinality(opened) = Cardinality(wanted)
         /\ \A i \in wanted, k \in opened :
              UpTo(i, wanted) = UpTo(k, opened) => sections[k].text[1] = assembled[i].text
    BY <2>4, <2>6, <2>7, <2>9 DEF Same
  <2>11. \A k \in 2..Len(sections) : HeadingLevel(sections[k].text[1]) # 0
    <3>1. \A k \in 2..Len(sections) : k \in OpenedIn(sections)
      BY <2>1 DEF Opens
    <3> QED
      BY <2>7, <2>8, <3>1
  <2>12. \A i \in 1..Len(sections) :
           \A k \in 2..Len(sections[i].text) : HeadingLevel(sections[i].text[k]) = 0
    BY <2>1 DEF Opens
  <2> QED
    BY <2>10, <2>11, <2>12 DEF SectionsAtHeadings, wanted, opened, often
<1> QED
  BY <1>1, TextInvariant, PTL

\* As long as no level is skipped, a section's path is the way to it from the outside
\* in, however many sections there are.
THEOREM PathsAreWays == Spec => []PathsNest
<1>1. TextInv => PathsNest
  <2> SUFFICES ASSUME TextInv, NEW i \in 1..Len(sections),
                      Level(sections[i].heading) > 0, NoLevelSkipped(i)
               PROVE  sections[i].path = [k \in 1..Level(sections[i].heading) |->
                                            sections[LastOfLevel(i, k)].heading]
    BY DEF PathsNest
  <2> DEFINE hs == Headings(sections)
  <2>1. sections \in Seq(SectionType) /\ Ways(sections)
    BY DEF TextInv, SplitInv
  <2>2. /\ hs \in Seq(Titles) /\ Len(hs) = Len(sections) /\ Len(sections) \in Nat
        /\ \A j \in 1..Len(sections) : hs[j] = sections[j].heading
    BY <2>1, HeadingsOf
  <2> HIDE DEF hs
  <2>3. \A j \in 1..i : j \in 1..Len(sections) /\ (j > 1 => j - 1 \in 1..Len(sections))
    BY <2>2
  <2>4. Skipless(hs, i)
    BY <2>2, <2>3 DEF NoLevelSkipped, Skipless
  <2>5. sections[i].path = Way(hs, i)
    BY <2>1, <2>4 DEF Ways, hs
  <2>6. ASSUME NEW k \in 1..Level(hs[i])
        PROVE  hs[Max({j \in 1..i : Level(hs[j]) = k})] = sections[LastOfLevel(i, k)].heading
    <3> DEFINE places == {j \in 1..i : Level(hs[j]) = k}
    <3>1. Max(places) \in places
      BY <2>2, <2>4, LevelsOccur
    <3>2. places = {j \in 1..i : Level(sections[j].heading) = k}
      BY <2>2, <2>3
    <3>3. LastOfLevel(i, k) = Max(places)
      BY <3>2 DEF LastOfLevel
    <3>4. places \subseteq 1..Len(sections)
      BY <2>3
    <3> HIDE DEF places
    <3> QED
      BY <2>2, <3>1, <3>3, <3>4 DEF places
  <2>7. Level(hs[i]) = Level(sections[i].heading)
    BY <2>2
  <2> QED
    BY <2>5, <2>6, <2>7, Zenon DEF Way
<1> QED
  BY <1>1, TextInvariant, PTL

=============================================================================
