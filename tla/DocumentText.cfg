\* Files of up to three pages or paragraphs with up to four pieces of text.
SPECIFICATION Spec
CONSTANTS
  Token = {"chapter", "section", "article", "char", "number", "long"}
  MaxItems = 3
  MaxSize = 4
INVARIANTS TypeOK TextInPlace OcrTold
  SectionsCoverText SectionsAtHeadings PathsNest
\* The document is prepared.
CHECK_DEADLOCK FALSE
