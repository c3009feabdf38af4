\* As Chunking.cfg: is all of the text in a chunk?
SPECIFICATION Spec
CONSTANTS
  Target = 5
  Overlap = 1
  Char = {"word", "mark", "newline"}
  MaxLen = 7
INVARIANTS EveryCharacterKept
\* The function returns.
CHECK_DEADLOCK FALSE
