\* Windows of 5 characters that share 1, texts of up to three windows.
SPECIFICATION FairSpec
CONSTANTS
  Target = 5
  Overlap = 1
  Char = {"word", "mark", "newline"}
  MaxLen = 10
INVARIANTS OverlapBounded GapBounded ChunksAdvance EndsKept
PROPERTIES Terminates
\* The function returns.
CHECK_DEADLOCK FALSE
