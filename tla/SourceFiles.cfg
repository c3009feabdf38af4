\* Two processes, a file of any kind, two contents, one orphaned Word.
SPECIFICATION FairSpec
CONSTANTS
  Worker = {w1, w2}
  Path = {p1}
  Content = {c1, c2}
  None = None
  Half = Half
  MaxLate = 1
INVARIANTS TextIsOfItsFile HalfIsExplained
PROPERTIES RunsEnd
