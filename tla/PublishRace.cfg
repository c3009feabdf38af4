\* Two processes.
SPECIFICATION OSpec
CONSTANTS
  w1 = w1  w2 = w2  d1 = d1  d2 = d2  v1 = v1  v2 = v2  v3 = v3  v4 = v4
  p1 = p1  p2 = p2  l1 = l1  f1 = f1  f2 = f2  f3 = f3
  Worker = {w1, w2}
  DocId = {d1}
  VersionId = {v1, v2, v3}
  Policy = {p1}
  Label = {l1}
  File = {f1, f2, f3}
  MaxSuffix = 4
  None = None
SYMMETRY Symmetry
INVARIANTS PublishedIsActive
