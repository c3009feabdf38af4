\* Two processes: every request ends.
SPECIFICATION FairSpec
CONSTANTS
  Worker = {w1, w2}
  DocId = {d1}
  VersionId = {v1, v2, v3}
  Policy = {p1}
  Label = {l1}
  File = {f1, f2}
  MaxSuffix = 4
  None = None
PROPERTIES RequestsFinish
