\* Up to three chunks in two documents; the shipped settings.
SPECIFICATION Spec
CONSTANTS
  d1 = d1  d2 = d2  r1 = r1  r2 = r2  c1 = c1  c2 = c2  c3 = c3
  Document = {d1, d2}
  None = None
  Profile <- MCProfile
  MaxChunks = 3
  MaxVersions = 2
  TopK = {1, 2}
  TopKMax = 20
  MinScore = 450
  RescueMargin = 40
  MinCoverage = 150
  PageRequest <- MCPageRequest
  Requirement = {r1, r2}
  Component = {c1, c2, c3}
  ComponentsOf <- MCComponentsOf
  Required = {r1, r2}
  MinMatch = 2
  Item <- MCItem
  AnswerTopK = 1
SYMMETRY Symmetry
INVARIANTS TypeOK HitsCurrent HitsAreBest ToldWithSources VerdictHolds AuditBlamesNoListed ViewsAgree
