\* Two processes and two uploads, kept for one tick.
SPECIFICATION FairSpec
CONSTANTS
  w1 = w1  w2 = w2  u1 = u1  u2 = u2
  Worker = {w1, w2}
  Upload = {u1, u2}
  Retention = 1
  None = None
INVARIANTS NoHalfFile KeptForIngest
PROPERTIES NothingStays
