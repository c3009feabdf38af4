\* Two processes, one upload: the source of a retry.
SPECIFICATION Spec
CONSTANTS
  w1 = w1  w2 = w2  u1 = u1  u2 = u2
  Worker = {w1, w2}
  Upload = {u1}
  Retention = 1
  None = None
INVARIANTS RetrySourceExists
