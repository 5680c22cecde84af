SPECIFICATION Spec
CONSTANTS
  q1 = q1
  q2 = q2
  Windows = {w1}
  Queries = {q1}
  MaxHosts = 1
  MaxGeneration = 6
  None = None
INVARIANT ClearedShowsContents
CHECK_DEADLOCK FALSE
