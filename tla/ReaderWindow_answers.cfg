SPECIFICATION Spec
CONSTANTS
  q1 = q1
  q2 = q2
  Windows = {w1}
  Queries = {q1, q2}
  MaxHosts = 2
  MaxGeneration = 7
  None = None
PROPERTIES SearchesAnswered LatestResults
CHECK_DEADLOCK FALSE
