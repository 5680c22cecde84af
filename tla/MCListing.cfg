SPECIFICATION MCSpec
CONSTANTS
  Threads = {t1, t2}
  Views = {u1, u2}
  MaxVersion = 2
  MaxThrows = 1
  None = None
INVARIANTS AnswersOwnScan
PROPERTIES ReplacesAnother RequestsEnd BuildsReturn
