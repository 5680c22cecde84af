SPECIFICATION MCSpec
CONSTANTS
  Threads = {t1, t2}
  h1 = h1
  Handles = {h1}
  Book = book
  Asked <- Members
  None = None
  MaxGeneration = 2
  c1 = c1
  c2 = c2
  FirstTable = 1
  Records = 50
  NoTable = NoTable
  NoWord = NoWord
  Reading = Reading
INVARIANTS RefsLive OneLineage NoRepeat
PROPERTIES OnceCells CallsReturn
PROPERTIES WarmersEnd GenerationWalked IndexesAreRead
