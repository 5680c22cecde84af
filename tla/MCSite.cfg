SPECIFICATION MCSpec
CONSTANTS
  Threads = {t1, t2}
  Paths = {p1}
  Books = {b1, b2, b3}
  MaxVersion = 2
  Entries = 2
  Names <- MCNames
  Reports <- MCReports
  MaxThrows = 1
  None = None
  ref = ref
  fig = fig
  Layers <- MCLayers
  MaxReplaced = 1
SYMMETRY MCSymmetry
INVARIANTS NeverStale EtagsSound LinksFinished
INVARIANTS DisclosedByTheClosest OneAnswer AnswersAgree
