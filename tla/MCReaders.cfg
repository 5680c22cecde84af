SPECIFICATION MCSpec
CONSTANTS
  q1 = q1
  q2 = q2
  Windows = {w1, w2}
  Queries = {q1}
  MaxHosts = 3
  MaxGeneration = 6
  None = None
  Callers = {c1, c2}
  Objects = {o1}
  BookTopics = 2
  MaxOpened = 2
  CrossReferences <- SampleReferences
  Absent = None
  Unset = None
  Threshold = 2
  MaxPages = 2
  PageHeight = 2
  FrontMatter = {"PREFACE"}
  Failed = Failed
  Dictionary <- SampleDictionary
  Books <- SampleLines
  Payloads <- SamplePayloads
  Volumes <- SampleVolumes
  Laid <- SampleLaid
  Exports <- SampleExports
  Blocks <- SampleBlocks
  Stem <- SampleStem
  Printed <- SamplePrinted
  Routes <- SampleRoutes
  Pictures <- SamplePictures
SYMMETRY MCSymmetry
INVARIANT OneBookPerWindow
INVARIANT RightPages
INVARIANT OfItsBook
 
INVARIANTS LinesReadBack LinesKeepTheirText TreeFollowsParents RunsOwnedWhole
INVARIANTS LinksLand AnswersOnce NumbersAreThePages RowsReachThePage PicturesReadBack
CHECK_DEADLOCK FALSE
