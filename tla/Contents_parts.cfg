SPECIFICATION Spec
CONSTANTS
  Volumes <- SampleVolumes
  ContentsId = "contents"
  Top = "top"
  None = None
  Absent = None
INVARIANT PartsAreDrawn
CHECK_DEADLOCK FALSE
