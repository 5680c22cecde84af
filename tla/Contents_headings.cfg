SPECIFICATION Spec
CONSTANTS
  Volumes <- SampleVolumes
  ContentsId = "contents"
  Top = "top"
  None = None
  Absent = None
INVARIANT HeadingsStepByOne
CHECK_DEADLOCK FALSE
