SPECIFICATION FairSpec
CONSTANTS
  Spurious = TRUE
  Raised = {9, 12}
PROPERTIES
  FrameEnds
