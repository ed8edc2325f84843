SPECIFICATION FairSpec
CONSTANTS
  Spurious = FALSE
  Raised = {9, 12}
INVARIANTS
  IInv
  SuccessMeansFinished
  EngineQuiet
  TokenNotLost
  NoIrqHidden
  DroppedOnlyDying
PROPERTIES
  RefinesJob
  FrameEnds
  FinishedIsHandedOut
