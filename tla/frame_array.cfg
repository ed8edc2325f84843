SPECIFICATION Spec
CONSTANTS
  Frame <- FourCounts
  Last = 3
  IntMax = 3
INVARIANTS MovedSoFar SearchFinds
PROPERTIES Arrives
