SPECIFICATION Spec
CONSTANTS
  b1 = b1
  b2 = b2
  b3 = b3
  b4 = b4
  Buf <- ThreeBufs
  NumSlots = 3
  MaxFrameNum = 4
  MaxPicOrderCntLsb = 2
  MaxPoc = 0
  Sps <- SpsTooMany
  SliceTypes = {"I", "P"}
  MaxActive = 1
  Lsbs = {0}
  Conforming = TRUE
  Garbage = {}
SYMMETRY BufSymmetry
INVARIANTS WindowHasSlots
