SPECIFICATION Spec
CONSTANTS
  b1 = b1
  b2 = b2
  b3 = b3
  b4 = b4
  Buf <- FourBufs
  NumSlots = 4
  MaxFrameNum = 4
  MaxPicOrderCntLsb = 8
  MaxPoc = 8
  Sps <- SpsType0
  SliceTypes = {"I", "P", "B"}
  MaxActive = 2
  Lsbs = {0, 1, 5}
  Conforming = TRUE
  Garbage = {}
SYMMETRY BufSymmetry
INVARIANTS HeaderInv InitialOrder RemapRejects WindowBounded WrapMatchesNumber
PROPERTIES PocNearest
