SPECIFICATION Spec
CONSTANTS
  b1 = b1
  b2 = b2
  b3 = b3
  b4 = b4
  Buf <- FourBufs
  NumSlots = 4
  MaxFrameNum = 4
  MaxPicOrderCntLsb = 8
  MaxPoc = 7
  Sps <- SpsType0Two
  SliceTypes = {"I", "P", "B"}
  MaxActive = 2
  Lsbs = {0, 1, 2, 3}
  Conforming = TRUE
  Garbage = {}
SYMMETRY BufSymmetry
INVARIANTS ListNeverOverrun
