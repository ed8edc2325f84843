SPECIFICATION FairSpec
CONSTANTS
  b1 = b1
  b2 = b2
  b3 = b3
  b4 = b4
  Buf <- ThreeBufs
  NumSlots = 3
  MaxFrameNum = 2
  MaxPicOrderCntLsb = 4
  MaxPoc = 2
  Sps <- SpsType0Gaps
  SliceTypes = {"I", "P", "B"}
  MaxActive = 1
  Lsbs = {0, 1, 2}
  Conforming = FALSE
  Garbage = {}
INVARIANTS IInv
PROPERTIES SliceAdvances SliceEnds
