SPECIFICATION Spec
CONSTANTS
  b1 = b1
  b2 = b2
  b3 = b3
  b4 = b4
  Buf <- FourBufs
  NumSlots = 4
  MaxFrameNum = 3
  MaxPicOrderCntLsb = 2
  MaxPoc = 0
  Sps <- SpsMixed
  SliceTypes = {"I", "P"}
  MaxActive = 2
  Lsbs = {0}
  Conforming = FALSE
  Garbage = {}
SYMMETRY BufSymmetry
INVARIANTS SlotsDistinct Occupancy ListsHeld AssertionsHold FlagsHeld
PROPERTIES RefinesWindow
