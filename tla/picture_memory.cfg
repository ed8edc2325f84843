SPECIFICATION Spec
CONSTANTS
  SpsUnits <- MCSpsUnits
  PpsUnits <- MCPpsUnits
  NumSps = 2
  NumPps = 2
  NumSlots = 3
  Width = 65536
  DRAM_PHYS_BASE = 4096
  DRAM_PHYS_END = 12288
  IRAM_BASE_ADDR = 20480
  IRAM_END_ADDR = 21504
  DATA_BUF_SIZE = 500
  NoAux = 65280
INVARIANTS IInv SetsWhole AreasApart PictureStays
PROPERTIES ReservedOnce
