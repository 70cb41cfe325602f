SPECIFICATION Spec
CONSTANTS
  NR_INODE_BUF = 3
  NrInodes = 4
  NrZones = 6
  ZmapBlocks = 2
  ZoneBits = 4
  ByteBits = 2
  DIRECT = 1
  NR_BLK_OBJS = 1
  ENTRIES_PER_BLK = 3
  Name = {"a", "d"}
  Given <- MCGivenRmdir
  MaxLeaks = 1
INVARIANTS LinkCounts
