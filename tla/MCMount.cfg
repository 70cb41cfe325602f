SPECIFICATION Spec
CONSTANTS
  nand = nand
  ram = ram
  other = other
  Dev = {nand, ram}
  ROOT_DEV = nand
  OtherDev = {other}
  LastInd = 2
  NR_SBLKS = 2
  NR_INODE_BUF = 5
  DevTree <- MCTree
  Given <- MCGiven
CHECK_DEADLOCK FALSE
INVARIANTS TypeOK TableAgrees PathsResolve
