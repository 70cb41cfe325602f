SPECIFICATION Spec
CONSTANTS
  FirstBlk = 0
  LastBlk = 2
  CACHE_ST_NR = 2
  LastReq = 2
  c1 = c1
  c2 = c2
  Cell <- MCCell
  d1 = d1
  Junk = Junk
  Data <- MCData
  ReadErrors = FALSE
  MaxBad = 1
SYMMETRY Symmetry
INVARIANT OthersHoldTheirBlocks
