SPECIFICATION Spec
CONSTANTS
  FirstBlk = 1
  LastBlk = 2
  CACHE_ST_NR = 2
  LastReq = 1
  c1 = c1
  c2 = c2
  Cell <- MCCell
  d1 = d1
  Junk = Junk
  Data <- MCData
  ReadErrors = TRUE
  MaxBad = 1
SYMMETRY Symmetry
CONSTRAINT FirstIsOldest
INVARIANT TypeOK
PROPERTY DeviceSpec
