SPECIFICATION Spec
CONSTANTS
  LastBlock = 3
  Block <- MCBlock
  Dev <- MCDev
  Row <- MCRow
  NR_BUFFERS = 2
  OUT_BLKS = 0
  Data = {0, 1}
  Zero = 0
  Broken = {}
  MaxPins = 2
INVARIANTS TypeOK CachedOnce PinsAreHeld NeverHalts
PROPERTIES StoreSpec SyncIsComplete
