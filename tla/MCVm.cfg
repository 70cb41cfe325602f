SPECIFICATION Spec
CONSTANTS
  PPM = 4
  LastMega = 47
  RAM_START = 64
  RAM_SIZE = 20
  BOOT_TABLES = 4
  PAGES_START = 93
  KERNEL_SPACE_START = 20
  PORTS_MAP_START = 40
  PORTS_SIZE = 4
  USR_ENTRY = 48
  USR_SP = 52
  USR_SP_SIZE = 2
  FS_IMG_SIZE = 3
  SH_IMG_SIZE = 1
  SEND_BUF = 46
  RECV_BUF = 47
  FS_BUFFER = 82
  USR_FS_BUFFER = 16
  FS_BUFFER_SIZE = 1
  RAMDSK_BUFFER = 83
  USR_RAMDSK_BUFFER = 20
  RAMDSK_SIZE = 1
  HEAP_END = 80
  LowWord <- MCLow
  Touched <- MCTouched
  Val = {0, 1}
  ImageVal = 1
  Zero = 0
  MaxLines = 2
CHECK_DEADLOCK FALSE
INVARIANTS TypeOK FramesHaveOneUse KernelIsShared HolesReachNoFrame LoadsSeeMemory
PROPERTY SpaceSpec
