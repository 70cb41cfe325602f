SPECIFICATION Spec
CONSTANTS
  PAGE_SIZE = 3
  LastPage = 3
  MaxSize = 8
CHECK_DEADLOCK FALSE
INVARIANTS MovesWhereMmuGoes NothingSkipped
