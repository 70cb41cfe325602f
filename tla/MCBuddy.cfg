SPECIFICATION Spec
CONSTANTS
  MAX_BUDDY_PAGE_NUM = 3
  KERNEL_PAGE_NUM = 18
INVARIANTS TypeOK NoPageLost WholeBlocks Aligned RefusedOnlyWhenFull
CHECK_DEADLOCK FALSE
