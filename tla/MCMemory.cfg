CONSTANTS
  Pids = {1, 2}
  VM_PAGES = 4
  FRAME_PAGES = 5
  PAGE_TABLE_PAGES = 1
  SD_SWAP_UNIT_NUM = 1
  TLB_ENTRIES_NUM = 2
SPECIFICATION MCSpec
INVARIANTS TlbIsCurrent PagesApart FreeFramesCounted
PROPERTY AccessesEnd
CHECK_DEADLOCK FALSE
