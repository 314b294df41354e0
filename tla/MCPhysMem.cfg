SPECIFICATION Spec
CONSTANTS
  PAGE_SIZE = 4
  BYTE = 2
  MAX_PAGES = 6
  FIRST_PAGE = 2
  physbase = 4
  physfree = 5
  MemoryMaps <- MCMaps
INVARIANTS TypeOK HeldIsUsableRam NothingLeaks
PROPERTIES NeverGrantedTwice ImplementsPool SuppliesTheLowest ScanStaysInBitmap
CHECK_DEADLOCK FALSE
