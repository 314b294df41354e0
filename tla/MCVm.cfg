SPECIFICATION Spec
CONSTANTS
  ENTRIES = 3
  RECURSIVE_SLOT = 1
  PAGE_SIZE = 2
  VIRT_OFFSET = 63
  physbase = 3
  physfree = 5
  Video = 1
  Frames <- MCFrames
  RAM <- MCRam
  RamAtBoot <- MCClear
  Sizes = {1, 2, 4}
  UserPages = {0, 4}
  KERNEL_LIMIT = 13
INVARIANTS TypeOK TablesAreATree KernelStaysMapped RegionsArePrivate
PROPERTIES ImplementsAddressSpace
CHECK_DEADLOCK FALSE
