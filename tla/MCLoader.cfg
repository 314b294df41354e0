SPECIFICATION LoaderSpec
CONSTANTS
  ENTRIES = 3
  RECURSIVE_SLOT = 1
  PAGE_SIZE = 4
  VIRT_OFFSET = 54
  physbase = 3
  physfree = 5
  Video = 1
  Frames <- MCFrames
  RAM <- MCRam
  RamAtBoot <- MCClear
  Sizes = {}
  UserPages = {}
  KERNEL_LIMIT = 26
  BLOCK = 4
  WANTED = "hello"
  Archives <- MCArchives
  DIGITS = 1000
  Programs <- MCPrograms
  Images <- MCImages
  TASK_STRUCT = 9
  MM_STRUCT = 3
  VMA_STRUCT = 3
  SAVED_RSP = 2
INVARIANTS ShortArchivesAreSearched TaskIsWhole OnlyOnePageLoads
PROPERTIES SkipsNoHeader SearchEnds NothingGoesStale
