SPECIFICATION Spec
CONSTANTS
  RADIX = 2
  SIXTY = 3
  HZ = 2
  EVERY = 3
  WORD = 160
  CLOCK_X = 2
  COL = 13
  Suffix <- MCSuffix
  KEY_X = 0
  Keys <- MCKeys
  QUEUE = 2
INVARIANT UptimeIsShown
