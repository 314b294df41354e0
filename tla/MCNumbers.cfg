SPECIFICATION FairSpec
CONSTANTS
  DEC = 3
  HEX = 4
  PAD = 3
  INT = 8
  WORD = 64
  BUFFER = 5
  Values <- MCValues
  ClockTimes <- MCClockTimes
INVARIANTS TypeOK RightUnlessOverwritten NeverLonger
PROPERTIES EveryPrintfEnds
