SPECIFICATION FairSpec
CONSTANTS
  Devices <- MCDevices
  LoaderMasks <- MCLoaderMasks
  EVERY = 3
INVARIANTS OnlyTheWindowsAreFatal ControllersAreSetUp
PROPERTIES ClockRuns KeysAreRead
CHECK_DEADLOCK FALSE
