SPECIFICATION Spec
CONSTANTS
  ROW = 3
  COL = 3
  TAB = 2
  KEY_X = 0
  CLOCK_X = 2
  CLOCK_LEN = 1
  REGISTER = 4
  Text = {"letter", "newline", "backspace", "tab"}
  Keys = {"letter", "newline"}
  Times = {"t1"}
  X_LIMIT = 4
  Y_LIMIT = 3
INVARIANTS OnlyTheEdgesAreUnsafe OnlyACrossedUpdateLosesTheCursor
CHECK_DEADLOCK FALSE
