SPECIFICATION Spec
CONSTANTS
  ROW = 4
  COL = 3
  TAB = 2
  KEY_X = 0
  CLOCK_X = 2
  CLOCK_LEN = 1
  REGISTER = 4
  Text = {"letter", "newline", "backspace"}
  Keys = {}
  Times = {"t1", "t2"}
  X_LIMIT = 6
  Y_LIMIT = 5
INVARIANTS TypeOK ClockStays
PROPERTIES ImplementsTeletype
