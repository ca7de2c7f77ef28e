SPECIFICATION Spec
CONSTANTS
  Cents = {0, 1, 2}
  Malformed = Malformed
  Codes = {"1122", "1405", "9999"}
  MaxLines = 3
  MaxEntries = 3
CHECK_DEADLOCK FALSE
INVARIANTS TrialBalance ReversalCancels AnnouncedAmount StockFollowsMovement
