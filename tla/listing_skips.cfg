\* A list by creation instant: a reader turns the pages of his notifications.
SPECIFICATION ListSpec
CONSTANTS
  Kind = "instant"
  Limit = 1
  MaxExport = 0
  PerMs = 2
  MaxRows = 3
  MaxInstant = 2
INVARIANT NothingSkipped
CHECK_DEADLOCK FALSE
