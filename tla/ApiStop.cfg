SPECIFICATION Spec
CONSTANTS
  Platform <- OnlyGitHub
  Thread = {t1, t2}
  NumUnits = 1
  NumCalls <- OneOnly
  MaxRetries <- Once
PROPERTY StopsTheWorld
CHECK_DEADLOCK FALSE
