SPECIFICATION FairSpec
CONSTANTS
  Platform <- All
  Thread = {t1}
  NumUnits = 2
  NumCalls <- TwoThenOne
  MaxRetries <- Once
INVARIANTS
  TypeOK
  RequestsBounded
  ResultsAreBacked
PROPERTIES
  OnlyTransientsRetried
  CallsEnd
  CancelEndsCalls
CHECK_DEADLOCK FALSE
