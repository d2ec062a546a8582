CONSTANTS
  Scan = {s1, s2}
  Reader = {r1}
  Faults = {"edit"}
  None = None
  Torn = Torn
  Edited = Edited
  Empty = Empty
SPECIFICATION Spec
INVARIANTS
  NeverRenderedSilently
CHECK_DEADLOCK FALSE
