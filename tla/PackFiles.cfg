CONSTANTS
  Scan = {s1, s2}
  Reader = {r1}
  Faults = {"crash", "error", "edit"}
  None = None
  Torn = Torn
  Edited = Edited
  Empty = Empty
SPECIFICATION Spec
INVARIANTS
  TypeOK
  EvidenceWhole
  OnlyCrashesLeaveTemps
  UndisturbedScanReplaces
  VerifiedIsGenuine
  QuietReadersAgree
CHECK_DEADLOCK FALSE
