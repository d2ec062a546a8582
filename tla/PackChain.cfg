CONSTANTS
  Ref = {r1}
  Scope = {s1, s2}
  Window = 3
  None = None
SPECIFICATION Spec
INVARIANTS
  TypeOK
  DeltaIsAPartition
  DeltaMirrors
  BaselineFollows
  NoSilentDecline
