CONSTANTS
  Unasked = Unasked
  Failed = Failed
  Undecided = Undecided
  MaxWorlds = 2
  r1 = r1
  Ruleset = {r1}
  Kind = {"review", "unnamed"}
  NoLegacy = NoLegacy
  main = main
  dev = dev
  Branch = {main, dev}
  NoBranch = NoBranch
  Absent = Absent
  Policy <- MCPolicy
  Rule <- MCRule
  t1 = t1
  t2 = t2
  Tool = {t1, t2}
  CodeQL = CodeQL
  Release <- MCRelease
  Run <- MCRun
  History <- MCHistory
  Lookback = 2
  WindowStart = 2
  Pipeline <- MCPipeline
  Unusable = Unusable
  Job <- MCJob
  JobHistory <- MCJobHistory
  MaxJobs = 2
SPECIFICATION Spec
INVARIANTS
  TypeOK
  VerifiedIsTrue
  FailuresStayLocal
  PanelsAgree
CHECK_DEADLOCK FALSE
