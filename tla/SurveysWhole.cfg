CONSTANTS
  Unasked = Unasked
  Failed = Failed
  Undecided = Undecided
  MaxWorlds = 2
  MaxFailures = 2
  t1 = t1
  t2 = t2
  Tool = {t1, t2}
  CodeQL = CodeQL
  Release <- MCRelease
  Run <- MCRun
  History <- MCHistory
  Lookback = 2
  WindowStart = 2
  Settings <- MCSettings
  Pages = {1, 2}
  e1 = e1
  e2 = e2
  Environment = {e1, e2}
  Depth = 2
  npm = npm
  Actions = Actions
  Ecosystem = {npm, Actions}
  NoConfig = NoConfig
  Disabled = Disabled
  Pipeline <- MCPipeline
  Grace = 1
  MaxLookups = 2
  w1 = w1
  w2 = w2
  Reusable = {w1, w2}
  MaxResolved = 1
  Unusable = Unusable
  Job <- MCJob
  JobHistory <- MCJobHistory
  MaxJobs = 2
  Manifest = {"go.mod", "sub/go.mod"}
SPECIFICATION Spec
INVARIANTS
  VerdictsAreWhole
CHECK_DEADLOCK FALSE
