CONSTANTS
  Key <- MCKey
  Rank <- MCRank
  NumCollectors = 2
  Slots <- MCSlots
  Placeholder <- MCPlaceholder
  Questions <- MCQuestions
  Emitted <- MCEmitted
  Task <- MCTask
  Checks <- MCChecks
  Cluster <- MCCluster
  SSDFTasks <- MCSSDFTasks
  ClusterOrder <- MCClusterOrder
  LaterChecks <- MCLaterChecks
  LaterSSDFTasks <- MCLaterSSDFTasks
  Build <- MCBuild
SPECIFICATION ReportSpec
INVARIANT NoEvidenceIsNotVerified
CHECK_DEADLOCK FALSE
