CONSTANTS
  Key <- MCKey
  Rank <- MCRank
  NumCollectors = 2
  Slots <- MCSlots
  Placeholder <- MCPlaceholder
  Questions <- MCQuestions
  Emitted <- MCEmitted
  Task <- MCTask
  Checks <- MCChecks
  Cluster <- MCCluster
  SSDFTasks <- MCSSDFTasks
  ClusterOrder <- MCClusterOrder
  LaterChecks <- MCLaterChecks
  LaterSSDFTasks <- MCLaterSSDFTasks
  Build <- MCBuild
SPECIFICATION ReportSpec
INVARIANTS
  TypeOK
  RollupIsFlat
  GapsReachTheTop
  ReportFollowsPack
PROPERTY NeverCleaner
CHECK_DEADLOCK FALSE
