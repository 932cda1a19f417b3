CONSTANTS
  Pod = Pod
  Svc = Svc
  NowStart = 3600
  TickStep = 60
  MaxNow = 3720
  ClusterResources <- MCClusterResources
  Ages <- MCAges
  KindSets <- MCKindSets
  BoolFilters <- MCBoolFilters
SPECIFICATION Spec
INVARIANT TypeOK
INVARIANT PrintedOnlyWanted
CHECK_DEADLOCK FALSE
