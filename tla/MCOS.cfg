SPECIFICATION FairSpec
CONSTANTS
  CPUs = {c1, c2}
  Loader = ld
  NoProc = NoProc
  NumProc = 4
  TimeSlot = 2
  Horizon = 2
  MAX_PRIO = 2
  MAX_QUEUE_SIZE = 3
  Configs <- MCConfigs
INVARIANTS
  TypeOK
  ExclusiveOwnership
  BoundedInversion
  LongestWaitFirst
  WorkConserving
  StopLeavesNothing
PROPERTIES
  AllProcessesFinish
