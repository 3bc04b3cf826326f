SPECIFICATION Spec
CONSTANTS
  CPUs = {c1}
  Loader = ld
  NoProc = NoProc
  NumProc = 2
  TimeSlot = 2
  Horizon = 2
  MAX_PRIO = 2
  MAX_QUEUE_SIZE = 3
  Configs <- MCConfigs
PROPERTY
  PreemptedOnArrival
