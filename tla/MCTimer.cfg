SPECIFICATION FairSpec
CONSTANTS
  N = 3
  MaxSlots = 2
INVARIANTS
  TypeOK
  Lockstep
  NoLostWakeup
  TimerOutlivesDevices
  AnnouncedBeforeRun
PROPERTIES
  TickBarrier
  NextSlotReturns
  ShutdownCompletes
  ImplementsBarrier
