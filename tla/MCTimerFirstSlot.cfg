SPECIFICATION Spec
CONSTANTS
  N = 2
  MaxSlots = 2
INVARIANT
  EverySlotAnnouncedFirst
