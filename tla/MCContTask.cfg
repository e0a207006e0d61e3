CONSTANTS
  Wrap = 6
  MaxMs = 3
  QueueSize = 1
  Grains = {0, 2}
SPECIFICATION FairSpec
INVARIANTS NoLostWakeup TimerHasOwner
PROPERTIES DelayNotEarly WaitsEnd
