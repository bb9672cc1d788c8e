SPECIFICATION FairSpec
CONSTANTS
  None = None
  \* the first generation, one per expired token, one after a signal
  MaxGenerations = 3
  MaxExpiries = 1
  MaxSignals = 1
  MaxFaults = 1
INVARIANT InstanceIsCurrent
PROPERTIES CancelledEnds Recovers
