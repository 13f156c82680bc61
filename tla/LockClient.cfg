SPECIFICATION EdgesSpec
CONSTANTS
  Monitors = {m1, m2}
  Locker = Locker
  Other = Other
  Nobody = Nobody
  MaxAttempts = 2
  MaxChanges = 3
  Slots = 2
  MaxTag = 2
  MaxKey = 3
  MaxScenes = 2
  MaxPauses = 1
  MaxFaults = 1
INVARIANTS Consistent HonestExit LeasesKept
PROPERTIES OpensOnlyForAccepted AcceptedOpens PresentationTruthful SecurityShown
CHECK_DEADLOCK FALSE
