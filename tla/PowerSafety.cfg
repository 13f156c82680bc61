SPECIFICATION SafetySpec
CONSTANTS
  Clients = {c1}
  None = None
  MaxSignals = 2
  MaxLost = 1
INVARIANTS ProtectedSleepIsSealed AwakeIsProven
PROPERTIES SuspendsOnce ShutdownIsFinal
