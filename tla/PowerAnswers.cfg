SPECIFICATION LivenessSpec
CONSTANTS
  Clients = {c1}
  None = None
  MaxSignals = 2
  MaxLost = 0
PROPERTIES RequestAnswered RecoversAwake
