SPECIFICATION DisplaySpec
CONSTANTS
  Clients = {c1}
  None = None
  MaxSignals = 2
  MaxLost = 1
PROPERTIES RecoversAwake
