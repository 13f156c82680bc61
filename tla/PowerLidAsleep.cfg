CONSTANTS
  Clients = {c1}
  None = None
  MaxSignals = 2
  MaxLost = 0
SPECIFICATION LidAsleepSpec
PROPERTIES
  WakeNeverResuspends
