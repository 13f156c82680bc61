SPECIFICATION ServicesSpec
CONSTANTS
  mail = mail
  chat = chat
  open = open
  Apps <- TwoApps
  Keys <- OneKey
  Kinds <- AllKinds
  MaxActive = 2
  MaxRetained = 2
  MaxEvents = 2
  MaxId = 3
  MaxClicks = 1
  MaxFailures = 1
  NumApps = 2
  MaxReads = 1
  MaxChanges = 1
  MaxCommands = 2
  TrayFaults = 1
  MaxGeneration = 2
  shell = shell
  snap = snap
  Shells <- OneShell
  Snaps <- OneSnap
  Login = TRUE
  ScopeFaults = 1
  one = one
  two = two
  Marker = Marker
  Dir = Dir
  Path = Path
  Display = Display
  Host = Host
  User = User
  Empty = Empty
  Unset = Unset
  Free = Free
  None = None
  MaxUserSets = 0
  MaxDisturbances = 1
INVARIANTS RetiredBeforeRemoval
CHECK_DEADLOCK FALSE
