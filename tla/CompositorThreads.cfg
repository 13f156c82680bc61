SPECIFICATION ThreadsSpec
CONSTANTS
  w1 = w1
  w2 = w2
  a = a
  b = b
  Hidden = Hidden
  NoRequest = NoRequest
  Windows <- TwoWindows
  Thresholds <- TwoLevels
  SlackPerWindow = 1
  MinSlack = 3
  MaxTime = 4
  MaxGeneration = 2
  MaxGathers = 4
  MaxChanges = 2
  MaxDeaths = 1
  r1 = r1
  r2 = r2
  l1 = l1
  l2 = l2
  Titles <- TwoTitles
  CaptureRequests <- TwoRequests
  MaxRequests = 2
  MaxJobs = 1
  MaxScenes = 8
  MaxEpoch = 2
  MaxFaults = 1
  MaxEvents = 1
  MaxLevel = 1
  MaxPending = 1
  MaxQueue = 2
  MaxKeys = 2
  MaxSliders = 2
  MaxLocks = 1
  Launches <- TwoLaunches
  MaxWorkers = 1
  MaxSessionChanges = 1
INVARIANTS ThreadsSound
PROPERTIES JoinsAsJudged CapturesPresented RefusedNeverStarts CapturesAnswered ThreadsSettle
CHECK_DEADLOCK FALSE
