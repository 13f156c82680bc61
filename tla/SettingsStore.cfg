CONSTANTS
  d1 = d1
  d2 = d2
  Daemons = {d1, d2}
  Fields = {f}
  Values = {v0, v1, bad, big}
  Default = v0
  Invalid = {bad}
  TooLarge = {big}
  MaxRevision = 3
  Absent = Absent
  Broken = Broken
  Unlocked = Unlocked
  MaxRequests = 3
  MaxFaults = 1
SPECIFICATION OneFair
INVARIANTS NoUpdateLost
PROPERTIES TruthfulReplies RegisterSpec OneAnswered
CHECK_DEADLOCK FALSE
