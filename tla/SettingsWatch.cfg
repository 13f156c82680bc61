SPECIFICATION WatchSpec
CONSTANTS
  s1 = s1
  c1 = c1
  Settings <- Single
  Default <- Dark
  Consumers <- One
  Stranger = Stranger
  MaxRevision = 1
  Absent = Absent
  Broken = Broken
  Nothing = Nothing
  Unchanged = Unchanged
  Refused = Refused
  MaxClients = 2
  MaxWatchers = 1
  MaxUnfinished = 1
  MaxPending = 1
  MaxChanges = 2
  MaxRefreshes = 1
  MaxFaults = 1
INVARIANTS WatchSound
PROPERTIES RefreshAnswered SettlesOnFile
