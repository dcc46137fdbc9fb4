SPECIFICATION FolderSpec
CONSTANTS
  Apps = {100}
  NoApp = 0
  Edits = {"e1"}
  Busy = {100}
  Workspaces = {100}
  Releases <- AllReleases
  Steps <- Split
  Configs <- Gates
  MaxRuns = 1
  MaxFaults = 1
  Builds <- Patches
  Exported = {100, 200}
  Stray = stray
  MaxHandEdits = 2
CHECK_DEADLOCK FALSE
INVARIANTS TypeOK OwnLockReturned DoorShut NoSilentOverwrite
  EverythingOnce ImportBetweenHalves
PROPERTIES ReleaseIsLast OrderKept NewAtItsRank CreateRepairs
