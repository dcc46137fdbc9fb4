SPECIFICATION Spec
CONSTANTS
  Apps = {100}
  NoApp = 0
  Edits = {}
  Busy = {100}
  Workspaces = {100}
  Releases <- AllReleases
  Steps <- Split
  Configs <- Gates
  MaxRuns = 2
  MaxFaults = 1
CHECK_DEADLOCK FALSE
INVARIANTS BackupPredatesPatch
