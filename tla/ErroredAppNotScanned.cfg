SPECIFICATION Spec
CONSTANTS
  Apps = {100}
  NoApp = 0
  Edits = {}
  Busy = {100}
  Workspaces = {100}
  Releases <- AllReleases
  Steps <- Split
  Configs <- Just
  MaxRuns = 1
  MaxFaults = 0
CHECK_DEADLOCK FALSE
INVARIANTS ErroredAppNotScanned
