SPECIFICATION Spec
CONSTANTS
  Apps = {100}
  NoApp = 0
  Edits = {}
  Busy = {100}
  Workspaces = {100}
  Releases <- AllReleases
  Steps <- SchemaAndSplit
  Configs <- Singles
  MaxRuns = 1
  MaxFaults = 1
CHECK_DEADLOCK FALSE
INVARIANTS RowInv HandedBack NoImportBehindError SuccessIsVerified BaselineHolds
PROPERTIES HoldSpec
