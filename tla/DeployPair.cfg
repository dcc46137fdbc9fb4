SPECIFICATION FairSpec
CONSTANTS
  Apps = {100, 200}
  NoApp = 0
  Edits = {}
  Busy = {}
  Workspaces = {100, 200}
  Releases = {"native", "plain"}
  Steps <- TwoWhole
  Configs <- Just
  MaxRuns = 1
  MaxFaults = 1
CHECK_DEADLOCK FALSE
INVARIANTS NothingStranded
PROPERTIES HoldSpec RunEnds DoorReopens
