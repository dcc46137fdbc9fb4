SPECIFICATION MirrorSpec
CONSTANTS
  Tables = {"p", "c"}
  Views = {}
  MaxDdl = 3
  MaxSeconds = 3
CHECK_DEADLOCK FALSE
INVARIANT UnchangedLeftAlone
