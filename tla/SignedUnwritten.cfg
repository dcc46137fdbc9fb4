SPECIFICATION ExportSpec
CONSTANTS
  Dated = {"o"}
  Jobs = {"j"}
  Versions = {"x", "y"}
  ExportRequests <- FewRequests
  MaxTime = 2
  MaxAlters = 2
  MaxExports = 2
CHECK_DEADLOCK FALSE
INVARIANT SignedLanded
