SPECIFICATION SessionSpec
CONSTANTS
  Roots = {"r1"}
  MaxRequests = 2
  MaxConsoles = 2
  MaxFaults = 1
CHECK_DEADLOCK FALSE
INVARIANT NothingElsesAnswer
