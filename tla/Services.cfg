SPECIFICATION ServicesSpec
CONSTANTS
  Roots = {"r1", "r2"}
  MaxRequests = 2
  MaxConsoles = 3
  MaxFaults = 1
  Commits <- FewCommits
  LineSet <- FewLines
  Merges = {"m"}
  OldStores <- TimeOrdered
  Deploys = {"d1", "d2"}
  Accounts = {"ann", "bob"}
  Nobody = "nobody"
  MaxUpgrades = 2
  MaxFailures = 3
  Tables = {"p", "c"}
  Views = {"v"}
  MaxDdl = 3
  MaxSeconds = 2
  Files = {"f", "g"}
  Hashes = {"h1", "h2"}
  NoFile = "nofile"
  Scripts = {"s1", "s2"}
  ScriptOf <- TwoScripts
  MaxEdits = 2
  Todo <- FourObjects
  Graphs <- FewGraphs
  Source = "js"
  Sibling = "min"
  MaxSaves = 3
  MaxStamp = 3
  Dated = {"o"}
  Jobs = {"j"}
  Versions = {"x", "y"}
  ExportRequests <- FewRequests
  MaxTime = 2
  MaxAlters = 2
  MaxExports = 2
CHECK_DEADLOCK FALSE
INVARIANTS AnswerIsOwn MarkerIsOwn NoOrphan AsksTheRightProcess EofIsReal
  StoreOnLine Trusted NoHole OneDeveloperHolds LeftAsFound RolledBack InstallSurvives
  FixpointReached ServesTheFolder MirrorCatchesUp BaselineTrue
  NothingSkipped
PROPERTIES EndIsNoticed
