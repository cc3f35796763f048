\* The installing functions in pairs, the rounds of P2P, the windows for files and
\* keys, the replacement of an executable, and the menus of the tray: each part on
\* its own.  A part that nobody asks for anything stops.
SPECIFICATION TraySpec
CONSTANTS
  Bodies <- InstallBodies
  Teams <- FunctionPairs
  Envs = {e1}
  MaxJobs = 2
  MovedKinds <- BothWays
  MovedDirs = {"/", "/a/"}
  MaxMoving = 2
  RemovedKinds <- BothSides
  RemovedDirs = {"/"}
  MaxRemoving = 1
  Keys = {k1, k2}
  MaxWork = 1
  MaxNotices = 2
  MaxTicks = 2
  Lives <- TwoLives
  Fingers = {"FINGER1", "FINGER2"}
  Devices = {"FINGER1"}
  MaxUpdates = 2
  EnvNames <- Namesakes
CHECK_DEADLOCK FALSE
INVARIANTS
  PartsTypeOK
  OnlyKnownLosses SuccessIsEarned  
  ListingIsOfDirectory  DeployedIsOnItsWay SuccessIsWhole
  PeersAreShown UpdatingIsUnderWay EnvironmentsAreShown
PROPERTIES
  InstallersTakeTurns SettlesUnlessLost SwarmsSettle
  FinishedIsEarned ButtonsComeBack  OneIsLeft FingersAreKept
