\* Automatic updates after a restart.
SPECIFICATION Spec
CONSTANTS
  OS = "linux"
  Acting = {"P2P", "TRAY"}
  MaxOps = 2
INVARIANT AutoupdateFollowsSettings
