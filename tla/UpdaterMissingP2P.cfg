\* A daemon that is missing and cannot be installed.
SPECIFICATION Spec
CONSTANTS
  OS = "linux"
  Acting = {"P2P"}
  MaxOps = 2
INVARIANT MissingP2PCanBeInstalled
