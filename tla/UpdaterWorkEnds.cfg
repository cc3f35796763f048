\* Background work on Linux, under fairness of everything but the user.
SPECIFICATION FairSpec
CONSTANTS
  OS = "linux"
  Acting = {"P2P", "KVM", "SUBUTAI_BOX"}
  MaxOps = 2
PROPERTIES WorkEnds
