\* Two peers and no terminal command: rounds overlap, and answers arrive late.
SPECIFICATION Spec
CONSTANTS
  NoPeer = NoPeer
  Peers = {p1, p2}
  Commands = {}
  Ops = {}
  MaxVmJobs = 2
SYMMETRY Symmetry
PROPERTIES LivePeerKept
