\* A command started on a peer whose status is being checked.
SPECIFICATION Spec
CONSTANTS
  NoPeer = NoPeer
  Peers = {p1, p2}
  Commands = {c1}
  Ops = {"destroy"}
  MaxVmJobs = 1
PROPERTY NoCommandWhileChecking
