\* A round declared finished while its answers are still awaited.
SPECIFICATION Spec
CONSTANTS
  NoPeer = NoPeer
  Peers = {p1, p2}
  Commands = {c1}
  Ops = {"destroy"}
  MaxVmJobs = 1
PROPERTY EmittedWhenAllFinished
