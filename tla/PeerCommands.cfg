\* Two peers and one terminal command, which check_logs may find finished in
\* the middle of a round.
SPECIFICATION FairSpec
CONSTANTS
  NoPeer = NoPeer
  Peers = {p1, p2}
  Commands = {c1}
  Ops = {"halt", "ssh", "destroy"}
  MaxVmJobs = 1
INVARIANTS TypeOK CountIsCovered LockHasAStatusCheck
PROPERTIES RoundEnds 
