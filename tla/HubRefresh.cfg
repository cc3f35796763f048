\* One account: rounds overlap, sessions expire, and the user logs out and in.
SPECIFICATION FairSpec
CONSTANTS
  Users = {ann}
  NoSession = NoSession
  Lists = {l1, Empty}
  Empty = Empty
  UPDATE_ATTEMPT_MAX = 1
  MaxAsked <- Overlapping
CHECK_DEADLOCK FALSE
INVARIANTS TypeOK 
PROPERTIES EnvironmentsConverge
