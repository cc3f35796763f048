\* One account: what is left of the session after logging out.
SPECIFICATION Spec
CONSTANTS
  Users = {ann}
  NoSession = NoSession
  Lists = {l1}
  Empty = Empty
  UPDATE_ATTEMPT_MAX = 1
  MaxAsked <- OneAsked
CHECK_DEADLOCK FALSE
INVARIANT SignedOut
