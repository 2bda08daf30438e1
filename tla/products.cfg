SPECIFICATION Spec
CONSTANTS
  P1 = p1
  P2 = p2
  Bad = bad
  Boss = boss
  Worker = worker
  None = none
  Codes = {p1, p2, bad}
  Illegal = {bad}
  Users = {boss, worker}
  Actors = {"manager", "clerk", "member"}
  UserOf <- User
  May <- Permissions
  Assigners = {"manager", "clerk"}
  Assigned <- NoPairs
  Team <- TeamPairs
  Imports <- Sent
  Requests = {r1, r2}
  MaxRequests = 4
  MaxFaults = 1
SYMMETRY Symmetric
CHECK_DEADLOCK FALSE
INVARIANTS TrailReplays
PROPERTIES ChangesAreRightful OffersHold
