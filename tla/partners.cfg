SPECIFICATION Spec
CONSTANTS
  Codes = {c1, c2}
  Boss = boss
  Worker = worker
  Users = {boss, worker}
  NoOwner = noowner
  Requests = {r1, r2}
  Actors <- Staff
  MaxRows = 2
  MaxRequests = 4
SYMMETRY Symmetric
CHECK_DEADLOCK FALSE
INVARIANTS TrailExplainsPartner
PROPERTIES VersionsCount RightsHold ImportIsAtomic
