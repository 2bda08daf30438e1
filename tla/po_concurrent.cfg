SPECIFICATION Spec
CONSTANTS
  Requests = {r1, r2}
  Nobody = nobody
  LineNo = {1, 2}
  LineId = {i1, i2}
  Ops = {"UPDATE", "STATUS_CHANGE", "SOFT_DELETE", "RESTORE"}
  Pipelined = TRUE
  MaxRequests = 4
SYMMETRY Symmetric
CHECK_DEADLOCK FALSE
INVARIANTS StatusIsLastEvent TracesAgree
PROPERTIES UpdateKeepsToItsOwn
