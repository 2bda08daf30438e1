SPECIFICATION Spec
CONSTANTS
  Requests = {r1, r2}
  Nobody = nobody
  LineNo = {1}
  LineId = {i1, i2}
  Ops = {"UPDATE", "STATUS_CHANGE", "SOFT_DELETE", "RESTORE"}
  Pipelined = FALSE
  MaxRequests = 4
SYMMETRY Symmetric
CHECK_DEADLOCK FALSE
PROPERTIES NoOverwrite
