SPECIFICATION Spec
CONSTANTS
  Requests = {r1, r2, r3}
  Nobody = nobody
  LineNo = {1}
  LineId = {i1}
  Ops = {"STATUS_CHANGE", "SOFT_DELETE", "RESTORE"}
  Pipelined = FALSE
  MaxRequests = 5
SYMMETRY Symmetric
CHECK_DEADLOCK FALSE
INVARIANTS HistoryIsWorkflowPath HistoryInTimeOrder AuditIsChain
PROPERTIES NoOverwrite TerminalIsFinal RefinesVersionedRecord
