SPECIFICATION Spec
CONSTANTS
  Uploads = {u1}
  Deletes = {e1}
  Versions = {1, 2}
  MaxFaults = 0
CHECK_DEADLOCK FALSE
INVARIANTS RefusedDeleteKeepsFile
