SPECIFICATION Spec
CONSTANTS
  Uploads = {u1, u2}
  Deletes = {e1, e2, e3}
  Versions = {1, 2}
  MaxFaults = 2
SYMMETRY Symmetric
CHECK_DEADLOCK FALSE
INVARIANTS TrailTellsLife DeletedIsGone NoOrphans LostOnlyByDelete
