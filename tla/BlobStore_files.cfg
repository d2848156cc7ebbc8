SPECIFICATION Spec
CONSTANTS
  Uploads = {u1, u2}
  Downloads = {d1}
  Chunks = {"a", "b"}
  MaxBytes = 2
  MaxCrashes = 1
  None = None
INVARIANTS
  StoreInv
  DownloadedIsWhole
CHECK_DEADLOCK FALSE
