SPECIFICATION StoreSpec
CONSTANTS
  User = {u1, u2, u3}
  FileMayFail = TRUE
  RenameMayFail = TRUE
INVARIANTS AccountsPersist
