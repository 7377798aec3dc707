\* Three requests that may overlap, and restarts.
SPECIFICATION Spec
CONSTANTS
  Threads = {t1, t2, t3}
  Shards = {e0, e1}
  HasCredentials = TRUE
  MaxLogins = 2
  MaxMoves = 1
  MaxRestarts = 2
SYMMETRY ThreadSymmetry
INVARIANTS
  TypeOK
  IInv
  ApartLogoutSticks
PROPERTIES
  SerialSaveAgrees
  SerialLogoutForgets
  SerialRestartKeepsLogin
