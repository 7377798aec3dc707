\* Calls that overlap, some in the same second, and more backups than are kept.
SPECIFICATION Spec
CONSTANTS
  Threads = {t1, t2, t3}
  Keep = 1
  MaxClock = 3
  MaxVersions = 2
SYMMETRY ThreadSymmetry
INVARIANTS
  TypeOK
  IInv
PROPERTIES
  PruneKeepsNewest
  AnsweredIsPossessed
