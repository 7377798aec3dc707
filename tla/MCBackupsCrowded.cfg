\* Calls that fail among calls that succeed.
SPECIFICATION Spec
CONSTANTS
  Threads = {t1}
  Keep = 2
  MaxClock = 4
  MaxVersions = 1
PROPERTY
  KeepsNewestBackups
