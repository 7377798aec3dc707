\* Both policies, failures of every kind, fair ticks.
SPECIFICATION FairSpec
CONSTANTS
  LocalNotes = {n1}
  RemoteNotes = {r1}
  LocalSchemas = {s1}
  RemoteSchemas = {q1}
  HasCredentials = TRUE
  MaxMishaps = 2
  MaxTears = 1
INVARIANTS
  TypeOK
  AlertsAtMostOnce
  IInv
PROPERTIES
  DiscardsOnlyLateSchemas
  BackupCoversDownload
  NeverAutoUploads
  OffDiscardsNothing
  Settles
