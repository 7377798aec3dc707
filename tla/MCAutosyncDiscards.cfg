\* What an automatic download discards.
SPECIFICATION Spec
CONSTANTS
  LocalNotes = {n1}
  RemoteNotes = {r1}
  LocalSchemas = {s1}
  RemoteSchemas = {q1}
  HasCredentials = TRUE
  MaxMishaps = 0
  MaxTears = 0
PROPERTY
  NothingLocalOnlyDiscarded
