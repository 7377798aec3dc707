\* A blocked loop that says nothing.
SPECIFICATION Spec
CONSTANTS
  LocalNotes = {n1}
  RemoteNotes = {r1}
  LocalSchemas = {s1}
  RemoteSchemas = {q1}
  HasCredentials = TRUE
  MaxMishaps = 1
  MaxTears = 0
INVARIANT
  BlockedIsAlerted
