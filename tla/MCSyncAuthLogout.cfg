\* A logout during a sync.
SPECIFICATION Spec
CONSTANTS
  Threads = {t1, t2}
  Shards = {e0, e1}
  HasCredentials = FALSE
  MaxLogins = 1
  MaxMoves = 1
  MaxRestarts = 0
INVARIANT
  LogoutSticks
