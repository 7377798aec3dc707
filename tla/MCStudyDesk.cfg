\* Two cards, a log of two time stamps, two operations remembered.
SPECIFICATION Spec
CONSTANTS
  None = None
  Unknown = Unknown
  CardIds = {c1, c2}
  MaxSched = 2
  MaxClock = 2
  UndoLimit = 2
  Second = 2
  REVLOG_BOUNDS_CHUNK = 2
  Quiet = {c2}
CONSTRAINT QuietCards
INVARIANTS
  TypeOK
  SuspendedAsAsked
  PagedReadComplete
  BoundsAgree
PROPERTIES
  RefinesReviewLog
