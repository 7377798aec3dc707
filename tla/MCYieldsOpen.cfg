\* What a failed full sync leaves behind.
SPECIFICATION Spec
CONSTANTS
  Threads = {t1, t2}
  Nobody = nobody
  MaxRequests = 2
INVARIANT
  YieldsOpenCollection
