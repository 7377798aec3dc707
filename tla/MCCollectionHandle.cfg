\* Three threads, so that one may wait while another leaves and a third is
\* inside; three requests.  No symmetry: liveness is checked too.
SPECIFICATION FairSpec
CONSTANTS
  Threads = {t1, t2, t3}
  Nobody = nobody
  MaxRequests = 3
INVARIANTS
  TypeOK
  HolderOnlyInside
  NoUseAfterClose
  SwapIsInvisible
  NoLostUpdate
  IInv
PROPERTIES
  RefinesSerialCollection
  EveryRequestAnswered
  ShutdownCompletes
