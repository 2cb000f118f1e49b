\* Two clients with several copies under way; the counter wraps at 6.
CONSTANTS
  Clients = {t1, t2}
  MaxTask = 2
  CounterMod = 6
  RingCmds = 2
  Chunks = {1, 2}
  MaxCopies = 3
  MaxSuspends = 1
SPECIFICATION FairSpec
INVARIANTS TypeOK SyncMeansComplete ReleasedWhenComplete TableUsable FailedMeansNotStarted
PROPERTIES SyncReturns
CHECK_DEADLOCK FALSE
