\* Two callers; one request fills the ring, so another may be refused.
CONSTANTS
  Callers = {c1, c2}
  Requests = 1
  Replies = 2
  MaxCalls = 4
  MaxResets = 1
SPECIFICATION FairSpec
INVARIANTS TypeOK OwnAnswer StoresHitLiveFrame
PROPERTIES EveryCallReturns
CHECK_DEADLOCK FALSE
