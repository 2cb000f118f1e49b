\* Two clients: an entry that nobody will release.
CONSTANTS
  Clients = {t1, t2}
  MaxTask = 2
  CounterMod = 8
  RingCmds = 3
  Chunks = {1, 2}
  MaxCopies = 3
  MaxSuspends = 0
SPECIFICATION Spec
SYMMETRY ClientSymmetry
INVARIANTS EntryFree
CHECK_DEADLOCK FALSE
