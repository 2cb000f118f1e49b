\* A ring of four commands; a queue of six words, around whose end entries wrap.
CONSTANTS
  Size = 4
  QSize = 6
  Payloads = {1, 3}
  Counts = {0, 2}
  MaxEntries = 4
  MaxWrites = 1
SPECIFICATION FairSpec
INVARIANTS TypeOK CommandsIntact EntriesWhole
PROPERTIES QueueDrains WriteReturns
CHECK_DEADLOCK FALSE
