\* A 16-byte ring: packets of one and three words, reads that end inside a word.
CONSTANTS
  Kinds = {"poll", "intr", "kern"}
  RingSize = 16
  Writers = {w1, w2}
  Readers = {r1, r2}
  WriteCounts = {0, 4, 12}
  ReadCounts = {3, 8}
  ResetBusy = FALSE
  MaxWrites = 3
  MaxResets = 1
SPECIFICATION Spec
SYMMETRY ThreadSymmetry
INVARIANTS TypeOK MutualExclusion PointersTellOccupancy NoOverwrite ReadsPublished
PROPERTY ImplementsFifo
CHECK_DEADLOCK FALSE
