\* Writes of any length: the last word may be partly used.
CONSTANTS
  Kinds = {"poll"}
  RingSize = 16
  Writers = {w1, w2}
  Readers = {r1, r2}
  WriteCounts = {4, 11}
  ReadCounts = {3, 8}
  ResetBusy = FALSE
  MaxWrites = 3
  MaxResets = 0
SPECIFICATION Spec
SYMMETRY ThreadSymmetry
INVARIANTS EqualMeansEmpty
CHECK_DEADLOCK FALSE
