CONSTANTS
  Readers = {r1}
  ReadWords = {1, 2}
  Depth = 2
  Modulus = 4
  Debounce = 1
  Debounces = {}
  RepeatMax = 0
  Protocols = {"NEC"}
  Modes = {"DOUBLE"}
  Exclusive = TRUE
  MaxFrames = 3
SPECIFICATION Spec
INVARIANT PairsTogether
