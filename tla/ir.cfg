\* As in the code, debounce starts above REPEAT_MAX_INTERVAL (300 against 200 ms).
CONSTANTS
  Readers = {r1}
  ReadWords = {1, 2}
  Depth = 2
  Modulus = 4
  Debounce = 1
  Debounces = {0, 1}
  RepeatMax = 0
  Protocols = {"NEC", "RAW_NEC"}
  Modes = {"SINGLE", "DOUBLE"}
  Exclusive = TRUE
  MaxFrames = 3
SPECIFICATION FairSpec
INVARIANTS TypeOK GetFindsWord PairsTornOnlyWhenFull
PROPERTIES ImplementsFifo KeyIsRead
