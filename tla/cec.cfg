CONSTANTS
  Senders = {s1, s2}
  Readers = {r1}
  NoMsg = NoMsg
  Lengths = {2}
  RxRing = 3
  CompleteAll = 10
  MaxSends = 2
  MaxReceives = 3
  MaxTraffic = 3
  MaxDisables = 1
SPECIFICATION Spec
SYMMETRY SenderSymmetry
INVARIANTS TypeOK ReadInOrder BuffersConserved NoDanglingBuffer SuccessMeansSent DisableEndsSends
CHECK_DEADLOCK FALSE
