CONSTANTS
  Senders = {s1, s2}
  Readers = {r1}
  NoMsg = NoMsg
  Lengths = {2}
  RxRing = 2
  CompleteAll = 10
  MaxSends = 2
  MaxReceives = 1
  MaxTraffic = 3
  MaxDisables = 0
SPECIFICATION FairSpec
PROPERTIES SendReturns ReceiverRestarts ReadReturns
CHECK_DEADLOCK FALSE
