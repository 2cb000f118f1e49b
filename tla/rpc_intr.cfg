\* Two readers of one device and the kernel thread woken by the same interrupt.
CONSTANTS
  audio = audio  video = video  r1 = r1  r2 = r2  k1 = k1
  Sides = {audio}
  IntrReaders = {r1, r2}
  KernThreads = {k1}
  SideOf <- SharedSide
  MaxPackets = 2
  MaxCalls = 2
  MaxSignals = 1
  MaxFreezes = 1
SPECIFICATION Spec
INVARIANTS TypeOK TakeFindsData
CHECK_DEADLOCK FALSE
