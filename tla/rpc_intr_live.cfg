\* A reader on the audio side, a kernel thread on the video side, fair scheduling.
CONSTANTS
  audio = audio  video = video  r1 = r1  r2 = r2  k1 = k1
  Sides = {audio, video}
  IntrReaders = {r1}
  KernThreads = {k1}
  SideOf <- TwoSides
  MaxPackets = 2
  MaxCalls = 1
  MaxSignals = 1
  MaxFreezes = 1
SPECIFICATION FairSpec
INVARIANTS NoLostWakeup
PROPERTIES RepliesAreRead BlockedReadReturns
CHECK_DEADLOCK FALSE
