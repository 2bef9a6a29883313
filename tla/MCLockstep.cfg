SPECIFICATION Spec
CONSTANTS
  N = 2
  FrameSendRate = 2
  StartMaxAhead = 4
  MaxAheads = {4, 8}
  TimingPeriod = 9
  CountMod = 65536
  EventsPerPacket = 1
  Leavers = {}
  Unresponsive = {}
  OnlyGone = FALSE
  MayLose = FALSE
  MaxCommands <- SecondOne
  MaxFrame = 28
INVARIANTS
  TypeOK
  NeverTooLate
  SameHistory
  SameTiming
  ReceivedAllMeansCountsOK
PROPERTIES
  NobodyOutruns
