SPECIFICATION StartedSpec
CONSTANTS
  N = 3
  FrameSendRate = 1
  StartMaxAhead = 2
  MaxAheads = {}
  TimingPeriod = 5
  CountMod = 65536
  EventsPerPacket = 1
  Leavers = {2}
  Unresponsive = {}
  OnlyGone = FALSE
  MayLose = FALSE
  MaxCommands <- OneOfThree
  MaxFrame = 3
INVARIANTS
  SameHistory
  SameTiming
  CountsAgree
