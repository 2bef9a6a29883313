SPECIFICATION FairSpec
CONSTANTS
  N = 2
  FrameSendRate = 1
  StartMaxAhead = 2
  MaxAheads = {3}
  TimingPeriod = 4
  CountMod = 65536
  EventsPerPacket = 1
  Leavers = {2}
  Unresponsive = {1, 2}
  OnlyGone = TRUE
  MayLose = TRUE
  MaxCommands <- SecondOne
  MaxFrame = 4
PROPERTIES
  EveryoneAdvances
CHECK_DEADLOCK FALSE
