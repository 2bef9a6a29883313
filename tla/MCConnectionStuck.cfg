SPECIFICATION Spec
CONSTANTS
  MaxSend = 3
  MaxReceive = 2
  IdMod = 8
  MaxData <- ThreeNone
  MaxNoAck <- NoneNone
INVARIANT
  NeverStuck
