SPECIFICATION FairSpec
CONSTANTS
  MaxSend = 2
  MaxReceive = 2
  IdMod = 8
  MaxData <- ThreeNone
  MaxNoAck <- NoneNone
PROPERTIES
  EventuallyRead
  SendQueueDrains
