SPECIFICATION Spec
CONSTANTS
  MaxSend = 3
  MaxReceive = 3
  IdMod = 8
  MaxData <- ThreeNone
  MaxNoAck <- OneNone
INVARIANTS
  TypeOK
  ReceiveWindow
  AckMeansReceived
  NothingLost
PROPERTY
  ImplementsChannel
