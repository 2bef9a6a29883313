SPECIFICATION FairSpec
CONSTANTS
  a = a
  b = b
  Nodes <- TwoMachines
  MaxSend = 2
  MaxReceive = 1
  Remembered = 2
  MaxSent <- ThreeNone
  MaxLives <- SecondAgain
INVARIANTS
  TypeOK
  RemembersLatest
  AckMeansStored
PROPERTIES
  NeverClogged
