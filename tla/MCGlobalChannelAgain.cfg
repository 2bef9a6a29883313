SPECIFICATION Spec
CONSTANTS
  a = a
  b = b
  Nodes <- TwoMachines
  MaxSend = 2
  MaxReceive = 1
  Remembered = 2
  MaxSent <- ThreeNone
  MaxLives <- FirstAgain
INVARIANTS
  AckMeansStored
