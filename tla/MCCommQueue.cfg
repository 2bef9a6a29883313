SPECIFICATION Spec
CONSTANTS
  Data = {x, y}
  NoData = NoData
  MaxEntries = 4
INVARIANTS
  TypeOK
  SlotsAccounted
  RoomMeansFreeSlot
PROPERTY
  ImplementsFifo
