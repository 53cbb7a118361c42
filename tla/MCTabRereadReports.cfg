\* Reading again after a status change. A page that is left, with the acts used up, really stops.
SPECIFICATION Spec
CONSTANTS
  Slots = {1, 2}
  NoSlot = 0
  Acts = {"edit", "status"}
  MaxActs = 2
  MaxOthers = 0
  MaxFails = 0
PROPERTY RereadReportsLoss
CHECK_DEADLOCK FALSE
