\* The lock between tabs under fairness. A page that is left, with the acts used up, really stops.
SPECIFICATION FairSpec
CONSTANTS
  Slots = {1, 2}
  NoSlot = 0
  Acts = {"retry", "status", "reopen", "force"}
  MaxActs = 2
  MaxOthers = 2
  MaxFails = 1
PROPERTIES LockLossNoticed ViewerCatchesUp
CHECK_DEADLOCK FALSE
