\* Everything the user does. A page that is left, with the acts used up, really stops.
SPECIFICATION Spec
CONSTANTS
  Slots = {1, 2}
  NoSlot = 0
  Acts = {"edit", "undo", "status", "reopen", "retry", "force", "page", "hide"}
  MaxActs = 3
  MaxOthers = 1
  MaxFails = 1
INVARIANT SavedWasStored
PROPERTY SaveStoresShown
CHECK_DEADLOCK FALSE
