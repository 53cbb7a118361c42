SPECIFICATION Spec
CONSTANTS
  p1 = p1  p2 = p2  e1 = e1  e2 = e2  f1 = f1  x1 = x1  x2 = x2  y = y
  None = None
  Pages = {p1, p2}
  Editors = {e1, e2, f1}
  PageOf <- MCPageOf
  ChangesOf <- MCChangesOf
  MaxFaults = 1  MaxWork = 6
PROPERTY EditsOfOthersKept
CHECK_DEADLOCK FALSE
