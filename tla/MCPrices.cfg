SPECIFICATION Spec
CONSTANTS
  s1 = s1  s2 = s2  k1 = k1  c1 = c1  c2 = c2  e1 = e1
  Suppliers = {s1, s2}
  Cards = {k1}
  SupplierOf <- MCSupplierOf
  FeedKind <- MCFeedKind
  FieldChoices <- MCFieldChoices
  Others = 1  Prices = {1, 2}  Runs = {c1, c2}  Editors = {e1}
  ArchiveAfter = 1  MaxDay = 3  MaxRuns = 2  MaxEdits = 2
SYMMETRY Symmetry
INVARIANTS NoneLockedOut
PROPERTIES ManualPriceKept HistoryOfImports LongMissingOnly
CHECK_DEADLOCK FALSE
