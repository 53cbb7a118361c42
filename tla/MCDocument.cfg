SPECIFICATION Spec
CONSTANTS
  t1 = t1  t2 = t2  u1 = u1  u2 = u2
  c1 = c1  c2 = c2
  Tabs = {t1, t2}
  Users = {u1, u2}
  UserOf <- MCUserOf
  Admins = {}
  Calls = {c1, c2}
  Kinds = {"acquire", "save", "status", "kpCreate", "kpDelete"}
  Ttl = 1  MaxFiles = 0  MaxTime = 0  MaxVersion = 3  MaxKps = 3  MaxWrites = 3  MaxUploads = 0
  NoTab = NoTab  NoCall = NoCall  NoUser = NoUser
SYMMETRY SymmetryOfTabs
INVARIANTS LinearHistory KpVersionsUnique KpSummaryCurrent ApprovedSumCurrent
PROPERTIES ClosedFrozen ApprovalBaseKept LedgerKept
