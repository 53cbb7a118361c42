SPECIFICATION Spec
CONSTANTS
  t1 = t1  t2 = t2  u1 = u1  u2 = u2
  c1 = c1  c2 = c2
  Tabs = {t1, t2}
  Users = {u1, u2}
  UserOf <- MCUserOf
  Admins = {u2}
  Calls = {c1, c2}
  Kinds = {"acquire", "heartbeat", "release", "force", "block", "save", "status"}
  Ttl = 1  MaxFiles = 0  MaxTime = 1  MaxVersion = 2  MaxKps = 0  MaxWrites = 9  MaxUploads = 0
  NoTab = NoTab  NoCall = NoCall  NoUser = NoUser
SYMMETRY Symmetry
INVARIANT TypeOK
PROPERTY LiveLockKept
