SPECIFICATION FairSpec
CONSTANTS
  t1 = t1  t2 = t2  u1 = u1  u2 = u2
  c1 = c1  c2 = c2
  Tabs = {t1, t2}
  Users = {u1, u2}
  UserOf <- MCUserOf
  Admins = {u2}
  Calls = {c1, c2}
  Kinds = {"acquire", "status", "fileAdd", "fileRemove"}
  Ttl = 1  MaxFiles = 1  MaxTime = 0  MaxVersion = 1  MaxKps = 0  MaxWrites = 9  MaxUploads = 3
  NoTab = NoTab  NoCall = NoCall  NoUser = NoUser
INVARIANTS FilesCountCurrent FilesStored
PROPERTY EveryCallAnswered
