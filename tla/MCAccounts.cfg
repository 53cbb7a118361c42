SPECIFICATION Spec
CONSTANTS
  u1 = u1  u2 = u2  u3 = u3
  c1 = c1  c2 = c2  l1 = l1  l2 = l2  s1 = s1
  Users = {u1, u2, u3}
  FirstAdmins = {u1}
  Links = {l1, l2}
  Sessions = {s1}
  Calls = {c1, c2}
  Kinds = {"login", "resolve", "logout", "password", "invite", "resetLink", "revoke", "register", "reset", "role", "block", "unblock"}
  Limit = 1  Window = 2  SessionTtl = 4  LinkTtl = 2  MaxLate = 1  MaxCalls = 4
  NoUser = NoUser  NoLink = NoLink  NoSession = NoSession
INVARIANTS LinksWorkOnce AdminLeft FailuresBounded
PROPERTIES UsedSessionKept
SYMMETRY Symmetry
