\* A suspension that races with a login.
CONSTANTS
  u1 = u1
  d1 = d1
  Users = {u1}
  Devices = {d1}
  Tokens = {t1, t2}
  Requests = {r1, r2}
  Failing = {}
  Revokers = {r1, r2}
  OwnerOf <- OneUser
  NoToken = NoToken
SPECIFICATION Spec
CHECK_DEADLOCK FALSE
INVARIANT SuspendedHasNoSession
