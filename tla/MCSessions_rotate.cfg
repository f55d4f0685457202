\* Three concurrent requests over the tokens of one device.
CONSTANTS
  u1 = u1
  d1 = d1
  Users = {u1}
  Devices = {d1}
  Tokens = {t1, t2, t3}
  Requests = {r1, r2, r3}
  Failing = {r1, r2, r3}
  Revokers = {r1, r2, r3}
  OwnerOf <- OneUser
  NoToken = NoToken
SPECIFICATION Spec
CHECK_DEADLOCK FALSE
SYMMETRY Symmetry
INVARIANTS TypeOK OneUnused BurnedStaysDead NoAccessUnlessFailed
