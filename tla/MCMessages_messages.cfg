\* Two users, two companion phones, a message of any of them and two attempts.
SPECIFICATION Spec
CONSTANTS
  u = u v = v bob = bob a = a b = b m1 = m1 ann = ann r1 = r1 r2 = r2
  NoDevice = NoDevice NoMsg = NoMsg NoUser = NoUser
  Users = {ann, bob}
  UserOf <- Owners
  UserDevices = {u, v}
  AdminDevices = {a, b}
  Msgs = {m1}
  Requests = {r1, r2}
  MaxFaults = 1
SYMMETRY Symmetry
CONSTRAINT Listens
INVARIANTS TypeOK PersistedIsListed RefusedStoresNothing RevokedStoresNothing ReceiptIsOwn
PROPERTIES RowIsStable
CHECK_DEADLOCK FALSE
