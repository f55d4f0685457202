\* Three connections of one device that come, replace each other and go, in
\* every order, with a handler that answers and a shutdown; or two devices, one
\* an admin phone that also fetches, with a message for each.
SPECIFICATION Spec
CONSTANTS
  c1 = c1 c2 = c2 c3 = c3 c4 = c4 m1 = m1 m2 = m2 d1 = d1 d2 = d2
  NoConn = NoConn
  Devices = {d1, d2}
  Conns = {c1, c2, c3, c4}
  Messages = {m1, m2}
  DeviceOf <- TwoDevices
  To <- ToTwoDevices
  SendCap = 1
  QueueCap = 2
  BackfillLimit = 1
  AdminPhones = {d1}
  Ageing = {}
  Repliers = {c1}
  MaxRestarts = 1
CONSTRAINT ReconnectsOrMessages
INVARIANTS TypeOK RegisteredOpen NoOrphan
PROPERTIES ImplementsMailbox
CHECK_DEADLOCK FALSE
