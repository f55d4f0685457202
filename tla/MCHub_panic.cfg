\* The backfill goroutine keeps the client it looked up.
SPECIFICATION Spec
CONSTANTS
  c1 = c1 c2 = c2 c3 = c3 c4 = c4 m1 = m1 m2 = m2 d1 = d1 d2 = d2
  NoConn = NoConn
  Devices = {d1}
  Conns = {c1, c2}
  Messages = {m1}
  DeviceOf <- OneDevice
  To <- ToOneDevice
  SendCap = 1
  QueueCap = 1
  BackfillLimit = 1
  AdminPhones = {}
  Ageing = {}
  Repliers = {}
  MaxRestarts = 0
INVARIANTS BackfillTargetOpen
CHECK_DEADLOCK FALSE
