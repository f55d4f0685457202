\* Two replicas, a medium and a message, two failures.
SPECIFICATION FairSpec
CONSTANTS
  a = a b = b m1 = m1 m2 = m2 t1 = t1 d1 = d1 NoMedia = NoMedia
  Workers = {a, b}
  Rows = {m1, t1}
  TableOf <- TablesOf
  Recipients = {d1}
  TTL <- ConfiguredTTL
  Promised = 1
  AgeCap = 2
  Sweep = 1
  Slack = 1
  UrlTTL = 0
  BatchLimit = 1
  MaxFaults = 2
INVARIANTS TypeOK LeaseExcludes KeysGoFirst OrphanWasRefused

PROPERTIES OldIsErased
