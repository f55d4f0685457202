\* The worker with the TTL that cmd/retention computes from RETENTION_DAYS=30;
\* the clock counts days.
SPECIFICATION FairSpec
CONSTANTS
  a = a b = b m1 = m1 m2 = m2 t1 = t1 d1 = d1 NoMedia = NoMedia
  Workers = {a}
  Rows = {t1}
  TableOf <- TablesOf
  Recipients = {d1}
  TTL <- DeployedTTL
  Promised = 30
  AgeCap = 31
  Sweep = 1
  Slack = 1
  UrlTTL = 1
  BatchLimit = 1
  MaxFaults = 0
PROPERTIES OldIsErased
