----------------------------- MODULE MCRetention -----------------------------
(* Instances of Retention for TLC. *)
EXTENDS Retention, Duration, TLC

CONSTANTS a, b, m1, m2, t1, d1

TablesOf == [r \in Rows |-> IF r = t1 THEN "messages" ELSE "media_blobs"]

\* The worker as its Config says.
ConfiguredTTL == [t \in Tables |-> Promised]

\* The worker as cmd/retention starts it when RETENTION_DAYS is 30, the unit of
\* the clock being a day: the TTL in days, as far as ages up to AgeCap can tell.
DeployedDays ==
  LET ttl  == MessageTTL([kind |-> "days", n |-> 30])
      ripe == {x \in 0..AgeCap : Older(x, ttl)}
  IN  CHOOSE d \in -1..AgeCap : ripe = d + 1..AgeCap
DeployedTTL == [t \in Tables |-> DeployedDays]
=============================================================================
