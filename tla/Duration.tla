------------------------------- MODULE Duration -------------------------------
(***************************************************************************)
(* time.Duration: nanoseconds in an int64, whose products wrap around, and *)
(* how config.Load and cmd/retention compute the worker's TTL with them.   *)
(* A 64-bit number is the sequence of its bytes, the lowest first.          *)
(***************************************************************************)
EXTENDS Integers, SequencesExt

\* The bytes of a sum of columns, columns[i] of weight 256^(i-1); what is
\* carried out of the last one is lost.
Carried(columns) ==
  LET Add(acc, c) == [bytes |-> Append(acc.bytes, (c + acc.carry) % 256),
                      carry |-> (c + acc.carry) \div 256]
  IN  FoldLeft(Add, [bytes |-> <<>>, carry |-> 0], columns).bytes

Small(n) == Carried([i \in 1..8 |-> IF i = 1 THEN n ELSE 0])

\* The product of two int64 in Go.
Times(a, b) ==
  LET Plus(x, y) == x + y
  IN  Carried([i \in 1..8 |-> FoldLeft(Plus, 0, [j \in 1..i |-> a[j] * b[i + 1 - j]])])

Negative(a) == a[8] >= 128

\* a < b for int64.
Less(a, b) ==
  \/ Negative(a) /\ ~Negative(b)
  \/ /\ Negative(a) <=> Negative(b)
     /\ \E i \in 1..8 : a[i] < b[i] /\ \A j \in i + 1..8 : a[j] = b[j]

Nanosecond == Small(1)
Microsecond == Times(Small(1000), Nanosecond)
Second == Times(Small(1000), Times(Small(1000), Microsecond))
Hour == Times(Small(3600), Second)

\* RETENTION_DAYS is a Go duration, a number of days, or absent.
Settings == [kind : {"duration", "days", "absent"}, n : Nat]
RetentionDays(setting) ==
  CASE setting.kind = "duration" -> Times(Small(setting.n), Hour)
    [] setting.kind = "days"     -> Times(Times(Small(setting.n), Small(24)), Hour)
    [] setting.kind = "absent"   -> Times(Times(Small(30), Small(24)), Hour)

\* What cmd/retention hands to the worker as MessageTTL and MediaTTL.
MessageTTL(setting) == Times(Times(RetentionDays(setting), Small(24)), Hour)

\* created_at < NOW() - ttl, for a row that is some days old.
Older(days, ttl) == Less(ttl, Times(Times(Small(days), Small(24)), Hour))
=============================================================================
