--------------------------- MODULE RetentionProofs ---------------------------
(***************************************************************************)
(* Theorems about Retention: typing, the lease, the order of               *)
(* crypto-erasure, and what becomes of objects without a row, for any      *)
(* number of workers, rows, recipients and faults and any periods.         *)
(***************************************************************************)
EXTENDS Retention, TLAPS

Pcs == {"off", "select"} \cup Sweeping

LEMMA Labels ==
  /\ DOMAIN After = {"messages", "scan", "one_time_prekeys", "refresh_tokens",
                     "login_failures", "admin_plaintext"}
  /\ \A t \in DOMAIN After : After[t] \in {"select"} \cup DOMAIN After
  BY DEF After

\* The frame of a worker's step.
LEMMA GotoMoves ==
  ASSUME worker \in [Workers -> Worker], NEW w \in Workers, NEW pc \in Pcs
  PROVE  /\ Goto(w, pc) \in [Workers -> Worker]
         /\ \A v \in Workers \ {w} : Goto(w, pc)[v] = worker[v]
         /\ Goto(w, pc)[w].pc = pc
         /\ Goto(w, pc)[w].since = IF pc = "select" THEN 0 ELSE worker[w].since
         /\ Goto(w, pc)[w].todo = worker[w].todo /\ Goto(w, pc)[w].cur = worker[w].cur
         /\ Goto(w, pc)[w].tick = worker[w].tick /\ Goto(w, pc)[w].wait = worker[w].wait
<1>1. LeaseTTL \in Nat /\ 0 \in 0..LeaseTTL
  BY RetentionAssumption DEF LeaseTTL
<1>2. QED
  BY <1>1 DEF Goto, Worker, Pcs

LEMMA AgedKeeps ==
  ASSUME NEW r \in Row
  PROVE  Aged(r) \in Row /\ Aged(r).state = r.state /\ Aged(r).age >= r.age
  BY RetentionAssumption DEF Aged, Row

LEMMA TimedKeeps ==
  ASSUME NEW s \in Worker
  PROVE  /\ Timed(s) \in Worker
         /\ Timed(s).pc = s.pc /\ Timed(s).todo = s.todo /\ Timed(s).cur = s.cur
         /\ s.pc \in Sweeping => Timed(s).since = IF s.since = LeaseTTL THEN LeaseTTL ELSE s.since + 1
<1>1. LeaseTTL \in Nat /\ Sweep \in Nat \ {0}
  BY RetentionAssumption DEF LeaseTTL
<1>2. CASE s.pc = "off"
  BY <1>2, Labels DEF Timed, Sweeping
<1>3. CASE s.pc # "off"
  <2> DEFINE wait == IF s.wait = 1 THEN Sweep ELSE s.wait - 1
             tick == s.tick \/ s.wait = 1
             since == IF s.pc = "select" \/ s.since = LeaseTTL THEN s.since ELSE s.since + 1
  <2>1. Timed(s) = [s EXCEPT !.wait = wait, !.tick = tick, !.since = since]
    BY <1>3 DEF Timed
  <2>2. wait \in 1..Sweep /\ tick \in BOOLEAN /\ since \in 0..LeaseTTL
    BY <1>1 DEF Worker
  <2> HIDE DEF wait, tick, since
  <2>3. /\ Timed(s) \in Worker /\ Timed(s).since = since
        /\ Timed(s).pc = s.pc /\ Timed(s).todo = s.todo /\ Timed(s).cur = s.cur
    BY <2>1, <2>2 DEF Worker
  <2>4. s.pc \in Sweeping => since = IF s.since = LeaseTTL THEN LeaseTTL ELSE s.since + 1
    BY Labels DEF Sweeping, since
  <2>5. QED
    BY <2>3, <2>4
<1>4. QED
  BY <1>2, <1>3

-----------------------------------------------------------------------------
(* Typing. *)

\* The worker's part of TypeOK, which every step of a worker disturbs.
WorkersOK ==
  /\ worker \in [Workers -> Worker]
  /\ \A w \in Workers : worker[w].cur = NoMedia <=> worker[w].pc \notin {"blob", "row"}

\* A step of one worker keeps WorkersOK if what it makes of it is right.
LEMMA OneWorker ==
  ASSUME WorkersOK, NEW w \in Workers, NEW s \in Worker,
         s.cur = NoMedia <=> s.pc \notin {"blob", "row"},
         worker' \in [Workers -> Worker], worker'[w] = s,
         \A v \in Workers \ {w} : worker'[v] = worker[v]
  PROVE  WorkersOK'
  BY DEF WorkersOK

LEMMA Typed == TypeOK => WorkersOK
  BY DEF TypeOK, WorkersOK

LEMMA StepTyped ==
  ASSUME TypeOK, NEW w \in Workers, Step(w) \/ Die(w) \/ LeaseFails(w)
  PROVE  WorkersOK'
<1>0. /\ worker \in [Workers -> Worker] /\ worker[w] \in Worker /\ WorkersOK
      /\ worker[w].cur = NoMedia <=> worker[w].pc \notin {"blob", "row"}
      /\ NoMedia \notin Media /\ LeaseTTL \in Nat /\ Sweep \in Nat \ {0}
  BY RetentionAssumption, Typed DEF WorkersOK, LeaseTTL, Media
<1>p. /\ {"off", "select", "keys", "blob", "row"} \cup DOMAIN After \subseteq Pcs
      /\ DOMAIN After \cap {"off", "select", "keys", "blob", "row"} = {}
      /\ \A t \in DOMAIN After : After[t] \in Pcs /\ After[t] \notin {"blob", "row"}
      /\ "scan" \in DOMAIN After /\ "messages" \in DOMAIN After
  BY Labels DEF Pcs, Sweeping
\* Goto is right where the medium at hand is.
<1>g. ASSUME NEW pc \in Pcs, worker' = Goto(w, pc),
             worker[w].pc \in {"blob", "row"} <=> pc \in {"blob", "row"}
      PROVE  WorkersOK'
  <2>1. Goto(w, pc)[w] \in Worker
    BY <1>0, GotoMoves
  <2>2. QED
    BY <1>0, <1>g, <2>1, GotoMoves, OneWorker
<1>1. CASE Start(w)
  BY <1>1, <1>g, <1>p DEF Start
<1>2. CASE Die(w)
  <2>1. Down \in Worker /\ Down.cur = NoMedia /\ Down.pc = "off"
    BY <1>0 DEF Down, Worker
  <2>2. worker' = [worker EXCEPT ![w] = Down]
    BY <1>2 DEF Die
  <2>3. QED
    BY <1>0, <2>1, <2>2, OneWorker
<1>3. CASE AcquireLease(w)
  <2> DEFINE pc == IF Vacant THEN "messages" ELSE "select"
             G  == Goto(w, pc)
  <2>1. pc \in Pcs /\ pc \notin {"blob", "row"} /\ worker[w].cur = NoMedia
    BY <1>0, <1>3, <1>p DEF AcquireLease
  <2>2. worker' = [G EXCEPT ![w].tick = FALSE]
    BY <1>3 DEF AcquireLease
  <2>3. /\ G \in [Workers -> Worker] /\ \A v \in Workers \ {w} : G[v] = worker[v]
        /\ G[w].pc = pc /\ G[w].cur = worker[w].cur
    BY <1>0, <2>1, GotoMoves
  <2> HIDE DEF pc, G
  <2>4. worker' \in [Workers -> Worker] /\ worker'[w].pc = pc /\ worker'[w].cur = worker[w].cur
    BY <2>2, <2>3 DEF Worker
  <2>5. \A v \in Workers \ {w} : worker'[v] = worker[v]
    BY <2>2, <2>3
  <2>6. QED
    BY <1>0, <2>1, <2>4, <2>5, OneWorker
<1>4. CASE LeaseFails(w)
  <2>1. worker' = [worker EXCEPT ![w].tick = FALSE]
    BY <1>4 DEF LeaseFails
  <2>2. /\ worker' \in [Workers -> Worker] /\ worker'[w].pc = worker[w].pc
        /\ worker'[w].cur = worker[w].cur /\ \A v \in Workers \ {w} : worker'[v] = worker[v]
    BY <1>0, <2>1 DEF Worker
  <2>3. QED
    BY <1>0, <2>2, OneWorker
<1>5. CASE ScanMedia(w)
  <2>0. worker[w].pc = "scan"
    BY <1>5 DEF ScanMedia
  <2>1. ASSUME NEW S \in SUBSET Media, worker' = [Goto(w, "keys") EXCEPT ![w].todo = S]
        PROVE  WorkersOK'
    <3> DEFINE G == Goto(w, "keys")
    <3>1. /\ G \in [Workers -> Worker] /\ \A v \in Workers \ {w} : G[v] = worker[v]
          /\ G[w].pc = "keys" /\ G[w].cur = NoMedia
      BY <1>0, <1>p, <2>0, GotoMoves
    <3>2. worker' = [G EXCEPT ![w].todo = S]
      BY <2>1
    <3> HIDE DEF G
    <3>3. /\ worker' \in [Workers -> Worker] /\ worker'[w].pc = "keys" /\ worker'[w].cur = NoMedia
          /\ \A v \in Workers \ {w} : worker'[v] = worker[v]
      BY <3>1, <3>2 DEF Worker
    <3>4. QED
      BY <1>0, <3>3, OneWorker
  <2>2. CASE worker' = Goto(w, After["scan"])
    BY <1>g, <1>p, <2>0, <2>2
  <2>3. QED
    BY <1>5, <2>1, <2>2 DEF ScanMedia
<1>6. CASE ScanDone(w)
  BY <1>6, <1>g, <1>p DEF ScanDone
<1>7. CASE DropKeys(w)
  <2>1. worker[w].cur = NoMedia /\ worker[w].pc = "keys" /\ worker[w].todo \subseteq Media
    BY <1>0, <1>7 DEF DropKeys, Worker
  <2>2. ASSUME NEW m \in worker[w].todo, worker' = TakenUp(w, m)
        PROVE  WorkersOK'
    <3> DEFINE G == Goto(w, "blob")
    <3>1. /\ G \in [Workers -> Worker] /\ \A v \in Workers \ {w} : G[v] = worker[v]
          /\ G[w].pc = "blob" /\ m \in Media
      BY <1>0, <1>p, <2>1, GotoMoves
    <3>2. worker' = [G EXCEPT ![w].todo = @ \ {m}, ![w].cur = m]
      BY <2>2 DEF TakenUp
    <3> HIDE DEF G
    <3>3. /\ worker' \in [Workers -> Worker] /\ worker'[w].pc = "blob" /\ worker'[w].cur = m
          /\ \A v \in Workers \ {w} : worker'[v] = worker[v]
      BY <3>1, <3>2 DEF Worker
    <3>4. QED
      BY <1>0, <3>1, <3>3, OneWorker
  <2>3. ASSUME NEW m \in worker[w].todo, worker' = Skipped(w, m)
        PROVE  WorkersOK'
    <3>1. /\ worker' \in [Workers -> Worker] /\ worker'[w].pc = "keys" /\ worker'[w].cur = NoMedia
          /\ \A v \in Workers \ {w} : worker'[v] = worker[v]
      BY <1>0, <2>1, <2>3 DEF Skipped, Worker
    <3>2. QED
      BY <1>0, <3>1, OneWorker
  <2>4. QED
    BY <1>7, <2>2, <2>3 DEF DropKeys
<1>8. CASE DeleteBlob(w)
  BY <1>8, <1>g, <1>p DEF DeleteBlob
<1>9. CASE DropRow(w)
  <2> DEFINE G == Goto(w, "keys")
  <2>1. worker' = [G EXCEPT ![w].cur = NoMedia]
    BY <1>9 DEF DropRow
  <2>2. /\ G \in [Workers -> Worker] /\ \A v \in Workers \ {w} : G[v] = worker[v]
        /\ G[w].pc = "keys"
    BY <1>0, <1>p, GotoMoves
  <2> HIDE DEF G
  <2>3. /\ worker' \in [Workers -> Worker] /\ worker'[w].pc = "keys" /\ worker'[w].cur = NoMedia
        /\ \A v \in Workers \ {w} : worker'[v] = worker[v]
    BY <2>1, <2>2 DEF Worker
  <2>4. QED
    BY <1>0, <2>3, OneWorker
<1>10. ASSUME NEW t \in DOMAIN After \ {"scan"}, Purge(w, t)
       PROVE  WorkersOK'
  BY <1>10, <1>g, <1>p DEF Purge
<1>11. QED
  BY <1>1, <1>2, <1>3, <1>4, <1>5, <1>6, <1>7, <1>8, <1>9, <1>10 DEF Step

LEMMA TypeInit == Init => TypeOK
<1>1. Down \in Worker /\ Down.cur = NoMedia /\ Down.pc = "off" /\ LeaseTTL \in Nat
  BY RetentionAssumption DEF Down, Worker, LeaseTTL
<1>2. AgeCap \in Nat /\ MaxFaults \in Nat
  BY RetentionAssumption
<1>3. QED
  BY <1>1, <1>2 DEF Init, TypeOK, Row

LEMMA TypeNext == TypeOK /\ [Next]_vars => TypeOK'
<1> SUFFICES ASSUME TypeOK, [Next]_vars
             PROVE  TypeOK'
  OBVIOUS
<1>0. AgeCap \in Nat /\ MaxFaults \in Nat /\ LeaseTTL \in Nat /\ Media \subseteq Rows
  BY RetentionAssumption DEF LeaseTTL, Media
<1>1. CASE UNCHANGED vars
  BY <1>1 DEF vars, TypeOK
<1>2. CASE Clock
  <2>1. row' \in [Rows -> Row]
    BY <1>2, AgedKeeps DEF Clock, TypeOK
  <2>2. /\ worker' \in [Workers -> Worker]
        /\ \A w \in Workers : worker'[w].cur = worker[w].cur /\ worker'[w].pc = worker[w].pc
    BY <1>2, TimedKeeps DEF Clock, TypeOK
  <2>3. lease' \in 0..LeaseTTL
    BY <1>0, <1>2 DEF Clock, TypeOK, Remaining
  <2>4. QED
    BY <1>2, <2>1, <2>2, <2>3 DEF Clock, TypeOK
<1>3. ASSUME NEW r \in Rows, Insert(r)
      PROVE  TypeOK'
  BY <1>3 DEF Insert, TypeOK, Row
<1>4. ASSUME NEW m \in Media, Put(m)
      PROVE  TypeOK'
  BY <1>4 DEF Put, TypeOK
<1>5. ASSUME NEW m \in Media, NEW D \in SUBSET Recipients, Finalize(m, D)
      PROVE  TypeOK'
  BY <1>5 DEF Finalize, TypeOK
<1>6. ASSUME NEW w \in Workers, Step(w) \/ Die(w) \/ LeaseFails(w)
      PROVE  TypeOK'
  <2>1. WorkersOK'
    BY <1>6, StepTyped
  <2>2. worker[w].todo \subseteq Media /\ (worker[w].pc \in {"blob", "row"} => worker[w].cur \in Media)
    BY DEF TypeOK, Worker
  <2>3. row' \in [Rows -> Row] /\ lease' \in 0..LeaseTTL /\ faults' \in 0..MaxFaults
    <3>1. CASE DropRow(w)
      BY <1>0, <2>2, <3>1 DEF DropRow, TypeOK, Row, Fault
    <3>2. ASSUME NEW t \in DOMAIN After \ {"scan"}, Purge(w, t)
          PROVE  row' \in [Rows -> Row] /\ lease' \in 0..LeaseTTL /\ faults' \in 0..MaxFaults
      BY <1>0, <3>2 DEF Purge, TypeOK, Row, Fault
    <3>3. CASE Start(w) \/ AcquireLease(w) \/ ScanMedia(w) \/ ScanDone(w) \/ DropKeys(w)
               \/ DeleteBlob(w) \/ Die(w) \/ LeaseFails(w)
      BY <1>0, <3>3 DEF Start, AcquireLease, ScanMedia, ScanDone, DropKeys, DeleteBlob, Die,
                        LeaseFails, TypeOK, Fault
    <3>4. QED
      BY <1>6, <3>1, <3>2, <3>3 DEF Step
  <2>4. /\ keys' \in [Media -> SUBSET Recipients] /\ late' = late
        /\ dropped' \subseteq Media /\ blobs' \subseteq Media
        /\ erased' \subseteq Media /\ kept' \subseteq Media
    <3>1. CASE DropKeys(w) \/ DropRow(w)
      BY <1>0, <2>2, <3>1 DEF DropKeys, DropRow, TypeOK
    <3>2. CASE DeleteBlob(w)
      BY <1>0, <2>2, <3>2 DEF DeleteBlob, TypeOK
    <3>3. CASE Start(w) \/ AcquireLease(w) \/ ScanMedia(w) \/ ScanDone(w) \/ Die(w) \/ LeaseFails(w)
               \/ \E t \in DOMAIN After \ {"scan"} : Purge(w, t)
      BY <3>3 DEF Start, AcquireLease, ScanMedia, ScanDone, Die, LeaseFails, Purge, TypeOK
    <3>4. QED
      BY <1>6, <3>1, <3>2, <3>3 DEF Step
  <2>5. QED
    BY <2>1, <2>3, <2>4 DEF TypeOK, WorkersOK
<1>7. QED
  BY <1>1, <1>2, <1>3, <1>4, <1>5, <1>6 DEF Next

\* Every reachable state is typed, and a worker has a medium at hand exactly
\* between dropping its keys and its row.
THEOREM TypeCorrect == Spec => []TypeOK
  BY TypeInit, TypeNext, PTL DEF Spec

-----------------------------------------------------------------------------
(* The lease. *)

\* A worker whose sweep is younger than its lease holds it: the rest of the
\* lease and the age of the sweep make up the whole.
LeaseHeld ==
  \A w \in Workers :
    IF worker[w].pc \notin Sweeping THEN worker[w].since = 0
    ELSE worker[w].since # LeaseTTL => lease + worker[w].since = LeaseTTL

LeaseInv == LeaseHeld /\ LeaseExcludes

LEMMA Places ==
  /\ {"off", "select", "keys", "blob", "row"} \cup DOMAIN After \subseteq Pcs
  /\ DOMAIN After \cap {"off", "select", "keys", "blob", "row"} = {}
  /\ \A t \in DOMAIN After : After[t] \in Pcs
  /\ \A t \in DOMAIN After : After[t] \in Sweeping \/ After[t] = "select"
  /\ {"off", "select"} \cap Sweeping = {} /\ Pcs = {"off", "select"} \cup Sweeping
  /\ DOMAIN After \cup {"keys", "blob", "row"} = Sweeping
  /\ "scan" \in DOMAIN After /\ "messages" \in DOMAIN After
  BY Labels DEF Pcs, Sweeping

\* Sweeps that go on as before, or end, do no harm.
LEMMA SweepsGoOn ==
  ASSUME LeaseInv, lease' = lease,
         \A w \in Workers :
           IF worker'[w].pc \in Sweeping
           THEN worker[w].pc \in Sweeping /\ worker'[w].since = worker[w].since
           ELSE worker'[w].since = 0
  PROVE  LeaseInv'
  BY DEF LeaseInv, LeaseHeld, LeaseExcludes

\* What a step within a sweep does to the worker that takes it.
LEMMA WithinSweep ==
  ASSUME TypeOK, NEW w \in Workers,
         \/ ScanMedia(w) \/ ScanDone(w) \/ DropKeys(w) \/ DeleteBlob(w) \/ DropRow(w)
         \/ \E t \in DOMAIN After \ {"scan"} : Purge(w, t)
  PROVE  /\ worker[w].pc \in Sweeping /\ lease' = lease
         /\ \A v \in Workers \ {w} : worker'[v] = worker[v]
         /\ \/ worker'[w].pc \in Sweeping /\ worker'[w].since = worker[w].since
            \/ worker'[w].pc = "select" /\ worker'[w].since = 0
<1> DEFINE Goes == /\ \A v \in Workers \ {w} : worker'[v] = worker[v]
                   /\ \/ worker'[w].pc \in Sweeping /\ worker'[w].since = worker[w].since
                      \/ worker'[w].pc = "select" /\ worker'[w].since = 0
<1>0. worker \in [Workers -> Worker]
  BY DEF TypeOK
<1>g. ASSUME NEW pc \in Pcs, pc # "off", worker' = Goto(w, pc)
      PROVE  Goes
  BY <1>0, <1>g, GotoMoves, Places
<1>k. ASSUME NEW G \in [Workers -> Worker], NEW s \in Worker, G[w].since = worker[w].since,
             \A v \in Workers \ {w} : G[v] = worker[v],
             worker' = [G EXCEPT ![w] = s], s.pc \in Sweeping, s.since = G[w].since
      PROVE  Goes
  BY <1>k
<1>p. "keys" \in Pcs /\ "blob" \in Pcs /\ "keys" \in Sweeping /\ "blob" \in Sweeping
  BY Places
<1>1. CASE ScanMedia(w)
  <2>1. CASE worker' = Goto(w, After["scan"])
    BY <1>1, <1>g, <2>1, Places DEF ScanMedia
  <2>2. ASSUME NEW S \in SUBSET Media, worker' = [Goto(w, "keys") EXCEPT ![w].todo = S]
        PROVE  Goes
    <3> DEFINE G == Goto(w, "keys")
               s == [G[w] EXCEPT !.todo = S]
    <3>1. /\ G \in [Workers -> Worker] /\ \A v \in Workers \ {w} : G[v] = worker[v]
          /\ G[w].pc = "keys" /\ G[w].since = worker[w].since
      BY <1>0, <1>p, GotoMoves
    <3>2. worker' = [G EXCEPT ![w] = s]
      BY <2>2
    <3> HIDE DEF G
    <3>3. s \in Worker /\ s.pc = "keys" /\ s.since = G[w].since
      BY <3>1 DEF Worker
    <3> HIDE DEF s
    <3>4. QED
      BY <1>k, <1>p, <3>1, <3>2, <3>3
  <2>3. QED
    BY <1>1, <2>1, <2>2, Places DEF ScanMedia
<1>2. CASE ScanDone(w)
  BY <1>2, <1>g, Places DEF ScanDone
<1>3. CASE DropKeys(w)
  <2>0. worker[w] \in Worker /\ worker[w].pc = "keys"
    BY <1>0, <1>3 DEF DropKeys
  <2>1. ASSUME NEW m \in worker[w].todo, worker' = Skipped(w, m)
        PROVE  Goes
    <3> DEFINE s == [worker[w] EXCEPT !.todo = worker[w].todo \ {m}]
    <3>1. s \in Worker /\ s.pc = "keys" /\ s.since = worker[w].since
      BY <2>0 DEF Worker
    <3>2. worker' = [worker EXCEPT ![w] = s]
      BY <2>1 DEF Skipped
    <3> HIDE DEF s
    <3>3. QED
      BY <1>0, <1>k, <1>p, <3>1, <3>2
  <2>2. ASSUME NEW m \in worker[w].todo, worker' = TakenUp(w, m)
        PROVE  Goes
    <3> DEFINE G == Goto(w, "blob")
               s == [G[w] EXCEPT !.todo = G[w].todo \ {m}, !.cur = m]
    <3>1. /\ G \in [Workers -> Worker] /\ \A v \in Workers \ {w} : G[v] = worker[v]
          /\ G[w].pc = "blob" /\ G[w].since = worker[w].since /\ m \in Media
      BY <1>0, <1>p, <2>0, GotoMoves DEF Worker
    <3>2. worker' = [G EXCEPT ![w] = s]
      BY <2>2 DEF TakenUp
    <3> HIDE DEF G
    <3>3. s \in Worker /\ s.pc = "blob" /\ s.since = G[w].since
      BY <3>1 DEF Worker
    <3> HIDE DEF s
    <3>4. QED
      BY <1>k, <1>p, <3>1, <3>2, <3>3
  <2>3. QED
    BY <1>3, <1>p, <2>1, <2>2 DEF DropKeys
<1>4. CASE DeleteBlob(w)
  BY <1>4, <1>g, Places DEF DeleteBlob
<1>5. CASE DropRow(w)
  <2> DEFINE G == Goto(w, "keys")
             s == [G[w] EXCEPT !.cur = NoMedia]
  <2>1. /\ G \in [Workers -> Worker] /\ \A v \in Workers \ {w} : G[v] = worker[v]
        /\ G[w].pc = "keys" /\ G[w].since = worker[w].since
    BY <1>0, <1>p, GotoMoves
  <2>2. worker' = [G EXCEPT ![w] = s]
    BY <1>5 DEF DropRow
  <2> HIDE DEF G
  <2>3. s \in Worker /\ s.pc = "keys" /\ s.since = G[w].since
    BY <2>1 DEF Worker
  <2> HIDE DEF s
  <2>4. Goes
    BY <1>k, <1>p, <2>1, <2>2, <2>3
  <2>5. QED
    BY <1>5, <2>4, Places DEF DropRow
<1>6. ASSUME NEW t \in DOMAIN After \ {"scan"}, Purge(w, t)
      PROVE  worker[w].pc \in Sweeping /\ lease' = lease /\ Goes
  BY <1>6, <1>g, Places DEF Purge
<1>7. QED
  BY <1>1, <1>2, <1>3, <1>4, <1>5, <1>6

LEMMA LeaseNext == TypeOK /\ LeaseInv /\ [Next]_vars => LeaseInv'
<1> SUFFICES ASSUME TypeOK, LeaseInv, [Next]_vars
             PROVE  LeaseInv'
  OBVIOUS
<1>0. /\ LeaseTTL \in Nat \ {0} /\ lease \in 0..LeaseTTL /\ worker \in [Workers -> Worker]
      /\ \A w \in Workers : worker[w].since \in 0..LeaseTTL
  BY RetentionAssumption DEF LeaseTTL, TypeOK, Worker
<1>1. CASE UNCHANGED vars
  BY <1>1 DEF vars, LeaseInv, LeaseHeld, LeaseExcludes
<1>2. CASE Clock
  <2>1. \A w \in Workers :
          /\ worker'[w].pc = worker[w].pc
          /\ worker'[w].since = IF worker[w].pc \in Sweeping
                                THEN IF worker[w].since = LeaseTTL THEN LeaseTTL ELSE worker[w].since + 1
                                ELSE worker[w].since
    <3>1. ASSUME NEW w \in Workers, worker[w].pc \notin Sweeping
          PROVE  Timed(worker[w]).since = worker[w].since
      <4>1. worker[w].pc \in {"off", "select"} /\ worker[w] \in Worker
        BY <1>0, <3>1 DEF Worker
      <4>2. QED
        BY <4>1 DEF Timed, Worker
    <3>2. QED
      BY <1>0, <1>2, <3>1, TimedKeeps DEF Clock
  <2>2. lease' = IF lease = 0 THEN 0 ELSE lease - 1
    BY <1>2 DEF Clock, Remaining
  <2>3. LeaseHeld'
    BY <1>0, <2>1, <2>2 DEF LeaseInv, LeaseHeld
  <2>4. LeaseExcludes'
    BY <1>0, <2>1 DEF LeaseInv, LeaseExcludes
  <2>5. QED
    BY <2>3, <2>4 DEF LeaseInv
<1>3. CASE (\E r \in Rows : Insert(r)) \/ (\E m \in Media : Put(m) \/ \E D \in SUBSET Recipients : Finalize(m, D))
  BY <1>3, SweepsGoOn DEF Insert, Put, Finalize, LeaseInv, LeaseHeld
<1>4. ASSUME NEW w \in Workers, Step(w) \/ Die(w) \/ LeaseFails(w)
      PROVE  LeaseInv'
  <2>1. CASE AcquireLease(w)
    <3> DEFINE pc == IF Vacant THEN "messages" ELSE "select"
               G  == Goto(w, pc)
    <3>1. pc \in Pcs /\ worker[w].pc = "select"
      BY <2>1, Places DEF AcquireLease
    <3>2. worker' = [G EXCEPT ![w].tick = FALSE]
      BY <2>1 DEF AcquireLease
    <3>3. /\ G \in [Workers -> Worker] /\ \A v \in Workers \ {w} : G[v] = worker[v]
          /\ G[w].pc = pc /\ G[w].since = 0
      BY <1>0, <3>1, GotoMoves, Places DEF LeaseInv, LeaseHeld
    <3>4. /\ lease' = IF lease = 0 THEN LeaseTTL ELSE lease
          /\ pc = IF lease = 0 THEN "messages" ELSE "select"
      BY <2>1 DEF AcquireLease, Vacant
    <3> HIDE DEF pc, G
    <3>5. /\ worker'[w].pc = pc /\ worker'[w].since = 0
          /\ \A v \in Workers \ {w} : worker'[v] = worker[v]
      BY <3>2, <3>3 DEF Worker
    <3>6. CASE lease = 0
      <4>1. \A v \in Workers \ {w} : worker[v].pc \in Sweeping => worker[v].since = LeaseTTL
        BY <1>0, <3>6 DEF LeaseInv, LeaseHeld
      <4>2. LeaseHeld'
        BY <1>0, <3>4, <3>5, <3>6, <4>1, Places DEF LeaseInv, LeaseHeld
      <4>3. LeaseExcludes'
        BY <3>5, <4>1 DEF LeaseInv, LeaseExcludes
      <4>4. QED
        BY <4>2, <4>3 DEF LeaseInv
    <3>7. CASE lease # 0
      BY <3>4, <3>5, <3>7, Places, SweepsGoOn DEF LeaseInv, LeaseHeld
    <3>8. QED
      BY <3>6, <3>7
  <2>2. CASE LeaseFails(w)
    <3>1. /\ \A v \in Workers : worker'[v].pc = worker[v].pc /\ worker'[v].since = worker[v].since
          /\ lease' = lease \/ (lease = 0 /\ lease' = LeaseTTL)
      BY <1>0, <2>2 DEF LeaseFails, Vacant, Worker
    <3>2. QED
      BY <1>0, <3>1 DEF LeaseInv, LeaseHeld, LeaseExcludes
  <2>3. CASE Start(w)
    <3>1. /\ \A v \in Workers \ {w} : worker'[v] = worker[v] /\ lease' = lease
          /\ worker'[w].pc = "select" /\ worker'[w].since = 0
      BY <1>0, <2>3, GotoMoves, Places DEF Start
    <3>2. QED
      BY <2>3, <3>1, SweepsGoOn, Places DEF LeaseInv, LeaseHeld, Start
  <2>4. CASE Die(w)
    <3>1. /\ \A v \in Workers \ {w} : worker'[v] = worker[v] /\ lease' = lease
          /\ worker'[w].pc = "off" /\ worker'[w].since = 0
      BY <1>0, <2>4 DEF Die, Down
    <3>2. QED
      BY <2>4, <3>1, SweepsGoOn, Places DEF LeaseInv, LeaseHeld, Die
  <2>5. CASE \/ ScanMedia(w) \/ ScanDone(w) \/ DropKeys(w) \/ DeleteBlob(w) \/ DropRow(w)
             \/ \E t \in DOMAIN After \ {"scan"} : Purge(w, t)
    <3>1. \A v \in Workers :
            IF worker'[v].pc \in Sweeping
            THEN worker[v].pc \in Sweeping /\ worker'[v].since = worker[v].since
            ELSE worker'[v].since = 0
      BY <2>5, WithinSweep, Places DEF LeaseInv, LeaseHeld
    <3>2. QED
      BY <2>5, <3>1, WithinSweep, SweepsGoOn
  <2>6. QED
    BY <1>4, <2>1, <2>2, <2>3, <2>4, <2>5 DEF Step
<1>5. QED
  BY <1>1, <1>2, <1>3, <1>4 DEF Next

\* Two replicas sweep at once only if a sweep has outlived its lease.
THEOREM SweepsExclude == Spec => []LeaseExcludes
<1>1. Init => LeaseInv
  BY Places DEF Init, Down, LeaseInv, LeaseHeld, LeaseExcludes
<1>2. LeaseInv => LeaseExcludes
  BY DEF LeaseInv
<1>3. QED
  BY <1>1, <1>2, LeaseNext, TypeCorrect, PTL DEF Spec

-----------------------------------------------------------------------------
(* Erasure. *)

\* The media at hand and the batch after a worker's step: a medium is taken up
\* with its keys dropped, its row is reached through its object, and a batch
\* shrinks except when it is read.
LEMMA Batch ==
  ASSUME TypeOK, NEW w \in Workers, Step(w) \/ Die(w) \/ LeaseFails(w)
  PROVE  /\ \A v \in Workers \ {w} : worker'[v] = worker[v]
         /\ worker'[w].pc = "blob" =>
              worker'[w].cur \in worker[w].todo /\ worker'[w].cur \in dropped' /\ DropKeys(w)
         /\ worker'[w].pc = "row" => worker'[w].cur = worker[w].cur /\ DeleteBlob(w)
         /\ \A m \in worker'[w].todo : m \in worker[w].todo \/ Expired(m)
<1> DEFINE Fine == /\ \A v \in Workers \ {w} : worker'[v] = worker[v]
                   /\ worker'[w].pc \notin {"blob", "row"}
                   /\ \A m \in worker'[w].todo : m \in worker[w].todo \/ Expired(m)
<1>0. worker \in [Workers -> Worker] /\ worker[w] \in Worker
  BY DEF TypeOK
<1>p. /\ {"off", "select", "keys", "blob", "row"} \cup DOMAIN After \subseteq Pcs
      /\ \A t \in DOMAIN After : After[t] \in Pcs /\ After[t] \notin {"blob", "row"}
      /\ "scan" \in DOMAIN After /\ "messages" \in DOMAIN After
  BY Labels DEF Pcs, Sweeping
<1>g. ASSUME NEW pc \in Pcs \ {"blob", "row"}, worker' = Goto(w, pc)
      PROVE  Fine
  BY <1>0, <1>g, GotoMoves
<1>1. CASE Start(w) \/ ScanDone(w) \/ \E t \in DOMAIN After \ {"scan"} : Purge(w, t)
  <2>1. Fine
    BY <1>1, <1>g, <1>p DEF Start, ScanDone, Purge
  <2>2. QED
    BY <2>1
<1>2. CASE AcquireLease(w)
  <2> DEFINE pc == IF Vacant THEN "messages" ELSE "select"
             G  == Goto(w, pc)
  <2>1. pc \in Pcs \ {"blob", "row"}
    BY <1>p, Labels
  <2>2. worker' = [G EXCEPT ![w].tick = FALSE]
    BY <1>2 DEF AcquireLease
  <2>3. /\ G \in [Workers -> Worker] /\ \A v \in Workers \ {w} : G[v] = worker[v]
        /\ G[w].pc = pc /\ G[w].todo = worker[w].todo
    BY <1>0, <2>1, GotoMoves
  <2> HIDE DEF pc, G
  <2>4. Fine
    BY <2>1, <2>2, <2>3 DEF Worker
  <2>5. QED
    BY <2>4
<1>3. CASE LeaseFails(w)
  <2>1. worker' = [worker EXCEPT ![w].tick = FALSE] /\ worker[w].pc = "select"
    BY <1>3 DEF LeaseFails
  <2>2. QED
    BY <1>0, <2>1 DEF Worker
<1>4. CASE Die(w)
  <2>1. worker' = [worker EXCEPT ![w] = Down]
    BY <1>4 DEF Die
  <2>2. QED
    BY <1>0, <2>1 DEF Down
<1>5. CASE ScanMedia(w)
  <2>1. CASE worker' = Goto(w, After["scan"])
    <3>1. Fine
      BY <1>g, <1>p, <2>1
    <3>2. QED
      BY <3>1
  <2>2. ASSUME NEW S \in SUBSET Media, \A m \in S : Expired(m),
               worker' = [Goto(w, "keys") EXCEPT ![w].todo = S]
        PROVE  Fine
    <3> DEFINE G == Goto(w, "keys")
    <3>1. /\ G \in [Workers -> Worker] /\ \A v \in Workers \ {w} : G[v] = worker[v]
          /\ G[w].pc = "keys"
      BY <1>0, <1>p, GotoMoves
    <3>2. worker' = [G EXCEPT ![w].todo = S]
      BY <2>2
    <3> HIDE DEF G
    <3>3. QED
      BY <2>2, <3>1, <3>2 DEF Worker
  <2>3. Fine
    BY <1>5, <1>g, <1>p, <2>2 DEF ScanMedia
  <2>4. QED
    BY <2>3
<1>6. CASE DropKeys(w)
  <2>0. worker[w].pc = "keys"
    BY <1>6 DEF DropKeys
  <2>1. ASSUME NEW m \in worker[w].todo, worker' = Skipped(w, m)
        PROVE  Fine
    BY <1>0, <2>0, <2>1 DEF Skipped, Worker
  <2>2. ASSUME NEW m \in worker[w].todo, worker' = TakenUp(w, m), dropped' = dropped \cup {m}
        PROVE  /\ \A v \in Workers \ {w} : worker'[v] = worker[v]
               /\ worker'[w].pc = "blob" /\ worker'[w].cur = m /\ m \in dropped'
               /\ worker'[w].todo \subseteq worker[w].todo
    <3> DEFINE G == Goto(w, "blob")
    <3>1. /\ G \in [Workers -> Worker] /\ \A v \in Workers \ {w} : G[v] = worker[v]
          /\ G[w].pc = "blob" /\ G[w].todo = worker[w].todo
      BY <1>0, <1>p, GotoMoves
    <3>2. worker' = [G EXCEPT ![w].todo = @ \ {m}, ![w].cur = m]
      BY <2>2 DEF TakenUp
    <3> HIDE DEF G
    <3>3. QED
      BY <2>2, <3>1, <3>2 DEF Worker
  <2>3. QED
    BY <1>6, <2>1, <2>2 DEF DropKeys
<1>7. CASE DeleteBlob(w)
  BY <1>0, <1>7, <1>p, GotoMoves DEF DeleteBlob
<1>8. CASE DropRow(w)
  <2> DEFINE G == Goto(w, "keys")
  <2>1. worker' = [G EXCEPT ![w].cur = NoMedia]
    BY <1>8 DEF DropRow
  <2>2. /\ G \in [Workers -> Worker] /\ \A v \in Workers \ {w} : G[v] = worker[v]
        /\ G[w].pc = "keys" /\ G[w].todo = worker[w].todo
    BY <1>0, <1>p, GotoMoves
  <2> HIDE DEF G
  <2>3. Fine
    BY <2>1, <2>2 DEF Worker
  <2>4. QED
    BY <2>3
<1>9. QED
  BY <1>1, <1>2, <1>3, <1>4, <1>5, <1>6, <1>7, <1>8 DEF Step

\* The clock changes nothing in a worker but its times.
LEMMA ClockKeeps ==
  ASSUME TypeOK, Clock
  PROVE  /\ \A w \in Workers : /\ worker'[w].pc = worker[w].pc
                               /\ worker'[w].cur = worker[w].cur /\ worker'[w].todo = worker[w].todo
         /\ \A r \in Rows : row'[r].state = row[r].state /\ row'[r].age >= row[r].age
  BY TimedKeeps, AgedKeeps DEF Clock, TypeOK

\* The keys of a medium whose keys were dropped came later, and only such a
\* medium is on the way to its object.
ErasureInv ==
  /\ \A m \in Media : m \in dropped => keys[m] \subseteq late[m]
  /\ erased \subseteq dropped
  /\ \A w \in Workers : worker[w].pc = "blob" => worker[w].cur \in dropped

LEMMA ErasureNext == TypeOK /\ ErasureInv /\ [Next]_vars => ErasureInv'
<1> SUFFICES ASSUME TypeOK, ErasureInv, [Next]_vars
             PROVE  ErasureInv'
  OBVIOUS
<1>1. CASE UNCHANGED vars
  BY <1>1 DEF vars, ErasureInv
<1>2. CASE Clock
  BY <1>2, ClockKeeps DEF Clock, ErasureInv
<1>3. CASE (\E r \in Rows : Insert(r)) \/ (\E m \in Media : Put(m))
  BY <1>3 DEF Insert, Put, ErasureInv
<1>4. ASSUME NEW m \in Media, NEW D \in SUBSET Recipients, Finalize(m, D)
      PROVE  ErasureInv'
  BY <1>4 DEF Finalize, ErasureInv, TypeOK
<1>5. ASSUME NEW w \in Workers, Step(w) \/ Die(w) \/ LeaseFails(w)
      PROVE  ErasureInv'
  <2>1. dropped \subseteq dropped' /\ late' = late
    BY <1>5 DEF Step, Start, AcquireLease, ScanMedia, ScanDone, DropKeys, DeleteBlob, DropRow,
                Purge, Die, LeaseFails
  <2>2. \A v \in Workers : worker'[v].pc = "blob" => worker'[v].cur \in dropped'
    BY <1>5, <2>1, Batch DEF ErasureInv
  <2>3. \A m \in Media : m \in dropped' => keys'[m] \subseteq late'[m]
    <3>1. CASE DropKeys(w)
      BY <2>1, <3>1 DEF DropKeys, ErasureInv, TypeOK
    <3>2. CASE DropRow(w)
      BY <2>1, <3>2 DEF DropRow, ErasureInv, TypeOK
    <3>3. CASE Start(w) \/ AcquireLease(w) \/ ScanMedia(w) \/ ScanDone(w) \/ DeleteBlob(w)
               \/ Die(w) \/ LeaseFails(w) \/ \E t \in DOMAIN After \ {"scan"} : Purge(w, t)
      BY <3>3 DEF Start, AcquireLease, ScanMedia, ScanDone, DeleteBlob, Purge, Die, LeaseFails,
                  ErasureInv
    <3>4. QED
      BY <1>5, <3>1, <3>2, <3>3 DEF Step
  <2>4. erased' \subseteq dropped'
    <3>1. CASE DeleteBlob(w)
      BY <2>1, <3>1 DEF DeleteBlob, ErasureInv
    <3>2. CASE Start(w) \/ AcquireLease(w) \/ ScanMedia(w) \/ ScanDone(w) \/ DropKeys(w) \/ DropRow(w)
               \/ Die(w) \/ LeaseFails(w) \/ \E t \in DOMAIN After \ {"scan"} : Purge(w, t)
      BY <2>1, <3>2 DEF Start, AcquireLease, ScanMedia, ScanDone, DropKeys, DropRow, Purge, Die,
                        LeaseFails, ErasureInv
    <3>3. QED
      BY <1>5, <3>1, <3>2 DEF Step
  <2>5. QED
    BY <2>2, <2>3, <2>4 DEF ErasureInv
<1>6. QED
  BY <1>1, <1>2, <1>3, <1>4, <1>5 DEF Next

\* Crypto-erasure comes first, whichever statements fail and however many
\* workers take part.
THEOREM KeysFirst == Spec => []KeysGoFirst
<1>1. Init => ErasureInv
  BY DEF Init, Down, ErasureInv
<1>2. TypeOK /\ ErasureInv => KeysGoFirst
  BY DEF TypeOK, ErasureInv, KeysGoFirst, Downloadable
<1>3. QED
  BY <1>1, <1>2, ErasureNext, TypeCorrect, PTL DEF Spec

-----------------------------------------------------------------------------
(* Objects without a row. *)

\* No medium expires while its upload URL can still be used.
UrlDiesFirst == TTL["media_blobs"] >= UrlTTL

\* The media whose upload URL has run out.
Shut == {m \in Media : row[m].state # "unborn" /\ ~ Usable(m)}

\* What a sweep has in hand can no longer be uploaded, and an object outlives
\* its row, or is about to, only if the store has refused to delete it.
OrphanInv ==
  /\ \A w \in Workers : \A m \in worker[w].todo : m \in Shut
  /\ \A w \in Workers : worker[w].pc \in {"blob", "row"} => worker[w].cur \in Shut
  /\ \A w \in Workers : worker[w].pc = "row" /\ worker[w].cur \in blobs => worker[w].cur \in kept
  /\ \A m \in Media : row[m].state = "gone" => m \in Shut /\ (m \in blobs => m \in kept)

\* A URL that has run out stays so.
LEMMA ShutStays == TypeOK /\ [Next]_vars => Shut \subseteq Shut'
<1> SUFFICES ASSUME TypeOK, [Next]_vars, NEW m \in Media, m \in Shut
             PROVE  m \in Shut'
  BY DEF Shut
<1>0. /\ m \in Rows /\ UrlTTL \in Nat /\ AgeCap \in Nat /\ row \in [Rows -> Row]
  BY RetentionAssumption DEF TypeOK, Media
<1>1. CASE UNCHANGED vars
  BY <1>1 DEF vars, Shut, Usable
<1>2. CASE Clock
  <2>1. row'[m].state = row[m].state /\ row'[m].age >= row[m].age
    BY <1>0, <1>2, ClockKeeps
  <2>2. row'[m].age \in Int /\ row[m].age \in Int
    BY <1>0, <1>2, AgedKeeps DEF Clock, Row
  <2>3. QED
    BY <1>0, <2>1, <2>2 DEF Shut, Usable
<1>3. ASSUME NEW r \in Rows, Insert(r)
      PROVE  m \in Shut'
  BY <1>0, <1>3 DEF Insert, Shut, Usable, Row
<1>4. CASE \E n \in Media : Put(n) \/ \E D \in SUBSET Recipients : Finalize(n, D)
  BY <1>4 DEF Put, Finalize, Shut, Usable
<1>5. ASSUME NEW w \in Workers, Step(w) \/ Die(w) \/ LeaseFails(w)
      PROVE  m \in Shut'
  <2>1. CASE DropRow(w)
    BY <1>0, <2>1 DEF DropRow, Shut, Usable, Row
  <2>2. ASSUME NEW t \in DOMAIN After \ {"scan"}, Purge(w, t)
        PROVE  m \in Shut'
    BY <1>0, <2>2 DEF Purge, Shut, Usable, Row
  <2>3. CASE Start(w) \/ AcquireLease(w) \/ ScanMedia(w) \/ ScanDone(w) \/ DropKeys(w)
             \/ DeleteBlob(w) \/ Die(w) \/ LeaseFails(w)
    BY <2>3 DEF Start, AcquireLease, ScanMedia, ScanDone, DropKeys, DeleteBlob, Die, LeaseFails,
                Shut, Usable
  <2>4. QED
    BY <1>5, <2>1, <2>2, <2>3 DEF Step
<1>6. QED
  BY <1>1, <1>2, <1>3, <1>4, <1>5 DEF Next

LEMMA OrphanNext == UrlDiesFirst => (TypeOK /\ OrphanInv /\ [Next]_vars => OrphanInv')
<1> SUFFICES ASSUME UrlDiesFirst, TypeOK, OrphanInv, [Next]_vars
             PROVE  OrphanInv'
  OBVIOUS
<1>s. Shut \subseteq Shut'
  BY ShutStays
<1>0. /\ \A w \in Workers : /\ worker[w].todo \subseteq Media
                             /\ worker[w].pc \in {"blob", "row"} => worker[w].cur \in Media
      /\ \A m \in Media : m \in Rows /\ TableOf[m] = "media_blobs"
      /\ row \in [Rows -> Row] /\ UrlTTL \in Nat /\ TTL["media_blobs"] \in Int
      /\ worker \in [Workers -> Worker]
  BY RetentionAssumption DEF TypeOK, Worker, Media, Tables
<1>e. ASSUME NEW m \in Media, Expired(m)
      PROVE  m \in Shut
  <2>1. row[m].age \in Int
    BY <1>0 DEF Row
  <2>2. QED
    BY <1>0, <1>e, <2>1 DEF Expired, Shut, Usable, UrlDiesFirst
<1>1. CASE UNCHANGED vars
  BY <1>1 DEF vars, OrphanInv, Shut, Usable
<1>2. CASE Clock
  <2>1. \A m \in Media : m \in Rows /\ row'[m].state = row[m].state
    BY <1>0, <1>2, ClockKeeps
  <2>2. blobs' = blobs /\ kept' = kept
    BY <1>2 DEF Clock
  <2>3. QED
    BY <1>0, <1>2, <2>1, <2>2, ClockKeeps, <1>s DEF OrphanInv
<1>3. CASE (\E r \in Rows : Insert(r)) \/ (\E m \in Media : \E D \in SUBSET Recipients : Finalize(m, D))
  <2>1. /\ worker' = worker /\ blobs' = blobs /\ kept' = kept
        /\ \A r \in Rows : row'[r].state = "gone" => row[r].state = "gone"
    BY <1>0, <1>3 DEF Insert, Finalize, Row
  <2>2. QED
    BY <1>0, <2>1, <1>s DEF OrphanInv
<1>4. ASSUME NEW m \in Media, Put(m)
      PROVE  OrphanInv'
  <2>1. worker' = worker /\ blobs' = blobs \cup {m} /\ kept' = kept /\ row' = row /\ m \notin Shut
    BY <1>4 DEF Put, Shut
  <2>2. \A w \in Workers : worker[w].pc = "row" => worker[w].cur # m
    BY <2>1 DEF OrphanInv
  <2>3. QED
    BY <1>0, <2>1, <2>2, <1>s DEF OrphanInv
<1>5. ASSUME NEW w \in Workers, Step(w) \/ Die(w) \/ LeaseFails(w)
      PROVE  OrphanInv'
  <2>0. \A v \in Workers : v # w => worker'[v] = worker[v]
    BY <1>5, Batch
  <2>1. /\ \A v \in Workers : \A m \in worker'[v].todo : m \in Shut'
    <3>1. \A v \in Workers : \A m \in worker'[v].todo : m \in Media
      BY <1>5, TypeNext DEF TypeOK, Worker
    <3>2. \A m \in worker'[w].todo : m \in Shut
      BY <1>5, <1>e, <3>1, Batch DEF OrphanInv
    <3>3. QED
      BY <2>0, <3>1, <3>2, <1>s DEF OrphanInv
  <2>2. \A v \in Workers : worker'[v].pc \in {"blob", "row"} => worker'[v].cur \in Shut'
    <3>1. worker'[w].pc = "blob" => worker'[w].cur \in worker[w].todo
      BY <1>5, Batch
    <3>2. worker'[w].pc = "row" => worker[w].pc = "blob" /\ worker'[w].cur = worker[w].cur
      BY <1>5, Batch DEF DeleteBlob
    <3>3. worker'[w].pc \in {"blob", "row"} => worker'[w].cur \in Shut
      BY <3>1, <3>2 DEF OrphanInv
    <3>4. ASSUME NEW v \in Workers, v # w, worker'[v].pc \in {"blob", "row"}
          PROVE  worker'[v].cur \in Shut
      BY <2>0, <3>4 DEF OrphanInv
    <3>5. QED
      BY <1>s, <3>3, <3>4
  <2>3. CASE DeleteBlob(w)
    <3>1. /\ row' = row /\ worker[w].pc = "blob"
          /\ \/ blobs' = blobs \ {worker[w].cur} /\ kept' = kept
             \/ blobs' = blobs /\ kept' = kept \cup {worker[w].cur}
      BY <2>3 DEF DeleteBlob
    <3>2. worker'[w].cur = worker[w].cur
      BY <1>0, <2>3, Places, GotoMoves DEF DeleteBlob
    <3>3. QED
      BY <1>0, <2>0, <2>1, <2>2, <3>1, <3>2, <1>s DEF OrphanInv
  <2>4. CASE DropRow(w)
    <3>1. /\ blobs' = blobs /\ kept' = kept /\ worker[w].pc = "row"
          /\ \A m \in Media : row'[m].state = "gone" => row[m].state = "gone" \/ m = worker[w].cur
      BY <1>0, <2>4 DEF DropRow
    <3>2. worker'[w].pc # "row"
      BY <1>5, <2>4, Batch DEF DeleteBlob, DropRow
    <3>3. QED
      BY <1>0, <2>0, <2>1, <2>2, <3>1, <3>2, <1>s DEF OrphanInv
  <2>5. CASE ~ DeleteBlob(w) /\ ~ DropRow(w)
    <3>1. blobs' = blobs /\ kept' = kept
      BY <1>5, <2>5 DEF Step, Start, AcquireLease, ScanMedia, ScanDone, DropKeys, Purge, Die,
                        LeaseFails
    <3>2. \A m \in Media : row'[m] = row[m]
      <4>1. ASSUME NEW t \in DOMAIN After \ {"scan"}, Purge(w, t)
            PROVE  \A m \in Media : row'[m] = row[m]
        BY <1>0, <4>1, Labels DEF Purge
      <4>2. CASE Start(w) \/ AcquireLease(w) \/ ScanMedia(w) \/ ScanDone(w) \/ DropKeys(w)
                 \/ Die(w) \/ LeaseFails(w)
        BY <4>2 DEF Start, AcquireLease, ScanMedia, ScanDone, DropKeys, Die, LeaseFails
      <4>3. QED
        BY <1>5, <2>5, <4>1, <4>2 DEF Step
    <3>3. worker'[w].pc # "row"
      BY <1>5, <2>5, Batch
    <3>4. QED
      BY <1>0, <2>0, <2>1, <2>2, <3>1, <3>2, <3>3, <1>s DEF OrphanInv
  <2>6. QED
    BY <2>3, <2>4, <2>5
<1>6. QED
  BY <1>1, <1>2, <1>3, <1>4, <1>5 DEF Next

\* An object is left without a row only where the store refused to delete it,
\* provided no medium expires while its upload URL can still be used.
THEOREM OrphansWereRefused ==
  ASSUME UrlDiesFirst
  PROVE  Spec => []OrphanWasRefused
<1>1. Init => OrphanInv
  BY DEF Init, Down, OrphanInv, Media
<1>2. TypeOK /\ OrphanInv => OrphanWasRefused
  BY DEF TypeOK, OrphanInv, OrphanWasRefused
<1>3. TypeOK /\ OrphanInv /\ [Next]_vars => OrphanInv'
  BY OrphanNext
<1>4. QED
  BY <1>1, <1>2, <1>3, TypeCorrect, PTL DEF Spec

=============================================================================
