------------------------------ MODULE Retention ------------------------------
(***************************************************************************)
(* The retention workers (internal/retention), the lease by which they     *)
(* take turns, and the media they erase (internal/api/media.go).           *)
(*                                                                         *)
(* A clock advances every age, ticker and lease by one unit; a worker may  *)
(* take any time over a step.  A row is an entry of one of the tables that *)
(* a sweep empties; it comes into being when its age starts to count.      *)
(***************************************************************************)
EXTENDS Integers, FiniteSets

CONSTANTS
  Workers,      \* replicas of cmd/retention
  Rows,         \* rows that may be inserted
  TableOf,      \* the table of a row
  Recipients,   \* devices a media key may be wrapped for
  TTL,          \* the age a table's rows may reach, as the worker is configured
  Promised,     \* the age they may reach according to the documentation
  AgeCap,       \* ages are counted up to here
  Sweep, Slack, \* the ticker's period; a lease lives for Sweep + Slack
  UrlTTL,       \* life of a presigned upload URL
  BatchLimit,   \* media erased by a sweep at most (500)
  MaxFaults,    \* bound: statements that fail and workers that die
  NoMedia

Tables == {"messages", "media_blobs", "one_time_prekeys", "refresh_tokens",
           "login_failures", "admin_plaintext"}
Media == {r \in Rows : TableOf[r] = "media_blobs"}
LeaseTTL == Sweep + Slack

ASSUME RetentionAssumption ==
  /\ TableOf \in [Rows -> Tables] /\ TTL \in [Tables -> Int]
  /\ AgeCap \in Nat /\ Promised \in 0..AgeCap - 1
  /\ Sweep \in Nat \ {0} /\ Slack \in Nat /\ UrlTTL \in Nat
  /\ BatchLimit \in Nat \ {0} /\ MaxFaults \in Nat
  /\ NoMedia \notin Rows

VARIABLES
  row,     \* state and age of a row; the age goes on counting when it is gone
  keys,    \* media_keys: the devices a media's key is wrapped for
  late,    \* history: keys inserted after the media's keys were dropped
  dropped, \* history: media whose keys a worker has dropped
  blobs,   \* objects in the store
  erased,  \* history: media whose object a worker has deleted
  kept,    \* history: media whose object the store refused to delete
  worker,  \* program counter, ticker and batch of a worker; since counts from its lease
  lease,   \* remaining life of retention:leader in Redis, 0 if absent
  faults
vars == <<row, keys, late, dropped, blobs, erased, kept, worker, lease, faults>>

\* The steps of a sweep, in the order of sweepOnce.
After == [messages |-> "scan", scan |-> "one_time_prekeys", one_time_prekeys |-> "refresh_tokens",
          refresh_tokens |-> "login_failures", login_failures |-> "admin_plaintext",
          admin_plaintext |-> "select"]
Sweeping == DOMAIN After \cup {"keys", "blob", "row"}

Row == [state : {"unborn", "live", "gone"}, age : 0..AgeCap]
Worker == [pc : {"off", "select"} \cup Sweeping, wait : 1..Sweep, tick : BOOLEAN,
           since : 0..LeaseTTL, todo : SUBSET Media, cur : Media \cup {NoMedia}]
Down == [pc |-> "off", wait |-> Sweep, tick |-> FALSE, since |-> 0, todo |-> {}, cur |-> NoMedia]

\* created_at < NOW() - ttl
Expired(r) == row[r].state = "live" /\ row[r].age > TTL[TableOf[r]]

Init ==
  /\ row = [r \in Rows |-> [state |-> "unborn", age |-> 0]]
  /\ keys = [r \in Media |-> {}]
  /\ late = [r \in Media |-> {}]
  /\ dropped = {} /\ blobs = {} /\ erased = {} /\ kept = {}
  /\ worker = [w \in Workers |-> Down]
  /\ lease = 0 /\ faults = 0
-----------------------------------------------------------------------------
(* Time.  time.Ticker holds one tick for a slow receiver and drops the others. *)

Aged(r) == [r EXCEPT !.age = IF r.state = "unborn" \/ @ = AgeCap THEN @ ELSE @ + 1]

Timed(s) ==
  IF s.pc = "off" THEN s
  ELSE [s EXCEPT !.wait = IF @ = 1 THEN Sweep ELSE @ - 1,
                 !.tick = @ \/ s.wait = 1,
                 !.since = IF s.pc = "select" \/ @ = LeaseTTL THEN @ ELSE @ + 1]

\* What is left of a lease of l.
RunsOutNever(l) == l   \* mutant: SET without EX
Remaining(l) == IF l = 0 THEN 0 ELSE l - 1

Clock ==
  /\ row' = [r \in Rows |-> Aged(row[r])]
  /\ worker' = [w \in Workers |-> Timed(worker[w])]
  /\ lease' = Remaining(lease)
  /\ UNCHANGED <<keys, late, dropped, blobs, erased, kept, faults>>
-----------------------------------------------------------------------------
(* Rows and media. *)

Insert(r) ==
  /\ row[r].state = "unborn"
  /\ row' = [row EXCEPT ![r].state = "live"]
  /\ UNCHANGED <<keys, late, dropped, blobs, erased, kept, worker, lease, faults>>

UsableLater(m) == row[m].age <= UrlTTL + 2   \* mutant: the URL outlives the row
Usable(m) == row[m].age <= UrlTTL

\* The client uses the URL that mediaUploadURL presigned when it inserted the row.
Put(m) ==
  /\ row[m].state # "unborn" /\ Usable(m)
  /\ blobs' = blobs \cup {m}
  /\ UNCHANGED <<row, keys, late, dropped, erased, kept, worker, lease, faults>>

\* The foreign key refuses keys of a media whose row is gone.
Finalize(m, D) ==
  /\ row[m].state = "live" /\ ~ D \subseteq keys[m]
  /\ keys' = [keys EXCEPT ![m] = @ \cup D]
  /\ late' = IF m \in dropped THEN [late EXCEPT ![m] = @ \cup D] ELSE late
  /\ UNCHANGED <<row, dropped, blobs, erased, kept, worker, lease, faults>>
\* mediaDownloadURL answers device d with its key and a URL of the object.
Downloadable(m, d) == row[m].state = "live" /\ d \in keys[m]
-----------------------------------------------------------------------------
(* The worker. *)

Fault == faults < MaxFaults /\ faults' = faults + 1

\* Worker w goes on at pc; its lease no longer matters once it is back in the select.
Goto(w, pc) == [worker EXCEPT ![w].pc = pc, ![w].since = IF pc = "select" THEN 0 ELSE @]

Start(w) ==
  /\ worker[w].pc = "off"
  /\ worker' = Goto(w, "select")
  /\ UNCHANGED <<row, keys, late, dropped, blobs, erased, kept, lease, faults>>

\* SIGTERM, which cancels the statements of a sweep, or a crash.
Die(w) ==
  /\ worker[w].pc # "off" /\ Fault
  /\ worker' = [worker EXCEPT ![w] = Down]
  /\ UNCHANGED <<row, keys, late, dropped, blobs, erased, kept, lease>>

VacantAlways == TRUE   \* mutant: SET without NX
Vacant == lease = 0

\* SET retention:leader NX EX ttl; nothing renews or deletes it.
AcquireLease(w) ==
  /\ worker[w].pc = "select" /\ worker[w].tick
  /\ worker' = [Goto(w, IF Vacant THEN "messages" ELSE "select") EXCEPT ![w].tick = FALSE]
  /\ lease' = IF Vacant THEN LeaseTTL ELSE lease
  /\ UNCHANGED <<row, keys, late, dropped, blobs, erased, kept, faults>>

\* Redis cannot be asked, or its answer is lost.
LeaseFails(w) ==
  /\ worker[w].pc = "select" /\ worker[w].tick /\ Fault
  /\ worker' = [worker EXCEPT ![w].tick = FALSE]
  /\ lease' \in {lease, IF Vacant THEN LeaseTTL ELSE lease}
  /\ UNCHANGED <<row, keys, late, dropped, blobs, erased, kept>>

\* purgeMessages, purgePrekeys, purgeAuth, purgeAdminSync: a statement each.
Purge(w, t) ==
  /\ worker[w].pc = t
  /\ worker' = Goto(w, After[t])
  /\ \/ /\ row' = [r \in Rows |-> IF TableOf[r] = t /\ Expired(r)
                                  THEN [row[r] EXCEPT !.state = "gone"] ELSE row[r]]
        /\ UNCHANGED faults
     \/ Fault /\ UNCHANGED row
  /\ UNCHANGED <<keys, late, dropped, blobs, erased, kept, lease>>

\* SELECT ... LIMIT: any BatchLimit of the expired media, or all of them.
ScanMedia(w) ==
  /\ worker[w].pc = "scan"
  /\ LET old == {m \in Media : Expired(m)} IN
     \/ \E S \in SUBSET old :
          /\ Cardinality(S) = BatchLimit \/ (S = old /\ Cardinality(S) < BatchLimit)
          /\ worker' = [Goto(w, "keys") EXCEPT ![w].todo = S]
          /\ UNCHANGED faults
     \/ Fault /\ worker' = Goto(w, After["scan"])
  /\ UNCHANGED <<row, keys, late, dropped, blobs, erased, kept, lease>>

ScanDone(w) ==
  /\ worker[w].pc = "keys" /\ worker[w].todo = {}
  /\ worker' = Goto(w, After["scan"])
  /\ UNCHANGED <<row, keys, late, dropped, blobs, erased, kept, lease, faults>>

\* The loop's body goes on with m, or leaves it.
TakenUp(w, m) == [Goto(w, "blob") EXCEPT ![w].todo = @ \ {m}, ![w].cur = m]
NotSkipped(w, m) == TakenUp(w, m)   \* mutant: without the continue
HeldBack(w, m) == [worker EXCEPT ![w].todo = @ \ {m}, ![w].cur = m]   \* mutant: the loop variable lives on
Skipped(w, m) == [worker EXCEPT ![w].todo = @ \ {m}]

\* The crypto-erasure.  If it fails the media is left to a later sweep.
DropKeys(w) ==
  /\ worker[w].pc = "keys"
  /\ \E m \in worker[w].todo :
       \/ /\ keys' = [keys EXCEPT ![m] = {}]
          /\ dropped' = dropped \cup {m}
          /\ worker' = TakenUp(w, m)
          /\ UNCHANGED faults
       \/ /\ Fault
          /\ worker' = Skipped(w, m)
          /\ UNCHANGED <<keys, dropped>>
  /\ UNCHANGED <<row, late, blobs, erased, kept, lease>>

\* A refusal is logged and the row goes all the same.
DeleteBlob(w) ==
  /\ worker[w].pc = "blob"
  /\ LET m == worker[w].cur IN
     \/ /\ blobs' = blobs \ {m}
        /\ erased' = erased \cup {m}
        /\ UNCHANGED <<kept, faults>>
     \/ /\ Fault
        /\ kept' = kept \cup {m}
        /\ UNCHANGED <<blobs, erased>>
  /\ worker' = Goto(w, "row")
  /\ UNCHANGED <<row, keys, late, dropped, lease>>

\* The keys that are left go with the row.
DropRow(w) ==
  /\ worker[w].pc = "row"
  /\ LET m == worker[w].cur IN
     \/ /\ row' = [row EXCEPT ![m].state = "gone"]
        /\ keys' = [keys EXCEPT ![m] = {}]
        /\ UNCHANGED faults
     \/ Fault /\ UNCHANGED <<row, keys>>
  /\ worker' = [Goto(w, "keys") EXCEPT ![w].cur = NoMedia]
  /\ UNCHANGED <<late, dropped, blobs, erased, kept, lease>>

Step(w) ==
  \/ Start(w) \/ AcquireLease(w) \/ ScanMedia(w) \/ ScanDone(w)
  \/ DropKeys(w) \/ DeleteBlob(w) \/ DropRow(w)
  \/ \E t \in DOMAIN After \ {"scan"} : Purge(w, t)

Next ==
  \/ Clock
  \/ \E r \in Rows : Insert(r)
  \/ \E m \in Media : Put(m) \/ \E D \in SUBSET Recipients : Finalize(m, D)
  \/ \E w \in Workers : Step(w) \/ Die(w) \/ LeaseFails(w)

Spec == Init /\ [][Next]_vars

\* Time passes; a replica that is down is started again, and one that runs goes on.
Fairness == WF_vars(Clock) /\ \A w \in Workers : WF_vars(Step(w))
FairSpec == Spec /\ Fairness
-----------------------------------------------------------------------------
(* Properties. *)

\* Types; a worker has a media at hand exactly between its keys and its row.
TypeOK ==
  /\ row \in [Rows -> Row]
  /\ keys \in [Media -> SUBSET Recipients] /\ late \in [Media -> SUBSET Recipients]
  /\ dropped \subseteq Media /\ blobs \subseteq Media /\ erased \subseteq Media /\ kept \subseteq Media
  /\ worker \in [Workers -> Worker] /\ lease \in 0..LeaseTTL /\ faults \in 0..MaxFaults
  /\ \A w \in Workers : worker[w].cur = NoMedia <=> worker[w].pc \notin {"blob", "row"}

\* Two replicas sweep at the same time only if the sweep of one of them has
\* outlived its lease (Run and acquireLease, which never renews it).
LeaseExcludes ==
  \A v, w \in Workers :
    (v # w /\ worker[v].pc \in Sweeping /\ worker[w].pc \in Sweeping)
      => LeaseTTL \in {worker[v].since, worker[w].since}

\* Crypto-erasure comes first (purgeMedia): once an object has been deleted, a
\* device that can still download its key got it from a mediaFinalize that came
\* after the keys were dropped, whichever statements failed and however many
\* workers took part.
KeysGoFirst ==
  \A m \in erased, d \in Recipients : Downloadable(m, d) => d \in late[m]

\* An object without its row stays for ever, since only rows lead to objects:
\* it happens only to an object that the store refused to delete.
OrphanWasRefused == \A m \in blobs : row[m].state = "gone" => m \in kept

\* What is older than the documented age goes, with its keys, in spite of
\* failures and of replicas that die while they hold the lease.
OldIsErased ==
  \A r \in Rows : (row[r].state = "live" /\ row[r].age > Promised)
                    ~> (row[r].state = "gone" /\ (r \in Media => keys[r] = {}))
=============================================================================
