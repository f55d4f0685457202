# KalkiChat: models, checks and proofs

TLA+ models of the KalkiChat backend and its clients, the TLC runs that check
them on small instances, and theorems about them that TLAPS proves for every
instance. Paths are relative to the repository. `PROJECT.json` maps each
definition to the lines it translates.

| file | content |
| --- | --- |
| `Hub.tla` | WebSocket hub, connections, backfill, shutdown |
| `Mailbox.tla` | abstract specification: what the hub promises |
| `Sessions.tla` | refresh tokens, logins, revocations, suspension |
| `Conversation.tla` | the two apps: sending, outbox, ratchets, prekeys, relay |
| `Overlap.tla` | the same with a record of where handlers have overlapped |
| `Courier.tla` | abstract specification: what the apps and the server promise about a message |
| `Messages.tla` | sending a message on every route, statement by statement; receipts; device registration |
| `AdminSync.tla` | the queue of replies, the phones that empty it, what the dashboard lists |
| `Retention.tla` | the retention workers, their lease, the media they erase |
| `Duration.tla` | `time.Duration` in an int64, and the TTL computed with it |
| `MC*.tla`, `MC*_*.cfg` | instances for TLC |
| `HubProofs.tla`, `SessionsProofs.tla`, `ConversationProofs.tla`, `RatchetProofs.tla`, `RetentionProofs.tla`, `MessagesProofs.tla`, `AdminSyncProofs.tla`, `CourierProofs.tla` | theorems and their proofs |

## 1. The system

KalkiChat connects *users* (Flutter app `mobile/`) with an *admin team*
(Flutter app `admin-mobile/`, dashboard `admin-web/`) through a Go backend.
Messages are end-to-end encrypted between one user device and one admin
device.

| part | where | state it keeps | operations |
| --- | --- | --- | --- |
| hub | `backend/internal/ws` | map device -> connection, a channel of 64 events per connection, Redis subscriptions | register, unregister, route, backfill, broadcast, close |
| message service | `internal/messages`, `api/ws.go`, `api/messages.go` | table `messages` (delivered_at, read_at) | send, ack, read |
| devices | `api/admin_device_register.go`, `api/admin_devices_active.go`, `api/middleware.go` | `devices.last_seen_at` | register a phone, list the active ones, touch |
| sessions | `internal/auth/refresh.go`, `api/auth.go` | tables `devices`, `refresh_tokens` | login, rotate, replay, logout |
| user management | `api/admin.go`, `api/admin_users.go` | `users.status`, `devices.revoked_at` | suspend, unsuspend, revoke sessions, revoke a device |
| admin sync | `api/admin_sync.go` | `admin_outbound_queue`, `admin_plaintext` | mirror a plaintext, enqueue, poll, acknowledge |
| prekeys | `api/prekeys.go` | `signed_prekeys`, `one_time_prekeys` | upload, fetch (consumes one) |
| retention | `internal/retention` | a Redis lease; deletes rows and objects | sweep every table |
| media | `internal/media`, `api/media.go` | `media_blobs`, `media_keys`, S3 objects | upload, commit, download |
| ratchet | `packages/kalki_crypto` | root and chain keys per peer | X3DH, send key, receive key, DH step |
| user app | `mobile/lib` | encrypted SQLite: outbox, messages, ratchets | send, flush, receive, acknowledge |
| admin app | `admin-mobile/lib` | encrypted SQLite, prekeys, maps in memory | receive, relay, drain the queue |

How they meet: an app holds one WebSocket per device. `message.send` becomes a
row of `messages` and a Redis publish on `device:<id>`; every hub that has
subscribed to that channel routes the event to the connection registered for
the device. What is not acknowledged is streamed again by `backfillMissed` when
the device registers. The phone of an admin decrypts, mirrors the plaintext to
`admin-sync/inbound` for the dashboard, acknowledges, and polls the queue of
replies that the dashboard fills.

What is hard in it:

* goroutines that share `h.clients` and close channels others send on;
* delivery that combines a lossy live path with a bounded backfill;
* SERIALIZABLE rotations next to statements that commit one by one;
* several statements per handler with errors that are discarded;
* apps whose handlers interleave at every `await` and may be killed anywhere;
* a worker whose lease can expire while it works.

`PROJECT.json` lists the hazards at their lines with the properties that cover
them.

## 2. Modules

### Hub

One element of `Conns` is one accepted WebSocket: `Serve`'s read pump
(`reading`), its write pump and socket (`sock`), its channel `c.send` (`buf`,
`closed`), the subscription and the backfill goroutine `Run` starts for it
(`sub`, `subQ`, `bf`). `clients`, `registerQ` and `unregisterQ` are the hub's;
`rows`, `delivered` and `published` the database's and Redis's; `got` is what
the device received. An action is one critical section or one channel
operation:

| action | code |
| --- | --- |
| `Store`, `Publish`, `PublishLost` | the two effects of `Service.Send`, which a crash may separate |
| `Connect`, `ReaderExit`, `WriterSend`, `WriterClose`, `WriterExit`, `Disconnect` | `Serve` |
| `ReaderReply`, `HandleAck` | the handlers of `api/ws.go` |
| `Fetch` | `backfillFromServer` of the admin app |
| `Week` | the clock, as the backfill's `created_at > NOW() - INTERVAL '7 days'` sees it |
| `HubRegister`, `HubUnregister`, `Stop` | the three cases of `Run`'s select |
| `Subscribed`, `Route` | `subscribe` and `routeByChannel` |
| `BackfillQuery`, `BackfillLookup`, `BackfillSend`, `BackfillPanic` | `backfillMissed`, split where it unlocks |
| `Broadcast`, `CloseHub`, `Exit` | the shutdown in `cmd/server/main.go` |

A subscription is a variable of its own because nothing stops it when its
connection goes. A write pump whose socket broke counts as ended; what is in
its channel is lost. `stale` holds the rows that have left the 7 days the backfill looks back;
rows live for 30. The query may skip rows (`rows.Scan` fails) and then the
connection counts as `lossy`. The server asks of an acknowledgement only whose
message it is (`Marked`), so the app's side is free: a device acknowledges, on any
of its connections and as late as it likes, what it has received on any of them or
fetched over HTTP (`Known`); only the admin app does so, the user app never sends
`message.ack`. A fetch may show a phone rows of another phone, since the server
lists the thread of the one seen last. Left out: the `user:` and `team:` channels (the same code
path without stored rows), `last_seen_at`, pings, typing, several server
processes (each has a hub like this one; they share the rows).

`Mailbox` is what the hub promises: a message is pushed only to the device it
is addressed to, after it was stored, and is marked delivered only after that
device has it, received or fetched, though others may fetch and acknowledge it too.
`ImplementsMailbox` maps `posted` to the rows, `seen` to what devices received on
any connection, `fetched` to what they fetched, `acked` to `delivered_at`.

### Sessions

A request is a handler goroutine with its program counter `pc`. `RefreshRotate`
is one SERIALIZABLE transaction: `Refresh` takes its snapshot, `LockAs` or
`Refuse` is the outcome of `SELECT ... FOR UPDATE`, and `Rotate`, `Replay` or
`ReplayConflict` its end. The rules of PostgreSQL that the model keeps: a row
locked by another waits; a row changed since the snapshot fails with 40001; a
row inserted since the snapshot is not seen; a deadlock ends with a victim.
Every other statement is its own READ COMMITTED transaction that picks its rows
when it starts and writes them when it may. `Login` ... `Issue` is `authLogin`,
`RevokeDevices` ... `RevokeDone` stands for `authLogout`, `adminRevokeDevice`
and `adminRevokeSessions` (they differ in the devices they name and in whether
they skip revoked tokens), `Suspend` and `SuspendDevices` for
`adminSuspendUser`. `Fail` ends a handler anywhere. Either statement of a
revocation may fail, and the handler goes on and answers ok, as it does in the
code, which drops both errors. `shut`, `unwritten`, `burned` and `late` record the
past for the properties: `shut` holds the devices of every revocation that was
answered (`named`), whether or not their rows were written; `unwritten` those whose
UPDATE failed.

Left out: decoding, hashes and passwords, the access token's 15 minutes of life
and its clock; `RefreshRevoke`, which nothing calls.

### Conversation

One user's app, the admin's phone, and the tables of the server between them.
Dart interrupts a handler only at an `await`, so an action is the code between
two accesses to state that another handler can touch: `SendText` ends where the
ratchet is loaded, `Seal` where it is saved. Elements of `Senders` and
`Handlers` are handlers in flight; one element each is an app whose handlers
never overlap, two are the apps as they are, since neither has a lock.
`ensureProvisioned` is three actions, `Launch`, `Count` and `Stock`, one for each
access to the database, and `start()` may run again before an earlier run is done: two
launches that overlap may both top up, and the phone then holds more than `targetPool`.

| state | code |
| --- | --- |
| `uRatchet`, `pRatchet` | `ratchet_state` of the two apps: a session and the number of the next key |
| `env` | the envelope of a message: session, number, prekeys named by its bootstrap |
| `outbox`, `link`, `uplink` | the outbox table, the socket, events on their way |
| `rows`, `acked`, `mirrored` | `messages`, their `delivered_at`, `admin_plaintext` |
| `retried` | what the server published again under an id without a row |
| `pool`, `spkUp`; `opks`, `spk` | prekeys the server hands out; their private halves on the phone |
| `inbox` | `messages` on the phone |
| `prep` | runs of `ensureProvisioned` and the shortfall they have counted |

Keys are symbolic: a session is named by the message that bootstraps it, so two
bundles never give the same secret, and an envelope opens exactly under its own
session and number. `link` is "broken" while the app believes itself connected.
A row can reach the phone at any time and any number of times, which covers
live events, the hub's backfill and `backfillFromServer`; in which of these
orders the hub really delivers is the subject of `Hub`.

Replies: `handleSend` looks the conversation up by `user_id` and finds none for
an admin, so a reply is answered with `NO_CONVERSATION` and never reaches the
user. That leaves `sendReply`'s effect on the phone's ratchet row
(`Reply`, `SaveReply`), and no DH step after the bootstrap on either side. Left
out: prekey ids, which are milliseconds of the clock and collide when two launches
top up within the same 20 of them; a change of the admin's device, the user app's incoming messages, signature
checks, several users (they share the pool only). The poll of the reply queue is
in `AdminSync`.

`Courier` is what all of this promises about one message: it is placed once in a
session, with a number; it stays due until it is posted; it is opened after it was
posted and after the messages with lower numbers in its session; it is kept before
the dashboard sees it or the server is told that it arrived. `ImplementsCourier`
maps `place` to the session and number in `env`, `due` to `outbox`, `posted` to
`rows`, `kept` to `inbox`, `shown` to `mirrored`. The courier knows neither kills
nor handlers, and so says what a kill between any two steps, or an overlap, must not
undo. It does not say that two messages have different places: overlapping runs of
`sendText` give them the same.

### Overlap

`Overlap` is `Conversation` with two history variables: the sessions in which a run of
`sendText` saved a ratchet that was not the successor of the saved one (`sendRaced`),
and those in which two handlers used one prekey, or one saved its ratchet over
another's (`recvRaced`). Without a lock these cannot be excluded; what can be said of
the code is that nothing else goes wrong. `KeySharedOnlyByRace`,
`ReopenedOnlyByRace` and `AckedBehindUnlessRace` say it: kills, losses, resends,
repetitions and second sessions never reuse a key, open a message twice or strand a
session. The last two are about sessions that began with a one-time prekey. The
documented, unconditional statement of the first is `KeyUsedOnce`, which the run
`keys` shows broken; section 3 describes what races do to the other two.

### Messages

Several users, each with a conversation and devices of his own (`UserOf`), and the
phones of one admin. A request is one run of `Service.Send` behind one of its three
routes: the socket (`handleSend`), `POST /messages` and `adminSendMessage`. Its program
counter `pc` goes through the statements: the conversation is looked up, the
sender's device read, the recipient's read, the row inserted, the event
published, and each may fail; between any two of them devices are revoked, other attempts of the
same message run, receipts arrive and `purgeMessages` empties the table.

| action | code |
| --- | --- |
| `Lookup`, `CheckSender`, `CheckRecipient`, `Insert`, `Publish` | `handleSend`, `messageSend`, `adminSendMessage`, `Service.Send` |
| `Receipt` | `handleAck`, `handleRead`, `MarkDelivered`, `MarkRead` |
| `InsertDevice`, `IssueToken` | `adminDeviceRegister`, which may fail between the two |
| `Touch` | `authMiddleware`'s goroutine |
| `Revoke` | `adminRevokeDevice` |
| `Resolve`, `Seal` | `_resolveActiveAdminDevice`, `sendText` and `sendReply` as the source of recipients |
| `Purge` | `purgeMessages` |
| `Mine`, `Thread` (read only) | `conversationGet`, `adminGetConversation` |

`box` is the envelope (who sealed it for whom), `row` the table `messages`,
`fresh` the order of `last_seen_at`, `peer` what an app has cached. A message is
known by its `client_id`, so a retry is a second request for the same message. A row
belongs to the conversation of its user (`conv`). A phone has no conversation, so
its sends are answered with `NO_CONVERSATION` on the socket and with a 500 `DB` on
`POST /messages`, and `conversationGet` lists nothing to it. What a user finds is
what his device sent or is sent (`Mine`); what the admins find is what the phone
that was seen last sent or is sent in that user's conversation (`Thread`), both as
far as the query's LIMIT reaches.
`Goto` forgets what a request carried once it has been looked at, which only
merges states that behave alike. Left out: decoding and the audit log.

### AdminSync

`row` and `older` are `admin_outbound_queue` and the order of its `created_at` (the
replies enqueued before one; `Oldest` is the first page of a selection), `phone` the loop
`_drainOutbound` of each companion phone (what is left of the batch it has
read, the item at hand, the busy flag), `session` the users it has a ratchet for, `acks` the
reports on their way. `Enqueue` is `adminSyncOutboundEnqueue`, `Drain` the poll,
`NextItem` and `Seal` the body of the loop and `sendReply`, `Report` and
`HandleAck` the two halves of `POST .../sent`, `GiveUp` its timeout, `Kill` and
`Launch` the app's life, `Day` the passing of 24 hours, `Reap` the second
statement of `purgeAdminSync`, and `Listed` the queue part of
`adminGetConversation`. `copies` counts what was sealed; `stored` is what
`handleSend` made of it. A phone that has a session but no `device_id` (it was signed
out) seals nothing, and reports the reply as failed. Left out: a report with a `server_message_id`, which has
no caller; the dashboard's own polling; ratchets (they are in `Conversation`).

### Retention and Duration

`Clock` advances the age of every row, the ticker of every worker and what is
left of the lease; every other action takes any time. `AcquireLease` is the tick
and SETNX, `Purge(w, t)` one DELETE, and `ScanMedia`, `DropKeys`, `DeleteBlob`,
`DropRow`, `ScanDone` the loop of `purgeMedia`. Each statement may fail, SETNX may
take effect and lose its answer, and `Die` ends a worker anywhere. `Put` and
`Finalize` are the uploader, whose presigned URL outlives the request that made
it, and `Downloadable` the condition of `mediaDownloadURL`. `late`, `dropped`,
`erased` and `kept` record the past. `Duration` computes the worker's TTL byte by
byte as `config.Load` and `cmd/retention` do, in 64 bits; `MCRetention` turns it
into the days a row may reach. Left out: the size and format checks of uploads.

## 3. Runs

The runs of `MCHub`, `MCSessions`, `MCAdminSync` and `MCMessages` say
`CHECK_DEADLOCK FALSE`: a hub with no client, a server with no request and a
queue with no reply may rest, and the bounds end every behaviour. `Retention` and
`Overlap`, and `Conversation` under it, never rest.

| run | question | bounds |
| --- | --- | --- |
| `registry` | do the map and the closed channels stay in step; is an event only pushed to its device, and does `delivered_at` mean that it has it, whoever acknowledges? | 3 connections of a device, one of which answers, and a shutdown; or 2 devices, one an admin phone, with a connection and a message each; channel of 1, queues of 2, backfill of 1 |
| `live` | does a reconnection leave one socket and deliver what was missed within a week? | 2 connections, 1 message, fair |
| `panic` | a statement of a comment the code breaks | 2 connections |
| `rotate` | can a family fork, a burned family live, a shut device get access unless its UPDATE failed? | 3 requests, 3 tokens, 1 device; any request or statement may fail |
| `suspend` | a statement of the docs the code breaks | 2 requests |
| `stream` | are prekeys, outbox, order of opening and acknowledgements consistent, do the apps implement the courier, and is it only races that reuse keys, open twice or strand a session? | 3 messages, 2 senders, 2 handlers, 2 one-time prekeys, pool of 1, 2 launches |
| `keys` | a statement of the docs the code breaks | 2 senders, 3 messages |
| `messages` | do answers, receipts, retries and listings tell the truth about the table? | 2 users, 2 companion phones, 1 message, 2 attempts, 1 failure |
| `sync` | does every queued reply get one true verdict and stay on the screen? | 2 phones, 2 replies, pages of 1, 1 failure or death, fair |
| `unposted` | a statement of a comment the code breaks | 1 phone, 2 replies, no failure, fair |
| `retention` | do workers exclude each other, erase in order, leave no orphan, and go on? | 2 workers, a medium and a message, 2 failures or deaths, fair |
| `ttl` | the documented age, with the TTL the program computes | 1 worker, 1 message, ages of 0 to 31 days |

Why these are enough. Three connections are the least with which a departure, a
displacement and a fresh registration overlap; one entry of `c.send` makes
every second event meet a full channel. `ReconnectsOrMessages` keeps the two halves of
`registry` apart: with messages stored, each device has one connection; the admin
phone's (`c1`) comes and goes, the other one's (`c4`) stays, no handler answers on
them, and a process ends only by the panic of the backfill. All of it together is
in the theorems. Three tokens make a family with a used,
a live and an inserted member; three requests let a rotation, a replay and a
revocation overlap. Three messages are a bootstrap, a message that can be skipped
and one that suffers; two launches let uploads overtake each other. `stream` is
bounded by `Bounded`, which `MCOverlap` puts together from named parts. Messages are
typed in one order (`Named`). At most two events are on their way to the server, one
message is sent again, a relay that fails is not followed further unless it failed
for want of a row, and a second launch or a repetition meets two messages, not
three (`FewRetries`). Runs of `sendText` overlap before the phone has opened anything,
and handlers once both of two messages are stored: the two sides share only the
envelopes, and what a race on one side leaves behind is then carried to the end.
Two runs are what it takes for one to save over another, and three messages let
that happen within a session, after a kill and across two sessions. Two attempts
of a message overlap at each pair of statements, or follow each other across a
purge; two phones make "the device users send to" change, and a second user, who only
receives (`Listens`), is another conversation. Two phones and a page
below the number of replies make copies, late reports and a starving second
reply. Two workers and ages that pass the TTL while a lease of two periods runs
out let one worker sweep beside another; with one medium the `LIMIT` is never
exceeded (two media with one failure pass too, in three minutes). In `ttl` the
clock's unit is a day. Requests, senders, handlers and phones are symmetric in
`rotate`, `stream` and `messages`, which check safety only.

The findings (details and quoted lines in `PROJECT.json`):

* `panic`: `backfillMissed` sends on a channel that `Run` may have closed since
  the lookup; nothing recovers the panic.
* `suspend`: a login in flight gives a suspended user a device that can refresh
  for ever, since neither `authRefresh` nor `RefreshRotate` reads `users.status`.
* `keys`: two sends in quick succession load one ratchet and seal with one key.
* `ttl`: `cmd/retention` multiplies a duration by a duration; with 30 days the
  int64 wraps to some 58945 days, so that messages and media are never erased.
* `unposted`: a reply of a companion phone is answered with `NO_CONVERSATION`, and
  reported as sent.

`OldIsErased` holds in `retention` with the worker as its `Config` describes it,
and fails in `ttl` with the worker as it is started. `KeySharedOnlyByRace` is what
the code does guarantee where `keys` breaks `KeyUsedOnce`.

Not run, but in the models' behaviours, and at odds with what is said of the code:

* A subscription outlives its connection (`hub.go:86`), so a device that
  reconnects receives each later event once per registration ("close the old one
  to avoid duplicates", `hub.go:81`).
* A row that has waited for more than 7 days is never streamed, though rows live for
  30 (`hub.go:162`; "streams any missed `message.recv` events",
  `docs/WEBSOCKET.md:70`); `MissedIsBackfilled` speaks of the last 7 days.
* Live events overtake the backfill (`hub.go:105`; "in order before resuming live
  delivery", `docs/WEBSOCKET.md:70`).
* A message whose relay to the dashboard failed is acknowledged at once and never
  relayed again (`admin_chat_controller.dart:351`, comment at 523).
* A message sent while the socket is down but not closed by the user goes neither
  to the server nor to the outbox (`chat_controller.dart:183`, comment at 157).
* A bootstrap without one-time prekey that is delivered again opens again and
  resets the session (`admin_chat_controller.dart:286`); there is no window of
  message numbers (`docs/SECURITY.md:87`).
* A repeated `client_id` is published under a fresh id that has no row
  (`messages.go:94`; "rejects a second send", `docs/SECURITY.md:89`).
* Every launch of the phone replaces the signed prekey that bootstraps on their way
  name (`prekey_manager.dart:37`; "Idempotent", line 33).
* A one-time prekey is deleted before the session it opens is saved
  (`admin_chat_controller.dart:287`; "after a successful X3DH responder run",
  `local_db.dart:174`).
* A replay that races with a rotation of its family fails to serialize, its error
  is dropped, and the family is not revoked (`refresh.go:76`;
  `docs/SECURITY.md:193`).
* A logout, or a revocation by an admin, is answered with ok although its UPDATEs
  failed, and the device goes on refreshing (`auth.go:201`, `admin.go:276`; "Revokes
  current device session", `docs/API.md:29`). `NoAccessUnlessFailed` holds of every
  other revocation.
* A message that comes by the socket and by `backfillFromServer` at once is in two
  handlers, and both open it: `_seenServerIds` is added to only after the opening, and
  a prekey that both have found serves both (`admin_chat_controller.dart:286`; "rejects
  duplicates", `docs/SECURITY.md:87`). `ReopenedOnlyByRace` says that nothing else
  does this to a session with a one-time prekey.
* A reply beside an incoming message, or two incoming ones, put the receiving chain
  back behind a message that has been acknowledged, and every later one of the session
  fails to open (`admin_chat_controller.dart:125`, comment at 415;
  `docs/SECURITY.md:65`). `AckedBehindUnlessRace` says that nothing else does.
* With a second companion phone the admins see only what was sealed by or for the
  phone that was seen last (`admin.go:310`; "so the admin web UI sees the user↔admin
  thread", line 299), which is why `PersistedIsListed` is about that phone.
* More missed rows than the backfill's limit wait for the next registration
  (`hub.go:164`).
* The leader's own lease lives for 70 s, so it blocks the leader's next tick and
  sweeps are 120 s apart ("Runs every 60s", `docs/ARCHITECTURE.md:57`); a sweep
  longer than its lease lets a second replica sweep ("only one replica performs
  deletes at a time", `worker.go:42`).
* An object the store refused to delete stays for ever, since its row goes
  (`worker.go:127`), and a `mediaFinalize` between the deletion of the keys and
  that of the row inserts keys again (`docs/ARCHITECTURE.md:203`).
* A reply that fails after 24 hours of waiting is reaped at once
  (`worker.go:161`), and the dashboard lists by `created_at` what the reaper
  takes by `sent_at` (`admin.go:369`).
* A reply may be marked failed though another phone sealed it, and a poll that is
  repeated draws a fresh client id, which the idempotency of
  `admin_sync.go:233` does not cover.
* A device whose refresh token could not be issued stays registered and is the one
  users send to ("no half-registered state", `admin_device_register.go:51`).
* The purge forgets a `client_id`, so that a later retry is stored again
  (`docs/SECURITY.md:89`); the check "Validate recipient is in this conversation"
  (`messages.go:72`) asks only whether the device exists.
* A departure may reach `Run` before the registration (`conn.go:108`), which costs a
  slot of the map until the device registers again.

## 4. Fairness

`Hub!Fairness`: goroutines that can run do run; a select chooses among its
ready cases at random, so a queue with an element is served in the end. Nothing is assumed of senders, the network, Redis, the operator or the
apps: no acknowledgement need ever come.

`AdminSync!Fairness`: the operator opens the app, its timer and its loop go on,
and the server handles a request that has arrived. Sessions may be missing (the
reply is then reported as failed) and the finitely many faults of the bound may
fall anywhere.

`Retention!Fairness`: time passes, a replica that is down is started again, and
one that runs goes on. Nothing is assumed of who wins the lease.

## 5. What is proved

For every number of devices, connections, messages, users, tokens and requests,
and every capacity:

* `HubProofs!TypeCorrect`: the type invariant, with the channels' capacities.
* `HubProofs!RegistryCorrect` (`RegisteredOpen`) and `NobodyHangs` (`NoOrphan`), from
  `RegistryInductive`. Neither is inductive: that a registration does not reuse a closed channel needs to know
  what is in the queue. `RegistryInv` adds that the queue has no repetitions,
  that its entries are accepted, not yet registered and open, and that the map
  sends each device to one of its own accepted connections.
* `HubProofs!HubImplementsMailbox`: the refinement. Its invariant says that
  whatever is in a channel, a subscription or a backfill's batch is a stored row
  addressed to that connection's device (`Addressed`, `InFlight`), and that what
  was received is too (`Arrived`). Of the acknowledgements it uses no more than that a
  device acknowledges what it has got hold of, and that `Marked` lets none but the
  recipient's through. It uses the registry invariant: an event is
  routed to the connection the map names, so the map must name one of the
  device's own.
* `SessionsProofs!TypeCorrect`.
* `SessionsProofs!SessionsNeverFork` (`OneUnused`) and `BurnedFamiliesDie`
  (`BurnedStaysDead`), from the inductive invariant `Families`: row locks
  exclude each other; a transaction about to rotate holds a row that is neither
  used nor revoked; and a live member of a family that a snapshot misses descends
  from a row the snapshot has and that was written since, so that the replay's
  UPDATE of that row fails to serialize.

* `SessionsProofs!NoAccessAfterShut` (`NoAccessUnlessFailed`): a device whose revocation
  was answered is revoked, or among those whose UPDATE failed (`Gone`), for good; a
  request that comes later holds a token of such a device (`ShutOut`), so that the look
  at `devices.revoked_at` which `authRefresh` takes after the rotation stops it, whatever
  token row the second statement has missed or failed to write.

* `ConversationProofs!TypeCorrect`, with the bound on what a launch uploads: a batch
  is as large as the shortfall that was counted (`BatchFits`), which is no more than
  the pool. The phone's own keys have no such bound, as launches overlap.
* `ConversationProofs!OutboxKept` (`OutboxUntilStored`): of all steps only the
  server's answer takes a message out of the outbox.
* `ConversationProofs!AckedIsInDatabase` (`AckedIsKept`): a handler that has come
  to the relay or the acknowledgement has inserted its message
  (`InsertedFirst`), and kills empty the handlers but not the database. The last
  two hold for any number of overlapping handlers, where `stream` has two.
* `RatchetProofs!PoolHeld` (`PoolIsHeld`): every prekey is in one place (`Placed`):
  with an upload that may still arrive, in the server's pool, or taken by a bundle;
  in the first two the phone has its private half. It needs to be said of uploads
  under way, since two launches upload side by side and a failure of one may come
  after the success of the other.
* `RatchetProofs!InOrder` (`OpenedInOrder`), with any number of overlapping handlers.
  `Ledger` says that an envelope is sealed once, before its message is handed over,
  and that only sealed messages travel; `Chain`, that behind every ratchet of the
  phone, the saved one and those that handlers have loaded, there is an opened
  message for each number (`Walked`). A ratchet that is rolled back is behind what
  has been opened, never ahead of it.
* `RatchetProofs!KeysNotReused` (`KeySharedOnlyByRace`), `NotReopened`
  (`ReopenedOnlyByRace`) and `AckedIsBehind` (`AckedBehindUnlessRace`), theorems of
  `OverlapSpec` with no assumption on overlaps, for any number of senders and
  handlers. `Keys`: of a session without a race, whatever is sealed has a number
  below the saved ratchet's, so that a run which seals with the saved one takes a new
  number; one that does not counts as a race. `Once`: of such a session on the phone,
  whatever was opened is behind the saved ratchet, its prekey is gone, and no two
  handlers answer one bootstrap (`Alone`). `Underneath` carries
  the invariants of `Conversation` over, since every step of `Overlap` is one of its.

* `CourierProofs!ConversationImplementsCourier` (`ImplementsCourier`): every step of the
  apps and the server is one of the courier or changes nothing it knows of, with any
  number of overlapping handlers. It uses `Ledger` (what travels is sealed, what a
  handler holds is stored), `Chain` (what opens has its predecessors opened) and
  `Progress`: a handler past opening has its message opened, one past inserting
  has it in the database.

* `RetentionProofs!TypeCorrect` and `SweepsExclude` (`LeaseExcludes`): the lease
  and the age of a sweep that has not outlived it add up to the lease's whole
  life (`LeaseHeld`), so that a vacant lease means that every sweep has.
* `RetentionProofs!KeysFirst` (`KeysGoFirst`): the keys of a medium whose keys were
  dropped are late ones, and only such a medium is on the way to its object
  (`ErasureInv`).
* `RetentionProofs!OrphansWereRefused` (`OrphanWasRefused`), under the further
  assumption that no medium expires while its upload URL works: what a sweep has
  in hand cannot be uploaded any more (`OrphanInv`).
* `MessagesProofs`: `PersistedListed` (`PersistedIsListed`), `RefusalsStoreNothing`, `RevocationBars`,
  `ReceiptsAreOwn` and `RowsAreStable` from one invariant (`MessagesFit`): a row
  is for the device its message is sealed for, in the conversation of the user who
  is one of its two parties (`Filed`, `Pairs`), a request stores nothing before its
  last check, and one that comes after a revocation still has the revoked device
  among its parties and does not reach the INSERT (`Barred`), since nothing
  unrevokes a device and nothing seals a message twice.
* `MessagesProofs!TypeCorrect`: the order of `last_seen_at` holds the registered
  devices and no others (`Seen`), since a touch only moves a device to its front
  (`MovedToFront`).
* `AdminSyncProofs!TypeCorrect`: the replies that are enqueued are totally ordered,
  and phones and reports know of no others (`Work`).
* `AdminSyncProofs!VerdictsAreFinal` (`VerdictIsFinal`) and `SentWasSealedAlways`
  (`SentWasSealed`): a phone that is about to report success, and a report of
  success on its way, have a copy behind them (`Earned`).
* `AdminSyncProofs!AlwaysOnScreen` (`OnScreen`): what the reaper takes is older than 24
  hours by `created_at` (`Aged`), which is what the dashboard goes by.
* `AdminSyncProofs!CopiesAreAccounted` (`CopiesAccounted`): for every reply the copies
  there are, one for a failure that was found, and the phones that can still make a
  copy add up to no more than the phones and the faults (`Balanced`). A phone that
  has sealed the reply can do so again only after a fault: its verdict is on its way
  and closes the reply, unless the report was given up, failed or died with the
  phone. The counting is by cardinalities of finite sets (`FiniteSetTheorems`).

The assumptions are those that the modules name: `HubAssumption`,
`SessionsAssumption`, `ConversationAssumption`, `RetentionAssumption`,
`MessagesAssumption` and `AdminSyncAssumption`. They say which device, table or
user a connection, a message, a session, a row or a reply belongs to, that
capacities and periods are positive, that thresholds and bounds are numbers, and
that the one-time prekeys are finitely many.

Every invariant and every action property that a run checks is the statement of a
theorem. Only model-checked are the properties that need fairness, and with it
ENABLED, which is out of the prover's reach: `OneSocketSurvives`,
`MissedIsBackfilled`, `EveryReplyDecided` and `OldIsErased`. The five violations are
behaviours that TLC shows. What a recursive definition computes for every input
cannot be proved either, as the library's induction theorems take operators as
parameters; the models are built to need none of it: the modules with theorems
use sets and orders where a queue is selected from, and `Duration` is evaluated on
the values that the program uses.

## 6. Plan

Done, in this order: `Hub` and `Mailbox`, `Sessions`, `Conversation` with
`Courier` and `Overlap`, `Retention` with `Duration`, `AdminSync`, `Messages`, each with runs, mutants and
a proof module.

Left:

1. To prove: that `Messages`, seen from one message, implements the little
   specification of a row that is stored, marked and purged, and that the steps of
   `Hub` keep the order of `rows` and of `delivered`, on which the liveness
   arguments rest.
2. Accounts: creation, password reset and deletion of users (`admin_users.go`),
   the operator's login with TOTP (`admin.go`).
3. Media on the client side, once an app uploads any.

## 7. Not modelled

* Cryptographic primitives, JWT, TOTP and password arithmetic: pure functions
  without state, whose properties are those of the libraries they call.
* DH steps of the ratchet after the bootstrap: no reply reaches a user, so the
  program takes none.
* The user app's retention daemon: a timer that deletes old rows of a local table
  and compacts it.
* Start-up: connecting to PostgreSQL, Redis and S3, parsing of the configuration
  (but for `RETENTION_DAYS`, in `Duration`), migrations, the seed.
* Rendering of the apps and the dashboard, platform storage, deployment files.
* Listings that only read, and the audit log, which is only appended to.
