--------------------------------- MODULE Hub ---------------------------------
(***************************************************************************)
(* The WebSocket hub of the backend (internal/ws/hub.go, conn.go) together *)
(* with the rows of the table "messages" it backfills from.                *)
(*                                                                         *)
(* One element of Conns is one accepted WebSocket: the goroutine of Serve  *)
(* (the read pump), its write pump, the buffered channel c.send between    *)
(* the hub and the write pump, the Redis subscription the hub starts when  *)
(* it registers the connection and the backfill goroutine it starts then.  *)
(* A subscription is never stopped when its connection goes: it lives as   *)
(* long as the hub, which is why it has a state of its own.                *)
(***************************************************************************)
EXTENDS Naturals, Sequences, FiniteSets

CONSTANTS Devices,       \* device ids
          Conns,         \* WebSocket connections
          Messages,      \* message rows (and the events that carry them)
          DeviceOf,      \* the device a connection authenticated as
          To,            \* the recipient device of a message
          NoConn,        \* a missing entry of the clients map
          SendCap,       \* capacity of c.send (64 in the code)
          QueueCap,      \* capacity of h.register and h.unregister (32)
          BackfillLimit, \* LIMIT of the backfill query (200)
          AdminPhones,   \* devices that run the admin app, which also fetches over HTTP
          Ageing,        \* bound: messages whose rows a run lets grow a week old
          Repliers,      \* bound: connections whose handlers answer on the socket
          MaxRestarts    \* bound: graceful shutdowns and crashes of the process

Reply == "message.persisted"  \* what a handler of the read pump answers on c.send
Bye   == "server.shutdown"    \* the event Broadcast sends

ASSUME HubAssumption ==
  /\ DeviceOf \in [Conns -> Devices]
  /\ To \in [Messages -> Devices]
  /\ NoConn \notin Conns /\ {Reply, Bye} \cap Messages = {}
  /\ SendCap \in Nat \ {0} /\ QueueCap \in Nat \ {0}
  /\ BackfillLimit \in Nat \ {0}
  /\ AdminPhones \subseteq Devices /\ Ageing \subseteq Messages
  /\ Repliers \subseteq Conns /\ MaxRestarts \in Nat

VARIABLES
  rows,        \* the table "messages", in created_at order
  delivered,   \* rows whose delivered_at is set
  published,   \* messages whose Publish has been tried
  stale,       \* rows older than the 7 days the backfill looks back
  fetched,     \* pairs of an admin phone and a row it has fetched over HTTP
  clients,     \* h.clients
  registerQ,   \* h.register
  unregisterQ, \* h.unregister
  running,     \* main and Run: "running", "stopping" (Run has returned), "draining", "closed"
  restarts,    \* how often the process ended
  sock,        \* the TCP connection: "fresh", "up" or "down"
  reading,     \* connections whose read pump has not returned
  buf,         \* contents of c.send, while the socket is up (nobody reads it later)
  closed,      \* connections whose c.send is closed (or gone with the process)
  sub,         \* the subscription started for a connection: "off", "starting", "live"
  subQ,        \* messages Redis delivered to that subscription, not yet routed
  bf,          \* the backfill goroutine started for a connection, its rows still to send
  got,         \* messages the device has received on a connection
  lossy        \* connections on which the hub had to drop or skip something

dbVars   == <<rows, delivered, published, stale, fetched>>
mainVars == <<running, restarts>>
mapVars  == <<clients, closed>>
queues   == <<registerQ, unregisterQ>>
connVars == <<sock, reading>>
outVars  == <<buf, lossy>>
subVars  == <<sub, subQ>>
vars == <<dbVars, mainVars, mapVars, queues, connVars, outVars, subVars, bf, got>>

Events == Messages \cup {Reply, Bye}

Rng(s) == {s[i] : i \in DOMAIN s}
Older(m, n) == \E i, j \in DOMAIN rows : i < j /\ rows[i] = m /\ rows[j] = n
Registered == {clients[d] : d \in Devices} \ {NoConn}
Idle == [pc |-> "off", batch |-> {}, to |-> NoConn]

Init ==
  /\ rows = <<>> /\ delivered = {} /\ published = {} /\ stale = {} /\ fetched = {}
  /\ clients = [d \in Devices |-> NoConn] /\ closed = {}
  /\ registerQ = <<>> /\ unregisterQ = <<>>
  /\ running = "running" /\ restarts = 0
  /\ sock = [c \in Conns |-> "fresh"] /\ reading = {}
  /\ buf = [c \in Conns |-> <<>>] /\ lossy = {}
  /\ sub = [c \in Conns |-> "off"] /\ subQ = [c \in Conns |-> <<>>]
  /\ bf = [c \in Conns |-> Idle]
  /\ got = [c \in Conns |-> <<>>]

-----------------------------------------------------------------------------
(* The database and Redis, as the message service uses them.               *)

\* messages.Send inserts the row; the recipient may or may not be connected.
Store(m) ==
  /\ m \notin Rng(rows)
  /\ rows' = Append(rows, m)
  /\ UNCHANGED <<delivered, published, stale, fetched, mainVars, mapVars, queues, connVars, outVars, subVars, bf, got>>

\* messages.Send publishes on the recipient's channel: Redis hands the event to
\* every subscription that is established now, and to nobody else.
Publish(m) ==
  /\ m \in Rng(rows) \ published
  /\ published' = published \cup {m}
  /\ subQ' = [c \in Conns |-> IF sub[c] = "live" /\ DeviceOf[c] = To[m]
                              THEN Append(subQ[c], m) ELSE subQ[c]]
  /\ UNCHANGED <<rows, delivered, stale, fetched, mainVars, mapVars, queues, connVars, outVars, sub, bf, got>>

\* The publish fails, or the sender's process dies between INSERT and PUBLISH.
PublishLost(m) ==
  /\ m \in Rng(rows) \ published
  /\ published' = published \cup {m}
  /\ UNCHANGED <<rows, delivered, stale, fetched, mainVars, mapVars, queues, connVars, outVars, subVars, bf, got>>

\* created_at falls out of the backfill's window of 7 days, the oldest row first.
Week(m) ==
  /\ m \in (Rng(rows) \cap Ageing) \ stale
  /\ \A n \in Rng(rows) : Older(n, m) => n \in stale
  /\ stale' = stale \cup {m}
  /\ UNCHANGED <<rows, delivered, published, fetched, mainVars, mapVars, queues, connVars, outVars, subVars, bf, got>>

\* backfillFromServer of the admin app: the conversation the server lists to a
\* phone holds the rows of the admin's last seen phone, sent ones too.
Fetch(d, m) ==
  /\ d \in AdminPhones /\ m \in Rng(rows)
  /\ fetched' = fetched \cup {<<d, m>>}
  /\ UNCHANGED <<rows, delivered, published, stale, mainVars, mapVars, queues, connVars, outVars, subVars, bf, got>>

-----------------------------------------------------------------------------
(* Serve: the connection, its read pump and its write pump. A write pump    *)
(* whose socket is broken writes into nothing until it notices; it counts   *)
(* as ended, and the events still in its channel as lost.                   *)

\* Upgrade, then "h.register <- c" (blocks while the channel is full).
Connect(c) ==
  /\ sock[c] = "fresh" /\ running # "closed"
  /\ Len(registerQ) < QueueCap
  /\ registerQ' = Append(registerQ, c)
  /\ sock' = [sock EXCEPT ![c] = "up"]
  /\ reading' = reading \cup {c}
  /\ UNCHANGED <<dbVars, mainVars, mapVars, unregisterQ, outVars, subVars, bf, got>>

GoDown(c) ==
  /\ sock' = [sock EXCEPT ![c] = "down"]
  /\ buf' = [buf EXCEPT ![c] = <<>>]
  /\ UNCHANGED <<dbVars, mainVars, mapVars, queues, reading, lossy, subVars, bf, got>>

\* The network fails or the app closes the socket.
Disconnect(c) == sock[c] = "up" /\ GoDown(c)

\* ReadMessage fails: the read pump ends with "h.unregister <- c".
ReaderExit(c) ==
  /\ c \in reading /\ sock[c] = "down"
  /\ Len(unregisterQ) < QueueCap
  /\ unregisterQ' = Append(unregisterQ, c)
  /\ reading' = reading \ {c}
  /\ UNCHANGED <<dbVars, mainVars, mapVars, registerQ, sock, outVars, subVars, bf, got>>

\* The write pump writes the next event and the device reads the frame.
WriterSend(c) ==
  /\ sock[c] = "up" /\ buf[c] # <<>>
  /\ buf' = [buf EXCEPT ![c] = Tail(@)]
  /\ got' = IF Head(buf[c]) \in Messages
            THEN [got EXCEPT ![c] = Append(@, Head(buf[c]))] ELSE got
  /\ UNCHANGED <<dbVars, mainVars, mapVars, queues, connVars, lossy, subVars, bf>>

\* The channel is closed and drained: close frame, conn.Close.
WriterClose(c) ==
  /\ sock[c] = "up" /\ c \in closed /\ buf[c] = <<>>
  /\ GoDown(c)

\* The read pump has gone and cancelled the write pump's context: conn.Close.
WriterExit(c) ==
  /\ sock[c] = "up" /\ c \notin reading
  /\ GoDown(c)

HasRoomOffByOne(c) == Len(buf[c]) <= SendCap   \* mutant: one event too many
HasRoom(c) == Len(buf[c]) < SendCap

\* A non-blocking send on c.send: what does not fit is dropped.
Push(c, e) ==
  IF sock[c] = "down" THEN UNCHANGED outVars
  ELSE IF HasRoom(c)
       THEN buf' = [buf EXCEPT ![c] = Append(@, e)] /\ UNCHANGED lossy
       ELSE lossy' = lossy \cup {c} /\ UNCHANGED buf

\* A handler of the read pump answers its own connection. On a closed channel
\* the send panics; net/http recovers it and the read pump is gone without
\* having sent to h.unregister.
\* Bound: a connection in Repliers answers while no answer of its waits in c.send.
ReaderReply(c) ==
  /\ c \in reading \cap Repliers /\ sock[c] = "up"
  /\ Reply \notin Rng(buf[c])
  /\ IF c \in closed
     THEN reading' = reading \ {c} /\ UNCHANGED outVars
     ELSE Push(c, Reply) /\ UNCHANGED reading
  /\ UNCHANGED <<dbVars, mainVars, mapVars, queues, sock, subVars, bf, got>>

\* What a device may acknowledge: what it has received on any of its
\* connections, this one or an earlier one, or fetched.
Known(d) == {m \in Messages : \/ <<d, m>> \in fetched
                              \/ \E c \in Conns : DeviceOf[c] = d /\ m \in Rng(got[c])}

MarkedForAnyone(c, m) == {m}   \* mutant: the UPDATE does not compare recipient_device_id
Marked(c, m) == {n \in {m} : To[n] = DeviceOf[c]}

\* The app sends message.ack; the read pump handles the frame: MarkDelivered.
\* The server does not ask how the device came to know the message.
HandleAck(c, m) ==
  /\ c \in reading /\ sock[c] = "up"
  /\ m \in Known(DeviceOf[c])
  /\ delivered' = delivered \cup Marked(c, m)
  /\ UNCHANGED <<rows, published, stale, fetched, mainVars, mapVars, queues, connVars, outVars, subVars, bf, got>>

-----------------------------------------------------------------------------
(* Run: the hub's loop.                                                    *)

DisplacedKept(c) == {}   \* mutant: the old connection's channel stays open
\* The connection a registration of c replaces, whose channel it closes.
Displaced(c) == {clients[DeviceOf[c]]} \ {NoConn}

HubRegister ==
  /\ running = "running" /\ registerQ # <<>>
  /\ LET c == Head(registerQ)
     IN /\ closed' = closed \cup Displaced(c)
        /\ clients' = [clients EXCEPT ![DeviceOf[c]] = c]
        /\ sub' = [sub EXCEPT ![c] = "starting"]
        /\ bf' = [bf EXCEPT ![c] = [Idle EXCEPT !.pc = "query"]]
  /\ registerQ' = Tail(registerQ)
  /\ UNCHANGED <<dbVars, mainVars, unregisterQ, connVars, outVars, subQ, got>>

AfterLeavingStale(c) == clients   \* mutant: the map entry is not deleted
AfterLeaving(c) == [clients EXCEPT ![DeviceOf[c]] = NoConn]

HubUnregister ==
  /\ running = "running" /\ unregisterQ # <<>>
  /\ LET c == Head(unregisterQ)
     IN IF clients[DeviceOf[c]] = c
        THEN /\ clients' = AfterLeaving(c)
             /\ closed' = closed \cup {c}
        ELSE UNCHANGED mapVars
  /\ unregisterQ' = Tail(unregisterQ)
  /\ UNCHANGED <<dbVars, mainVars, registerQ, connVars, outVars, subVars, bf, got>>

\* The SUBSCRIBE of a subscription goroutine reaches Redis.
Subscribed(c) ==
  /\ running = "running" /\ sub[c] = "starting"
  /\ sub' = [sub EXCEPT ![c] = "live"]
  /\ UNCHANGED <<dbVars, mainVars, mapVars, queues, connVars, outVars, subQ, bf, got>>

\* A subscription goroutine takes an event and routes it, under h.mu, to the
\* connection registered for its device.
Route(c) ==
  /\ subQ[c] # <<>>
  /\ LET cur == clients[DeviceOf[c]]
     IN IF cur = NoConn THEN UNCHANGED outVars ELSE Push(cur, Head(subQ[c]))
  /\ subQ' = [subQ EXCEPT ![c] = Tail(@)]
  /\ UNCHANGED <<dbVars, mainVars, mapVars, queues, connVars, sub, bf, got>>

-----------------------------------------------------------------------------
(* backfillMissed.                                                         *)

Undelivered(d) == {m \in Rng(rows) \ stale : To[m] = d /\ m \notin delivered}

Oldest(d, n) ==
  {m \in Undelivered(d) : Cardinality({k \in Undelivered(d) : Older(k, m)}) < n}

MissedSkipsOldest(d) == Oldest(d, BackfillLimit + 1) \ Oldest(d, 1)   \* mutant: as with an OFFSET 1
\* The oldest undelivered rows of a device within the window, at most
\* BackfillLimit of them.
Missed(d) == Oldest(d, BackfillLimit)

\* A row whose Scan fails is skipped; a query that fails reads none.
BackfillQuery(c) ==
  /\ bf[c].pc = "query"
  /\ \E read \in SUBSET Missed(DeviceOf[c]) :
       /\ bf' = [bf EXCEPT ![c] = IF read = {} THEN Idle
                                  ELSE [bf[c] EXCEPT !.pc = "lookup", !.batch = read]]
       /\ lossy' = IF read = Missed(DeviceOf[c]) THEN lossy ELSE lossy \cup {c}
  /\ UNCHANGED <<dbVars, mainVars, mapVars, queues, connVars, buf, subVars, got>>

\* The registered client is read under h.mu and kept after the unlock.
BackfillLookup(c) ==
  /\ bf[c].pc = "lookup"
  /\ LET cur == clients[DeviceOf[c]]
     IN bf' = [bf EXCEPT ![c] = IF cur = NoConn THEN Idle
                                ELSE [bf[c] EXCEPT !.pc = "send", !.to = cur]]
  /\ UNCHANGED <<dbVars, mainVars, mapVars, queues, connVars, outVars, subVars, got>>

BackfillSend(c) ==
  /\ bf[c].pc = "send" /\ bf[c].to \notin closed
  /\ \E m \in bf[c].batch :
       /\ \A n \in bf[c].batch : ~Older(n, m)
       /\ Push(bf[c].to, m)
       /\ bf' = [bf EXCEPT ![c] = IF bf[c].batch = {m} THEN Idle
                                  ELSE [bf[c] EXCEPT !.batch = @ \ {m}]]
  /\ UNCHANGED <<dbVars, mainVars, mapVars, queues, connVars, subVars, got>>

-----------------------------------------------------------------------------
(* The end of the process and its restart.                                 *)

\* What a process that ends leaves behind: the database and broken sockets.
ProcessGone ==
  /\ restarts' = restarts + 1
  /\ running' = "running"
  /\ clients' = [d \in Devices |-> NoConn]
  /\ registerQ' = <<>> /\ unregisterQ' = <<>>
  /\ closed' = {c \in Conns : sock[c] # "fresh"}
  /\ sock' = [c \in Conns |-> IF sock[c] = "fresh" THEN "fresh" ELSE "down"]
  /\ reading' = {}
  /\ buf' = [c \in Conns |-> <<>>]
  /\ sub' = [c \in Conns |-> "off"]
  /\ subQ' = [c \in Conns |-> <<>>]
  /\ bf' = [c \in Conns |-> Idle]
  /\ UNCHANGED <<dbVars, got, lossy>>

\* The send on a channel closed since the lookup panics in a goroutine nobody
\* recovers: the whole process goes.
BackfillPanic(c) ==
  /\ bf[c].pc = "send" /\ bf[c].to \in closed
  /\ ProcessGone

\* SIGTERM: Run and the subscriptions return.
Stop ==
  /\ running = "running" /\ restarts < MaxRestarts
  /\ running' = "stopping"
  /\ UNCHANGED <<dbVars, restarts, mapVars, queues, connVars, outVars, subVars, bf, got>>

\* Broadcast offers the drain notice to every registered client and waits 50 ms
\* for room; one whose channel stays full is passed over.
Broadcast ==
  /\ running = "stopping"
  /\ buf' = [c \in Conns |-> IF c \in Registered /\ sock[c] = "up" /\ HasRoom(c)
                             THEN Append(buf[c], Bye) ELSE buf[c]]
  /\ running' = "draining"
  /\ UNCHANGED <<dbVars, restarts, mapVars, queues, connVars, lossy, subVars, bf, got>>

CloseHub ==
  /\ running = "draining"
  /\ closed' = closed \cup Registered
  /\ clients' = [d \in Devices |-> NoConn]
  /\ running' = "closed"
  /\ UNCHANGED <<dbVars, restarts, queues, connVars, outVars, subVars, bf, got>>

Exit == running = "closed" /\ ProcessGone

-----------------------------------------------------------------------------
HubStep == HubRegister \/ HubUnregister \/ Stop \/ Broadcast \/ CloseHub \/ Exit
MessageStep(m) ==
  Store(m) \/ Publish(m) \/ PublishLost(m) \/ Week(m) \/ \E d \in Devices : Fetch(d, m)
PumpStep(c) == \/ ReaderExit(c) \/ WriterSend(c) \/ WriterClose(c) \/ WriterExit(c)
BackfillStep(c) == BackfillQuery(c) \/ BackfillLookup(c) \/ BackfillSend(c) \/ BackfillPanic(c)
ConnStep(c) ==
  \/ Connect(c) \/ Disconnect(c) \/ PumpStep(c) \/ ReaderReply(c)
  \/ Subscribed(c) \/ Route(c) \/ BackfillStep(c)
  \/ \E m \in Messages : HandleAck(c, m)

Next == HubStep \/ (\E m \in Messages : MessageStep(m)) \/ (\E c \in Conns : ConnStep(c))

Spec == Init /\ [][Next]_vars

\* Goroutines that can run do run; a select picks among its ready cases at
\* random, so neither of the hub's two channels starves. Devices, senders,
\* networks and operators owe nothing.
Fairness ==
  /\ WF_vars(HubRegister) /\ WF_vars(HubUnregister)
  /\ WF_vars(Broadcast) /\ WF_vars(CloseHub) /\ WF_vars(Exit)
  /\ \A c \in Conns :
       /\ WF_vars(ReaderExit(c)) /\ WF_vars(WriterSend(c))
       /\ WF_vars(WriterClose(c)) /\ WF_vars(WriterExit(c))
       /\ WF_vars(BackfillStep(c))

FairSpec == Spec /\ Fairness

-----------------------------------------------------------------------------
(* Properties.                                                             *)

\* A backfill goroutine holds a connection to write to only while it sends.
BackfillState ==
       [pc : {"off", "query", "lookup"}, batch : SUBSET Messages, to : {NoConn}]
  \cup [pc : {"send"}, batch : SUBSET Messages, to : Conns]

\* Every variable stays in its type; a channel never holds more than its
\* capacity, and a connection is one of the process's sockets or untouched.
TypeOK ==
  /\ rows \in Seq(Messages) /\ delivered \subseteq Messages /\ published \subseteq Messages
  /\ stale \subseteq Messages /\ fetched \subseteq Devices \X Messages
  /\ clients \in [Devices -> Conns \cup {NoConn}] /\ closed \subseteq Conns
  /\ registerQ \in Seq(Conns) /\ Len(registerQ) <= QueueCap
  /\ unregisterQ \in Seq(Conns) /\ Len(unregisterQ) <= QueueCap
  /\ running \in {"running", "stopping", "draining", "closed"} /\ restarts \in Nat
  /\ sock \in [Conns -> {"fresh", "up", "down"}] /\ reading \subseteq Conns
  /\ buf \in [Conns -> Seq(Events)] /\ \A c \in Conns : Len(buf[c]) <= SendCap
  /\ lossy \subseteq Conns
  /\ sub \in [Conns -> {"off", "starting", "live"}] /\ subQ \in [Conns -> Seq(Messages)]
  /\ bf \in [Conns -> BackfillState]
  /\ got \in [Conns -> Seq(Messages)]

\* A connection the clients map names has an open channel. Run, routeByChannel,
\* Broadcast and Close only touch channels they find in the map, so none of
\* them closes a channel twice or sends on a closed one (either would panic the
\* process): the map and close() must stay in step through reconnections that
\* overtake the departure of the old socket.
RegisteredOpen == \A d \in Devices : clients[d] # NoConn => clients[d] \notin closed

\* Once the hub has taken a connection from h.register, the connection is the
\* registered one of its device or its channel is closed. Nothing is left
\* hanging: a socket that no event can reach any more is told to close.
NoOrphan ==
  \A c \in Conns : sock[c] # "fresh" /\ c \notin Rng(registerQ) /\ c \notin closed
                      => clients[DeviceOf[c]] = c

\* The inductive strengthening of the two: what the queue of registrations, the
\* map and the closed channels know of each other.
NoDup(s) == \A i, j \in DOMAIN s : s[i] = s[j] => i = j
RegistryInv ==
  /\ NoDup(registerQ)
  /\ \A c \in Rng(registerQ) : sock[c] # "fresh" /\ c \notin closed
  /\ \A c \in closed : sock[c] # "fresh"
  /\ \A d \in Devices : clients[d] # NoConn =>
       /\ DeviceOf[clients[d]] = d
       /\ sock[clients[d]] # "fresh" /\ clients[d] \notin Rng(registerQ)

\* Of two sockets a device holds open at once, one is eventually closed: a
\* reconnect leaves one live socket, whatever order the hub meets them in.
OneSocketSurvives ==
  \A c, o \in Conns :
    c # o /\ DeviceOf[c] = DeviceOf[o] =>
      (sock[c] = "up" /\ sock[o] = "up") ~> (sock[c] = "down" \/ sock[o] = "down")

\* A message of the last 7 days that waits for a device among its oldest
\* BackfillLimit undelivered ones when a connection is about to be registered
\* is handed over on that connection, unless it has been acknowledged meanwhile
\* or has grown too old, the connection has ended or been replaced, or the hub
\* had to drop something of it (full channel, failed query or Scan).
MissedIsBackfilled ==
  \A c \in Conns, m \in Messages :
    To[m] = DeviceOf[c] =>
      (c \in Rng(registerQ) /\ m \in Oldest(DeviceOf[c], BackfillLimit))
        ~> \/ m \in Rng(got[c]) \cup delivered \cup stale
           \/ sock[c] = "down" \/ c \in closed \cup lossy

\* backfillMissed aborts when the client has gone ("there's no socket to write
\* to", hub.go:188): the channel it writes to is open.
BackfillTargetOpen == \A c \in Conns : bf[c].pc = "send" => bf[c].to \notin closed

\* What the hub promises, as the mailbox it implements.
Seen == {p \in Devices \X Messages : \E c \in Conns : DeviceOf[c] = p[1] /\ p[2] \in Rng(got[c])}
mailbox == INSTANCE Mailbox WITH posted <- Rng(rows), seen <- Seen, acked <- delivered

\* Connections, subscriptions, backfills, fetches, late and foreign
\* acknowledgements and restarts implement the mailbox: a message is pushed only
\* to the device it is addressed to, only after it is stored, and is marked
\* delivered only when that device has it, whoever else acknowledges it.
ImplementsMailbox == mailbox!Spec

=============================================================================
