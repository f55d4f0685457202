----------------------------- MODULE Conversation -----------------------------
(***************************************************************************)
(* One user's app and the admin's phone: what sendText, the outbox and the *)
(* ratchet do on one side, what the handlers of message.recv, the prekeys  *)
(* and sendReply do on the other, and the server's tables between them.    *)
(*                                                                         *)
(* Dart runs the code between two awaits alone, so an action is the code   *)
(* between two accesses to state that another handler can touch. An        *)
(* element of Senders or Handlers is a handler in flight; their numbers    *)
(* bound how many of them overlap.                                         *)
(*                                                                         *)
(* Keys are symbolic. A session is named by the message whose bootstrap    *)
(* created it, and the key of an envelope by its session and its number. A *)
(* reply never reaches the user's app (the server answers every            *)
(* message.send of an admin with NO_CONVERSATION), so neither side takes a *)
(* DH step after the bootstrap; an envelope of another session or number   *)
(* makes Envelope.open fail, which leaves the saved ratchet as it was.     *)
(***************************************************************************)
EXTENDS Naturals, FiniteSets

CONSTANTS Msgs,       \* what the user types, and the envelopes and rows made of it
          Opks,       \* one-time prekeys the phone can ever generate
          Senders,    \* runs of sendText that overlap
          Handlers,   \* runs of the phone's handlers that overlap
          LowWater,   \* the pool is topped up below this size (5 in the code)
          TargetPool, \* ... to this one (20)
          MaxStarts,  \* bound: how often the phone starts to provision prekeys
          NoMsg, NoOpk

ASSUME ConversationAssumption ==
  /\ NoMsg \notin Msgs /\ NoOpk \notin Opks /\ IsFiniteSet(Opks)
  /\ LowWater \in Nat /\ TargetPool \in Nat /\ LowWater <= TargetPool /\ MaxStarts \in Nat

VARIABLES
  typed,    \* messages sendText has been called with
  send,     \* the runs of sendText
  uRatchet, \* ratchet_state of the user's app
  env,      \* the envelope sealed for a message
  handed,   \* messages given to the socket or the outbox
  outbox,   \* table "outbox" of the user's app
  link,     \* the user's socket: "off", "up", or "broken" while state.connected is true
  uplink,   \* message.send events on their way to the server (their order is not kept)
  rows,     \* messages the server has stored
  retried,  \* messages the server was sent again and published under an id without a row
  acked,    \* rows with delivered_at set
  mirrored, \* rows with an admin_plaintext row
  pool,     \* one_time_prekeys the server can still hand out
  spkUp,    \* generation of the signed prekey the server hands out, 0 if none
  spk,      \* generation of the signed prekey the phone holds
  prep,     \* the runs of ensureProvisioned that have not come to their upload
  opks,     \* one-time prekeys the phone holds
  used,     \* one-time prekeys the phone has ever generated
  upload,   \* prekey uploads under way
  hand,     \* the runs of the phone's handlers
  pRatchet, \* ratchet_state of the phone
  inbox,    \* messages in the phone's database
  opened,   \* messages the phone has opened and advanced its ratchet for
  reopened  \* those it has opened more than once

userVars   == <<typed, send, uRatchet, env, handed>>
netVars    == <<outbox, link, uplink>>
tables     == <<rows, retried, acked, mirrored>>
serverKeys == <<pool, spkUp>>
phoneKeys  == <<spk, prep, opks, used, upload>>
phoneVars  == <<hand, pRatchet, inbox, opened, reopened>>
vars == <<userVars, netVars, tables, serverKeys, phoneKeys, phoneVars>>

NoRatchet  == [session |-> NoMsg, n |-> 0]
NoEnvelope == [session |-> NoMsg, n |-> 0, opk |-> NoOpk, spk |-> 0]
Resting    == [pc |-> "idle", m |-> NoMsg, r |-> NoRatchet, opk |-> NoOpk, spk |-> 0]
Free       == [pc |-> "idle", m |-> NoMsg, real |-> TRUE, r |-> NoRatchet]

Init ==
  /\ typed = {} /\ send = [u \in Senders |-> Resting]
  /\ uRatchet = NoRatchet /\ env = [m \in Msgs |-> NoEnvelope] /\ handed = {}
  /\ outbox = {} /\ link = "off" /\ uplink = {}
  /\ rows = {} /\ retried = {} /\ acked = {} /\ mirrored = {}
  /\ pool = {} /\ spkUp = 0
  /\ spk = 0 /\ prep = {} /\ opks = {} /\ used = {} /\ upload = {}
  /\ hand = [h \in Handlers |-> Free]
  /\ pRatchet = NoRatchet /\ inbox = {} /\ opened = {} /\ reopened = {}

-----------------------------------------------------------------------------
(* The user's app: sendText.                                               *)

\* sendText up to loadRatchet. A ratchet that was never saved is NoRatchet.
SendText(u, m) ==
  /\ send[u].pc = "idle" /\ m \notin typed
  /\ typed' = typed \cup {m}
  /\ send' = [send EXCEPT ![u] =
                [Resting EXCEPT !.pc = IF uRatchet = NoRatchet THEN "fetch" ELSE "save",
                                !.m = m, !.r = uRatchet]]
  /\ UNCHANGED <<uRatchet, env, handed, netVars, tables, serverKeys, phoneKeys, phoneVars>>

HandedOutAgain(o) == pool   \* mutant: consumed_at is not set
HandedOut(o) == pool \ {o}

\* prekeysFetch and the initiator's X3DH: a new session, with a one-time prekey
\* if the server has one left.
Fetch(u) ==
  /\ send[u].pc = "fetch" /\ spkUp # 0
  /\ \E o \in IF pool = {} THEN {NoOpk} ELSE pool :
       /\ pool' = HandedOut(o)
       /\ send' = [send EXCEPT ![u] = [send[u] EXCEPT
                     !.pc = "save", !.r = [session |-> send[u].m, n |-> 0],
                     !.opk = o, !.spk = spkUp]]
  /\ UNCHANGED <<typed, uRatchet, env, handed, netVars, tables, spkUp, phoneKeys, phoneVars>>

\* No bundle (no signed prekey, no network): the text is not sent.
FetchFails(u) ==
  /\ send[u].pc = "fetch"
  /\ send' = [send EXCEPT ![u] = Resting]
  /\ UNCHANGED <<typed, uRatchet, env, handed, netVars, tables, serverKeys, phoneKeys, phoneVars>>

NotAdvanced(r) == r   \* mutant: the ratchet is saved as it was loaded
Advanced(r) == [r EXCEPT !.n = r.n + 1]

\* nextSendKey, seal, saveRatchet.
Seal(u) ==
  /\ send[u].pc = "save"
  /\ env' = [env EXCEPT ![send[u].m] =
               [session |-> send[u].r.session, n |-> send[u].r.n,
                opk |-> send[u].opk, spk |-> send[u].spk]]
  /\ uRatchet' = Advanced(send[u].r)
  /\ send' = [send EXCEPT ![u] = [send[u] EXCEPT !.pc = "hand"]]
  /\ UNCHANGED <<typed, handed, netVars, tables, serverKeys, phoneKeys, phoneVars>>

\* insertOutgoing, then the socket if the app believes it is connected, else the
\* outbox. A broken socket takes the event and loses it.
HandOver(u) ==
  /\ send[u].pc = "hand"
  /\ handed' = handed \cup {send[u].m}
  /\ IF link = "off"
     THEN outbox' = outbox \cup {send[u].m} /\ UNCHANGED uplink
     ELSE uplink' = (IF link = "up" THEN uplink \cup {send[u].m} ELSE uplink) /\ UNCHANGED outbox
  /\ send' = [send EXCEPT ![u] = Resting]
  /\ UNCHANGED <<typed, uRatchet, env, link, tables, serverKeys, phoneKeys, phoneVars>>

FlushedAndDeleted == {}   \* mutant: rows leave the outbox when they are sent
AfterFlush == outbox

\* The chat screen opens: connect, then _flushOutbox, on a socket that may fail.
Connect ==
  /\ link = "off"
  /\ \/ link' = "up" /\ uplink' = uplink \cup outbox
     \/ link' = "broken" /\ UNCHANGED uplink
  /\ outbox' = AfterFlush
  /\ UNCHANGED <<userVars, tables, serverKeys, phoneKeys, phoneVars>>

\* The socket drops with what was on its way.
Break ==
  /\ link = "up" /\ link' = "broken" /\ uplink' = {}
  /\ UNCHANGED <<userVars, outbox, tables, serverKeys, phoneKeys, phoneVars>>

\* _scheduleReconnect: a new socket; the outbox is not flushed again.
Reconnect ==
  /\ link = "broken" /\ link' = "up"
  /\ UNCHANGED <<userVars, outbox, uplink, tables, serverKeys, phoneKeys, phoneVars>>

\* The chat screen is left.
Disconnect ==
  /\ link # "off" /\ link' = "off"
  /\ UNCHANGED <<userVars, outbox, uplink, tables, serverKeys, phoneKeys, phoneVars>>

UserKilled ==
  /\ send' = [u \in Senders |-> Resting]
  /\ link' = "off" /\ uplink' = {}
  /\ UNCHANGED <<typed, uRatchet, env, handed, outbox, tables, serverKeys, phoneKeys, phoneVars>>

-----------------------------------------------------------------------------
(* The server. What it hands to the phone, and how often, is the subject of  *)
(* module Hub; here any stored row may be delivered at any time.             *)

\* handleSend and messages.Send: a client_id the table has is not inserted again,
\* yet an event is published under the new id, and message.persisted names it.
ServerSend(m) ==
  /\ m \in uplink
  /\ uplink' = uplink \ {m}
  /\ rows' = rows \cup {m}
  /\ retried' = IF m \in rows THEN retried \cup {m} ELSE retried
  /\ \/ link = "up" /\ outbox' = outbox \ {m}
     \/ UNCHANGED outbox   \* the answer is lost
  /\ UNCHANGED <<userVars, link, acked, mirrored, serverKeys, phoneKeys, phoneVars>>

\* prekeysUpload: the signed prekey, then one INSERT per one-time prekey; the
\* request may fail at any of them, or before.
Upload(p) ==
  /\ p \in upload
  /\ upload' = upload \ {p}
  /\ \/ UNCHANGED serverKeys
     \/ \E done \in SUBSET p.opks : spkUp' = p.spk /\ pool' = pool \cup done
  /\ UNCHANGED <<userVars, netVars, tables, spk, prep, opks, used, phoneVars>>

-----------------------------------------------------------------------------
(* The phone.                                                              *)

Shortfall == IF Cardinality(opks) < LowWater THEN TargetPool - Cardinality(opks) ELSE 0

OneTooMany(n) == {f \in SUBSET (Opks \ used) : Cardinality(f) = n + 1}   \* mutant: a loop to <= n
\* The batches _generateOneTimePrekeys(n) can return.
Batches(n) == {f \in SUBSET (Opks \ used) : Cardinality(f) = n}

\* ensureProvisioned, called by every start(), which does not wait for a call
\* before it: always a new signed prekey, under the same id, in place of the old
\* one ...
Launch ==
  /\ spk < MaxStarts
  /\ spk' = spk + 1
  /\ prep' = prep \cup {[spk |-> spk + 1, pc |-> "count", short |-> 0]}
  /\ UNCHANGED <<userVars, netVars, tables, serverKeys, opks, used, upload, phoneVars>>

\* ... oneTimePrekeyCount ...
Count(p) ==
  /\ p \in prep /\ p.pc = "count"
  /\ prep' = (prep \ {p}) \cup {[p EXCEPT !.pc = "stock", !.short = Shortfall]}
  /\ UNCHANGED <<userVars, netVars, tables, serverKeys, spk, opks, used, upload, phoneVars>>

\* ... insertOneTimePrekeys, if few are left, and the upload.
Stock(p) ==
  /\ p \in prep /\ p.pc = "stock"
  /\ prep' = prep \ {p}
  /\ \E f \in Batches(p.short) :
       /\ opks' = opks \cup f
       /\ used' = used \cup f
       /\ upload' = upload \cup {[spk |-> p.spk, opks |-> f]}
  /\ UNCHANGED <<userVars, netVars, tables, serverKeys, spk, phoneVars>>

Bootstraps(m) == env[m].session = m

\* What message.recv events carry and backfillFromServer fetches: stored rows, and
\* the events of retries, whose id names no row.
PublishedFirst(real) == IF real THEN rows \cup uplink ELSE retried   \* mutant: PUBLISH, then INSERT
Deliverable(real) == IF real THEN rows ELSE retried

Receive(h, m, real) ==
  /\ hand[h].pc = "idle"
  /\ m \in Deliverable(real)
  /\ hand' = [hand EXCEPT ![h] = [Free EXCEPT !.pc = IF Bootstraps(m) THEN "lookup" ELSE "load",
                                             !.m = m, !.real = real]]
  /\ UNCHANGED <<userVars, netVars, tables, serverKeys, phoneKeys, pRatchet, inbox, opened, reopened>>

AckedAnyway(h) == [hand[h] EXCEPT !.pc = "ack"]   \* mutant: what cannot be opened is acknowledged
Discarded(h) == Free

\* _handleBootstrap: the prekeys. The signed prekey may have been replaced since
\* the bundle was fetched; X3DH then gives another secret, and open fails later.
LookupPrekeys(h) ==
  /\ hand[h].pc = "lookup"
  /\ LET e == env[hand[h].m]
     IN hand' = [hand EXCEPT ![h] =
          IF e.opk \notin opks \cup {NoOpk} THEN Discarded(h)
          ELSE [hand[h] EXCEPT !.pc = "consume",
                               !.r = IF e.spk = spk THEN [session |-> e.session, n |-> 0] ELSE NoRatchet]]
  /\ UNCHANGED <<userVars, netVars, tables, serverKeys, phoneKeys, pRatchet, inbox, opened, reopened>>

StillThere(o) == opks   \* mutant: the row is not deleted
Consumed(o) == opks \ {o}

ConsumePrekey(h) ==
  /\ hand[h].pc = "consume"
  /\ opks' = Consumed(env[hand[h].m].opk)
  /\ hand' = [hand EXCEPT ![h].pc = "open"]
  /\ UNCHANGED <<userVars, netVars, tables, serverKeys, spk, prep, used, upload, pRatchet, inbox, opened, reopened>>

\* _handleSteadyState: loadRatchet.
LoadRatchet(h) ==
  /\ hand[h].pc = "load"
  /\ hand' = [hand EXCEPT ![h] = IF pRatchet = NoRatchet THEN Discarded(h)
                                 ELSE [hand[h] EXCEPT !.pc = "open", !.r = pRatchet]]
  /\ UNCHANGED <<userVars, netVars, tables, serverKeys, phoneKeys, pRatchet, inbox, opened, reopened>>

OpensSkipping(r, e) == r.session = e.session /\ r.n <= e.n   \* mutant: the chain's key is not matched
Opens(r, e) == r.session = e.session /\ r.n = e.n

SavedAsLoaded(h) == hand[h].r   \* mutant: the ratchet is saved before nextRecvKey
Saved(h) == Advanced(hand[h].r)

\* nextRecvKey, Envelope.open and saveRatchet.
OpenEnvelope(h) ==
  /\ hand[h].pc = "open"
  /\ LET m == hand[h].m
     IN IF Opens(hand[h].r, env[m])
        THEN /\ pRatchet' = Saved(h)
             /\ opened' = opened \cup {m}
             /\ reopened' = reopened \cup ({m} \cap opened)
             /\ hand' = [hand EXCEPT ![h].pc = "insert"]
        ELSE /\ hand' = [hand EXCEPT ![h] = Discarded(h)]
             /\ UNCHANGED <<pRatchet, opened, reopened>>
  /\ UNCHANGED <<userVars, netVars, tables, serverKeys, phoneKeys, inbox>>

InsertMessage(h) ==
  /\ hand[h].pc = "insert"
  /\ inbox' = inbox \cup {hand[h].m}
  /\ hand' = [hand EXCEPT ![h].pc = "relay"]
  /\ UNCHANGED <<userVars, netVars, tables, serverKeys, phoneKeys, pRatchet, opened, reopened>>

\* adminSyncInbound: one admin_plaintext row for a row of messages, however often
\* it is relayed; an id without a row is answered with 404.
Mirrored(h) == IF hand[h].real THEN mirrored \cup {hand[h].m} ELSE mirrored

\* _relayInbound. A failure is swallowed, and the answer not looked at.
RelayInbound(h) ==
  /\ hand[h].pc = "relay"
  /\ mirrored' \in {Mirrored(h), mirrored}
  /\ hand' = [hand EXCEPT ![h].pc = "ack"]
  /\ UNCHANGED <<userVars, netVars, rows, retried, acked, serverKeys, phoneKeys, pRatchet, inbox, opened, reopened>>

\* _ackServer and MarkDelivered. The event may be lost with the socket.
AckServer(h) ==
  /\ hand[h].pc = "ack"
  /\ \/ hand[h].real /\ acked' = acked \cup {hand[h].m}
     \/ UNCHANGED acked
  /\ hand' = [hand EXCEPT ![h] = Free]
  /\ UNCHANGED <<userVars, netVars, rows, retried, mirrored, serverKeys, phoneKeys, pRatchet, inbox, opened, reopened>>

\* sendReply: loadRatchet ...
Reply(h) ==
  /\ hand[h].pc = "idle" /\ pRatchet # NoRatchet
  /\ hand' = [hand EXCEPT ![h] = [Free EXCEPT !.pc = "reply", !.r = pRatchet]]
  /\ UNCHANGED <<userVars, netVars, tables, serverKeys, phoneKeys, pRatchet, inbox, opened, reopened>>

\* ... nextSendKey, which leaves the receiving half as it was loaded, saveRatchet,
\* and an event the server refuses.
SaveReply(h) ==
  /\ hand[h].pc = "reply"
  /\ pRatchet' = hand[h].r
  /\ hand' = [hand EXCEPT ![h] = Free]
  /\ UNCHANGED <<userVars, netVars, tables, serverKeys, phoneKeys, inbox, opened, reopened>>

\* An upload under way may still reach the server.
PhoneKilled ==
  /\ hand' = [h \in Handlers |-> Free] /\ prep' = {}
  /\ UNCHANGED <<userVars, netVars, tables, serverKeys, spk, opks, used, upload, pRatchet, inbox, opened, reopened>>

-----------------------------------------------------------------------------
SendStep(u) ==
  \/ Fetch(u) \/ FetchFails(u) \/ Seal(u) \/ HandOver(u)
  \/ \E m \in Msgs : SendText(u, m)
ProvisionStep == Launch \/ \E p \in prep : Count(p) \/ Stock(p)
LinkStep == Connect \/ Break \/ Reconnect \/ Disconnect \/ UserKilled
HandleStep(h) ==
  \/ LookupPrekeys(h) \/ ConsumePrekey(h) \/ LoadRatchet(h) \/ OpenEnvelope(h)
  \/ InsertMessage(h) \/ RelayInbound(h) \/ AckServer(h) \/ Reply(h) \/ SaveReply(h)
  \/ \E m \in Msgs, real \in BOOLEAN : Receive(h, m, real)

Next ==
  \/ \E u \in Senders : SendStep(u)
  \/ LinkStep
  \/ \E m \in Msgs : ServerSend(m)
  \/ ProvisionStep \/ (\E p \in upload : Upload(p)) \/ PhoneKilled
  \/ \E h \in Handlers : HandleStep(h)

Spec == Init /\ [][Next]_vars

-----------------------------------------------------------------------------
(* Properties.                                                             *)

Ratchets  == [session : Msgs \cup {NoMsg}, n : Nat]
Envelopes == [session : Msgs \cup {NoMsg}, n : Nat, opk : Opks \cup {NoOpk}, spk : Nat]

SendStates ==
       [pc : {"idle"}, m : {NoMsg}, r : Ratchets, opk : Opks \cup {NoOpk}, spk : Nat]
  \cup [pc : {"fetch", "save", "hand"}, m : Msgs, r : Ratchets, opk : Opks \cup {NoOpk}, spk : Nat]
HandStates ==
       [pc : {"idle", "reply"}, m : {NoMsg}, real : BOOLEAN, r : Ratchets]
  \cup [pc : {"lookup", "consume", "load", "open", "insert", "relay", "ack"},
        m : Msgs, real : BOOLEAN, r : Ratchets]

\* Every variable stays in its type; no launch uploads more one-time prekeys than
\* the pool it aims at.
TypeOK ==
  /\ typed \subseteq Msgs /\ handed \subseteq Msgs
  /\ send \in [Senders -> SendStates]
  /\ uRatchet \in Ratchets /\ env \in [Msgs -> Envelopes]
  /\ outbox \subseteq Msgs /\ link \in {"off", "up", "broken"} /\ uplink \subseteq Msgs
  /\ rows \subseteq Msgs /\ retried \subseteq Msgs /\ acked \subseteq Msgs /\ mirrored \subseteq Msgs
  /\ pool \subseteq Opks /\ spkUp \in Nat
  /\ spk \in Nat /\ opks \subseteq Opks /\ used \subseteq Opks
  /\ prep \subseteq [spk : Nat, pc : {"count", "stock"}, short : 0 .. TargetPool]
  /\ upload \subseteq [spk : Nat, opks : {f \in SUBSET Opks : Cardinality(f) <= TargetPool}]
  /\ hand \in [Handlers -> HandStates]
  /\ pRatchet \in Ratchets
  /\ inbox \subseteq Msgs /\ opened \subseteq Msgs /\ reopened \subseteq Msgs

\* No message key seals two messages that leave the app ("Message keys are
\* derived per-message and immediately destroyed after use", docs/SECURITY.md:66):
\* the ratchet is saved before an envelope is handed over, so a kill between any
\* two steps of sendText, or a resend from the outbox, never reuses one.
KeyUsedOnce ==
  \A a, b \in handed : env[a].session = env[b].session /\ env[a].n = env[b].n => a = b

\* The phone holds the private half of every one-time prekey the server can still
\* hand out, whatever uploads fail half-way or overtake each other and whatever
\* bootstraps it answers meanwhile: otherwise the next bootstrap is discarded.
PoolIsHeld == pool \subseteq opks

\* The phone opens the messages of a session in order and without a gap, through
\* lost, repeated and reordered events and kills on both sides.
OpenedInOrder ==
  \A m \in opened : \A i \in 0 .. env[m].n :
    \E k \in opened : env[k].session = env[m].session /\ env[k].n = i

\* The session of a message began with a one-time prekey, which the phone gives
\* up when it answers the bootstrap.
Protected(m) == env[m].session \in Msgs /\ env[env[m].session].opk # NoOpk

\* Delivery is only confirmed for a message that is in the phone's database.
AckedIsKept == acked \subseteq inbox

\* A message leaves the outbox only when the server has stored it.
OutboxUntilStored == [][outbox \ outbox' \subseteq rows']_vars

\* The way of a message through both apps is what module Courier promises, with
\* any overlap of handlers: nothing is opened before it is stored or ahead of its
\* predecessors, shown or confirmed before it is kept, forgotten before it is
\* stored.
Places == [m \in Msgs |-> [session |-> env[m].session, n |-> env[m].n]]
courier == INSTANCE Courier WITH place <- Places, due <- outbox, posted <- rows, kept <- inbox, shown <- mirrored
ImplementsCourier == courier!Spec
=============================================================================
