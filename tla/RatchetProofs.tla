----------------------------- MODULE RatchetProofs -----------------------------
(***************************************************************************)
(* Theorems about Conversation and Overlap: what becomes of one-time       *)
(* prekeys, of message keys, and of the order in which messages are        *)
(* opened, for any number of messages, prekeys, launches, runs of sendText *)
(* and handlers. That keys are used once and messages opened once fails    *)
(* where runs overlap, and the theorems say that it fails nowhere else.    *)
(***************************************************************************)
EXTENDS ConversationProofs, Overlap

-----------------------------------------------------------------------------
(* One-time prekeys.                                                       *)

\* The prekeys that a bundle has taken out of the pool.
Taken == {send[u].opk : u \in Senders} \cup {env[m].opk : m \in Msgs}

\* Every prekey is in one place: still to be uploaded, in the server's pool, or
\* taken; in the first two the phone holds its private half.
Placed ==
  /\ pool \subseteq opks /\ opks \subseteq used /\ Taken \subseteq used \cup {NoOpk}
  /\ pool \cap Taken = {}
  /\ \A p \in upload : p.opks \subseteq opks /\ p.opks \cap (pool \cup Taken) = {}
  /\ \A p, q \in upload : p # q => p.opks \cap q.opks = {}

\* A step that takes no prekey, makes none and gives none up.
LEMMA PlacedQuiet ==
  ASSUME TypeOK, Placed, UNCHANGED <<pool, opks, used, upload>>, Taken' \subseteq Taken \cup {NoOpk}
  PROVE  Placed'
<1>1. pool \subseteq Opks /\ NoOpk \notin Opks /\ \A p \in upload : p.opks \subseteq Opks
  BY ConversationAssumption DEF TypeOK
<1>2. QED
  BY <1>1 DEF Placed

\* What a run of sendText may add to the prekeys taken.
LEMMA TakenBy ==
  ASSUME TypeOK, NEW u \in Senders, NEW s, send' = [send EXCEPT ![u] = s], env' = env
  PROVE  Taken' \subseteq Taken \cup {s.opk}
<1>1. \A v \in Senders : send'[v] = IF v = u THEN s ELSE send[v]
  BY DEF TypeOK
<1>2. QED
  BY <1>1 DEF Taken

\* A step of sendText takes a prekey out of the pool, or none.
LEMMA PlacedSend ==
  ASSUME TypeOK, Placed, NEW u \in Senders, SendStep(u)
  PROVE  Placed'
<1> USE DEF userVars, netVars, tables, serverKeys, phoneKeys, phoneVars
<1>0. Resting.opk = NoOpk /\ send[u] \in SendStates
  BY DEF Resting, TypeOK
<1>1. CASE Fetch(u)
  <2>1. PICK o \in IF pool = {} THEN {NoOpk} ELSE pool :
          /\ pool' = HandedOut(o)
          /\ send' = [send EXCEPT ![u] = [send[u] EXCEPT
                        !.pc = "save", !.r = [session |-> send[u].m, n |-> 0],
                        !.opk = o, !.spk = spkUp]]
    BY <1>1 DEF Fetch
  <2>2. [send[u] EXCEPT !.pc = "save", !.r = [session |-> send[u].m, n |-> 0],
                        !.opk = o, !.spk = spkUp].opk = o
    BY <1>0 DEF SendStates
  <2>3. Taken' \subseteq Taken \cup {o}
    BY <1>1, <2>1, <2>2, TakenBy DEF Fetch
  <2>4. UNCHANGED <<opks, used, upload>> /\ pool' = pool \ {o} /\ (o \in pool \/ o = NoOpk)
    BY <1>1, <2>1 DEF Fetch, HandedOut
  <2>5. pool \subseteq Opks /\ NoOpk \notin Opks /\ \A p \in upload : p.opks \subseteq Opks
    BY ConversationAssumption DEF TypeOK
  <2>6. \A p \in upload : o \notin p.opks
    BY <2>4, <2>5 DEF Placed
  <2>7. QED
    BY <2>3, <2>4, <2>5, <2>6 DEF Placed
<1>2. CASE FetchFails(u) \/ HandOver(u)
  <2>1. Taken' \subseteq Taken \cup {NoOpk} /\ UNCHANGED <<pool, opks, used, upload>>
    BY <1>0, <1>2, TakenBy DEF FetchFails, HandOver
  <2>2. QED
    BY <2>1, PlacedQuiet
<1>3. CASE Seal(u)
  <2>1. [send[u] EXCEPT !.pc = "hand"].opk = send[u].opk
    BY <1>0 DEF SendStates
  <2>2. \A v \in Senders : send'[v].opk = send[v].opk
    BY <1>3, <2>1 DEF Seal, TypeOK
  <2>3. \A m \in Msgs : env'[m].opk \in {env[m].opk, send[u].opk}
    BY <1>3 DEF Seal, TypeOK
  <2>4. Taken' \subseteq Taken /\ UNCHANGED <<pool, opks, used, upload>>
    BY <1>3, <2>2, <2>3 DEF Taken, Seal
  <2>5. QED
    BY <2>4, PlacedQuiet
<1>4. ASSUME NEW m \in Msgs, SendText(u, m)
      PROVE  Placed'
  <2> DEFINE s == [Resting EXCEPT !.pc = IF uRatchet = NoRatchet THEN "fetch" ELSE "save", !.m = m, !.r = uRatchet]
  <2>1. send' = [send EXCEPT ![u] = s] /\ env' = env /\ UNCHANGED <<pool, opks, used, upload>>
    BY <1>4 DEF SendText
  <2>2. s.opk = NoOpk
    BY DEF Resting
  <2> HIDE DEF s
  <2>3. Taken' \subseteq Taken \cup {NoOpk}
    BY <2>1, <2>2, TakenBy
  <2>4. QED
    BY <2>1, <2>3, PlacedQuiet
<1>5. QED
  BY <1>1, <1>2, <1>3, <1>4 DEF SendStep

\* Batches are made of prekeys that have never been, and the phone gives up only
\* what has been taken.
LEMMA PlacedNext == TypeOK /\ Placed /\ [Next]_vars => Placed'
<1> SUFFICES ASSUME TypeOK, Placed, [Next]_vars
             PROVE  Placed'
  OBVIOUS
<1> USE DEF userVars, netVars, tables, serverKeys, phoneKeys, phoneVars
<1>0. ASSUME UNCHANGED <<send, env, pool, opks, used, upload>>
      PROVE  Placed'
  BY <1>0, PlacedQuiet DEF Taken
<1>1. ASSUME NEW u \in Senders, SendStep(u)
      PROVE  Placed'
  BY <1>1, PlacedSend
<1>2. CASE LinkStep
  <2>1. CASE UserKilled
    <3>1. Resting.opk = NoOpk
      BY DEF Resting
    <3>2. Taken' \subseteq Taken \cup {NoOpk} /\ UNCHANGED <<pool, opks, used, upload>>
      BY <2>1, <3>1 DEF UserKilled, Taken
    <3>3. QED
      BY <3>2, PlacedQuiet
  <2>2. QED
    BY <1>0, <1>2, <2>1 DEF LinkStep, Connect, Break, Reconnect, Disconnect
<1>3. CASE (\E m \in Msgs : ServerSend(m)) \/ PhoneKilled \/ UNCHANGED vars
  BY <1>0, <1>3 DEF ServerSend, PhoneKilled, vars
<1>4. CASE ProvisionStep
  <2>1. CASE Launch \/ \E p \in prep : Count(p)
    BY <1>0, <2>1 DEF Launch, Count
  <2>2. ASSUME NEW p \in prep, Stock(p)
        PROVE  Placed'
    <3>1. PICK f \in Batches(p.short) :
            /\ opks' = opks \cup f
            /\ used' = used \cup f
            /\ upload' = upload \cup {[spk |-> p.spk, opks |-> f]}
      BY <2>2 DEF Stock
    <3> DEFINE new == [spk |-> p.spk, opks |-> f]
    <3>2. new.opks = f /\ upload' = upload \cup {new}
      BY <3>1
    <3> HIDE DEF new
    <3>3. pool' = pool /\ Taken' = Taken
      BY <2>2 DEF Stock, Taken
    <3>4. f \cap used = {} /\ NoOpk \notin f
      BY ConversationAssumption DEF Batches
    <3>5. f \cap (pool \cup Taken) = {} /\ \A q \in upload : f \cap q.opks = {}
      BY <3>4 DEF Placed
    <3>6. \A q, w \in upload' : q # w => q.opks \cap w.opks = {}
      BY <3>2, <3>5 DEF Placed
    <3>7. \A q \in upload' : q.opks \subseteq opks' /\ q.opks \cap (pool \cup Taken) = {}
      BY <3>1, <3>2, <3>5 DEF Placed
    <3>8. QED
      BY <3>1, <3>3, <3>6, <3>7 DEF Placed
  <2>3. QED
    BY <1>4, <2>1, <2>2 DEF ProvisionStep
<1>5. ASSUME NEW p \in upload, Upload(p)
      PROVE  Placed'
  <2>1. upload' = upload \ {p} /\ UNCHANGED <<opks, used>> /\ Taken' = Taken
    BY <1>5 DEF Upload, Taken
  <2>2. pool' \subseteq pool \cup p.opks
    BY <1>5 DEF Upload
  <2>3. QED
    BY <2>1, <2>2 DEF Placed
<1>6. ASSUME NEW h \in Handlers, HandleStep(h)
      PROVE  Placed'
  <2>1. CASE ConsumePrekey(h)
    <3>1. hand[h].m \in Msgs
      BY <2>1 DEF ConsumePrekey, TypeOK, HandStates
    <3>2. /\ opks' = opks \ {env[hand[h].m].opk} /\ env[hand[h].m].opk \in Taken
          /\ Taken' = Taken /\ UNCHANGED <<pool, used, upload>>
      BY <2>1, <3>1 DEF ConsumePrekey, Consumed, Taken
    <3>3. QED
      BY <3>2 DEF Placed
  <2>2. QED
    BY <1>0, <1>6, <2>1 DEF HandleStep, LookupPrekeys, LoadRatchet, OpenEnvelope, InsertMessage, RelayInbound,
                            AckServer, Reply, SaveReply, Receive
<1>7. QED
  BY <1>1, <1>2, <1>3, <1>4, <1>5, <1>6 DEF Next

\* No prekey is in two places, however launches, uploads that fail half-way,
\* bundles and bootstraps interleave.
THEOREM PrekeysPlaced == Spec => []Placed
<1>1. Init => Placed
  BY DEF Init, Placed, Taken, Resting, NoEnvelope
<1>2. QED
  BY <1>1, PlacedNext, TypeCorrect, PTL DEF Spec

\* The phone holds the private half of whatever the server can still hand out.
THEOREM PoolHeld == Spec => []PoolIsHeld
<1>1. Placed => PoolIsHeld
  BY DEF Placed, PoolIsHeld
<1>2. QED
  BY <1>1, PrekeysPlaced, PTL

-----------------------------------------------------------------------------
(* Envelopes.                                                              *)

Sealed(m) == env[m].session \in Msgs

\* An envelope is sealed once, before its message is handed over, and belongs to
\* a session whose first envelope is sealed too; what reaches the phone is sealed.
Ledger ==
  /\ uRatchet = NoRatchet \/ (uRatchet.session \in Msgs /\ Sealed(uRatchet.session))
  /\ \A m \in Msgs : Sealed(m) => m \in typed /\ Sealed(env[m].session)
  /\ \A u \in Senders :
       LET s == send[u]
       IN /\ s.pc # "idle" => s.m \in typed
          /\ s.pc \in {"fetch", "save"} => ~ Sealed(s.m)
          /\ s.pc = "save" => s.r.session \in Msgs /\ (s.r.session = s.m \/ Sealed(s.r.session))
          /\ s.pc = "hand" => Sealed(s.m)
  /\ \A u, v \in Senders : u # v /\ send[u].pc # "idle" /\ send[v].pc # "idle" => send[u].m # send[v].m
  /\ \A m \in handed : Sealed(m)
  /\ outbox \subseteq handed /\ uplink \subseteq handed /\ rows \subseteq handed /\ retried \subseteq rows
  /\ \A h \in Handlers : hand[h].pc \notin {"idle", "reply"} => hand[h].m \in rows

\* What has been sealed stays as it was sealed.
EnvKept == \A m \in Msgs : Sealed(m) => env'[m] = env[m]

\* A run of sendText writes the envelope of its own message, which nobody else
\* has, and hands it over afterwards.
LEMMA LedgerSend ==
  ASSUME TypeOK, Ledger, NEW u \in Senders, SendStep(u)
  PROVE  Ledger' /\ EnvKept
<1> USE DEF userVars, netVars, tables, serverKeys, phoneKeys, phoneVars
<1>0. /\ Resting.pc = "idle" /\ send[u] \in SendStates /\ NoMsg \notin Msgs
      /\ rows \subseteq Msgs /\ hand' = hand /\ rows' = rows /\ retried' = retried
      /\ \A v \in Senders : send[v] \in SendStates
  BY ConversationAssumption
     DEF Resting, TypeOK, SendStep, Fetch, FetchFails, Seal, HandOver, SendText
<1>1. CASE Fetch(u)
  <2>1. PICK o : /\ send' = [send EXCEPT ![u] = [send[u] EXCEPT
                        !.pc = "save", !.r = [session |-> send[u].m, n |-> 0],
                        !.opk = o, !.spk = spkUp]]
    BY <1>1 DEF Fetch
  <2> DEFINE s == [send[u] EXCEPT !.pc = "save", !.r = [session |-> send[u].m, n |-> 0],
                                  !.opk = o, !.spk = spkUp]
  <2>2. s.pc = "save" /\ s.m = send[u].m /\ s.r.session = send[u].m
    BY <1>0 DEF SendStates
  <2>3. send[u].pc = "fetch" /\ send[u].m \in Msgs
    BY <1>0, <1>1 DEF Fetch, SendStates
  <2> HIDE DEF s
  <2>4. \A v \in Senders : send'[v] = IF v = u THEN s ELSE send[v]
    BY <2>1 DEF TypeOK, s
  <2>5. UNCHANGED <<typed, uRatchet, env, handed, outbox, uplink>>
    BY <1>1 DEF Fetch
  <2>6. QED
    BY <1>0, <2>2, <2>3, <2>4, <2>5 DEF Ledger, Sealed, EnvKept
<1>2. CASE FetchFails(u)
  <2>1. \A v \in Senders : send'[v] = IF v = u THEN Resting ELSE send[v]
    BY <1>2 DEF TypeOK, FetchFails
  <2>2. UNCHANGED <<typed, uRatchet, env, handed, outbox, uplink>>
    BY <1>2 DEF FetchFails
  <2>3. QED
    BY <1>0, <2>1, <2>2 DEF Ledger, Sealed, EnvKept
<1>3. CASE Seal(u)
  <2> DEFINE m == send[u].m
             s == [send[u] EXCEPT !.pc = "hand"]
             e == [session |-> send[u].r.session, n |-> send[u].r.n, opk |-> send[u].opk, spk |-> send[u].spk]
             Now(k) == env'[k].session \in Msgs
  <2>1. m \in Msgs /\ s.pc = "hand" /\ s.m = m /\ send[u].pc = "save"
    BY <1>0, <1>3 DEF Seal, SendStates
  <2>2. send[u].r \in Ratchets /\ e.session = send[u].r.session /\ Advanced(send[u].r).session = send[u].r.session
    BY <1>0 DEF SendStates, Advanced, Ratchets
  <2>3. send' = [send EXCEPT ![u] = s] /\ env' = [env EXCEPT ![m] = e]
        /\ uRatchet' = Advanced(send[u].r) /\ UNCHANGED <<typed, handed, outbox, uplink>>
    BY <1>3 DEF Seal
  <2>5. ~ Sealed(m) /\ m \in typed /\ e.session \in Msgs /\ (e.session = m \/ Sealed(e.session))
    BY <2>1, <2>2 DEF Ledger
  <2>10. \A v \in Senders : v # u /\ send[v].pc # "idle" => send[v].m # m
    BY <2>1 DEF Ledger
  <2> HIDE DEF m, s, e
  <2>4. /\ \A v \in Senders : send'[v] = IF v = u THEN s ELSE send[v]
        /\ \A k \in Msgs : env'[k] = IF k = m THEN e ELSE env[k]
    BY <2>3 DEF TypeOK
  <2>6. EnvKept
    BY <2>4, <2>5 DEF EnvKept
  <2>7. \A k \in Msgs : Now(k) <=> Sealed(k) \/ k = m
    BY <2>4, <2>5 DEF Sealed
  <2>8. uRatchet'.session \in Msgs /\ Now(uRatchet'.session)
    <3>1. uRatchet'.session = e.session
      BY <2>2, <2>3
    <3>2. QED
      BY <2>5, <2>7, <3>1
  <2>9. \A k \in Msgs : Now(k) => k \in typed /\ Now(env'[k].session)
    <3>1. Now(e.session)
      BY <2>5, <2>7
    <3>2. \A k \in Msgs : Sealed(k) => env[k].session \in Msgs /\ Sealed(env[k].session)
      BY DEF Sealed, Ledger
    <3>3. ASSUME NEW k \in Msgs, Now(k), k # m
          PROVE  k \in typed /\ Now(env'[k].session)
      <4>1. env'[k] = env[k] /\ Sealed(k)
        BY <2>4, <2>7, <3>3
      <4>2. QED
        BY <2>7, <3>2, <4>1 DEF Ledger
    <3>4. env'[m].session = e.session
      BY <2>1, <2>4
    <3> HIDE DEF Now
    <3>5. QED
      BY <2>5, <3>1, <3>3, <3>4
  <2>11. ASSUME NEW v \in Senders
         PROVE  /\ send'[v].pc # "idle" => send'[v].m \in typed
                /\ send'[v].pc \in {"fetch", "save"} => ~ Now(send'[v].m)
                /\ send'[v].pc = "save" =>
                     /\ send'[v].r.session \in Msgs
                     /\ send'[v].r.session = send'[v].m \/ Now(send'[v].r.session)
                /\ send'[v].pc = "hand" => Now(send'[v].m)
    <3> HIDE DEF Now
    <3>1. CASE v = u
      BY <2>1, <2>4, <2>5, <2>7, <3>1
    <3>2. CASE v # u
      <4>1. send'[v] = send[v] /\ (send[v].pc # "idle" => send[v].m \in Msgs /\ send[v].m # m)
        BY <1>0, <2>4, <2>10, <3>2 DEF SendStates
      <4>2. QED
        BY <2>7, <4>1 DEF Ledger
    <3>3. QED
      BY <3>1, <3>2
  <2>12. \A v, w \in Senders : v # w /\ send'[v].pc # "idle" /\ send'[w].pc # "idle" => send'[v].m # send'[w].m
    BY <2>1, <2>4, <2>10 DEF Ledger
  <2>13. \A k \in handed : Now(k)
    BY <2>7 DEF Ledger, TypeOK
  <2>14. QED
    BY <1>0, <2>3, <2>6, <2>8, <2>9, <2>11, <2>12, <2>13 DEF Ledger, Sealed
<1>4. CASE HandOver(u)
  <2>1. \A v \in Senders : send'[v] = IF v = u THEN Resting ELSE send[v]
    BY <1>4 DEF TypeOK, HandOver
  <2>2. /\ UNCHANGED <<typed, uRatchet, env>> /\ handed' = handed \cup {send[u].m}
        /\ outbox' \subseteq outbox \cup {send[u].m} /\ uplink' \subseteq uplink \cup {send[u].m}
        /\ send[u].pc = "hand"
    BY <1>4 DEF HandOver
  <2>3. QED
    BY <1>0, <2>1, <2>2 DEF Ledger, Sealed, EnvKept
<1>5. ASSUME NEW m \in Msgs, SendText(u, m)
      PROVE  Ledger' /\ EnvKept
  <2> DEFINE s == [Resting EXCEPT !.pc = IF uRatchet = NoRatchet THEN "fetch" ELSE "save", !.m = m, !.r = uRatchet]
  <2>1. send' = [send EXCEPT ![u] = s] /\ m \notin typed /\ typed' = typed \cup {m}
        /\ UNCHANGED <<uRatchet, env, handed, outbox, uplink>>
    BY <1>5 DEF SendText
  <2>2. s.m = m /\ s.r = uRatchet /\ s.pc \in {"fetch", "save"} /\ (s.pc = "save" => uRatchet # NoRatchet)
    BY DEF Resting
  <2> HIDE DEF s
  <2>3. \A v \in Senders : send'[v] = IF v = u THEN s ELSE send[v]
    BY <2>1 DEF TypeOK
  <2>4. QED
    BY <1>0, <2>1, <2>2, <2>3 DEF Ledger, Sealed, EnvKept
<1>6. QED
  BY <1>1, <1>2, <1>3, <1>4, <1>5 DEF SendStep

\* A handler keeps its message until it is done, and takes up stored ones only.
LEMMA HandKeeps ==
  ASSUME TypeOK, Ledger, NEW h \in Handlers, HandleStep(h)
  PROVE  /\ \A g \in Handlers \ {h} : hand'[g] = hand[g]
         /\ hand'[h].pc \notin {"idle", "reply"} => hand'[h].m \in rows
<1> USE DEF userVars, netVars, tables, serverKeys, phoneKeys, phoneVars
<1>0. /\ hand[h] \in HandStates /\ Free.pc = "idle"
      /\ hand[h].pc \notin {"idle", "reply"} => hand[h].m \in rows
  BY DEF TypeOK, Free, Ledger
<1>1. \A g \in Handlers \ {h} : hand'[g] = hand[g]
  BY DEF TypeOK, HandleStep, LookupPrekeys, ConsumePrekey, LoadRatchet, OpenEnvelope, InsertMessage, RelayInbound,
         AckServer, Reply, SaveReply, Receive
<1>2. ASSUME NEW s, hand' = [hand EXCEPT ![h] = s], s.pc \in {"idle", "reply"} \/ s.m \in rows
      PROVE  hand'[h].pc \notin {"idle", "reply"} => hand'[h].m \in rows
  BY <1>2 DEF TypeOK
<1>4. CASE LookupPrekeys(h) \/ ConsumePrekey(h) \/ LoadRatchet(h) \/ OpenEnvelope(h) \/ InsertMessage(h) \/ RelayInbound(h)
  <2>1. hand[h].m \in rows
    BY <1>0, <1>4 DEF LookupPrekeys, ConsumePrekey, LoadRatchet, OpenEnvelope, InsertMessage, RelayInbound
  <2>2. CASE hand' = [hand EXCEPT ![h] = Free]
    BY <1>0, <1>2, <2>2
  <2>3. CASE ConsumePrekey(h) \/ InsertMessage(h) \/ RelayInbound(h)
    BY <1>0, <2>1, <2>3 DEF ConsumePrekey, InsertMessage, RelayInbound, TypeOK, HandStates
  <2>4. CASE LookupPrekeys(h) /\ hand' # [hand EXCEPT ![h] = Free]
    <3> DEFINE r == IF env[hand[h].m].spk = spk THEN [session |-> env[hand[h].m].session, n |-> 0] ELSE NoRatchet
    <3>1. hand' = [hand EXCEPT ![h] = [hand[h] EXCEPT !.pc = "consume", !.r = r]]
      BY <2>4 DEF LookupPrekeys, Discarded
    <3> HIDE DEF r
    <3>2. QED
      BY <1>0, <2>1, <3>1 DEF TypeOK, HandStates
  <2>5. CASE LoadRatchet(h) /\ hand' # [hand EXCEPT ![h] = Free]
    BY <1>0, <2>1, <2>5 DEF LoadRatchet, Discarded, TypeOK, HandStates
  <2>6. CASE OpenEnvelope(h) /\ hand' # [hand EXCEPT ![h] = Free]
    BY <1>0, <2>1, <2>6 DEF OpenEnvelope, Discarded, TypeOK, HandStates
  <2>7. QED
    BY <1>4, <2>2, <2>3, <2>4, <2>5, <2>6
<1>5. CASE AckServer(h) \/ SaveReply(h)
  <2>1. hand' = [hand EXCEPT ![h] = Free]
    BY <1>5 DEF AckServer, SaveReply
  <2>2. QED
    BY <1>0, <1>2, <2>1
<1>6. CASE Reply(h)
  <2>1. [Free EXCEPT !.pc = "reply", !.r = pRatchet].pc = "reply"
    BY DEF Free
  <2>2. QED
    BY <1>2, <1>6, <2>1 DEF Reply
<1>7. ASSUME NEW m \in Msgs, NEW real \in BOOLEAN, Receive(h, m, real)
      PROVE  hand'[h].pc \notin {"idle", "reply"} => hand'[h].m \in rows
  <2>1. m \in rows
    BY <1>7 DEF Receive, Deliverable, Ledger
  <2>2. [Free EXCEPT !.pc = IF Bootstraps(m) THEN "lookup" ELSE "load", !.m = m, !.real = real].m = m
    BY DEF Free
  <2>3. QED
    BY <1>2, <1>7, <2>1, <2>2 DEF Receive
<1>8. QED
  BY <1>1, <1>4, <1>5, <1>6, <1>7 DEF HandleStep

\* Nothing else makes an envelope or takes one back: the outbox, the socket and the
\* server hold messages that have been handed over.
LEMMA LedgerNext == TypeOK /\ Ledger /\ [Next]_vars => Ledger' /\ EnvKept
<1> SUFFICES ASSUME TypeOK, Ledger, [Next]_vars
             PROVE  Ledger' /\ EnvKept
  OBVIOUS
<1> USE DEF userVars, netVars, tables, serverKeys, phoneKeys, phoneVars
<1>1. ASSUME NEW u \in Senders, SendStep(u)
      PROVE  Ledger' /\ EnvKept
  BY <1>1, LedgerSend
<1>2. ASSUME UNCHANGED <<typed, send, uRatchet, env, handed>>,
             outbox' \subseteq handed, uplink' \subseteq handed, rows' \subseteq handed, retried' \subseteq rows',
             \A h \in Handlers : hand'[h].pc \notin {"idle", "reply"} => hand'[h].m \in rows'
      PROVE  Ledger' /\ EnvKept
  BY <1>2 DEF Ledger, Sealed, EnvKept
<1>3. CASE LinkStep
  <2>1. CASE UserKilled
    <3>1. \A u \in Senders : send'[u].pc = "idle"
      BY <2>1 DEF UserKilled, Resting
    <3>2. UNCHANGED <<typed, uRatchet, env, handed, outbox, rows, retried, hand>> /\ uplink' = {}
      BY <2>1 DEF UserKilled
    <3>3. QED
      BY <3>1, <3>2 DEF Ledger, Sealed, EnvKept
  <2>2. CASE Connect \/ Break \/ Reconnect \/ Disconnect
    <3>1. /\ UNCHANGED <<typed, send, uRatchet, env, handed, outbox, rows, retried, hand>>
          /\ uplink' \subseteq uplink \cup outbox
      BY <2>2 DEF Connect, Break, Reconnect, Disconnect, AfterFlush
    <3>2. QED
      BY <1>2, <3>1 DEF Ledger
  <2>3. QED
    BY <1>3, <2>1, <2>2 DEF LinkStep
<1>4. ASSUME NEW m \in Msgs, ServerSend(m)
      PROVE  Ledger' /\ EnvKept
  <2>1. /\ UNCHANGED <<typed, send, uRatchet, env, handed, hand>> /\ m \in uplink
        /\ uplink' \subseteq uplink /\ outbox' \subseteq outbox /\ rows' = rows \cup {m}
        /\ retried' \subseteq retried \cup {m}
    BY <1>4 DEF ServerSend
  <2>2. QED
    BY <1>2, <2>1 DEF Ledger
<1>5. ASSUME NEW h \in Handlers, HandleStep(h)
      PROVE  Ledger' /\ EnvKept
  <2>1. UNCHANGED <<typed, send, uRatchet, env, handed, outbox, uplink, rows, retried>>
    BY <1>5 DEF HandleStep, LookupPrekeys, ConsumePrekey, LoadRatchet, OpenEnvelope, InsertMessage, RelayInbound,
                AckServer, Reply, SaveReply, Receive
  <2>2. \A g \in Handlers : hand'[g].pc \notin {"idle", "reply"} => hand'[g].m \in rows'
    BY <1>5, <2>1, HandKeeps DEF Ledger
  <2>3. QED
    BY <1>2, <2>1, <2>2 DEF Ledger
<1>6. CASE ProvisionStep \/ (\E p \in upload : Upload(p)) \/ UNCHANGED vars
  <2>1. UNCHANGED <<typed, send, uRatchet, env, handed, outbox, uplink, rows, retried, hand>>
    BY <1>6 DEF ProvisionStep, Launch, Count, Stock, Upload, vars
  <2>2. QED
    BY <1>2, <2>1 DEF Ledger
<1>7. CASE PhoneKilled
  <2>1. UNCHANGED <<typed, send, uRatchet, env, handed, outbox, uplink, rows, retried>>
        /\ \A h \in Handlers : hand'[h].pc = "idle"
    BY <1>7 DEF PhoneKilled, Free
  <2>2. QED
    BY <1>2, <2>1 DEF Ledger
<1>8. QED
  BY <1>1, <1>3, <1>4, <1>5, <1>6, <1>7 DEF Next

\* What is in the outbox, under way, stored or in a handler of the phone has an
\* envelope, sealed before it was handed over and never sealed again.
THEOREM LedgerKept == Spec => []Ledger
<1>1. Init => Ledger
  BY ConversationAssumption DEF Init, Ledger, Sealed, Resting, NoEnvelope, Free
<1>2. QED
  BY <1>1, LedgerNext, TypeCorrect, PTL DEF Spec

-----------------------------------------------------------------------------
(* The receiving chain.                                                    *)

\* A ratchet has moved past messages that have been opened, each in its turn.
Walked(r, S, e) ==
  r.session \in Msgs =>
    \A i \in 0 .. r.n - 1 : \E k \in S : e[k].session = r.session /\ e[k].n = i

Chain ==
  /\ \A m \in opened : Sealed(m)
  /\ Walked(pRatchet, opened, env) /\ \A h \in Handlers : Walked(hand[h].r, opened, env)
  /\ OpenedInOrder

\* More messages opened take nothing back.
LEMMA WalkedOn ==
  ASSUME NEW r, NEW S, NEW T, S \subseteq T, NEW e, NEW f, \A k \in S : f[k] = e[k], Walked(r, S, e)
  PROVE  Walked(r, T, f)
BY DEF Walked

\* A ratchet at the start of a session, or of none, has nothing behind it.
LEMMA WalkedNowhere ==
  ASSUME NEW r, r.n = 0 \/ r.session = NoMsg, NEW S, NEW e
  PROVE  Walked(r, S, e)
<1>1. CASE r.n = 0
  <2>1. 0 .. r.n - 1 = {}
    BY <1>1
  <2>2. QED
    BY <2>1 DEF Walked
<1>2. CASE r.session = NoMsg
  BY <1>2, ConversationAssumption DEF Walked
<1>3. QED
  BY <1>1, <1>2

\* A ratchet that opens a message has walked past it, and the messages before it.
LEMMA OpenChain ==
  ASSUME TypeOK, Ledger, Chain, NEW h \in Handlers, OpenEnvelope(h), Opens(hand[h].r, env[hand[h].m])
  PROVE  Chain'
<1> DEFINE m == hand[h].m
           r == hand[h].r
<1>1. m \in Msgs /\ r \in Ratchets /\ m \in rows /\ Sealed(m)
  BY DEF OpenEnvelope, TypeOK, HandStates, Ledger
<1>2. opened' = opened \cup {m} /\ pRatchet' = Advanced(r) /\ env' = env
  BY DEF OpenEnvelope, Saved, userVars
<1>3. hand' = [hand EXCEPT ![h].pc = "insert"]
  BY DEF OpenEnvelope
<1>4. \A g \in Handlers : hand'[g].r = hand[g].r
  BY <1>3 DEF TypeOK, HandStates
<1>5. r.session = env[m].session /\ r.n = env[m].n /\ r.n \in Nat
  BY <1>1 DEF Opens, Ratchets
<1>6. Advanced(r).session = r.session /\ Advanced(r).n = r.n + 1
  BY <1>1 DEF Advanced, Ratchets
<1> HIDE DEF m, r
<1>7. Walked(r, opened, env)
  BY DEF Chain, r
<1>8. \A i \in 0 .. r.n : \E k \in opened' : env[k].session = r.session /\ env[k].n = i
  BY <1>1, <1>2, <1>5, <1>7 DEF Walked, Sealed
<1>9. Walked(pRatchet', opened', env')
  BY <1>2, <1>5, <1>6, <1>8 DEF Walked
<1>10. \A g \in Handlers : Walked(hand'[g].r, opened', env')
  BY <1>2, <1>4, WalkedOn DEF Chain
<1>11. OpenedInOrder'
  BY <1>2, <1>5, <1>8 DEF Chain, OpenedInOrder
<1>12. \A k \in opened' : env'[k].session \in Msgs
  BY <1>1, <1>2 DEF Chain, Sealed
<1>13. QED
  BY <1>9, <1>10, <1>11, <1>12 DEF Chain, Sealed

\* A step that opens nothing, and in which ratchets come from the saved one, from
\* the handlers', or from nowhere.
LEMMA QuietChain ==
  ASSUME TypeOK, Ledger, Chain, EnvKept, opened' = opened,
         pRatchet' = pRatchet \/ \E h \in Handlers : pRatchet' = hand[h].r,
         \A h \in Handlers : \/ hand'[h].r \in {hand[h].r, pRatchet}
                             \/ hand'[h].r.n = 0
  PROVE  Chain'
<1>1. \A k \in opened : env'[k] = env[k]
  BY DEF Chain, EnvKept, TypeOK
<1>2. Walked(pRatchet', opened', env')
  BY <1>1, WalkedOn DEF Chain
<1>3. \A h \in Handlers : Walked(hand'[h].r, opened', env')
  BY <1>1, WalkedOn, WalkedNowhere DEF Chain
<1>4. OpenedInOrder' /\ \A m \in opened' : Sealed(m)'
  BY <1>1 DEF Chain, OpenedInOrder, Sealed
<1>5. QED
  BY <1>2, <1>3, <1>4 DEF Chain

\* The other steps of a handler keep its ratchet, copy the saved one or save a copy.
LEMMA ChainNext == TypeOK /\ Ledger /\ Chain /\ [Next]_vars => Chain'
<1> SUFFICES ASSUME TypeOK, Ledger, Chain, [Next]_vars
             PROVE  Chain'
  OBVIOUS
<1> USE DEF userVars, netVars, tables, serverKeys, phoneKeys, phoneVars
<1>0. EnvKept
  BY LedgerNext
<1>1. CASE UNCHANGED <<opened, pRatchet, hand>>
  BY <1>0, <1>1, QuietChain
<1>2. CASE \/ \E u \in Senders : SendStep(u)
           \/ LinkStep \/ (\E m \in Msgs : ServerSend(m)) \/ ProvisionStep \/ (\E p \in upload : Upload(p))
           \/ UNCHANGED vars
  BY <1>1, <1>2
     DEF SendStep, Fetch, FetchFails, Seal, HandOver, SendText, LinkStep, Connect, Break, Reconnect, Disconnect,
         UserKilled, ServerSend, ProvisionStep, Launch, Count, Stock, Upload, vars
<1>3. CASE PhoneKilled
  <2>1. \A h \in Handlers : hand'[h].r.n = 0
    BY <1>3 DEF PhoneKilled, Free, NoRatchet
  <2>2. QED
    BY <1>0, <1>3, <2>1, QuietChain DEF PhoneKilled
<1>4. ASSUME NEW h \in Handlers, HandleStep(h)
      PROVE  Chain'
  <2>0. /\ \A g \in Handlers \ {h} : hand'[g] = hand[g]
        /\ Free.r.n = 0 /\ hand[h] \in HandStates /\ hand \in [Handlers -> HandStates]
    BY <1>4, HandKeeps DEF Free, NoRatchet, TypeOK
  <2>1. CASE OpenEnvelope(h)
    <3>1. CASE Opens(hand[h].r, env[hand[h].m])
      BY <2>1, <3>1, OpenChain
    <3>2. CASE ~ Opens(hand[h].r, env[hand[h].m])
      <4>1. hand' = [hand EXCEPT ![h] = Free] /\ UNCHANGED <<opened, pRatchet>>
        BY <2>1, <3>2 DEF OpenEnvelope, Discarded
      <4>2. QED
        BY <1>0, <2>0, <4>1, QuietChain
    <3>3. QED
      BY <3>1, <3>2
  <2>2. CASE SaveReply(h)
    <3>1. hand' = [hand EXCEPT ![h] = Free] /\ opened' = opened /\ pRatchet' = hand[h].r
      BY <2>2 DEF SaveReply
    <3>2. QED
      BY <1>0, <2>0, <3>1, QuietChain
  <2>3. ASSUME opened' = opened, pRatchet' = pRatchet, hand'[h].r \in {hand[h].r, pRatchet} \/ hand'[h].r.n = 0
        PROVE  Chain'
    BY <1>0, <2>0, <2>3, QuietChain
  <2>4. CASE ConsumePrekey(h) \/ InsertMessage(h) \/ RelayInbound(h) \/ AckServer(h)
    <3>1. hand'[h].r = hand[h].r \/ hand'[h] = Free
      BY <2>0, <2>4 DEF ConsumePrekey, InsertMessage, RelayInbound, AckServer, HandStates
    <3>2. opened' = opened /\ pRatchet' = pRatchet
      BY <2>4 DEF ConsumePrekey, InsertMessage, RelayInbound, AckServer
    <3>3. QED
      BY <2>0, <2>3, <3>1, <3>2
  <2>5. CASE LookupPrekeys(h)
    <3> DEFINE r == IF env[hand[h].m].spk = spk THEN [session |-> env[hand[h].m].session, n |-> 0] ELSE NoRatchet
    <3>1. /\ hand' = [hand EXCEPT ![h] = Free] \/ hand' = [hand EXCEPT ![h] = [hand[h] EXCEPT !.pc = "consume", !.r = r]]
          /\ opened' = opened /\ pRatchet' = pRatchet
      BY <2>5 DEF LookupPrekeys, Discarded
    <3>2. r.n = 0
      BY DEF NoRatchet
    <3> HIDE DEF r
    <3>3. hand'[h] = Free \/ hand'[h].r = r
      BY <2>0, <3>1 DEF HandStates
    <3>4. QED
      BY <2>0, <2>3, <3>1, <3>2, <3>3
  <2>6. CASE LoadRatchet(h)
    <3>1. hand'[h] = Free \/ hand'[h].r = pRatchet
      BY <2>0, <2>6 DEF LoadRatchet, Discarded, HandStates
    <3>2. opened' = opened /\ pRatchet' = pRatchet
      BY <2>6 DEF LoadRatchet
    <3>3. QED
      BY <2>0, <2>3, <3>1, <3>2
  <2>7. CASE Reply(h)
    <3>1. hand'[h].r = pRatchet /\ opened' = opened /\ pRatchet' = pRatchet
      BY <2>0, <2>7 DEF Reply, Free
    <3>2. QED
      BY <2>3, <3>1
  <2>8. ASSUME NEW m \in Msgs, NEW real \in BOOLEAN, Receive(h, m, real)
        PROVE  Chain'
    <3>1. hand'[h].r.n = 0 /\ opened' = opened /\ pRatchet' = pRatchet
      BY <2>0, <2>8 DEF Receive, Free, NoRatchet
    <3>2. QED
      BY <2>3, <3>1
  <2>9. QED
    BY <1>4, <2>1, <2>2, <2>4, <2>5, <2>6, <2>7, <2>8 DEF HandleStep
<1>5. QED
  BY <1>2, <1>3, <1>4 DEF Next

\* Every ratchet of the phone, saved or loaded, is past opened messages only, one
\* for each number.
THEOREM ChainKept == Spec => []Chain
<1>1. Init => Chain
  BY WalkedNowhere DEF Init, Chain, OpenedInOrder, NoRatchet, Free
<1>2. QED
  BY <1>1, ChainNext, LedgerKept, TypeCorrect, PTL DEF Spec

\* The phone opens the messages of a session in order and without a gap, however
\* many handlers overlap and whatever is lost, repeated, reordered or killed.
THEOREM InOrder == Spec => []OpenedInOrder
<1>1. Chain => OpenedInOrder
  BY DEF Chain
<1>2. QED
  BY <1>1, ChainKept, PTL

-----------------------------------------------------------------------------
(* The sending chain.                                                      *)

\* What overlapping runs do is noted, and nothing is struck out.
LEMMA OverlapStep ==
  ASSUME OverlapNext
  PROVE  /\ Next /\ sendRaced \subseteq sendRaced' /\ recvRaced \subseteq recvRaced'
         /\ \A u \in Senders : SealsOverlapping(u) => send[u].r.session \in sendRaced'
         /\ \A h \in Handlers : ConsumesOverlapping(h) => hand[h].m \in recvRaced'
         /\ \A h \in Handlers : OpensOverlapping(h) \/ SavesOverlapping(h) => hand[h].r.session \in recvRaced'
BY DEF OverlapNext

\* Overlap adds to the specification only its notes.
LEMMA Underneath == OverlapSpec => Spec
<1>1. OverlapInit => Init
  BY DEF OverlapInit
<1>2. [OverlapNext]_overlapVars => [Next]_vars
  BY DEF OverlapNext, overlapVars
<1>3. QED
  BY <1>1, <1>2, PTL DEF OverlapSpec, Spec

\* Where no run has saved the ratchet over another's, it is ahead of all that is
\* sealed in its session, and no two envelopes of a session have one number.
Keys ==
  /\ \A m \in Msgs : Sealed(m) /\ env[m].session = uRatchet.session /\ uRatchet.session \notin sendRaced =>
       env[m].n < uRatchet.n
  /\ \A a, b \in Msgs :
       Sealed(a) /\ Sealed(b) /\ env[a].session = env[b].session /\ env[a].n = env[b].n =>
         a = b \/ env[a].session \in sendRaced

\* A step that seals nothing and saves no ratchet.
LEMMA KeysQuiet ==
  ASSUME Keys, sendRaced \subseteq sendRaced', UNCHANGED <<uRatchet, env>>
  PROVE  Keys'
BY DEF Keys, Sealed

\* The run that seals takes the next number of the saved ratchet, or starts its own
\* session, in which nothing has been sealed, or else is noted.
LEMMA KeysSeal ==
  ASSUME TypeOK, Ledger, Keys, NEW u \in Senders, Seal(u), sendRaced \subseteq sendRaced',
         SealsOverlapping(u) => send[u].r.session \in sendRaced'
  PROVE  Keys'
<1> DEFINE m == send[u].m
           r == send[u].r
           e == [session |-> r.session, n |-> r.n, opk |-> send[u].opk, spk |-> send[u].spk]
<1>1. /\ send[u].pc = "save" /\ m \in Msgs /\ r \in Ratchets /\ ~ Sealed(m) /\ r.session \in Msgs
  BY DEF Seal, TypeOK, SendStates, Ledger
<1>2. env' = [env EXCEPT ![m] = e] /\ uRatchet' = Advanced(r)
  BY DEF Seal
<1>3. r.session = m \/ r = uRatchet \/ r.session \in sendRaced'
  BY DEF SealsOverlapping
<1>4. /\ e.session = r.session /\ e.n = r.n /\ r.n \in Nat
      /\ Advanced(r).session = r.session /\ Advanced(r).n = r.n + 1
  BY <1>1 DEF Ratchets, Advanced
<1>5. \A k \in Msgs : Sealed(k) => env[k].session # m
  BY <1>1 DEF Ledger, Sealed
<1> HIDE DEF m, r, e
<1>6. \A k \in Msgs : env'[k] = IF k = m THEN e ELSE env[k]
  BY <1>2 DEF TypeOK
<1>7. \A k \in Msgs : env[k].n \in Nat
  BY DEF TypeOK, Envelopes
<1>8. ASSUME r.session \notin sendRaced', NEW k \in Msgs, Sealed(k), env[k].session = r.session
      PROVE  env[k].n < r.n
  BY <1>3, <1>5, <1>8 DEF Keys
<1>9. \A k \in Msgs : Sealed(k)' /\ env'[k].session = uRatchet'.session /\ uRatchet'.session \notin sendRaced' =>
        env'[k].n < uRatchet'.n
  BY <1>2, <1>4, <1>6, <1>7, <1>8 DEF Sealed
<1>10. ASSUME NEW a \in Msgs, NEW b \in Msgs, Sealed(a)', Sealed(b)',
              env'[a].session = env'[b].session, env'[a].n = env'[b].n, a # b
       PROVE  env'[a].session \in sendRaced'
  <2>1. CASE a # m /\ b # m
    BY <1>6, <1>10, <2>1 DEF Sealed, Keys
  <2>2. CASE a = m \/ b = m
    <3>1. PICK k \in {a, b} : k # m /\ env'[k] = env[k]
      BY <1>6, <1>10, <2>2
    <3>2. Sealed(k) /\ env[k].session = r.session /\ env[k].n = r.n
      BY <1>4, <1>6, <1>10, <2>2, <3>1 DEF Sealed
    <3>3. r.session \in sendRaced'
      BY <1>4, <1>8, <3>2
    <3>4. QED
      BY <1>4, <1>6, <1>10, <2>2, <3>3
  <2>3. QED
    BY <2>1, <2>2
<1>11. QED
  BY <1>9, <1>10 DEF Keys

\* Only Seal makes an envelope, and it saves the ratchet in the same step.
LEMMA KeysNext == TypeOK /\ Ledger /\ Keys /\ [OverlapNext]_overlapVars => Keys'
<1> SUFFICES ASSUME TypeOK, Ledger, Keys, [OverlapNext]_overlapVars
             PROVE  Keys'
  OBVIOUS
<1> USE DEF userVars, netVars, tables, serverKeys, phoneKeys, phoneVars
<1>1. CASE UNCHANGED overlapVars
  BY <1>1, KeysQuiet DEF overlapVars, vars
<1>2. CASE OverlapNext
  <2>1. Next /\ sendRaced \subseteq sendRaced' /\ \A u \in Senders : SealsOverlapping(u) => send[u].r.session \in sendRaced'
    BY <1>2, OverlapStep
  <2>2. ASSUME NEW u \in Senders, Seal(u)
        PROVE  Keys'
    BY <2>1, <2>2, KeysSeal
  <2>3. ASSUME NEW u \in Senders, SendStep(u), ~ Seal(u)
        PROVE  UNCHANGED <<uRatchet, env>>
    BY <2>3 DEF SendStep, Fetch, FetchFails, HandOver, SendText
  <2>4. CASE \/ LinkStep \/ (\E m \in Msgs : ServerSend(m)) \/ ProvisionStep \/ (\E p \in upload : Upload(p))
             \/ PhoneKilled \/ (\E h \in Handlers : HandleStep(h))
    <3>1. UNCHANGED <<uRatchet, env>>
      BY <2>4
         DEF LinkStep, Connect, Break, Reconnect, Disconnect, UserKilled, ServerSend, ProvisionStep, Launch, Count,
             Stock, Upload, PhoneKilled, HandleStep, LookupPrekeys, ConsumePrekey, LoadRatchet, OpenEnvelope,
             InsertMessage, RelayInbound, AckServer, Reply, SaveReply, Receive
    <3>2. QED
      BY <2>1, <3>1, KeysQuiet
  <2>5. QED
    BY <2>1, <2>2, <2>3, <2>4, KeysQuiet DEF Next
<1>3. QED
  BY <1>1, <1>2

\* Two messages that leave the app share a key only in a session where one run of
\* sendText saved the ratchet over another's, whatever is killed, lost or sent
\* again.
THEOREM KeysNotReused == OverlapSpec => []KeySharedOnlyByRace
<1>1. OverlapInit => Keys
  BY ConversationAssumption DEF OverlapInit, Init, Keys, Sealed, NoEnvelope
<1>2. TypeOK /\ Ledger /\ Keys => KeySharedOnlyByRace
  BY DEF TypeOK, Ledger, Keys, KeySharedOnlyByRace
<1>3. QED
  BY <1>1, <1>2, KeysNext, Underneath, LedgerKept, TypeCorrect, PTL DEF OverlapSpec

-----------------------------------------------------------------------------
(* The phone.                                                              *)

\* Nothing has been opened of session s.
Untouched(s) == \A k \in opened : env[k].session # s

\* A handler that holds a ratchet it has loaded, and one that answers a bootstrap
\* and has given up the one-time prekey.
Loaded(w) == w.pc = "reply" \/ (w.pc = "open" /\ ~ Bootstraps(w.m))
Answering(w) == w.pc = "open" /\ Bootstraps(w.m) /\ env[w.m].opk # NoOpk

Steady(w) ==
  /\ w.pc \in {"lookup", "consume"} => Bootstraps(w.m)
  /\ w.pc = "load" => ~ Bootstraps(w.m)
  /\ Loaded(w) => w.r.session \in Msgs /\ w.r.n > 0
  /\ Answering(w) => env[w.m].opk \notin opks /\ (Untouched(w.m) \/ w.m \in recvRaced)
  /\ w.pc = "insert" => w.m \in opened

\* Two handlers that answer one bootstrap have used one prekey.
Alone ==
  \A g, h \in Handlers :
    Answering(hand[g]) /\ Answering(hand[h]) /\ hand[g].m = hand[h].m => g = h \/ hand[g].m \in recvRaced

\* The prekey of a session of which something has been opened is given up, and the
\* ratchet is past what has been opened, unless handlers have overlapped in it.
Once ==
  /\ \A m \in opened : Protected(m) =>
       /\ env[env[m].session].opk \notin opks
       /\ env[m].session = pRatchet.session => env[m].n < pRatchet.n \/ pRatchet.session \in recvRaced
  /\ pRatchet = NoRatchet \/ (pRatchet.session \in Msgs /\ pRatchet.n > 0)
  /\ \A h \in Handlers : Steady(hand[h])
  /\ Alone
  /\ ReopenedOnlyByRace /\ reopened \subseteq opened /\ inbox \subseteq opened

\* What the steps of others leave as it was, for one that opens nothing.
LEMMA OnceQuiet ==
  ASSUME TypeOK, Ledger, Chain, Once, EnvKept, UNCHANGED <<hand, pRatchet, inbox, opened, reopened>>,
         recvRaced \subseteq recvRaced',
         \A m \in Msgs : Sealed(m) /\ env[m].opk # NoOpk => (env[m].opk \in opks' <=> env[m].opk \in opks)
  PROVE  Once'
<1>1. \A m \in Msgs : Sealed(m) => env'[m] = env[m] /\ Sealed(env[m].session) /\ env[m].session \in Msgs
  BY DEF EnvKept, Ledger, Sealed
<1>2. \A m \in opened : m \in Msgs /\ Sealed(m) /\ env'[m] = env[m] /\ (Protected(m)' <=> Protected(m))
  BY <1>1 DEF Chain, Protected, TypeOK
<1>3. \A m \in opened : Protected(m) =>
         env'[env[m].session].opk \notin opks' /\ env'[env[m].session].opk = env[env[m].session].opk
  BY <1>1, <1>2 DEF Once, Protected
<1>4. \A h \in Handlers : hand[h].pc \in {"lookup", "consume", "load", "open"} =>
        hand[h].m \in Msgs /\ Sealed(hand[h].m) /\ env'[hand[h].m] = env[hand[h].m]
  BY <1>1 DEF Ledger, TypeOK
<1>5. \A h \in Handlers : (Answering(hand[h])' <=> Answering(hand[h])) /\ (Loaded(hand[h])' <=> Loaded(hand[h]))
  BY <1>4 DEF Answering, Loaded, Bootstraps
<1>6. ASSUME NEW h \in Handlers
      PROVE  Steady(hand[h])'
  <2>1. \A s : Untouched(s) => Untouched(s)'
    BY <1>2 DEF Untouched
  <2>2. Steady(hand[h]) /\ hand'[h] = hand[h]
    BY DEF Once
  <2>3. Answering(hand[h]) => env'[hand[h].m].opk \notin opks'
    BY <1>4, <2>2 DEF Steady, Answering
  <2>4. QED
    BY <1>4, <1>5, <2>1, <2>2, <2>3 DEF Steady, Bootstraps
<1>7. Alone'
  BY <1>5 DEF Once, Alone
<1>8. ReopenedOnlyByRace' /\ reopened' = reopened
  <2>1. reopened \subseteq opened
    BY DEF Once
  <2>2. QED
    BY <1>2, <2>1 DEF Once, ReopenedOnlyByRace
<1>9. \A m \in opened' : Protected(m)' =>
         /\ env'[env'[m].session].opk \notin opks'
         /\ env'[m].session = pRatchet'.session => env'[m].n < pRatchet'.n \/ pRatchet'.session \in recvRaced'
  BY <1>2, <1>3 DEF Once
<1>10. QED
  BY <1>6, <1>7, <1>8, <1>9 DEF Once

\* A step of a handler that opens nothing and saves nothing: its own state is what
\* matters.
LEMMA OnceHand ==
  ASSUME Once, NEW h \in Handlers, UNCHANGED <<env, pRatchet, opened, reopened>>,
         \A g \in Handlers \ {h} : hand'[g] = hand[g],
         opks' \subseteq opks, recvRaced \subseteq recvRaced', inbox' \subseteq opened, Steady(hand[h])',
         \A g \in Handlers \ {h} :
           Answering(hand[g]) /\ Answering(hand[h])' /\ hand[g].m = hand'[h].m => hand[g].m \in recvRaced'
  PROVE  Once'
<1>1. ASSUME NEW g \in Handlers, g # h
      PROVE  Steady(hand[g])' /\ (Answering(hand[g])' <=> Answering(hand[g]))
  <2>1. Steady(hand[g]) /\ hand'[g] = hand[g]
    BY <1>1 DEF Once
  <2>2. QED
    BY <2>1 DEF Steady, Bootstraps, Untouched, Loaded, Answering
<1>2. Alone'
  BY <1>1 DEF Once, Alone
<1>3. QED
  BY <1>1, <1>2 DEF Once, ReopenedOnlyByRace, Protected

\* A message is opened by the ratchet of its session, which is past all that has
\* been opened, or by its bootstrap, after the prekey is gone.
LEMMA OnceOpen ==
  ASSUME TypeOK, Ledger, Chain, Once, NEW h \in Handlers, OpenEnvelope(h),
         Opens(hand[h].r, env[hand[h].m]), recvRaced \subseteq recvRaced',
         OpensOverlapping(h) => hand[h].r.session \in recvRaced'
  PROVE  Once'
<1> DEFINE m == hand[h].m
           r == hand[h].r
<1>1. m \in Msgs /\ r \in Ratchets /\ m \in rows /\ Sealed(m) /\ hand[h].pc = "open" /\ Steady(hand[h])
  BY DEF OpenEnvelope, TypeOK, HandStates, Ledger, Once
<1>2. /\ opened' = opened \cup {m} /\ reopened' = reopened \cup ({m} \cap opened)
      /\ pRatchet' = Advanced(r) /\ UNCHANGED <<env, opks, inbox>>
  BY DEF OpenEnvelope, Saved, userVars, phoneKeys
<1>3. /\ hand'[h].pc = "insert" /\ hand'[h].m = m
      /\ \A g \in Handlers \ {h} : hand'[g] = hand[g] /\ Steady(hand[g])
  BY <1>1 DEF OpenEnvelope, TypeOK, HandStates, Once
<1>4. /\ r.session = env[m].session /\ r.n = env[m].n /\ r.n \in Nat /\ r.session \in Msgs
      /\ Advanced(r).session = r.session /\ Advanced(r).n = r.n + 1
  BY <1>1 DEF Opens, Ratchets, Advanced, Sealed
<1>5. ~ Bootstraps(m) => r.n > 0 /\ (r = pRatchet \/ r.session \in recvRaced')
  BY <1>1 DEF Steady, Loaded, OpensOverlapping
<1>6. Bootstraps(m) /\ env[m].opk # NoOpk =>
        /\ Answering(hand[h]) /\ env[m].opk \notin opks
        /\ Untouched(m) \/ m \in recvRaced'
  BY <1>1 DEF Steady, Answering
<1>7. \A k \in opened : env[k].n \in Nat
  BY DEF TypeOK, Envelopes
<1>8. ASSUME ~ Bootstraps(m)
      PROVE  \E k \in opened : env[k].session = r.session
  <2>1. Walked(r, opened, env) /\ 0 \in 0 .. r.n - 1
    BY <1>4, <1>5, <1>8 DEF Chain
  <2>2. QED
    BY <1>4, <2>1 DEF Walked
<1> HIDE DEF m, r
<1>9. Protected(m) => env[env[m].session].opk \notin opks
  <2>1. CASE Bootstraps(m)
    BY <1>6, <2>1 DEF Protected, Bootstraps
  <2>2. CASE ~ Bootstraps(m)
    BY <1>4, <1>8, <2>2 DEF Once, Protected
  <2>3. QED
    BY <2>1, <2>2
<1>10. ASSUME NEW k \in opened, Protected(k), env[k].session = r.session, r.session \notin recvRaced'
       PROVE  env[k].n < r.n
  <2>1. CASE Bootstraps(m)
    BY <1>4, <1>6, <1>10, <2>1 DEF Protected, Bootstraps, Untouched
  <2>2. CASE ~ Bootstraps(m)
    BY <1>4, <1>5, <1>10, <2>2 DEF Once
  <2>3. QED
    BY <2>1, <2>2
<1>11. \A k \in opened' : Protected(k)' =>
          /\ env'[env'[k].session].opk \notin opks'
          /\ env'[k].session = pRatchet'.session => env'[k].n < pRatchet'.n \/ pRatchet'.session \in recvRaced'
  <2>1. \A k \in opened : Protected(k) => env[env[k].session].opk \notin opks
    BY DEF Once
  <2>2. ASSUME NEW k \in opened', Protected(k), env[k].session = r.session, r.session \notin recvRaced'
        PROVE  env[k].n < r.n + 1
    BY <1>2, <1>4, <1>7, <1>10, <2>2
  <2>3. QED
    BY <1>2, <1>4, <1>9, <2>1, <2>2 DEF Protected
<1>12. ReopenedOnlyByRace'
  <2>1. ASSUME m \in opened, Protected(m)
        PROVE  env[m].session \in recvRaced'
    BY <1>4, <1>10, <2>1
  <2>2. QED
    BY <1>2, <2>1 DEF Once, ReopenedOnlyByRace, Protected
<1>13. Steady(hand[h])'
  BY <1>2, <1>3 DEF Steady, Loaded, Answering
<1>14. ASSUME NEW g \in Handlers, g # h
       PROVE  Steady(hand[g])' /\ (Answering(hand[g])' <=> Answering(hand[g]))
  <2>1. Answering(hand[g]) /\ hand[g].m = r.session => hand[g].m \in recvRaced'
    <3>1. CASE Bootstraps(m)
      <4>1. Answering(hand[g]) /\ hand[g].m = m => Answering(hand[h])
        BY <1>6, <3>1 DEF Answering
      <4>2. QED
        BY <1>4, <1>14, <3>1, <4>1 DEF Once, Alone, Bootstraps, m
    <3>2. CASE ~ Bootstraps(m)
      BY <1>3, <1>8, <1>14, <3>2 DEF Steady, Untouched
    <3>3. QED
      BY <3>1, <3>2
  <2>2. Answering(hand[g]) => Untouched(hand[g].m)' \/ hand[g].m \in recvRaced'
    BY <1>2, <1>3, <1>4, <1>14, <2>1 DEF Steady, Untouched
  <2>3. QED
    BY <1>2, <1>3, <1>14, <2>2 DEF Steady, Bootstraps, Loaded, Answering
<1>15. Alone'
  <2>1. ~ Answering(hand[h])'
    BY <1>3 DEF Answering
  <2>2. QED
    BY <1>3, <1>14, <2>1 DEF Once, Alone
<1>16. reopened' \subseteq opened' /\ inbox' \subseteq opened' /\ pRatchet'.session \in Msgs /\ pRatchet'.n > 0
  BY <1>2, <1>4 DEF Once
<1>17. QED
  BY <1>11, <1>12, <1>13, <1>14, <1>15, <1>16 DEF Once

\* A handler, at any of its steps.
LEMMA OnceHandle ==
  ASSUME TypeOK, Ledger, Chain, Once, NEW h \in Handlers, HandleStep(h), recvRaced \subseteq recvRaced',
         ConsumesOverlapping(h) => hand[h].m \in recvRaced',
         OpensOverlapping(h) \/ SavesOverlapping(h) => hand[h].r.session \in recvRaced'
  PROVE  Once'
<1> USE DEF userVars, netVars, tables, serverKeys, phoneKeys, phoneVars
<1>0. /\ hand \in [Handlers -> HandStates] /\ hand[h] \in HandStates /\ Steady(hand[h])
      /\ Free.pc = "idle" /\ inbox \subseteq opened
  BY DEF TypeOK, Once, Free
<1>a. \A g \in Handlers \ {h} : hand'[g] = hand[g]
  BY <1>0
     DEF HandleStep, LookupPrekeys, ConsumePrekey, LoadRatchet, OpenEnvelope, InsertMessage, RelayInbound,
         AckServer, Reply, SaveReply, Receive, Discarded
<1>1. ASSUME UNCHANGED <<env, pRatchet, opened, reopened, opks>>, inbox' \subseteq opened,
             Steady(hand[h])', hand'[h].pc # "open" \/ ~ Bootstraps(hand'[h].m)
      PROVE  Once'
  <2>1. ~ Answering(hand[h])'
    BY <1>1 DEF Answering, Bootstraps
  <2>2. QED
    BY <1>a, <1>1, <2>1, OnceHand
<1>b. hand'[h].pc \in {"idle", "relay", "ack"} => Steady(hand[h])'
  BY DEF Steady, Loaded, Answering
<1>2. CASE OpenEnvelope(h)
  <2>1. CASE Opens(hand[h].r, env[hand[h].m])
    BY <1>2, <2>1, OnceOpen
  <2>2. CASE ~ Opens(hand[h].r, env[hand[h].m])
    <3>1. hand'[h] = Free /\ UNCHANGED <<env, pRatchet, opened, reopened, opks, inbox>>
      BY <1>0, <1>2, <2>2 DEF OpenEnvelope, Discarded
    <3>2. QED
      BY <1>0, <1>1, <1>b, <3>1
  <2>3. QED
    BY <2>1, <2>2
<1>3. CASE InsertMessage(h)
  <2>1. /\ hand'[h].pc = "relay" /\ inbox' = inbox \cup {hand[h].m} /\ hand[h].pc = "insert"
        /\ UNCHANGED <<env, pRatchet, opened, reopened, opks>>
    BY <1>0, <1>3 DEF InsertMessage, HandStates
  <2>2. inbox' \subseteq opened
    BY <1>0, <2>1 DEF Steady
  <2>3. QED
    BY <1>1, <1>b, <2>1, <2>2
<1>4. CASE RelayInbound(h) \/ AckServer(h)
  <2>1. /\ hand'[h].pc \in {"idle", "ack"}
        /\ UNCHANGED <<env, pRatchet, opened, reopened, opks, inbox>>
    BY <1>0, <1>4 DEF RelayInbound, AckServer, HandStates
  <2>2. QED
    BY <1>0, <1>1, <1>b, <2>1
<1>5. CASE SaveReply(h)
  <2>1. /\ hand'[h].pc = "idle" /\ pRatchet' = hand[h].r /\ hand[h].pc = "reply"
        /\ UNCHANGED <<env, opened, reopened, opks, inbox>>
    BY <1>0, <1>5 DEF SaveReply
  <2>2. CASE hand[h].r = pRatchet
    BY <1>0, <1>1, <1>b, <2>1, <2>2
  <2>3. CASE hand[h].r # pRatchet
    <3>1. pRatchet'.session \in recvRaced' /\ pRatchet'.session \in Msgs /\ pRatchet'.n > 0
      BY <1>0, <1>5, <2>1, <2>3 DEF SavesOverlapping, Steady, Loaded
    <3>2. \A g \in Handlers : Steady(hand[g])' /\ (Answering(hand[g])' => Answering(hand[g]) /\ hand'[g] = hand[g])
      <4>1. \A g \in Handlers \ {h} : Steady(hand[g])
        BY DEF Once
      <4>2. Steady(hand[h])' /\ ~ Answering(hand[h])'
        BY <1>b, <2>1 DEF Answering
      <4>3. QED
        BY <1>a, <2>1, <4>1, <4>2 DEF Steady, Bootstraps, Untouched, Loaded, Answering
    <3>3. Alone'
      BY <3>2 DEF Once, Alone
    <3>4. QED
      BY <2>1, <3>1, <3>2, <3>3 DEF Once, ReopenedOnlyByRace, Protected
  <2>4. QED
    BY <2>2, <2>3
<1>6. CASE Reply(h)
  <2>1. /\ hand'[h].pc = "reply" /\ hand'[h].r = pRatchet /\ pRatchet # NoRatchet
        /\ UNCHANGED <<env, pRatchet, opened, reopened, opks, inbox>>
    BY <1>0, <1>6 DEF Reply, Free
  <2>2. Steady(hand[h])'
    BY <2>1 DEF Steady, Loaded, Answering, Once
  <2>3. QED
    BY <1>0, <1>1, <2>1, <2>2
<1>7. CASE LoadRatchet(h)
  <2>1. /\ \/ hand'[h] = Free
           \/ /\ hand'[h].pc = "open" /\ hand'[h].m = hand[h].m /\ hand'[h].r = pRatchet
              /\ pRatchet # NoRatchet
        /\ hand[h].pc = "load"
        /\ UNCHANGED <<env, pRatchet, opened, reopened, opks, inbox>>
    BY <1>0, <1>7 DEF LoadRatchet, Discarded, HandStates
  <2>2. ~ Bootstraps(hand[h].m)
    BY <1>0, <2>1 DEF Steady
  <2>3. Steady(hand[h])'
    BY <1>0, <1>b, <2>1, <2>2 DEF Steady, Bootstraps, Loaded, Answering, Once
  <2>4. QED
    BY <1>0, <1>1, <2>1, <2>2, <2>3
<1>8. CASE ConsumePrekey(h)
  <2> DEFINE m == hand[h].m
             o == env[m].opk
  <2>1. /\ hand'[h].pc = "open" /\ hand'[h].m = m /\ hand'[h].r = hand[h].r
        /\ hand[h].pc = "consume" /\ opks' = opks \ {o}
        /\ UNCHANGED <<env, pRatchet, opened, reopened, inbox>>
    BY <1>0, <1>8 DEF ConsumePrekey, Consumed, HandStates
  <2>2. m \in Msgs /\ env[m].session = m /\ Bootstraps(m)
    BY <1>0, <2>1 DEF Steady, Bootstraps, HandStates
  <2>3. o # NoOpk /\ o \notin opks => m \in recvRaced'
    BY <1>8 DEF ConsumesOverlapping
  <2> HIDE DEF m, o
  <2>4. o # NoOpk => Untouched(m) \/ m \in recvRaced'
    BY <2>2, <2>3 DEF Once, Untouched, Protected, o
  <2>5. Steady(hand[h])'
    BY <2>1, <2>2, <2>4 DEF Steady, Loaded, Answering, Bootstraps, Untouched, o
  <2>6. ASSUME NEW g \in Handlers \ {h}, Answering(hand[g]), Answering(hand[h])', hand[g].m = hand'[h].m
        PROVE  hand[g].m \in recvRaced'
    <3>1. env[hand[g].m].opk \notin opks /\ hand[g].m = m /\ o # NoOpk
      BY <2>1, <2>6 DEF Once, Steady, Answering, o
    <3>2. QED
      BY <2>3, <3>1 DEF o
  <2>7. QED
    BY <1>0, <1>a, <2>1, <2>5, <2>6, OnceHand
<1>9. CASE LookupPrekeys(h)
  <2> DEFINE e == env[hand[h].m]
             r == IF e.spk = spk THEN [session |-> e.session, n |-> 0] ELSE NoRatchet
  <2>1. /\ hand' = [hand EXCEPT ![h] = IF e.opk \notin opks \cup {NoOpk} THEN Free
                                       ELSE [hand[h] EXCEPT !.pc = "consume", !.r = r]]
        /\ hand[h].pc = "lookup" /\ UNCHANGED <<env, pRatchet, opened, reopened, opks, inbox>>
    BY <1>9 DEF LookupPrekeys, Discarded
  <2> HIDE DEF r
  <2>2. hand'[h] = Free \/ (hand'[h].pc = "consume" /\ hand'[h].m = hand[h].m)
    BY <1>0, <2>1 DEF HandStates
  <2>3. Steady(hand[h])'
    BY <1>0, <1>b, <2>1, <2>2 DEF Steady, Bootstraps, Loaded, Answering
  <2>4. QED
    BY <1>0, <1>1, <2>1, <2>2, <2>3
<1>10. ASSUME NEW m \in Msgs, NEW real \in BOOLEAN, Receive(h, m, real)
       PROVE  Once'
  <2>1. /\ hand'[h].pc = (IF Bootstraps(m) THEN "lookup" ELSE "load") /\ hand'[h].m = m
        /\ UNCHANGED <<env, pRatchet, opened, reopened, opks, inbox>>
    BY <1>0, <1>10 DEF Receive, Free
  <2>2. Steady(hand[h])'
    BY <2>1 DEF Steady, Bootstraps, Loaded, Answering
  <2>3. QED
    BY <1>0, <1>1, <2>1, <2>2
<1>11. QED
  BY <1>2, <1>3, <1>4, <1>5, <1>6, <1>7, <1>8, <1>9, <1>10 DEF HandleStep

\* New prekeys are not those of a session, and a killed handler holds nothing.
LEMMA OnceNext == TypeOK /\ Placed /\ Ledger /\ Chain /\ Once /\ [OverlapNext]_overlapVars => Once'
<1> SUFFICES ASSUME TypeOK, Placed, Ledger, Chain, Once, [OverlapNext]_overlapVars
             PROVE  Once'
  OBVIOUS
<1> USE DEF userVars, netVars, tables, serverKeys, phoneKeys, phoneVars
<1>0. EnvKept /\ recvRaced \subseteq recvRaced' /\ [Next]_vars
  <2>1. [Next]_vars /\ recvRaced \subseteq recvRaced'
    BY OverlapStep DEF overlapVars
  <2>2. QED
    BY <2>1, LedgerNext
<1>1. CASE \/ \E u \in Senders : SendStep(u)
           \/ LinkStep \/ (\E m \in Msgs : ServerSend(m)) \/ (\E p \in upload : Upload(p))
           \/ Launch \/ (\E p \in prep : Count(p)) \/ UNCHANGED vars
  <2>1. UNCHANGED <<hand, pRatchet, inbox, opened, reopened, opks>>
    BY <1>1
       DEF SendStep, Fetch, FetchFails, Seal, HandOver, SendText, LinkStep, Connect, Break, Reconnect, Disconnect,
           UserKilled, ServerSend, Upload, Launch, Count, vars
  <2>2. QED
    BY <1>0, <2>1, OnceQuiet
<1>2. ASSUME NEW p \in prep, Stock(p)
      PROVE  Once'
  <2>1. \E f \in Batches(p.short) : opks' = opks \cup f
    BY <1>2 DEF Stock
  <2>2. \A m \in Msgs : env[m].opk # NoOpk => env[m].opk \in used
    BY DEF Placed, Taken
  <2>3. \A m \in Msgs : env[m].opk # NoOpk => (env[m].opk \in opks' <=> env[m].opk \in opks)
    BY <2>1, <2>2 DEF Batches
  <2>4. QED
    BY <1>0, <1>2, <2>3, OnceQuiet DEF Stock
<1>3. CASE PhoneKilled
  <2>1. \A h \in Handlers : hand'[h].pc = "idle"
    BY <1>3 DEF PhoneKilled, Free
  <2>2. \A h \in Handlers : Steady(hand[h])' /\ ~ Answering(hand[h])'
    BY <2>1 DEF Steady, Loaded, Answering
  <2>3. UNCHANGED <<env, opks, pRatchet, inbox, opened, reopened>>
    BY <1>3 DEF PhoneKilled
  <2>4. Alone'
    BY <2>2 DEF Alone
  <2>5. QED
    BY <1>0, <2>2, <2>3, <2>4 DEF Once, ReopenedOnlyByRace, Protected
<1>4. ASSUME NEW h \in Handlers, HandleStep(h), OverlapNext
      PROVE  Once'
  BY <1>4, OverlapStep, OnceHandle
<1>5. CASE UNCHANGED overlapVars
  BY <1>1, <1>5 DEF overlapVars
<1>6. QED
  BY <1>1, <1>2, <1>3, <1>4, <1>5, OverlapStep DEF Next, ProvisionStep

\* What the phone has opened stays behind its ratchet, and the prekey of a session
\* it has opened stays given up, but for sessions in which handlers have overlapped.
THEOREM OnceKept == OverlapSpec => []Once
<1>1. OverlapInit => Once
  BY DEF OverlapInit, Init, Once, ReopenedOnlyByRace, Alone, Steady, Loaded, Answering, Free
<1>2. QED
  BY <1>1, OnceNext, Underneath, PrekeysPlaced, LedgerKept, ChainKept, TypeCorrect, PTL DEF OverlapSpec

\* However often a message is delivered and wherever the phone is killed, one of a
\* session that began with a one-time prekey is opened once, unless two handlers
\* used one prekey or one ratchet of that session.
THEOREM NotReopened == OverlapSpec => []ReopenedOnlyByRace
<1>1. Once => ReopenedOnlyByRace
  BY DEF Once
<1>2. QED
  BY <1>1, OnceKept, PTL

\* A message the server no longer delivers is one the ratchet of its session no
\* longer waits for, with the same exception.
THEOREM AckedIsBehind == OverlapSpec => []AckedBehindUnlessRace
<1>1. Once /\ AckedIsKept => AckedBehindUnlessRace
  BY DEF Once, AckedIsKept, AckedBehindUnlessRace
<1>2. QED
  BY <1>1, OnceKept, Underneath, AckedIsInDatabase, PTL

=============================================================================
