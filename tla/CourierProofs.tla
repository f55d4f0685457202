---------------------------- MODULE CourierProofs ----------------------------
(***************************************************************************)
(* The two apps and the server implement the courier: for any number of    *)
(* messages and prekeys, and any number of runs of sendText and of the     *)
(* phone's handlers that overlap.                                          *)
(***************************************************************************)
EXTENDS RatchetProofs

\* A handler that has opened its message, and one that has inserted it.
HandsOn(w) == /\ w.pc = "insert" => w.m \in opened
              /\ w.pc \in {"relay", "ack"} => w.m \in inbox
Progress == \A h \in Handlers : HandsOn(hand[h])

\* A step of handler h that comes to state w.
LEMMA HandMoves ==
  ASSUME TypeOK, Progress, NEW h \in Handlers, NEW w, hand' = [hand EXCEPT ![h] = w],
         opened \subseteq opened', inbox \subseteq inbox', HandsOn(w)'
  PROVE  Progress'
<1>1. hand'[h] = w /\ \A g \in Handlers \ {h} : hand'[g] = hand[g]
  BY DEF TypeOK
<1>2. QED
  BY <1>1 DEF Progress, HandsOn

\* The courier's variables that no handler changes.
LEMMA PlacesStay == ASSUME env' = env PROVE Places' = Places
  BY DEF Places

\* A step of a handler is a step of the courier: it opens, keeps, shows, confirms,
\* or does none of it.
LEMMA HandleCourier ==
  ASSUME TypeOK, Ledger, Chain, Progress, NEW h \in Handlers, HandleStep(h)
  PROVE  Progress' /\ [courier!Next]_(courier!vars)
<1> USE DEF userVars, netVars, tables, serverKeys, phoneKeys, phoneVars
<1> DEFINE m == hand[h].m
           Still == UNCHANGED <<Places, outbox, rows, opened, inbox, mirrored, acked>>
<1>0. /\ hand[h] \in HandStates /\ HandsOn(hand[h]) /\ Free.pc = "idle"
      /\ hand[h].pc \notin {"idle", "reply"} => m \in rows /\ m \in Msgs
  BY DEF TypeOK, Progress, Free, Ledger
<1>1. UNCHANGED <<env, outbox, rows>> /\ Places' = Places
  BY PlacesStay
     DEF HandleStep, LookupPrekeys, ConsumePrekey, LoadRatchet, OpenEnvelope, InsertMessage, RelayInbound,
         AckServer, Reply, SaveReply, Receive
<1>2. Still => [courier!Next]_(courier!vars)
  BY DEF courier!vars
<1>3. ASSUME NEW w, hand' = [hand EXCEPT ![h] = w], w.pc \notin {"insert", "relay", "ack"},
             UNCHANGED <<opened, inbox, mirrored, acked>>
      PROVE  Progress' /\ [courier!Next]_(courier!vars)
  <2>1. HandsOn(w)'
    BY <1>3 DEF HandsOn
  <2>2. QED
    BY <1>1, <1>2, <1>3, <2>1, HandMoves
<1>4. CASE OpenEnvelope(h)
  <2>1. CASE ~ Opens(hand[h].r, env[m])
    BY <1>0, <1>3, <1>4, <2>1 DEF OpenEnvelope, Discarded
  <2>2. CASE Opens(hand[h].r, env[m])
    <3>1. /\ hand' = [hand EXCEPT ![h] = [hand[h] EXCEPT !.pc = "insert"]] /\ hand[h].pc = "open"
          /\ opened' = opened \cup {m} /\ UNCHANGED <<inbox, mirrored, acked>>
      BY <1>4, <2>2 DEF OpenEnvelope
    <3>2. [hand[h] EXCEPT !.pc = "insert"].pc = "insert" /\ [hand[h] EXCEPT !.pc = "insert"].m = m
      BY <1>0 DEF HandStates
    <3>3. HandsOn([hand[h] EXCEPT !.pc = "insert"])'
      BY <3>1, <3>2 DEF HandsOn
    <3>4. Progress'
      BY <3>1, <3>3, HandMoves
    <3>5. m \in Msgs /\ m \in rows /\ Sealed(m)
      BY <1>0, <3>1 DEF Ledger
    <3>6. hand[h].r.session = env[m].session /\ hand[h].r.n = env[m].n /\ Walked(hand[h].r, opened, env)
      BY <2>2 DEF Opens, Chain
    <3>7. \A i \in 0 .. env[m].n - 1 : \E k \in opened : env[k].session = env[m].session /\ env[k].n = i
      BY <3>5, <3>6 DEF Walked, Sealed
    <3>8. \A k \in Msgs : Places[k].session = env[k].session /\ Places[k].n = env[k].n
      BY DEF Places
    <3>9. courier!Follows(m)
      BY <3>5, <3>7, <3>8 DEF courier!Follows, TypeOK
    <3>10. courier!Open(m)
      BY <1>1, <3>1, <3>5, <3>9 DEF courier!Open
    <3>11. QED
      BY <3>4, <3>5, <3>10 DEF courier!Next
  <2>3. QED
    BY <2>1, <2>2
<1>5. CASE InsertMessage(h)
  <2>1. /\ hand' = [hand EXCEPT ![h] = [hand[h] EXCEPT !.pc = "relay"]] /\ hand[h].pc = "insert"
        /\ inbox' = inbox \cup {m} /\ UNCHANGED <<opened, mirrored, acked>>
    BY <1>0, <1>5 DEF InsertMessage
  <2>2. HandsOn([hand[h] EXCEPT !.pc = "relay"])'
    BY <1>0, <2>1 DEF HandsOn, HandStates
  <2>3. courier!Keep(m)
    BY <1>0, <1>1, <2>1 DEF courier!Keep, HandsOn
  <2>4. QED
    BY <1>0, <2>1, <2>2, <2>3, HandMoves DEF courier!Next
<1>6. CASE RelayInbound(h)
  <2>1. /\ hand' = [hand EXCEPT ![h] = [hand[h] EXCEPT !.pc = "ack"]] /\ hand[h].pc = "relay"
        /\ mirrored' \in {mirrored, mirrored \cup {m}} /\ UNCHANGED <<opened, inbox, acked>>
    BY <1>6 DEF RelayInbound, Mirrored
  <2>2. HandsOn([hand[h] EXCEPT !.pc = "ack"])'
    BY <1>0, <2>1 DEF HandsOn, HandStates
  <2>3. courier!Show(m) \/ Still
    BY <1>0, <1>1, <2>1 DEF courier!Show, HandsOn
  <2>4. QED
    BY <1>0, <1>2, <2>1, <2>2, <2>3, HandMoves DEF courier!Next
<1>7. CASE AckServer(h)
  <2>1. /\ hand' = [hand EXCEPT ![h] = Free] /\ hand[h].pc = "ack"
        /\ acked' \in {acked, acked \cup {m}} /\ UNCHANGED <<opened, inbox, mirrored>>
    BY <1>7 DEF AckServer
  <2>2. HandsOn(Free)'
    BY <1>0 DEF HandsOn
  <2>3. courier!Ack(m) \/ Still
    BY <1>0, <1>1, <2>1 DEF courier!Ack, HandsOn
  <2>4. QED
    BY <1>0, <1>2, <2>1, <2>2, <2>3, HandMoves DEF courier!Next
<1>8. CASE LookupPrekeys(h)
  <2> DEFINE r == IF env[m].spk = spk THEN [session |-> env[m].session, n |-> 0] ELSE NoRatchet
  <2>1. \/ hand' = [hand EXCEPT ![h] = Free]
        \/ hand' = [hand EXCEPT ![h] = [hand[h] EXCEPT !.pc = "consume", !.r = r]]
    BY <1>8 DEF LookupPrekeys, Discarded
  <2> HIDE DEF r
  <2>2. [hand[h] EXCEPT !.pc = "consume", !.r = r].pc = "consume"
    BY <1>0 DEF HandStates
  <2>3. UNCHANGED <<opened, inbox, mirrored, acked>>
    BY <1>8 DEF LookupPrekeys
  <2>4. QED
    BY <1>0, <1>3, <2>1, <2>2, <2>3
<1>9. CASE ConsumePrekey(h) \/ LoadRatchet(h) \/ SaveReply(h) \/ Reply(h)
  <2>1. UNCHANGED <<opened, inbox, mirrored, acked>>
    BY <1>9 DEF ConsumePrekey, LoadRatchet, SaveReply, Reply
  <2>2. \E w : hand' = [hand EXCEPT ![h] = w] /\ w.pc \in {"open", "idle", "reply"}
    <3>1. /\ [hand[h] EXCEPT !.pc = "open"].pc = "open"
          /\ [hand[h] EXCEPT !.pc = "open", !.r = pRatchet].pc = "open"
          /\ [Free EXCEPT !.pc = "reply", !.r = pRatchet].pc = "reply"
      BY <1>0 DEF HandStates, Free
    <3>2. QED
      BY <1>0, <1>9, <3>1 DEF ConsumePrekey, LoadRatchet, SaveReply, Reply, Discarded
  <2>3. QED
    BY <1>3, <2>1, <2>2
<1>10. ASSUME NEW k \in Msgs, NEW real \in BOOLEAN, Receive(h, k, real)
       PROVE  Progress' /\ [courier!Next]_(courier!vars)
  <2> DEFINE w == [Free EXCEPT !.pc = IF Bootstraps(k) THEN "lookup" ELSE "load", !.m = k, !.real = real]
  <2>1. hand' = [hand EXCEPT ![h] = w] /\ UNCHANGED <<opened, inbox, mirrored, acked>>
    BY <1>10 DEF Receive
  <2>2. w.pc \in {"lookup", "load"}
    BY DEF Free
  <2> HIDE DEF w
  <2>3. QED
    BY <1>3, <2>1, <2>2
<1>11. QED
  BY <1>4, <1>5, <1>6, <1>7, <1>8, <1>9, <1>10 DEF HandleStep

\* A step of sendText places its message, or queues it.
LEMMA SendCourier ==
  ASSUME TypeOK, Ledger, NEW u \in Senders, SendStep(u)
  PROVE  [courier!Next]_(courier!vars)
<1> USE DEF userVars, netVars, tables, serverKeys, phoneKeys, phoneVars
<1> DEFINE m == send[u].m
<1>0. /\ send[u] \in SendStates /\ NoMsg \notin Msgs
      /\ \A k \in Msgs : Places[k].session = env[k].session
      /\ \A k \in Msgs : env[k].session \in Msgs \cup {NoMsg}
      /\ \A k \in Msgs : courier!Placed(k) <=> Sealed(k)
  BY ConversationAssumption DEF TypeOK, Places, Envelopes, courier!Placed, Sealed
<1>1. CASE Seal(u)
  <2>1. /\ m \in Msgs /\ ~ Sealed(m) /\ send[u].r \in Ratchets
        /\ send[u].r.session = m \/ (send[u].r.session \in Msgs /\ Sealed(send[u].r.session))
        /\ env' = [env EXCEPT ![m] = [session |-> send[u].r.session, n |-> send[u].r.n,
                                      opk |-> send[u].opk, spk |-> send[u].spk]]
        /\ UNCHANGED <<outbox, rows, opened, inbox, mirrored, acked>>
    BY <1>0, <1>1 DEF Seal, SendStates, Ledger
  <2>2. Places' = [k \in Msgs |-> [session |-> env'[k].session, n |-> env'[k].n]]
    BY DEF Places
  <2>3. \A k \in Msgs : k # m => Places'[k] = Places[k]
    BY <2>1, <2>2 DEF Places, TypeOK
  <2>4. Places' = [Places EXCEPT ![m] = Places'[m]]
    BY <2>2, <2>3 DEF Places
  <2>5. Places'[m].session = send[u].r.session
    BY <2>1, <2>2 DEF TypeOK
  <2>6. courier!Place(m)
    BY <1>0, <2>1, <2>4, <2>5 DEF courier!Place
  <2>7. QED
    BY <2>1, <2>6 DEF courier!Next
<1>2. CASE HandOver(u)
  <2>1. /\ m \in Msgs /\ Sealed(m) /\ outbox' \in {outbox, outbox \cup {m}}
        /\ UNCHANGED <<env, rows, opened, inbox, mirrored, acked>>
    BY <1>0, <1>2 DEF HandOver, SendStates, Ledger
  <2>2. courier!Queue(m) \/ UNCHANGED courier!vars
    BY <1>0, <2>1, PlacesStay DEF courier!Queue, courier!vars
  <2>3. QED
    BY <2>1, <2>2 DEF courier!Next
<1>3. CASE Fetch(u) \/ FetchFails(u) \/ \E k \in Msgs : SendText(u, k)
  BY <1>3, PlacesStay DEF Fetch, FetchFails, SendText, courier!vars
<1>4. QED
  BY <1>1, <1>2, <1>3 DEF SendStep

LEMMA CourierNext ==
  TypeOK /\ Ledger /\ Chain /\ Progress /\ [Next]_vars => Progress' /\ [courier!Next]_(courier!vars)
<1> SUFFICES ASSUME TypeOK, Ledger, Chain, Progress, [Next]_vars
             PROVE  Progress' /\ [courier!Next]_(courier!vars)
  OBVIOUS
<1> USE DEF userVars, netVars, tables, serverKeys, phoneKeys, phoneVars
<1>1. ASSUME UNCHANGED <<hand, opened, inbox>>
      PROVE  Progress'
  BY <1>1 DEF Progress, HandsOn
<1>2. ASSUME NEW u \in Senders, SendStep(u)
      PROVE  Progress' /\ [courier!Next]_(courier!vars)
  <2>1. UNCHANGED <<hand, opened, inbox>>
    BY <1>2 DEF SendStep, Fetch, FetchFails, Seal, HandOver, SendText
  <2>2. QED
    BY <1>1, <1>2, <2>1, SendCourier
<1>3. CASE LinkStep \/ ProvisionStep \/ (\E p \in upload : Upload(p)) \/ UNCHANGED vars
  <2>1. UNCHANGED <<hand, opened, inbox, env, outbox, rows, mirrored, acked>>
    BY <1>3 DEF LinkStep, Connect, Break, Reconnect, Disconnect, UserKilled, AfterFlush, ProvisionStep, Launch, Count, Stock,
                Upload, vars
  <2>2. QED
    BY <1>1, <2>1, PlacesStay DEF courier!vars
<1>4. ASSUME NEW m \in Msgs, ServerSend(m)
      PROVE  Progress' /\ [courier!Next]_(courier!vars)
  <2>1. /\ UNCHANGED <<hand, opened, inbox, env, mirrored, acked>> /\ rows' = rows \cup {m}
        /\ outbox' \in {outbox, outbox \ {m}} /\ m \in uplink
    BY <1>4 DEF ServerSend
  <2>2. Sealed(m) /\ Places[m].session = env[m].session
    BY <2>1 DEF Ledger, Places
  <2>3. courier!Placed(m)
    BY <2>2, ConversationAssumption DEF courier!Placed, Sealed
  <2>4. courier!Post(m)
    BY <2>1, <2>3, PlacesStay DEF courier!Post
  <2>5. QED
    BY <1>1, <2>1, <2>4 DEF courier!Next
<1>5. CASE PhoneKilled
  <2>1. /\ \A h \in Handlers : hand'[h].pc = "idle"
        /\ UNCHANGED <<opened, inbox, env, outbox, rows, mirrored, acked>>
    BY <1>5 DEF PhoneKilled, Free
  <2>2. Progress'
    BY <2>1 DEF Progress, HandsOn
  <2>3. QED
    BY <2>1, <2>2, PlacesStay DEF courier!vars
<1>6. ASSUME NEW h \in Handlers, HandleStep(h)
      PROVE  Progress' /\ [courier!Next]_(courier!vars)
  BY <1>6, HandleCourier
<1>7. QED
  BY <1>2, <1>3, <1>4, <1>5, <1>6 DEF Next

\* The apps and the server implement the courier: whatever is lost, repeated,
\* reordered or killed, and however handlers overlap, a message is placed once,
\* due until it is stored, opened after its predecessors, and kept before it is
\* shown or confirmed.
THEOREM ConversationImplementsCourier == Spec => ImplementsCourier
<1>1. Init => Progress /\ courier!Init
  <2> SUFFICES ASSUME Init PROVE Progress /\ courier!Init
    OBVIOUS
  <2>1. Places = [m \in Msgs |-> courier!Nowhere]
    BY DEF Init, Places, NoEnvelope, courier!Nowhere
  <2>2. QED
    BY <2>1 DEF Init, Progress, HandsOn, Free, courier!Init
<1>2. QED
  BY <1>1, CourierNext, TypeCorrect, LedgerKept, ChainKept, PTL DEF Spec, ImplementsCourier, courier!Spec

=============================================================================
