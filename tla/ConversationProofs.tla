-------------------------- MODULE ConversationProofs --------------------------
(***************************************************************************)
(* Theorems about Conversation, for any number of messages, prekeys,        *)
(* senders, handlers and launches.                                          *)
(***************************************************************************)
EXTENDS Conversation, FiniteSetTheorems, TLAPS

-----------------------------------------------------------------------------
(* Types.                                                                  *)

\* No count of the pool, right or overtaken, asks for more than TargetPool.
LEMMA ShortfallFits ==
  ASSUME TypeOK
  PROVE  Shortfall \in 0 .. TargetPool
<1>1. IsFiniteSet(opks)
  BY FS_Subset, ConversationAssumption DEF TypeOK
<1>2. Cardinality(opks) \in Nat
  BY <1>1, FS_CardinalityType
<1>3. QED
  BY <1>2, ConversationAssumption DEF Shortfall

\* A step of ensureProvisioned keeps the types.
LEMMA ProvisionType ==
  ASSUME TypeOK, ProvisionStep
  PROVE  TypeOK'
<1> USE DEF userVars, netVars, tables, serverKeys, phoneKeys, phoneVars
<1>1. CASE Launch
  <2>1. [spk |-> spk + 1, pc |-> "count", short |-> 0] \in [spk : Nat, pc : {"count", "stock"}, short : 0 .. TargetPool]
    BY ConversationAssumption DEF TypeOK
  <2>2. QED
    BY <1>1, <2>1 DEF TypeOK, Launch
<1>2. ASSUME NEW p \in prep, Count(p)
      PROVE  TypeOK'
  <2>1. [p EXCEPT !.pc = "stock", !.short = Shortfall] \in [spk : Nat, pc : {"count", "stock"}, short : 0 .. TargetPool]
    BY ShortfallFits DEF TypeOK
  <2>2. QED
    BY <1>2, <2>1 DEF TypeOK, Count
<1>3. ASSUME NEW p \in prep, Stock(p)
      PROVE  TypeOK'
  <2>1. PICK f \in Batches(p.short) :
          /\ opks' = opks \cup f
          /\ used' = used \cup f
          /\ upload' = upload \cup {[spk |-> p.spk, opks |-> f]}
    BY <1>3 DEF Stock
  <2>2. p.spk \in Nat /\ p.short \in 0 .. TargetPool
    BY DEF TypeOK
  <2>3. f \in SUBSET Opks /\ Cardinality(f) <= TargetPool
    BY <2>2, ConversationAssumption DEF Batches
  <2>4. QED
    BY <1>3, <2>1, <2>2, <2>3 DEF TypeOK, Stock
<1>4. QED
  BY <1>1, <1>2, <1>3 DEF ProvisionStep

\* A step of sendText keeps the types.
LEMMA SendType ==
  ASSUME TypeOK, NEW u \in Senders, SendStep(u)
  PROVE  TypeOK'
<1> USE DEF userVars, netVars, tables, serverKeys, phoneKeys, phoneVars
<1>0. Resting \in SendStates /\ send[u] \in SendStates /\ uRatchet \in Ratchets
  BY DEF TypeOK, Resting, SendStates, Ratchets, NoRatchet
<1>1. CASE Fetch(u)
  <2>1. PICK o \in IF pool = {} THEN {NoOpk} ELSE pool :
          /\ pool' = HandedOut(o)
          /\ send' = [send EXCEPT ![u] = [send[u] EXCEPT
                        !.pc = "save", !.r = [session |-> send[u].m, n |-> 0],
                        !.opk = o, !.spk = spkUp]]
    BY <1>1 DEF Fetch
  <2>2. o \in Opks \cup {NoOpk} /\ pool' \subseteq Opks /\ spkUp \in Nat
    BY <2>1 DEF TypeOK, HandedOut
  <2>3. send[u].m \in Msgs /\ send[u].pc = "fetch"
    BY <1>0, <1>1 DEF Fetch, SendStates
  <2>4. [send[u] EXCEPT !.pc = "save", !.r = [session |-> send[u].m, n |-> 0],
                        !.opk = o, !.spk = spkUp] \in SendStates
    BY <1>0, <2>2, <2>3 DEF SendStates, Ratchets
  <2>5. QED
    BY <1>1, <2>1, <2>2, <2>4 DEF TypeOK, Fetch
<1>2. CASE FetchFails(u)
  BY <1>0, <1>2 DEF TypeOK, FetchFails
<1>3. CASE Seal(u)
  <2>1. send[u].m \in Msgs /\ send[u].r \in Ratchets /\ send[u].opk \in Opks \cup {NoOpk} /\ send[u].spk \in Nat
    BY <1>0, <1>3 DEF Seal, SendStates
  <2>2. [send[u] EXCEPT !.pc = "hand"] \in SendStates
    BY <1>0, <1>3 DEF Seal, SendStates
  <2>3. Advanced(send[u].r) \in Ratchets
    BY <2>1 DEF Advanced, Ratchets
  <2>4. [session |-> send[u].r.session, n |-> send[u].r.n, opk |-> send[u].opk, spk |-> send[u].spk]
          \in Envelopes
    BY <2>1 DEF Envelopes, Ratchets
  <2>5. QED
    BY <1>3, <2>1, <2>2, <2>3, <2>4 DEF TypeOK, Seal
<1>4. CASE HandOver(u)
  <2>1. send[u].m \in Msgs
    BY <1>0, <1>4 DEF HandOver, SendStates
  <2>2. QED
    BY <1>0, <1>4, <2>1 DEF TypeOK, HandOver
<1>5. ASSUME NEW m \in Msgs, SendText(u, m)
      PROVE  TypeOK'
  <2>1. [Resting EXCEPT !.pc = IF uRatchet = NoRatchet THEN "fetch" ELSE "save",
                        !.m = m, !.r = uRatchet] \in SendStates
    BY <1>0 DEF Resting, SendStates
  <2>2. QED
    BY <1>5, <2>1 DEF TypeOK, SendText
<1>6. QED
  BY <1>1, <1>2, <1>3, <1>4, <1>5 DEF SendStep

\* A step of a handler of the phone keeps the types.
LEMMA HandleType ==
  ASSUME TypeOK, NEW h \in Handlers, HandleStep(h)
  PROVE  TypeOK'
<1> USE DEF userVars, netVars, tables, serverKeys, phoneKeys, phoneVars
<1>0. /\ Free \in HandStates /\ hand[h] \in HandStates
      /\ pRatchet \in Ratchets /\ NoRatchet \in Ratchets
  BY DEF TypeOK, Free, HandStates, Ratchets, NoRatchet
<1>a. hand[h].pc \notin {"idle", "reply"} => hand[h].m \in Msgs
  BY <1>0 DEF HandStates
<1>b. hand[h].r \in Ratchets
  BY <1>0 DEF HandStates
<1>1. CASE LookupPrekeys(h)
  <2>1. hand[h].pc = "lookup" /\ env[hand[h].m] \in Envelopes
    BY <1>1, <1>a DEF LookupPrekeys, TypeOK
  <2>2. \A r \in Ratchets : [hand[h] EXCEPT !.pc = "consume", !.r = r] \in HandStates
    BY <1>0, <2>1 DEF HandStates
  <2>3. [session |-> env[hand[h].m].session, n |-> 0] \in Ratchets
    BY <2>1 DEF Envelopes, Ratchets
  <2>4. QED
    BY <1>0, <1>1, <2>2, <2>3 DEF TypeOK, LookupPrekeys, Discarded
<1>2. CASE ConsumePrekey(h)
  <2>1. [hand[h] EXCEPT !.pc = "open"] \in HandStates
    BY <1>0, <1>2 DEF ConsumePrekey, HandStates
  <2>2. QED
    BY <1>2, <2>1 DEF TypeOK, ConsumePrekey, Consumed
<1>3. CASE LoadRatchet(h)
  <2>1. [hand[h] EXCEPT !.pc = "open", !.r = pRatchet] \in HandStates
    BY <1>0, <1>3 DEF LoadRatchet, HandStates
  <2>2. QED
    BY <1>0, <1>3, <2>1 DEF TypeOK, LoadRatchet, Discarded
<1>4. CASE OpenEnvelope(h)
  <2>1. [hand[h] EXCEPT !.pc = "insert"] \in HandStates /\ hand[h].m \in Msgs
    BY <1>0, <1>a, <1>4 DEF OpenEnvelope, HandStates
  <2>2. Saved(h) \in Ratchets
    BY <1>b DEF Saved, Advanced, Ratchets
  <2>3. QED
    BY <1>0, <1>4, <2>1, <2>2 DEF TypeOK, OpenEnvelope, Discarded
<1>5. CASE InsertMessage(h)
  <2>1. [hand[h] EXCEPT !.pc = "relay"] \in HandStates /\ hand[h].m \in Msgs
    BY <1>0, <1>a, <1>5 DEF InsertMessage, HandStates
  <2>2. QED
    BY <1>5, <2>1 DEF TypeOK, InsertMessage
<1>6. CASE RelayInbound(h)
  <2>1. [hand[h] EXCEPT !.pc = "ack"] \in HandStates /\ hand[h].m \in Msgs
    BY <1>0, <1>a, <1>6 DEF RelayInbound, HandStates
  <2>2. QED
    BY <1>6, <2>1 DEF TypeOK, RelayInbound, Mirrored
<1>7. CASE AckServer(h)
  BY <1>0, <1>a, <1>7 DEF TypeOK, AckServer
<1>8. CASE Reply(h)
  <2>1. [Free EXCEPT !.pc = "reply", !.r = pRatchet] \in HandStates
    BY <1>0 DEF Free, HandStates
  <2>2. QED
    BY <1>8, <2>1 DEF TypeOK, Reply
<1>9. CASE SaveReply(h)
  BY <1>0, <1>b, <1>9 DEF TypeOK, SaveReply
<1>10. ASSUME NEW m \in Msgs, NEW real \in BOOLEAN, Receive(h, m, real)
       PROVE  TypeOK'
  <2>1. [Free EXCEPT !.pc = IF Bootstraps(m) THEN "lookup" ELSE "load", !.m = m, !.real = real] \in HandStates
    BY <1>0 DEF Free, HandStates
  <2>2. QED
    BY <1>10, <2>1 DEF TypeOK, Receive
<1>11. QED
  BY <1>1, <1>2, <1>3, <1>4, <1>5, <1>6, <1>7, <1>8, <1>9, <1>10 DEF HandleStep

\* A type invariant; no launch uploads more prekeys than the pool aims at.
THEOREM TypeCorrect == Spec => []TypeOK
<1>1. Init => TypeOK
  BY FS_EmptySet, ConversationAssumption
     DEF Init, TypeOK, NoRatchet, NoEnvelope, Resting, Free, Ratchets, Envelopes, SendStates, HandStates
<1>2. TypeOK /\ [Next]_vars => TypeOK'
  <2> SUFFICES ASSUME TypeOK, [Next]_vars PROVE TypeOK'
    OBVIOUS
  <2> USE DEF userVars, netVars, tables, serverKeys, phoneKeys, phoneVars, vars
  <2>1. CASE LinkStep
    BY <2>1 DEF TypeOK, LinkStep, Connect, AfterFlush, Break, Reconnect, Disconnect, UserKilled,
                Resting, NoRatchet, Ratchets, SendStates
  <2>2. ASSUME NEW m \in Msgs, ServerSend(m)
        PROVE  TypeOK'
    BY <2>2 DEF TypeOK, ServerSend
  <2>3. CASE ProvisionStep
    BY <2>3, ProvisionType
  <2>4. ASSUME NEW p \in upload, Upload(p)
        PROVE  TypeOK'
    BY <2>4 DEF TypeOK, Upload
  <2>5. CASE PhoneKilled
    BY <2>5 DEF TypeOK, PhoneKilled, Free, NoRatchet, Ratchets, HandStates
  <2>6. CASE UNCHANGED vars
    BY <2>6 DEF TypeOK
  <2>7. QED
    BY <2>1, <2>2, <2>3, <2>4, <2>5, <2>6, SendType, HandleType DEF Next
<1>3. QED
  BY <1>1, <1>2, PTL DEF Spec

-----------------------------------------------------------------------------
(* The outbox and the acknowledgements.                                    *)

\* A message leaves the outbox only in the step that finds it stored.
THEOREM OutboxKept == Spec => OutboxUntilStored
<1>1. ASSUME [Next]_vars
      PROVE  outbox \ outbox' \subseteq rows'
  <2> USE DEF userVars, netVars, tables, serverKeys, phoneKeys, phoneVars, vars
  <2>1. ASSUME NEW u \in Senders, SendStep(u)
        PROVE  outbox \subseteq outbox'
    BY <2>1 DEF SendStep, Fetch, FetchFails, Seal, HandOver, SendText
  <2>2. CASE LinkStep
    BY <2>2 DEF LinkStep, Connect, AfterFlush, Break, Reconnect, Disconnect, UserKilled
  <2>3. ASSUME NEW m \in Msgs, ServerSend(m)
        PROVE  outbox \ outbox' \subseteq rows'
    BY <2>3 DEF ServerSend
  <2>4. ASSUME NEW h \in Handlers, HandleStep(h)
        PROVE  outbox' = outbox
    BY <2>4 DEF HandleStep, LookupPrekeys, ConsumePrekey, LoadRatchet, OpenEnvelope, InsertMessage,
                RelayInbound, AckServer, Reply, SaveReply, Receive
  <2>5. CASE ProvisionStep \/ (\E p \in upload : Upload(p)) \/ PhoneKilled
    BY <2>5 DEF ProvisionStep, Launch, Count, Stock, Upload, PhoneKilled
  <2>6. QED
    BY <1>1, <2>1, <2>2, <2>3, <2>4, <2>5 DEF Next
<1>2. QED
  BY <1>1, PTL DEF Spec, OutboxUntilStored

\* A handler past InsertMessage has its message in the database.
InsertedFirst == \A h \in Handlers : hand[h].pc \in {"relay", "ack"} => hand[h].m \in inbox

\* The phone confirms only what it has kept.
THEOREM AckedIsInDatabase == Spec => []AckedIsKept
<1> DEFINE Inv == AckedIsKept /\ InsertedFirst
<1>1. Init => Inv
  BY DEF Init, AckedIsKept, InsertedFirst, Free
<1>2. TypeOK /\ Inv /\ [Next]_vars => Inv'
  <2> SUFFICES ASSUME TypeOK, Inv, [Next]_vars PROVE Inv'
    OBVIOUS
  <2> USE DEF userVars, netVars, tables, serverKeys, phoneKeys, phoneVars, vars
  <2>0. hand \in [Handlers -> HandStates]
    BY DEF TypeOK
  <2>1. ASSUME NEW u \in Senders, SendStep(u)
        PROVE  UNCHANGED <<acked, inbox, hand>>
    BY <2>1 DEF SendStep, Fetch, FetchFails, Seal, HandOver, SendText
  <2>2. CASE LinkStep
    BY <2>2 DEF LinkStep, Connect, Break, Reconnect, Disconnect, UserKilled, AckedIsKept, InsertedFirst
  <2>3. CASE (\E m \in Msgs : ServerSend(m)) \/ ProvisionStep \/ (\E p \in upload : Upload(p))
    BY <2>3 DEF ServerSend, ProvisionStep, Launch, Count, Stock, Upload, AckedIsKept, InsertedFirst
  <2>4. CASE PhoneKilled
    BY <2>4 DEF PhoneKilled, Free, AckedIsKept, InsertedFirst
  <2>5. ASSUME NEW h \in Handlers, HandleStep(h)
        PROVE  Inv'
    <3>1. CASE InsertMessage(h)
      BY <2>0, <3>1 DEF InsertMessage, AckedIsKept, InsertedFirst
    <3>2. CASE RelayInbound(h)
      BY <2>0, <3>2 DEF RelayInbound, AckedIsKept, InsertedFirst
    <3>3. CASE AckServer(h)
      BY <2>0, <3>3 DEF AckServer, Free, AckedIsKept, InsertedFirst
    <3>4. CASE \/ LookupPrekeys(h) \/ ConsumePrekey(h) \/ LoadRatchet(h) \/ OpenEnvelope(h)
               \/ Reply(h) \/ SaveReply(h) \/ \E m \in Msgs, real \in BOOLEAN : Receive(h, m, real)
      <4>1. UNCHANGED <<acked, inbox>> /\ \A g \in Handlers \ {h} : hand'[g] = hand[g]
        BY <2>0, <3>4 DEF LookupPrekeys, ConsumePrekey, LoadRatchet, OpenEnvelope, Reply, SaveReply, Receive
      <4>2. hand'[h].pc \notin {"relay", "ack"}
        <5>1. hand[h] \in HandStates /\ h \in Handlers
          BY <2>0
        <5>2. Free.pc = "idle"
          BY DEF Free
        <5>3. CASE LookupPrekeys(h)
          <6> DEFINE R == IF env[hand[h].m].spk = spk THEN [session |-> env[hand[h].m].session, n |-> 0]
                                                      ELSE NoRatchet
                     moved == [hand[h] EXCEPT !.pc = "consume", !.r = R]
          <6>1. hand'[h] = Free \/ hand'[h] = moved
            BY <2>0, <5>3 DEF LookupPrekeys, Discarded
          <6>2. moved.pc = "consume"
            <7> HIDE DEF R
            <7> QED  BY <5>1 DEF HandStates
          <6> HIDE DEF moved
          <6>3. QED
            BY <5>2, <6>1, <6>2
        <5>4. CASE ConsumePrekey(h)
          BY <2>0, <5>1, <5>4 DEF HandStates, ConsumePrekey
        <5>5. CASE LoadRatchet(h)
          <6> DEFINE moved == [hand[h] EXCEPT !.pc = "open", !.r = pRatchet]
          <6>1. hand'[h] = Free \/ hand'[h] = moved
            BY <2>0, <5>5 DEF LoadRatchet, Discarded
          <6>2. moved.pc = "open"
            BY <5>1 DEF HandStates
          <6> HIDE DEF moved
          <6>3. QED
            BY <5>2, <6>1, <6>2
        <5>6. CASE OpenEnvelope(h)
          <6> DEFINE moved == [hand[h] EXCEPT !.pc = "insert"]
          <6>1. hand'[h] = Free \/ hand'[h] = moved
            BY <2>0, <5>6 DEF OpenEnvelope, Discarded
          <6>2. moved.pc = "insert"
            BY <5>1 DEF HandStates
          <6> HIDE DEF moved
          <6>3. QED
            BY <5>2, <6>1, <6>2
        <5>7. CASE Reply(h)
          BY <2>0, <5>7 DEF Reply, Free
        <5>8. CASE SaveReply(h)
          BY <2>0, <5>2, <5>8 DEF SaveReply
        <5>9. ASSUME NEW m \in Msgs, NEW real \in BOOLEAN, Receive(h, m, real)
              PROVE  hand'[h].pc \notin {"relay", "ack"}
          <6>1. hand'[h].pc \in {"lookup", "load"}
            BY <2>0, <5>9 DEF Receive, Free
          <6>2. QED
            BY <6>1
        <5>10. QED
          BY <3>4, <5>3, <5>4, <5>5, <5>6, <5>7, <5>8, <5>9
      <4>3. QED
        BY <4>1, <4>2 DEF AckedIsKept, InsertedFirst
    <3>5. QED
      BY <2>5, <3>1, <3>2, <3>3, <3>4 DEF HandleStep
  <2>6. CASE UNCHANGED vars
    BY <2>6 DEF AckedIsKept, InsertedFirst
  <2>7. QED
    BY <2>1, <2>2, <2>3, <2>4, <2>5, <2>6 DEF Next, AckedIsKept, InsertedFirst
<1>3. QED
  BY <1>1, <1>2, TypeCorrect, PTL DEF Spec

=============================================================================
