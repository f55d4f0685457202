------------------------------ MODULE HubProofs ------------------------------
(***************************************************************************)
(* Proofs about Hub for any sets of devices, connections and messages, any *)
(* capacities and any number of restarts: type correctness, the registry   *)
(* invariants, and that the hub implements the mailbox.                    *)
(***************************************************************************)
EXTENDS Hub, TLAPS

\* The backfill's query returns undelivered rows of the device only.
LEMMA MissedUndelivered == \A d : Missed(d) \subseteq Undelivered(d)
BY DEF Missed, Oldest

-----------------------------------------------------------------------------
(* Sequences as the queues and channels use them.                          *)

\* Sending to a channel adds the element to what it holds.
LEMMA RngAppend ==
  ASSUME NEW S, NEW s \in Seq(S), NEW x \in S
  PROVE  Rng(Append(s, x)) = Rng(s) \cup {x}
<1>1. DOMAIN Append(s, x) = 1 .. Len(s) + 1 /\ DOMAIN s = 1 .. Len(s) /\ Len(s) \in Nat
  OBVIOUS
<1>2. \A i \in 1 .. Len(s) : Append(s, x)[i] = s[i]
  OBVIOUS
<1>3. Append(s, x)[Len(s) + 1] = x
  OBVIOUS
<1>4. QED
  BY <1>1, <1>2, <1>3 DEF Rng

\* Receiving from a channel removes its head and nothing else.
LEMMA RngTail ==
  ASSUME NEW S, NEW s \in Seq(S), s # <<>>
  PROVE  /\ Head(s) \in S /\ Head(s) \in Rng(s)
         /\ Tail(s) \in Seq(S) /\ Len(Tail(s)) = Len(s) - 1
         /\ Rng(s) = {Head(s)} \cup Rng(Tail(s))
<1>1. Len(s) \in Nat \ {0} /\ DOMAIN s = 1 .. Len(s) /\ Head(s) = s[1]
  OBVIOUS
<1>2. /\ Tail(s) \in Seq(S) /\ Len(Tail(s)) = Len(s) - 1
      /\ \A i \in 1 .. Len(s) - 1 : Tail(s)[i] = s[i + 1]
  OBVIOUS
<1>3. DOMAIN Tail(s) = 1 .. Len(s) - 1
  BY <1>1, <1>2
<1>4. Rng(s) \subseteq {Head(s)} \cup Rng(Tail(s))
  <2>1. SUFFICES ASSUME NEW i \in 1 .. Len(s), i # 1
                 PROVE  s[i] \in Rng(Tail(s))
    BY <1>1 DEF Rng
  <2>2. i - 1 \in 1 .. Len(s) - 1 /\ Tail(s)[i - 1] = s[i]
    BY <2>1, <1>1, <1>2
  <2>3. QED
    BY <2>2, <1>3 DEF Rng
<1>5. Rng(Tail(s)) \subseteq Rng(s)
  <2>1. SUFFICES ASSUME NEW i \in 1 .. Len(s) - 1
                 PROVE  Tail(s)[i] \in Rng(s)
    BY <1>3 DEF Rng
  <2>2. i + 1 \in 1 .. Len(s) /\ Tail(s)[i] = s[i + 1]
    BY <1>1, <1>2
  <2>3. QED
    BY <2>2, <1>1 DEF Rng
<1>6. QED
  BY <1>1, <1>2, <1>4, <1>5 DEF Rng

\* A queue without repetition stays so when something new is sent, ...
LEMMA NoDupAppend ==
  ASSUME NEW S, NEW s \in Seq(S), NEW x \in S, NoDup(s), x \notin Rng(s)
  PROVE  NoDup(Append(s, x))
<1>1. DOMAIN Append(s, x) = 1 .. Len(s) + 1 /\ DOMAIN s = 1 .. Len(s) /\ Len(s) \in Nat
  OBVIOUS
<1>2. \A i \in 1 .. Len(s) : Append(s, x)[i] = s[i] /\ s[i] # x
  BY <1>1 DEF Rng
<1>3. Append(s, x)[Len(s) + 1] = x
  OBVIOUS
<1>4. QED
  BY <1>1, <1>2, <1>3 DEF NoDup

\* ... and when its head is received, which is then gone from it.
LEMMA NoDupTail ==
  ASSUME NEW S, NEW s \in Seq(S), s # <<>>, NoDup(s)
  PROVE  NoDup(Tail(s)) /\ Head(s) \notin Rng(Tail(s))
<1>1. Len(s) \in Nat \ {0} /\ DOMAIN s = 1 .. Len(s) /\ Head(s) = s[1]
  OBVIOUS
<1>2. Len(Tail(s)) = Len(s) - 1 /\ \A i \in 1 .. Len(s) - 1 : Tail(s)[i] = s[i + 1]
  OBVIOUS
<1>3. DOMAIN Tail(s) = 1 .. Len(s) - 1
  BY <1>1, <1>2
<1>4. \A i \in 1 .. Len(s) - 1 : i + 1 \in DOMAIN s /\ Tail(s)[i] = s[i + 1] /\ s[i + 1] # s[1]
  BY <1>1, <1>2 DEF NoDup
<1>5. NoDup(Tail(s))
  BY <1>3, <1>4 DEF NoDup
<1>6. QED
  BY <1>1, <1>3, <1>4, <1>5 DEF Rng

-----------------------------------------------------------------------------
(* Type correctness.                                                       *)

\* A non-blocking send keeps the buffers in their type and within capacity.
LEMMA PushType ==
  ASSUME TypeOK, NEW c \in Conns, NEW e \in Events, Push(c, e)
  PROVE  /\ buf' \in [Conns -> Seq(Events)] /\ \A o \in Conns : Len(buf'[o]) <= SendCap
         /\ lossy' \subseteq Conns
<1>1. CASE UNCHANGED outVars
  BY <1>1 DEF TypeOK, outVars
<1>2. CASE HasRoom(c) /\ buf' = [buf EXCEPT ![c] = Append(@, e)] /\ UNCHANGED lossy
  <2>1. Append(buf[c], e) \in Seq(Events) /\ Len(Append(buf[c], e)) = Len(buf[c]) + 1
    BY DEF TypeOK
  <2>2. Len(buf[c]) \in Nat /\ Len(buf[c]) < SendCap /\ SendCap \in Nat
    BY <1>2, HubAssumption DEF HasRoom, TypeOK
  <2>3. QED
    BY <1>2, <2>1, <2>2 DEF TypeOK
<1>3. CASE lossy' = lossy \cup {c} /\ UNCHANGED buf
  BY <1>3 DEF TypeOK
<1>4. QED
  BY <1>1, <1>2, <1>3 DEF Push

\* Ending a connection leaves its buffer empty.
LEMMA GoDownType ==
  ASSUME TypeOK, NEW c \in Conns, GoDown(c)
  PROVE  TypeOK'
<1>1. <<>> \in Seq(Events) /\ Len(<<>>) = 0 /\ SendCap \in Nat
  BY HubAssumption
<1>2. buf' \in [Conns -> Seq(Events)] /\ \A o \in Conns : Len(buf'[o]) <= SendCap
  BY <1>1 DEF GoDown, TypeOK
<1>3. QED
  BY <1>2 DEF GoDown, TypeOK, dbVars, mainVars, mapVars, queues, subVars

\* So does the end of the process, for all of them.
LEMMA ProcessGoneType ==
  ASSUME TypeOK, ProcessGone
  PROVE  TypeOK'
<1>1. <<>> \in Seq(Events) /\ <<>> \in Seq(Conns) /\ <<>> \in Seq(Messages) /\ Len(<<>>) = 0
  OBVIOUS
<1>2. SendCap \in Nat /\ QueueCap \in Nat
  BY HubAssumption
<1>3. QED
  BY <1>1, <1>2 DEF ProcessGone, TypeOK, BackfillState, Idle, dbVars

\* Every variable of the hub keeps its type.
THEOREM TypeCorrect == Spec => []TypeOK
<1>1. Init => TypeOK
  <2>1. SUFFICES ASSUME Init PROVE TypeOK
    OBVIOUS
  <2>2. <<>> \in Seq(Events) /\ <<>> \in Seq(Conns) /\ <<>> \in Seq(Messages) /\ Len(<<>>) = 0
    OBVIOUS
  <2>3. SendCap \in Nat /\ QueueCap \in Nat
    BY HubAssumption
  <2>4. QED
    BY <2>1, <2>2, <2>3 DEF Init, TypeOK, BackfillState, Idle
<1>2. TypeOK /\ [Next]_vars => TypeOK'
  <2> SUFFICES ASSUME TypeOK, [Next]_vars
               PROVE  TypeOK'
    OBVIOUS
  <2> USE DEF dbVars, mainVars, mapVars, queues, connVars, subVars
  <2>1. CASE HubRegister
    <3>1. registerQ' \in Seq(Conns) /\ Len(registerQ') <= QueueCap /\ Head(registerQ) \in Conns
      BY <2>1, RngTail, HubAssumption DEF TypeOK, HubRegister
    <3>2. closed' \subseteq Conns /\ clients' \in [Devices -> Conns \cup {NoConn}]
      BY <2>1, <3>1, HubAssumption DEF TypeOK, HubRegister, Displaced
    <3>3. sub' \in [Conns -> {"off", "starting", "live"}]
      BY <2>1, <3>1 DEF TypeOK, HubRegister
    <3>4. bf' \in [Conns -> BackfillState]
      <4>1. [Idle EXCEPT !.pc = "query"] \in BackfillState
        BY DEF BackfillState, Idle
      <4>2. QED
        BY <2>1, <3>1, <4>1 DEF TypeOK, HubRegister
    <3>5. QED
      BY <2>1, <3>1, <3>2, <3>3, <3>4 DEF TypeOK, HubRegister, outVars
  <2>2. CASE HubUnregister
    <3>1. unregisterQ' \in Seq(Conns) /\ Len(unregisterQ') <= QueueCap /\ Head(unregisterQ) \in Conns
      BY <2>2, RngTail, HubAssumption DEF TypeOK, HubUnregister
    <3>2. closed' \subseteq Conns /\ clients' \in [Devices -> Conns \cup {NoConn}]
      <4>1. CASE clients' = AfterLeaving(Head(unregisterQ)) /\ closed' = closed \cup {Head(unregisterQ)}
        BY <4>1, <3>1 DEF TypeOK, AfterLeaving
      <4>2. CASE UNCHANGED mapVars
        BY <4>2 DEF TypeOK
      <4>3. QED
        BY <2>2, <4>1, <4>2 DEF HubUnregister
    <3>3. QED
      BY <2>2, <3>1, <3>2 DEF TypeOK, HubUnregister, outVars
  <2>3. CASE Stop
    BY <2>3 DEF TypeOK, Stop, outVars
  <2>4. CASE Broadcast
    <3>1. Bye \in Events
      BY DEF Events
    <3>2. ASSUME NEW c \in Conns
          PROVE  buf'[c] \in Seq(Events) /\ Len(buf'[c]) <= SendCap
      <4>1. CASE HasRoom(c) /\ buf'[c] = Append(buf[c], Bye)
        <5>1. Len(buf[c]) \in Nat /\ Len(buf[c]) < SendCap /\ SendCap \in Nat
          BY <4>1, HubAssumption DEF HasRoom, TypeOK
        <5>2. QED
          BY <4>1, <5>1, <3>1 DEF TypeOK
      <4>2. CASE buf'[c] = buf[c]
        BY <4>2 DEF TypeOK
      <4>3. QED
        BY <2>4, <4>1, <4>2 DEF Broadcast
    <3>3. QED
      BY <2>4, <3>2 DEF TypeOK, Broadcast
  <2>5. CASE CloseHub
    BY <2>5 DEF TypeOK, CloseHub, Registered, outVars
  <2>6. CASE Exit
    BY <2>6, ProcessGoneType DEF Exit
  <2>7. ASSUME NEW m \in Messages, MessageStep(m)
        PROVE  TypeOK'
    <3>1. CASE Store(m)
      BY <3>1 DEF TypeOK, Store, outVars
    <3>2. CASE Publish(m)
      BY <3>2 DEF TypeOK, Publish, outVars
    <3>3. CASE PublishLost(m)
      BY <3>3 DEF TypeOK, PublishLost, outVars
    <3>4. CASE Week(m)
      BY <3>4 DEF TypeOK, Week, outVars
    <3>5. ASSUME NEW d \in Devices, Fetch(d, m)
          PROVE  TypeOK'
      BY <3>5 DEF TypeOK, Fetch, outVars
    <3>6. QED
      BY <2>7, <3>1, <3>2, <3>3, <3>4, <3>5 DEF MessageStep
  <2>8. ASSUME NEW c \in Conns, ConnStep(c)
        PROVE  TypeOK'
    <3> DeviceOf[c] \in Devices
      BY HubAssumption
    <3>1. CASE Connect(c)
      <4>1. registerQ' \in Seq(Conns) /\ Len(registerQ') <= QueueCap
        BY <3>1, HubAssumption DEF TypeOK, Connect
      <4>2. QED
        BY <3>1, <4>1 DEF TypeOK, Connect, outVars
    <3>2. CASE Disconnect(c) \/ WriterClose(c) \/ WriterExit(c)
      BY <3>2, GoDownType DEF Disconnect, WriterClose, WriterExit
    <3>3. CASE ReaderExit(c)
      <4>1. unregisterQ' \in Seq(Conns) /\ Len(unregisterQ') <= QueueCap
        BY <3>3, HubAssumption DEF TypeOK, ReaderExit
      <4>2. QED
        BY <3>3, <4>1 DEF TypeOK, ReaderExit, outVars
    <3>4. CASE WriterSend(c)
      <4>1. buf[c] \in Seq(Events) /\ buf[c] # <<>>
        BY <3>4 DEF TypeOK, WriterSend
      <4>2. /\ Tail(buf[c]) \in Seq(Events) /\ Len(Tail(buf[c])) = Len(buf[c]) - 1
            /\ Head(buf[c]) \in Events
        BY <4>1, RngTail
      <4>3. Len(buf[c]) \in Nat /\ SendCap \in Nat
        BY <4>1, HubAssumption
      <4>4. buf' \in [Conns -> Seq(Events)] /\ \A o \in Conns : Len(buf'[o]) <= SendCap
        BY <3>4, <4>2, <4>3 DEF TypeOK, WriterSend
      <4>5. got' \in [Conns -> Seq(Messages)]
        <5>1. CASE Head(buf[c]) \in Messages
          <6>1. Append(got[c], Head(buf[c])) \in Seq(Messages)
            BY <5>1 DEF TypeOK
          <6>2. QED
            BY <3>4, <5>1, <6>1 DEF TypeOK, WriterSend
        <5>2. CASE Head(buf[c]) \notin Messages
          BY <3>4, <5>2 DEF TypeOK, WriterSend
        <5>3. QED
          BY <5>1, <5>2
      <4>6. QED
        BY <3>4, <4>4, <4>5 DEF TypeOK, WriterSend
    <3>5. CASE ReaderReply(c)
      <4>1. Reply \in Events
        BY DEF Events
      <4>2. /\ buf' \in [Conns -> Seq(Events)] /\ \A o \in Conns : Len(buf'[o]) <= SendCap
            /\ lossy' \subseteq Conns
        BY <3>5, <4>1, PushType DEF ReaderReply, TypeOK, outVars
      <4>3. QED
        BY <3>5, <4>2 DEF TypeOK, ReaderReply
    <3>6. CASE Subscribed(c)
      BY <3>6 DEF TypeOK, Subscribed, outVars
    <3>7. CASE Route(c)
      <4>1. subQ[c] \in Seq(Messages) /\ subQ[c] # <<>>
        BY <3>7 DEF TypeOK, Route
      <4>2. Head(subQ[c]) \in Events /\ Tail(subQ[c]) \in Seq(Messages)
        BY <4>1, RngTail DEF Events
      <4>3. clients[DeviceOf[c]] \in Conns \cup {NoConn}
        BY DEF TypeOK
      <4>4. /\ buf' \in [Conns -> Seq(Events)] /\ \A o \in Conns : Len(buf'[o]) <= SendCap
            /\ lossy' \subseteq Conns
        <5>1. CASE UNCHANGED outVars
          BY <5>1 DEF TypeOK, outVars
        <5>2. CASE clients[DeviceOf[c]] \in Conns /\ Push(clients[DeviceOf[c]], Head(subQ[c]))
          BY <5>2, <4>2, PushType
        <5>3. QED
          BY <3>7, <4>3, <5>1, <5>2 DEF Route
      <4>5. subQ' \in [Conns -> Seq(Messages)]
        BY <3>7, <4>2 DEF TypeOK, Route
      <4>6. QED
        BY <3>7, <4>4, <4>5 DEF TypeOK, Route
    <3>8. CASE BackfillQuery(c)
      <4>1. Missed(DeviceOf[c]) \subseteq Messages
        <5>1. Missed(DeviceOf[c]) \subseteq Undelivered(DeviceOf[c])
          BY MissedUndelivered
        <5>2. QED
          BY <5>1 DEF Undelivered, Rng, TypeOK
      <4>2. QED
        <5>1. bf[c] \in BackfillState /\ bf[c].pc = "query"
          BY <3>8 DEF TypeOK, BackfillQuery
        <5>2. /\ Idle \in BackfillState
              /\ \A read \in SUBSET Missed(DeviceOf[c]) :
                   [bf[c] EXCEPT !.pc = "lookup", !.batch = read] \in BackfillState
          BY <4>1, <5>1 DEF BackfillState, Idle
        <5>3. bf' \in [Conns -> BackfillState] /\ lossy' \subseteq Conns
          BY <3>8, <5>2 DEF TypeOK, BackfillQuery
        <5>4. QED
          BY <3>8, <5>3 DEF TypeOK, BackfillQuery
    <3>9. CASE BackfillLookup(c)
      <4>1. bf[c] \in BackfillState /\ bf[c].pc = "lookup"
        BY <3>9 DEF TypeOK, BackfillLookup
      <4>2. \A o \in Conns : [bf[c] EXCEPT !.pc = "send", !.to = o] \in BackfillState
        BY <4>1 DEF BackfillState
      <4>3. Idle \in BackfillState /\ clients[DeviceOf[c]] \in Conns \cup {NoConn}
        BY DEF TypeOK, BackfillState, Idle
      <4>4. bf' \in [Conns -> BackfillState]
        BY <3>9, <4>2, <4>3 DEF TypeOK, BackfillLookup
      <4>5. QED
        BY <3>9, <4>4 DEF TypeOK, BackfillLookup, outVars
    <3>10. CASE BackfillSend(c)
      <4>1. PICK m \in bf[c].batch :
              /\ Push(bf[c].to, m)
              /\ bf' = [bf EXCEPT ![c] = IF bf[c].batch = {m} THEN Idle
                                        ELSE [bf[c] EXCEPT !.batch = @ \ {m}]]
        BY <3>10 DEF BackfillSend
      <4>2. bf[c] \in BackfillState /\ bf[c].pc = "send"
        BY <3>10 DEF BackfillSend, TypeOK
      <4>3. m \in Events /\ bf[c].to \in Conns
        BY <4>1, <4>2 DEF BackfillState, Events
      <4>4. bf' \in [Conns -> BackfillState]
        <5>1. Idle \in BackfillState /\ [bf[c] EXCEPT !.batch = @ \ {m}] \in BackfillState
          BY <4>2 DEF BackfillState, Idle
        <5>2. QED
          BY <4>1, <5>1 DEF TypeOK
      <4>5. /\ buf' \in [Conns -> Seq(Events)] /\ \A o \in Conns : Len(buf'[o]) <= SendCap
            /\ lossy' \subseteq Conns
        BY <4>1, <4>3, PushType
      <4>6. QED
        BY <3>10, <4>4, <4>5 DEF TypeOK, BackfillSend
    <3>11. CASE BackfillPanic(c)
      BY <3>11, ProcessGoneType DEF BackfillPanic
    <3>12. ASSUME NEW m \in Messages, HandleAck(c, m)
           PROVE  TypeOK'
      BY <3>12 DEF TypeOK, HandleAck, Marked, outVars
    <3>13. QED
      BY <2>8, <3>1, <3>2, <3>3, <3>4, <3>5, <3>6, <3>7, <3>8, <3>9, <3>10, <3>11, <3>12
      DEF ConnStep, PumpStep, BackfillStep
  <2>9. CASE UNCHANGED vars
    BY <2>9 DEF TypeOK, vars, outVars
  <2>10. QED
    BY <2>1, <2>2, <2>3, <2>4, <2>5, <2>6, <2>7, <2>8, <2>9 DEF Next, HubStep
<1>3. QED
  BY <1>1, <1>2, PTL DEF Spec

-----------------------------------------------------------------------------
(* The registry: the clients map, the closed channels and the queue of      *)
(* registrations. RegisteredOpen and NoOrphan are not inductive alone: that *)
(* a registration closes no other device's channel and revives no closed    *)
(* one follows from what RegistryInv says of the queue.                     *)

Registry == RegistryInv /\ RegisteredOpen /\ NoOrphan

\* Steps that leave map, channels and queue alone and accept no connection
\* keep the registry: messages, pumps, subscriptions, backfills, acks.
LEMMA QuietStep ==
  ASSUME TypeOK, Registry, UNCHANGED mapVars, UNCHANGED registerQ,
         \A c \in Conns : sock'[c] = "fresh" <=> sock[c] = "fresh"
  PROVE  Registry'
<1>1. Rng(registerQ) \subseteq Conns
  BY DEF TypeOK, Rng
<1>2. clients' = clients /\ closed' = closed /\ registerQ' = registerQ /\ Rng(registerQ)' = Rng(registerQ)
  BY DEF mapVars
<1>3. RegistryInv'
  BY <1>1, <1>2 DEF Registry, RegistryInv, TypeOK, NoDup
<1>4. QED
  BY <1>2, <1>3 DEF Registry, RegisteredOpen, NoOrphan

\* Ending a connection is such a step.
LEMMA GoDownRegistry ==
  ASSUME TypeOK, Registry, NEW c \in Conns, sock[c] = "up", GoDown(c)
  PROVE  Registry'
<1>1. \A o \in Conns : sock'[o] = "fresh" <=> sock[o] = "fresh"
  BY DEF GoDown, TypeOK
<1>2. QED
  BY <1>1, QuietStep DEF GoDown, queues

\* A process that is gone leaves an empty map and only dead channels.
LEMMA ProcessGoneRegistry ==
  ASSUME TypeOK, Registry, ProcessGone
  PROVE  Registry'
<1>1. registerQ' = <<>> /\ Rng(registerQ)' = {}
  BY DEF ProcessGone, Rng
<1>2. \A d \in Devices : clients'[d] = NoConn
  BY DEF ProcessGone
<1>3. \A c \in Conns : /\ sock'[c] = "fresh" <=> sock[c] = "fresh"
                       /\ c \in closed' <=> sock[c] # "fresh"
  BY DEF ProcessGone
<1>4. closed' \subseteq Conns
  BY DEF ProcessGone
<1>5. QED
  BY <1>1, <1>2, <1>3, <1>4 DEF Registry, RegistryInv, RegisteredOpen, NoOrphan, NoDup

\* The hub replaces a registered connection by the one that registers.
LEMMA HubRegisterRegistry ==
  ASSUME TypeOK, Registry, HubRegister
  PROVE  Registry'
<1> DEFINE c == Head(registerQ)
           d == DeviceOf[c]
<1>1. /\ c \in Conns /\ c \in Rng(registerQ)
      /\ Rng(registerQ) = {c} \cup Rng(registerQ')
      /\ NoDup(registerQ') /\ c \notin Rng(registerQ')
  BY RngTail, NoDupTail DEF TypeOK, HubRegister, Registry, RegistryInv
<1>2. Rng(registerQ)' = Rng(registerQ')
  BY DEF Rng
<1>3. d \in Devices /\ Rng(registerQ) \subseteq Conns
  BY <1>1, HubAssumption DEF TypeOK, Rng
<1>4. /\ closed' = closed \cup ({clients[d]} \ {NoConn})
      /\ clients' = [clients EXCEPT ![d] = c]
      /\ sock' = sock
  BY DEF HubRegister, Displaced, connVars
<1>5. c # NoConn /\ c \notin closed /\ c # clients[d] /\ sock[c] # "fresh"
  BY <1>1, <1>3, HubAssumption DEF Registry, RegistryInv
<1>6. \A e \in Devices : e # d /\ clients[e] # NoConn => clients[e] # clients[d] /\ clients[e] # c
  BY <1>1, <1>3, <1>5 DEF Registry, RegistryInv
<1>7. RegistryInv'
  BY <1>1, <1>2, <1>3, <1>4, <1>5, <1>6 DEF Registry, RegistryInv, TypeOK, NoDup
<1>8. RegisteredOpen'
  BY <1>3, <1>4, <1>5, <1>6 DEF Registry, RegisteredOpen, TypeOK
<1>9. NoOrphan'
  <2>1. SUFFICES ASSUME NEW o \in Conns, sock[o] # "fresh", o \notin Rng(registerQ'), o \notin closed'
                 PROVE  clients'[DeviceOf[o]] = o
    BY <1>2, <1>4 DEF NoOrphan
  <2>2. CASE o = c
    BY <2>2, <1>3, <1>4 DEF TypeOK
  <2>3. CASE o # c
    <3>1. clients[DeviceOf[o]] = o /\ DeviceOf[o] \in Devices
      BY <2>1, <2>3, <1>1, <1>4, HubAssumption DEF Registry, NoOrphan
    <3>2. DeviceOf[o] # d
      BY <2>1, <3>1, <1>4, HubAssumption
    <3>3. QED
      BY <3>1, <3>2, <1>4 DEF TypeOK
  <2>4. QED
    BY <2>2, <2>3
<1>10. QED
  BY <1>7, <1>8, <1>9 DEF Registry

\* The hub forgets a connection that leaves, if it is still the current one.
LEMMA HubUnregisterRegistry ==
  ASSUME TypeOK, Registry, HubUnregister
  PROVE  Registry'
<1> DEFINE c == Head(unregisterQ)
           d == DeviceOf[c]
<1>1. c \in Conns /\ d \in Devices
  BY RngTail, HubAssumption DEF TypeOK, HubUnregister
<1>2. registerQ' = registerQ /\ sock' = sock /\ Rng(registerQ)' = Rng(registerQ)
      /\ Rng(registerQ) \subseteq Conns
  BY DEF HubUnregister, connVars, TypeOK, Rng
<1>3. CASE clients[d] = c
  <2>1. clients' = [clients EXCEPT ![d] = NoConn] /\ closed' = closed \cup {c}
    BY <1>3 DEF HubUnregister, AfterLeaving
  <2>2. c # NoConn /\ sock[c] # "fresh" /\ c \notin Rng(registerQ)
    BY <1>1, <1>3, HubAssumption DEF Registry, RegistryInv
  <2>3. \A e \in Devices : e # d /\ clients[e] # NoConn => clients[e] # c
    BY <1>1 DEF Registry, RegistryInv
  <2>4. RegistryInv'
    BY <1>1, <1>2, <2>1, <2>2, <2>3 DEF Registry, RegistryInv, TypeOK, NoDup
  <2>5. RegisteredOpen'
    BY <1>1, <2>1, <2>3 DEF Registry, RegisteredOpen, TypeOK
  <2>6. NoOrphan'
    BY <1>1, <1>2, <1>3, <2>1, HubAssumption DEF Registry, NoOrphan, TypeOK
  <2>7. QED
    BY <2>4, <2>5, <2>6 DEF Registry
<1>4. CASE clients[d] # c
  BY <1>2, <1>4, QuietStep DEF HubUnregister
<1>5. QED
  BY <1>3, <1>4

\* A connection that is accepted enters the queue as its newest member.
LEMMA ConnectRegistry ==
  ASSUME TypeOK, Registry, NEW c \in Conns, Connect(c)
  PROVE  Registry'
<1>1. sock[c] = "fresh" /\ registerQ' = Append(registerQ, c) /\ sock' = [sock EXCEPT ![c] = "up"]
      /\ clients' = clients /\ closed' = closed
  BY DEF Connect, mapVars
<1>2. c \notin Rng(registerQ) /\ c \notin closed
  BY <1>1 DEF Registry, RegistryInv
<1>3. Rng(registerQ') = Rng(registerQ) \cup {c} /\ NoDup(registerQ')
  BY <1>1, <1>2, RngAppend, NoDupAppend DEF TypeOK, Registry, RegistryInv
<1>4. Rng(registerQ)' = Rng(registerQ') /\ Rng(registerQ) \subseteq Conns
  BY DEF Rng, TypeOK
<1>5. \A o \in Conns : sock'[o] # "fresh" <=> sock[o] # "fresh" \/ o = c
  BY <1>1 DEF TypeOK
<1>6. \A e \in Devices : clients[e] # NoConn => clients[e] # c /\ clients[e] \in Conns
  BY <1>1 DEF Registry, RegistryInv, TypeOK
<1>7. RegistryInv'
  <2>1. NoDup(registerQ)'
    BY <1>3 DEF NoDup
  <2>2. \A o \in Rng(registerQ') : sock'[o] # "fresh" /\ o \notin closed'
    BY <1>1, <1>2, <1>3, <1>4, <1>5 DEF Registry, RegistryInv
  <2>3. \A o \in closed' : sock'[o] # "fresh"
    BY <1>1, <1>5 DEF Registry, RegistryInv, TypeOK
  <2>4. \A e \in Devices : clients'[e] # NoConn =>
          /\ DeviceOf[clients'[e]] = e
          /\ sock'[clients'[e]] # "fresh" /\ clients'[e] \notin Rng(registerQ')
    BY <1>1, <1>3, <1>5, <1>6 DEF Registry, RegistryInv
  <2>5. QED
    BY <1>4, <2>1, <2>2, <2>3, <2>4 DEF RegistryInv
<1>8. RegisteredOpen' /\ NoOrphan'
  BY <1>1, <1>3, <1>4, <1>5 DEF Registry, RegisteredOpen, NoOrphan
<1>9. QED
  BY <1>7, <1>8 DEF Registry

\* At the end of a graceful shutdown the hub closes what is registered.
LEMMA CloseHubRegistry ==
  ASSUME TypeOK, Registry, CloseHub
  PROVE  Registry'
<1>1. /\ closed' = closed \cup Registered /\ clients' = [d \in Devices |-> NoConn]
      /\ registerQ' = registerQ /\ sock' = sock /\ Rng(registerQ)' = Rng(registerQ)
  BY DEF CloseHub, queues, connVars, Rng
<1>2. \A c \in Registered : sock[c] # "fresh" /\ c \notin Rng(registerQ)
  BY DEF Registered, Registry, RegistryInv
<1>3. RegistryInv'
  BY <1>1, <1>2 DEF Registry, RegistryInv, NoDup
<1>4. \A c \in Conns : clients[DeviceOf[c]] = c => c \in Registered
  BY HubAssumption DEF Registered
<1>5. RegisteredOpen' /\ NoOrphan'
  BY <1>1, <1>4, HubAssumption DEF Registry, RegisteredOpen, NoOrphan
<1>6. QED
  BY <1>3, <1>5 DEF Registry

\* The registry holds in every reachable state.
THEOREM RegistryInductive == Spec => []Registry
<1>1. Init => Registry
  BY HubAssumption DEF Init, Registry, RegistryInv, RegisteredOpen, NoOrphan, NoDup, Rng
<1>2. TypeOK /\ Registry /\ [Next]_vars => Registry'
  <2> SUFFICES ASSUME TypeOK, Registry, [Next]_vars
               PROVE  Registry'
    OBVIOUS
  <2>1. CASE HubRegister \/ HubUnregister \/ CloseHub
    BY <2>1, HubRegisterRegistry, HubUnregisterRegistry, CloseHubRegistry
  <2>2. CASE Exit
    BY <2>2, ProcessGoneRegistry DEF Exit
  <2>3. CASE Stop \/ Broadcast
    BY <2>3, QuietStep DEF Stop, Broadcast, queues, connVars
  <2>4. ASSUME NEW m \in Messages, MessageStep(m)
        PROVE  Registry'
    BY <2>4, QuietStep DEF MessageStep, Store, Publish, PublishLost, Week, Fetch, queues, connVars
  <2>5. ASSUME NEW c \in Conns, ConnStep(c)
        PROVE  Registry'
    <3>1. CASE Connect(c)
      BY <3>1, ConnectRegistry
    <3>2. CASE Disconnect(c) \/ WriterClose(c) \/ WriterExit(c)
      BY <3>2, GoDownRegistry DEF Disconnect, WriterClose, WriterExit
    <3>3. CASE BackfillPanic(c)
      BY <3>3, ProcessGoneRegistry DEF BackfillPanic
    <3>4. CASE ReaderExit(c) \/ WriterSend(c) \/ ReaderReply(c)
      BY <3>4, QuietStep DEF ReaderExit, WriterSend, ReaderReply, queues, connVars
    <3>5. CASE Subscribed(c) \/ Route(c)
      BY <3>5, QuietStep DEF Subscribed, Route, queues, connVars
    <3>6. CASE BackfillQuery(c) \/ BackfillLookup(c) \/ BackfillSend(c)
      BY <3>6, QuietStep DEF BackfillQuery, BackfillLookup, BackfillSend, queues, connVars
    <3>7. ASSUME NEW m \in Messages, HandleAck(c, m)
          PROVE  Registry'
      BY <3>7, QuietStep DEF HandleAck, queues, connVars
    <3>8. QED
      BY <2>5, <3>1, <3>2, <3>3, <3>4, <3>5, <3>6, <3>7 DEF ConnStep, PumpStep, BackfillStep
  <2>6. CASE UNCHANGED vars
    BY <2>6, QuietStep DEF vars, queues, connVars
  <2>7. QED
    BY <2>1, <2>2, <2>3, <2>4, <2>5, <2>6 DEF Next, HubStep
<1>3. QED
  BY <1>1, <1>2, TypeCorrect, PTL DEF Spec

\* No code path of the hub closes a channel twice or sends on a closed channel
\* it finds in the map, for any number of devices and connections.
THEOREM RegistryCorrect == Spec => []RegisteredOpen
<1>1. Registry => RegisteredOpen
  BY DEF Registry
<1>2. QED
  BY <1>1, RegistryInductive, PTL

\* No accepted connection is left hanging: it waits to be registered, is the
\* one its device is reached by, or is told to close.
THEOREM NobodyHangs == Spec => []NoOrphan
<1>1. Registry => NoOrphan
  BY DEF Registry
<1>2. QED
  BY <1>1, RegistryInductive, PTL

-----------------------------------------------------------------------------
(* The mailbox: every copy of a message on its way - in a subscription, a    *)
(* backfill, a channel or on the device - is one of a stored row, and on the *)
(* way to the row's recipient.                                               *)

Addressed(m, d) == m \in Rng(rows) /\ To[m] = d

InFlight ==
  \A c \in Conns :
    /\ \A m \in Rng(subQ[c]) : Addressed(m, DeviceOf[c])
    /\ \A m \in Rng(buf[c]) \cap Messages : Addressed(m, DeviceOf[c])
    /\ \A m \in bf[c].batch : Addressed(m, DeviceOf[c])
    /\ bf[c].pc = "send" => DeviceOf[bf[c].to] = DeviceOf[c]
Arrived ==
  /\ \A c \in Conns : \A m \in Rng(got[c]) : Addressed(m, DeviceOf[c])
  /\ \A m \in delivered : <<To[m], m>> \in Seen \cup fetched

Mail == InFlight /\ Arrived

\* A non-blocking send of an event for the connection's device keeps every
\* channel free of messages for others.
LEMMA PushMail ==
  ASSUME TypeOK, Mail, NEW c \in Conns, NEW e \in Events, Push(c, e),
         e \in Messages => Addressed(e, DeviceOf[c])
  PROVE  \A o \in Conns : \A m \in Rng(buf'[o]) \cap Messages : Addressed(m, DeviceOf[o])
<1>1. CASE buf' = buf
  BY <1>1 DEF Mail, InFlight
<1>2. CASE buf' = [buf EXCEPT ![c] = Append(@, e)]
  <2>1. buf'[c] = Append(buf[c], e) /\ Rng(Append(buf[c], e)) = Rng(buf[c]) \cup {e}
    BY <1>2, RngAppend DEF TypeOK
  <2>2. \A o \in Conns : o # c => buf'[o] = buf[o]
    BY <1>2 DEF TypeOK
  <2>3. \A m \in Rng(buf[c]) \cap Messages : Addressed(m, DeviceOf[c])
    BY DEF Mail, InFlight
  <2>4. \A m \in Rng(buf'[c]) \cap Messages : Addressed(m, DeviceOf[c])
    BY <2>1, <2>3
  <2>5. QED
    BY <2>2, <2>4 DEF Mail, InFlight
<1>3. QED
  BY <1>1, <1>2 DEF Push, outVars

\* What arrived stays where it is in every step but the device's reads, fetches
\* and acks.
LEMMA ArrivedQuiet ==
  ASSUME Mail, UNCHANGED <<got, delivered, fetched>>, Rng(rows) \subseteq Rng(rows')
  PROVE  Arrived'
<1>1. Seen' = Seen
  BY DEF Seen
<1>2. QED
  BY <1>1 DEF Mail, Arrived, Addressed

\* Storing a row takes nothing back.
LEMMA StoreMail ==
  ASSUME TypeOK, Mail, NEW m \in Messages, Store(m)
  PROVE  Mail' /\ Rng(rows') = Rng(rows) \cup {m}
<1>1. Rng(rows') = Rng(rows) \cup {m}
  BY RngAppend DEF TypeOK, Store
<1>2. InFlight'
  BY <1>1 DEF Mail, InFlight, Addressed, Store, outVars, subVars
<1>3. QED
  BY <1>1, <1>2, ArrivedQuiet DEF Mail, Store

\* A phone that fetches reads a stored row, and takes nothing from anyone.
LEMMA FetchMail ==
  ASSUME TypeOK, Mail, NEW d \in Devices, NEW m \in Messages, Fetch(d, m)
  PROVE  Mail' /\ m \in Rng(rows) /\ fetched' = fetched \cup {<<d, m>>}
               /\ UNCHANGED <<rows, Seen, delivered>>
<1>1. /\ UNCHANGED <<rows, got, delivered, subQ, bf, buf>>
      /\ m \in Rng(rows) /\ fetched' = fetched \cup {<<d, m>>}
  BY DEF Fetch, outVars, subVars
<1>2. Seen' = Seen
  BY <1>1 DEF Seen
<1>3. Mail'
  BY <1>1, <1>2 DEF Mail, InFlight, Arrived, Addressed
<1>4. QED
  BY <1>1, <1>2, <1>3

\* Redis hands a message only to subscriptions of the recipient's channel.
LEMMA PublishMail ==
  ASSUME TypeOK, Mail, NEW m \in Messages, Publish(m)
  PROVE  Mail'
<1>1. rows' = rows /\ got' = got /\ delivered' = delivered /\ fetched' = fetched /\ buf' = buf /\ bf' = bf
  BY DEF Publish, outVars
<1>2. ASSUME NEW c \in Conns, NEW n \in Rng(subQ'[c])
      PROVE  Addressed(n, DeviceOf[c])
  <2>1. CASE n \in Rng(subQ[c])
    BY <2>1 DEF Mail, InFlight
  <2>2. CASE n \notin Rng(subQ[c])
    <3>1. DeviceOf[c] = To[m] /\ subQ'[c] = Append(subQ[c], m)
      BY <1>2, <2>2 DEF Publish
    <3>2. Rng(subQ'[c]) = Rng(subQ[c]) \cup {m}
      BY <3>1, RngAppend DEF TypeOK
    <3>3. QED
      BY <1>2, <2>2, <3>1, <3>2 DEF Addressed, Publish
  <2>3. QED
    BY <2>1, <2>2
<1>3. InFlight'
  BY <1>1, <1>2 DEF Mail, InFlight, Addressed
<1>4. QED
  BY <1>1, <1>3, ArrivedQuiet DEF Mail

\* A connection that ends loses its channel.
LEMMA GoDownMail ==
  ASSUME TypeOK, Mail, NEW c \in Conns, GoDown(c)
  PROVE  Mail'
<1>1. /\ rows' = rows /\ got' = got /\ delivered' = delivered /\ fetched' = fetched /\ subQ' = subQ /\ bf' = bf
      /\ buf' = [buf EXCEPT ![c] = <<>>]
  BY DEF GoDown, dbVars, subVars
<1>2. \A o \in Conns : Rng(buf'[o]) \subseteq Rng(buf[o])
  BY <1>1 DEF TypeOK, Rng
<1>3. InFlight'
  BY <1>1, <1>2 DEF Mail, InFlight, Addressed
<1>4. QED
  BY <1>1, <1>3, ArrivedQuiet DEF Mail

\* A process that ends loses everything that is under way.
LEMMA ProcessGoneMail ==
  ASSUME Mail, ProcessGone
  PROVE  Mail'
<1>1. /\ rows' = rows /\ got' = got /\ delivered' = delivered /\ fetched' = fetched
      /\ \A c \in Conns : buf'[c] = <<>> /\ subQ'[c] = <<>> /\ bf'[c] = Idle
  BY DEF ProcessGone, dbVars
<1>2. InFlight'
  BY <1>1 DEF InFlight, Rng, Idle
<1>3. QED
  BY <1>1, <1>2, ArrivedQuiet DEF Mail

\* The drain notice is no message.
LEMMA BroadcastMail ==
  ASSUME TypeOK, Mail, Broadcast
  PROVE  Mail'
<1>1. /\ rows' = rows /\ got' = got /\ delivered' = delivered /\ fetched' = fetched /\ subQ' = subQ /\ bf' = bf
  BY DEF Broadcast, dbVars, subVars
<1>2. Bye \in Events /\ Bye \notin Messages
  BY HubAssumption DEF Events
<1>3. \A c \in Conns : Rng(buf'[c]) \cap Messages \subseteq Rng(buf[c])
  BY <1>2, RngAppend DEF Broadcast, TypeOK
<1>4. InFlight'
  BY <1>1, <1>3 DEF Mail, InFlight, Addressed
<1>5. QED
  BY <1>1, <1>4, ArrivedQuiet DEF Mail

\* The device reads what the write pump writes: the head of its channel.
LEMMA WriterSendMail ==
  ASSUME TypeOK, Mail, NEW c \in Conns, WriterSend(c)
  PROVE  /\ Mail'
         /\ Head(buf[c]) \in Messages =>
              /\ Head(buf[c]) \in Rng(rows)
              /\ Seen' = Seen \cup {<<To[Head(buf[c])], Head(buf[c])>>}
         /\ Head(buf[c]) \notin Messages => Seen' = Seen
<1> DEFINE e == Head(buf[c])
<1>1. rows' = rows /\ delivered' = delivered /\ fetched' = fetched /\ subQ' = subQ /\ bf' = bf
  BY DEF WriterSend, dbVars, subVars
<1>2. e \in Events /\ Rng(buf[c]) = {e} \cup Rng(Tail(buf[c]))
  BY RngTail DEF TypeOK, WriterSend
<1>3. \A o \in Conns : Rng(buf'[o]) \subseteq Rng(buf[o])
  BY <1>2 DEF TypeOK, WriterSend
<1>4. InFlight'
  BY <1>1, <1>3 DEF Mail, InFlight, Addressed
<1>5. CASE e \in Messages
  <2>1. Addressed(e, DeviceOf[c])
    BY <1>2, <1>5 DEF Mail, InFlight
  <2>2. got' = [got EXCEPT ![c] = Append(@, e)]
    BY <1>5 DEF WriterSend
  <2>3. \A o \in Conns : Rng(got'[o]) = IF o = c THEN Rng(got[o]) \cup {e} ELSE Rng(got[o])
    <3>1. got'[c] = Append(got[c], e) /\ Rng(Append(got[c], e)) = Rng(got[c]) \cup {e}
      BY <1>5, <2>2, RngAppend DEF TypeOK
    <3>2. \A o \in Conns : o # c => got'[o] = got[o]
      BY <2>2 DEF TypeOK
    <3>3. QED
      BY <3>1, <3>2
  <2>4. Seen' = Seen \cup {<<To[e], e>>}
    <3> HIDE DEF e
    <3>1. ASSUME NEW d \in Devices, NEW m \in Messages
          PROVE  <<d, m>> \in Seen' <=> <<d, m>> \in Seen \/ (d = To[e] /\ m = e)
      <4>1. <<d, m>> \in Seen <=> \E o \in Conns : DeviceOf[o] = d /\ m \in Rng(got[o])
        BY DEF Seen
      <4>2. <<d, m>> \in Seen' <=> \E o \in Conns : DeviceOf[o] = d /\ m \in Rng(got'[o])
        BY DEF Seen
      <4>3. QED
        BY <4>1, <4>2, <2>1, <2>3 DEF Addressed
    <3>2. Seen \subseteq Devices \X Messages /\ Seen' \subseteq Devices \X Messages
      BY DEF Seen
    <3>3. To[e] \in Devices
      BY <1>5, HubAssumption
    <3>4. QED
      BY <1>5, <3>1, <3>2, <3>3
  <2>5. Arrived'
    BY <1>1, <2>1, <2>3, <2>4 DEF Mail, Arrived, Addressed
  <2>6. QED
    BY <1>4, <1>5, <2>1, <2>4, <2>5 DEF Mail, Addressed
<1>6. CASE e \notin Messages
  <2>1. got' = got
    BY <1>6 DEF WriterSend
  <2>2. Seen' = Seen
    BY <2>1 DEF Seen
  <2>3. QED
    BY <1>1, <1>4, <1>6, <2>1, <2>2, ArrivedQuiet DEF Mail
<1>7. QED
  BY <1>5, <1>6

\* Whatever a device acknowledges, a mark of delivery is for a message whose
\* recipient knows it: the UPDATE compares recipient_device_id.
LEMMA HandleAckMail ==
  ASSUME TypeOK, Mail, NEW c \in Conns, NEW m \in Messages, HandleAck(c, m)
  PROVE  /\ Mail' /\ UNCHANGED <<rows, Seen, fetched>>
         /\ \/ delivered' = delivered
            \/ delivered' = delivered \cup {m} /\ <<To[m], m>> \in Seen \cup fetched
<1>1. /\ UNCHANGED <<rows, got, fetched, subQ, bf, buf>>
      /\ delivered' = delivered \cup Marked(c, m)
  BY DEF HandleAck, subVars, outVars
<1>2. Seen' = Seen
  BY <1>1 DEF Seen
<1>3. <<DeviceOf[c], m>> \in Seen \cup fetched
  BY HubAssumption DEF HandleAck, Known, Seen
<1>4. \/ Marked(c, m) = {}
      \/ Marked(c, m) = {m} /\ <<To[m], m>> \in Seen \cup fetched
  BY <1>3 DEF Marked
<1>5. Mail'
  BY <1>1, <1>2, <1>4 DEF Mail, InFlight, Arrived, Addressed
<1>6. QED
  BY <1>1, <1>2, <1>4, <1>5

\* An answer is no message.
LEMMA ReaderReplyMail ==
  ASSUME TypeOK, Mail, NEW c \in Conns, ReaderReply(c)
  PROVE  Mail'
<1>1. rows' = rows /\ got' = got /\ delivered' = delivered /\ fetched' = fetched /\ subQ' = subQ /\ bf' = bf
  BY DEF ReaderReply, dbVars, subVars
<1>2. Reply \in Events /\ Reply \notin Messages
  BY HubAssumption DEF Events
<1>3. \A o \in Conns : \A m \in Rng(buf'[o]) \cap Messages : Addressed(m, DeviceOf[o])
  <2>1. CASE UNCHANGED outVars
    BY <2>1 DEF outVars, Mail, InFlight
  <2>2. CASE Push(c, Reply)
    BY <2>2, <1>2, PushMail
  <2>3. QED
    BY <2>1, <2>2 DEF ReaderReply
<1>4. InFlight'
  BY <1>1, <1>3 DEF Mail, InFlight, Addressed
<1>5. QED
  BY <1>1, <1>4, ArrivedQuiet DEF Mail

\* Routing goes by the subscription's device, to a connection of that device.
LEMMA RouteMail ==
  ASSUME TypeOK, Registry, Mail, NEW c \in Conns, Route(c)
  PROVE  Mail'
<1> DEFINE cur == clients[DeviceOf[c]]
           m   == Head(subQ[c])
<1>1. rows' = rows /\ got' = got /\ delivered' = delivered /\ fetched' = fetched /\ bf' = bf
      /\ subQ' = [subQ EXCEPT ![c] = Tail(@)]
  BY DEF Route, dbVars
<1>2. m \in Messages /\ m \in Events /\ Rng(subQ[c]) = {m} \cup Rng(Tail(subQ[c]))
  BY RngTail DEF TypeOK, Route, Events
<1>3. \A o \in Conns : Rng(subQ'[o]) \subseteq Rng(subQ[o])
  BY <1>1, <1>2 DEF TypeOK
<1>4. Addressed(m, DeviceOf[c]) /\ DeviceOf[c] \in Devices
  BY <1>2, HubAssumption DEF Mail, InFlight
<1>5. \A o \in Conns : \A n \in Rng(buf'[o]) \cap Messages : Addressed(n, DeviceOf[o])
  <2>1. CASE UNCHANGED outVars
    BY <2>1 DEF outVars, Mail, InFlight
  <2>2. CASE cur # NoConn /\ Push(cur, m)
    <3>1. cur \in Conns /\ DeviceOf[cur] = DeviceOf[c]
      BY <2>2, <1>4 DEF TypeOK, Registry, RegistryInv
    <3>2. QED
      BY <2>2, <3>1, <1>2, <1>4, PushMail
  <2>3. QED
    BY <2>1, <2>2 DEF Route
<1>6. InFlight'
  BY <1>1, <1>3, <1>5 DEF Mail, InFlight, Addressed
<1>7. QED
  BY <1>1, <1>6, ArrivedQuiet DEF Mail

\* A new backfill starts empty; a query finds rows of its own device; what it
\* looks up is a connection of that device; what it sends it had.
LEMMA BackfillMail ==
  ASSUME TypeOK, Registry, Mail, NEW c \in Conns,
         \/ HubRegister /\ c = Head(registerQ)
         \/ BackfillQuery(c) \/ BackfillLookup(c) \/ BackfillSend(c)
  PROVE  Mail'
<1> DEFINE d == DeviceOf[c]
<1>1. rows' = rows /\ got' = got /\ delivered' = delivered /\ fetched' = fetched /\ subQ' = subQ
  BY DEF HubRegister, BackfillQuery, BackfillLookup, BackfillSend, dbVars, subVars
<1>2. d \in Devices /\ Idle.batch = {} /\ Idle.pc = "off"
  BY HubAssumption DEF Idle
<1>3. \A o \in Conns : o # c => bf'[o] = bf[o]
  BY DEF HubRegister, BackfillQuery, BackfillLookup, BackfillSend, TypeOK
<1>4. /\ \A m \in bf'[c].batch : Addressed(m, d)
      /\ bf'[c].pc = "send" => DeviceOf[bf'[c].to] = d
      /\ \A o \in Conns : \A m \in Rng(buf'[o]) \cap Messages : Addressed(m, DeviceOf[o])
  <2>1. CASE HubRegister /\ c = Head(registerQ)
    <3>1. bf'[c] = [Idle EXCEPT !.pc = "query"] /\ buf' = buf
      BY <2>1 DEF HubRegister, TypeOK, outVars
    <3>2. QED
      BY <3>1 DEF Idle, Mail, InFlight
  <2>2. CASE BackfillQuery(c)
    <3>1. bf[c] \in BackfillState /\ buf' = buf
      BY <2>2 DEF TypeOK, BackfillQuery
    <3>2. PICK read \in SUBSET Missed(d) :
            bf'[c] = Idle \/ bf'[c] = [bf[c] EXCEPT !.pc = "lookup", !.batch = read]
      BY <2>2 DEF BackfillQuery, TypeOK
    <3>3. \A m \in Missed(d) : Addressed(m, d)
      <4>1. Missed(d) \subseteq Undelivered(d)
        BY MissedUndelivered
      <4>2. QED
        BY <4>1 DEF Undelivered, Addressed
    <3>4. bf'[c].batch \subseteq Missed(d) /\ bf'[c].pc # "send"
      BY <3>1, <3>2, <1>2 DEF BackfillState
    <3>5. QED
      BY <3>1, <3>3, <3>4 DEF Mail, InFlight
  <2>3. CASE BackfillLookup(c)
    <3>1. bf[c] \in BackfillState /\ buf' = buf
      BY <2>3 DEF TypeOK, BackfillLookup, outVars
    <3>2. \/ bf'[c] = Idle
          \/ clients[d] # NoConn /\ bf'[c] = [bf[c] EXCEPT !.pc = "send", !.to = clients[d]]
      BY <2>3 DEF BackfillLookup, TypeOK
    <3>3. clients[d] # NoConn => DeviceOf[clients[d]] = d
      BY <1>2 DEF Registry, RegistryInv
    <3>4. \/ bf'[c].batch = {} /\ bf'[c].pc # "send"
          \/ bf'[c].batch = bf[c].batch /\ DeviceOf[bf'[c].to] = d
      BY <3>1, <3>2, <3>3, <1>2 DEF BackfillState
    <3>5. QED
      BY <3>1, <3>4 DEF Mail, InFlight
  <2>4. CASE BackfillSend(c)
    <3>1. PICK m \in bf[c].batch :
            /\ Push(bf[c].to, m)
            /\ bf' = [bf EXCEPT ![c] = IF bf[c].batch = {m} THEN Idle
                                      ELSE [bf[c] EXCEPT !.batch = @ \ {m}]]
      BY <2>4 DEF BackfillSend
    <3>2. bf[c] \in BackfillState /\ bf[c].pc = "send"
      BY <2>4 DEF BackfillSend, TypeOK
    <3>3. bf[c].to \in Conns /\ m \in Messages /\ m \in Events
      BY <3>1, <3>2 DEF BackfillState, Events
    <3>4. DeviceOf[bf[c].to] = d /\ \A n \in bf[c].batch : Addressed(n, d)
      BY <3>2 DEF Mail, InFlight
    <3>5. \A o \in Conns : \A n \in Rng(buf'[o]) \cap Messages : Addressed(n, DeviceOf[o])
      BY <3>1, <3>3, <3>4, PushMail
    <3>6. \/ bf'[c].batch = {} /\ bf'[c].pc # "send"
          \/ bf'[c].batch = bf[c].batch \ {m} /\ bf'[c].to = bf[c].to
      BY <3>1, <3>2, <1>2 DEF TypeOK, BackfillState
    <3>7. QED
      BY <3>4, <3>5, <3>6
  <2>5. QED
    BY <2>1, <2>2, <2>3, <2>4
<1>5. InFlight'
  BY <1>1, <1>3, <1>4 DEF Mail, InFlight, Addressed
<1>6. QED
  BY <1>1, <1>5, ArrivedQuiet DEF Mail

\* Through reconnections, displaced sockets, backfills that race with live
\* events, full channels and restarts of the process, the hub implements the
\* mailbox: for every set of devices, connections and messages, and any capacity.
THEOREM HubImplementsMailbox == Spec => ImplementsMailbox
<1> USE DEF mailbox!Next, mailbox!vars, mailbox!Post, mailbox!Hand, mailbox!Read, mailbox!Ack
<1>1. Init => Mail /\ mailbox!Init
  <2>1. SUFFICES ASSUME Init PROVE Mail /\ mailbox!Init
    OBVIOUS
  <2>2. Rng(rows) = {} /\ Seen = {} /\ delivered = {} /\ fetched = {}
    BY <2>1 DEF Init, Rng, Seen
  <2>3. Mail
    BY <2>1 DEF Init, Mail, InFlight, Arrived, Rng, Idle
  <2>4. QED
    BY <2>2, <2>3 DEF mailbox!Init
<1>2. TypeOK /\ Registry /\ Mail /\ [Next]_vars => Mail' /\ [mailbox!Next]_(mailbox!vars)
  <2> SUFFICES ASSUME TypeOK, Registry, Mail, [Next]_vars
               PROVE  Mail' /\ [mailbox!Next]_(mailbox!vars)
    OBVIOUS
  <2>0. ASSUME UNCHANGED <<rows, got, delivered, fetched>>
        PROVE  UNCHANGED mailbox!vars
    BY <2>0 DEF Seen
  <2>1. CASE HubRegister
    <3>1. Head(registerQ) \in Conns
      BY <2>1, RngTail DEF TypeOK, HubRegister
    <3>2. QED
      BY <2>0, <2>1, <3>1, BackfillMail DEF HubRegister, dbVars
  <2>2. CASE HubUnregister \/ CloseHub \/ Stop
    <3>1. InFlight' /\ UNCHANGED <<rows, got, delivered, fetched>>
      BY <2>2 DEF HubUnregister, CloseHub, Stop, Mail, InFlight, Addressed, dbVars, outVars, subVars
    <3>2. QED
      BY <2>0, <3>1, ArrivedQuiet DEF Mail
  <2>3. CASE Broadcast
    BY <2>0, <2>3, BroadcastMail DEF Broadcast, dbVars
  <2>4. CASE Exit
    BY <2>0, <2>4, ProcessGoneMail DEF Exit, ProcessGone, dbVars
  <2>5. ASSUME NEW m \in Messages, MessageStep(m)
        PROVE  Mail' /\ [mailbox!Next]_(mailbox!vars)
    <3>1. CASE Store(m)
      <4>1. UNCHANGED <<Seen, delivered, fetched>>
        BY <3>1 DEF Store, Seen
      <4>2. QED
        BY <3>1, <4>1, StoreMail
    <3>2. CASE Publish(m)
      BY <2>0, <3>2, PublishMail DEF Publish
    <3>3. CASE PublishLost(m)
      <4>1. InFlight' /\ UNCHANGED <<rows, got, delivered, fetched>>
        BY <3>3 DEF PublishLost, Mail, InFlight, Addressed, outVars, subVars
      <4>2. QED
        BY <2>0, <4>1, ArrivedQuiet DEF Mail
    <3>4. CASE Week(m)
      <4>1. InFlight' /\ UNCHANGED <<rows, got, delivered, fetched>>
        BY <3>4 DEF Week, Mail, InFlight, Addressed, outVars, subVars
      <4>2. QED
        BY <2>0, <4>1, ArrivedQuiet DEF Mail
    <3>5. ASSUME NEW d \in Devices, Fetch(d, m)
          PROVE  Mail' /\ [mailbox!Next]_(mailbox!vars)
      BY <3>5, FetchMail
    <3>6. QED
      BY <2>5, <3>1, <3>2, <3>3, <3>4, <3>5 DEF MessageStep
  <2>6. ASSUME NEW c \in Conns, ConnStep(c)
        PROVE  Mail' /\ [mailbox!Next]_(mailbox!vars)
    <3>1. CASE Connect(c) \/ ReaderExit(c) \/ Subscribed(c)
      <4>1. InFlight' /\ UNCHANGED <<rows, got, delivered, fetched>>
        BY <3>1 DEF Connect, ReaderExit, Subscribed, Mail, InFlight, Addressed, dbVars, outVars, subVars
      <4>2. QED
        BY <2>0, <4>1, ArrivedQuiet DEF Mail
    <3>2. CASE Disconnect(c) \/ WriterClose(c) \/ WriterExit(c)
      BY <2>0, <3>2, GoDownMail DEF Disconnect, WriterClose, WriterExit, GoDown, dbVars
    <3>3. CASE WriterSend(c)
      <4>1. rows' = rows /\ delivered' = delivered /\ fetched' = fetched
        BY <3>3 DEF WriterSend, dbVars
      <4>2. QED
        BY <3>3, <4>1, WriterSendMail
    <3>4. CASE ReaderReply(c)
      BY <2>0, <3>4, ReaderReplyMail DEF ReaderReply, dbVars
    <3>5. CASE Route(c)
      BY <2>0, <3>5, RouteMail DEF Route, dbVars
    <3>6. CASE BackfillQuery(c) \/ BackfillLookup(c) \/ BackfillSend(c)
      BY <2>0, <3>6, BackfillMail DEF BackfillQuery, BackfillLookup, BackfillSend, dbVars
    <3>7. CASE BackfillPanic(c)
      BY <2>0, <3>7, ProcessGoneMail DEF BackfillPanic, ProcessGone, dbVars
    <3>8. ASSUME NEW m \in Messages, HandleAck(c, m)
          PROVE  Mail' /\ [mailbox!Next]_(mailbox!vars)
      BY <3>8, HandleAckMail
    <3>9. QED
      BY <2>6, <3>1, <3>2, <3>3, <3>4, <3>5, <3>6, <3>7, <3>8 DEF ConnStep, PumpStep, BackfillStep
  <2>7. CASE UNCHANGED vars
    <3>1. InFlight' /\ UNCHANGED <<rows, got, delivered, fetched>>
      BY <2>7 DEF vars, Mail, InFlight, Addressed, dbVars, outVars, subVars
    <3>2. QED
      BY <2>0, <3>1, ArrivedQuiet DEF Mail
  <2>8. QED
    BY <2>1, <2>2, <2>3, <2>4, <2>5, <2>6, <2>7 DEF Next, HubStep
<1>3. Spec => []Registry
  BY RegistryInductive
<1>4. QED
  BY <1>1, <1>2, <1>3, TypeCorrect, PTL DEF Spec, ImplementsMailbox, mailbox!Spec

=============================================================================
