--------------------------- MODULE MessagesProofs ---------------------------
(***************************************************************************)
(* Theorems about Messages: what requests store and answer, and what       *)
(* receipts say, for any number of devices, messages, requests and faults. *)
(* The order of last_seen_at plays no part in them; it has an invariant of *)
(* its own, which the types need.                                          *)
(***************************************************************************)
EXTENDS Messages, TLAPS

Pcs == {"idle", "lookup", "sender", "recipient", "insert", "publish", "done"}
Wires == {"good", "large", "missigned"}

\* The types of TypeOK that the invariant rests on.
Sorts ==
  /\ device \in [Devices -> {"absent", "active", "revoked"}]
  /\ peer \in [UserDevices -> AdminDevices \cup {NoDevice}]
  /\ box \in [Msgs -> [from : Devices \cup {NoDevice}, to : Devices \cup {NoDevice}]]
  /\ row \in [Msgs -> Row] /\ req \in [Requests -> Request]
  /\ told \in [Msgs -> SUBSET Kinds]

\* What is sealed is between a user's device and a phone, and what has been stored
\* is sealed.
Pairs == (UserDevices \X AdminDevices) \cup (AdminDevices \X UserDevices)
BoxFits ==
  \A m \in Msgs : /\ box[m].from # NoDevice => <<box[m].from, box[m].to>> \in Pairs
                  /\ row[m].state # "none" => box[m].from # NoDevice

\* A row is for the device its message is sealed for, which has sent the
\* receipts the row bears, and in the conversation of its user.
Filed(m) == UserOf[IF box[m].from \in UserDevices THEN box[m].from ELSE box[m].to]
RowFits ==
  \A m \in Msgs :
    IF row[m].state = "stored"
    THEN /\ row[m].to = box[m].to /\ row[m].conv = Filed(m)
         /\ row[m].delivered => "delivered" \in told[m]
         /\ row[m].read => "read" \in told[m]
    ELSE ~ row[m].delivered /\ ~ row[m].read

\* A request is about a sealed message; it stores nothing before its checks,
\* and is done once it is answered.
Handles(q) ==
  /\ q.pc # "idle" => q.msg \in Msgs /\ box[q.msg].from # NoDevice
  /\ q.added => q.pc \in {"publish", "done"} /\ q.answer \notin Refusals
  /\ q.pc # "done" => q.answer = "none"
  /\ q.pc = "publish" \/ q.answer = "persisted" => q.pc # "idle" /\ row[q.msg].state # "none"

\* A revoked party keeps a request from its INSERT.
Barred(q) ==
  q.shut => /\ q.pc \notin {"idle", "insert", "publish"} /\ ~ q.added
            /\ "revoked" \in {device[box[q.msg].from], device[box[q.msg].to]}
            /\ q.pc = "recipient" => device[box[q.msg].to] = "revoked"

RequestsFit == \A r \in Requests : Handles(req[r]) /\ Barred(req[r])

Inv == Sorts /\ BoxFits /\ RowFits /\ RequestsFit

-----------------------------------------------------------------------------
(* Updates of a request. *)

LEMMA GotoMoves ==
  ASSUME req \in [Requests -> Request], NEW r \in Requests, NEW pc \in Pcs
  PROVE  /\ Goto(r, pc) \in [Requests -> Request]
         /\ \A q \in Requests \ {r} : Goto(r, pc)[q] = req[q]
         /\ Goto(r, pc)[r].pc = pc /\ Goto(r, pc)[r].msg = req[r].msg
         /\ Goto(r, pc)[r].shut = req[r].shut /\ Goto(r, pc)[r].added = req[r].added
         /\ Goto(r, pc)[r].answer = req[r].answer
<1> DEFINE wire == IF pc = "sender" THEN req[r].wire ELSE "good"
           s == [req[r] EXCEPT !.pc = pc, !.route = "ws", !.wire = wire]
<1>1. Goto(r, pc) = [req EXCEPT ![r] = s]
  BY DEF Goto
<1>2. wire \in Wires
  BY DEF Request, Wires
<1> HIDE DEF wire
<1>3. /\ s \in Request /\ s.pc = pc /\ s.msg = req[r].msg /\ s.shut = req[r].shut
      /\ s.added = req[r].added /\ s.answer = req[r].answer
  BY <1>2 DEF Request, Routes, Pcs, Wires
<1> HIDE DEF s
<1>4. QED
  BY <1>1, <1>3

LEMMA AnswerMoves ==
  ASSUME req \in [Requests -> Request], NEW r \in Requests, NEW a \in Answers
  PROVE  /\ Answer(r, a) \in [Requests -> Request]
         /\ \A q \in Requests \ {r} : Answer(r, a)[q] = req[q]
         /\ Answer(r, a)[r].pc = "done" /\ Answer(r, a)[r].msg = req[r].msg
         /\ Answer(r, a)[r].shut = req[r].shut /\ Answer(r, a)[r].added = req[r].added
         /\ Answer(r, a)[r].answer = a
<1> DEFINE G == Goto(r, "done")
           s == [G[r] EXCEPT !.answer = a]
<1>1. /\ G \in [Requests -> Request] /\ \A q \in Requests \ {r} : G[q] = req[q]
      /\ G[r].pc = "done" /\ G[r].msg = req[r].msg
      /\ G[r].shut = req[r].shut /\ G[r].added = req[r].added
  BY GotoMoves DEF Pcs
<1>2. Answer(r, a) = [G EXCEPT ![r] = s]
  BY DEF Answer
<1> HIDE DEF G
<1>3. /\ s \in Request /\ s.pc = G[r].pc /\ s.msg = G[r].msg /\ s.shut = G[r].shut
      /\ s.added = G[r].added /\ s.answer = a
  BY <1>1 DEF Request
<1> HIDE DEF s
<1>4. QED
  BY <1>1, <1>2, <1>3

\* Marking what an INSERT has come to.
LEMMA AddedMoves ==
  ASSUME NEW Q \in [Requests -> Request], NEW r \in Requests, NEW b \in BOOLEAN
  PROVE  LET R == [Q EXCEPT ![r].added = b] IN
         /\ R \in [Requests -> Request] /\ \A q \in Requests \ {r} : R[q] = Q[q]
         /\ R[r].pc = Q[r].pc /\ R[r].msg = Q[r].msg /\ R[r].shut = Q[r].shut
         /\ R[r].added = b /\ R[r].answer = Q[r].answer
<1> DEFINE s == [Q[r] EXCEPT !.added = b]
<1>1. [Q EXCEPT ![r].added = b] = [Q EXCEPT ![r] = s]
  OBVIOUS
<1>2. /\ s \in Request /\ s.pc = Q[r].pc /\ s.msg = Q[r].msg /\ s.shut = Q[r].shut
      /\ s.added = b /\ s.answer = Q[r].answer
  BY DEF Request
<1> HIDE DEF s
<1>3. QED
  BY <1>1, <1>2

\* What other steps may do to devices, messages and rows without harm.
Harmless ==
  /\ \A d \in Devices : device[d] = "revoked" => device'[d] = "revoked"
  /\ \A m \in Msgs : box[m].from # NoDevice => box'[m] = box[m]
  /\ \A m \in Msgs : row[m].state # "none" => row'[m].state # "none"

\* A request that does not move stays right.
LEMMA GoesOn ==
  ASSUME Inv, Harmless, NEW r \in Requests, req'[r] = req[r]
  PROVE  Handles(req[r])' /\ Barred(req[r])'
<1>1. req[r].pc # "idle" => /\ req[r].msg \in Msgs
                            /\ box[req[r].msg].from \in Devices /\ box[req[r].msg].to \in Devices
                            /\ box'[req[r].msg] = box[req[r].msg]
  <2>1. req[r].pc # "idle" => req[r].msg \in Msgs /\ box[req[r].msg].from # NoDevice
    BY DEF Inv, RequestsFit, Handles
  <2>2. QED
    BY <2>1 DEF Inv, Harmless, BoxFits, Pairs, Devices
<1>2. Handles(req[r])'
  BY <1>1 DEF Inv, Harmless, RequestsFit, Handles
<1>3. Barred(req[r])'
  BY <1>1 DEF Inv, Harmless, RequestsFit, Barred
<1>4. QED
  BY <1>2, <1>3

LEMMA OthersGoOn == Inv /\ Harmless /\ req' = req => RequestsFit'
  BY GoesOn DEF RequestsFit

-----------------------------------------------------------------------------
(* The steps of a request. *)

\* The frame of a step: one request moves, for a message that stays the same.
Moves(r, pc, answer, added) ==
  /\ req' \in [Requests -> Request] /\ \A q \in Requests \ {r} : req'[q] = req[q]
  /\ req'[r].msg = req[r].msg /\ req'[r].shut = req[r].shut
  /\ req'[r].pc = pc /\ req'[r].answer = answer /\ req'[r].added = added

LEMMA ToPc ==
  ASSUME Inv, NEW r \in Requests, NEW pc \in Pcs \ {"done"}, req[r].pc # "done", req' = Goto(r, pc)
  PROVE  Moves(r, pc, "none", req[r].added)
  BY GotoMoves DEF Inv, Sorts, RequestsFit, Handles, Moves

LEMMA ToAnswer ==
  ASSUME Inv, NEW r \in Requests, NEW a \in Answers, req' = Answer(r, a)
  PROVE  Moves(r, "done", a, req[r].added)
  BY AnswerMoves DEF Inv, Sorts, Moves

\* Before its INSERT a request has stored nothing; its message and its devices
\* are known.
LEMMA Known ==
  ASSUME Inv, NEW r \in Requests, req[r].pc # "idle"
  PROVE  /\ req[r].msg \in Msgs /\ Sender(r) \in Devices /\ Recipient(r) \in Devices
         /\ req[r].pc \notin {"publish", "done"} => ~ req[r].added
         /\ req[r].added \in BOOLEAN /\ req[r].shut \in BOOLEAN
         /\ <<Sender(r), Recipient(r)>> \in Pairs
<1>1. req[r].msg \in Msgs /\ box[req[r].msg].from # NoDevice
  BY DEF Inv, RequestsFit, Handles
<1>2. <<Sender(r), Recipient(r)>> \in Pairs
  BY <1>1 DEF Inv, BoxFits, Sender, Recipient
<1>3. QED
  BY <1>1, <1>2 DEF Inv, Sorts, Request, RequestsFit, Handles, Pairs, Devices

\* A step of a request that changes nothing else.
LEMMA Checked ==
  ASSUME Inv, NEW r \in Requests, UNCHANGED <<device, box, row>>, req' \in [Requests -> Request],
         \A q \in Requests \ {r} : req'[q] = req[q],
         Handles(req[r])', Barred(req[r])'
  PROVE  RequestsFit'
  BY GoesOn DEF RequestsFit, Harmless

LEMMA HandleLookup ==
  ASSUME Inv, NEW r \in Requests, Lookup(r) \/ CheckSender(r) \/ CheckRecipient(r)
  PROVE  RequestsFit' /\ req' \in [Requests -> Request]
<1>0. /\ UNCHANGED <<device, box, row>> /\ req[r].pc \in {"lookup", "sender", "recipient"}
      /\ ~ req[r].added /\ req[r].answer = "none" /\ Handles(req[r]) /\ Barred(req[r])
  BY Known DEF Lookup, CheckSender, CheckRecipient, deviceVars, Inv, RequestsFit, Handles
\* A refusal.
<1>1. ASSUME NEW a \in Refusals, req' = Answer(r, a)
      PROVE  RequestsFit' /\ req' \in [Requests -> Request]
  <2>1. Moves(r, "done", a, FALSE) /\ a # "persisted" /\ a # "none"
    BY <1>0, <1>1, ToAnswer, Known DEF Answers, Refusals
  <2>2. Handles(req[r])' /\ Barred(req[r])'
    BY <1>0, <2>1 DEF Moves, Handles, Barred
  <2>3. QED
    BY <1>0, <2>1, <2>2, Checked DEF Moves
\* The next check, or the INSERT.
<1>2. ASSUME NEW pc \in {"sender", "recipient", "insert"}, req' = Goto(r, pc),
             req[r].shut => pc # "insert" /\ (pc = "recipient" => device[Recipient(r)] = "revoked")
      PROVE  RequestsFit' /\ req' \in [Requests -> Request]
  <2>1. Moves(r, pc, "none", FALSE)
    BY <1>0, <1>2, ToPc, Known DEF Pcs
  <2>2. Handles(req[r])' /\ Barred(req[r])'
    BY <1>0, <1>2, <2>1 DEF Moves, Handles, Barred, Recipient
  <2>3. QED
    BY <1>0, <2>1, <2>2, Checked DEF Moves
\* A statement that fails.
<1>f. ASSUME req' = Answer(r, "BAD_REQUEST")
      PROVE  RequestsFit' /\ req' \in [Requests -> Request]
  <2>1. Moves(r, "done", "BAD_REQUEST", FALSE)
    BY <1>0, <1>f, ToAnswer, Known DEF Answers
  <2>2. Handles(req[r])' /\ Barred(req[r])'
    BY <1>0, <2>1 DEF Moves, Handles, Barred, Refusals
  <2>3. QED
    BY <1>0, <2>1, <2>2, Checked DEF Moves
<1>3. CASE Lookup(r)
  <2>1. req' = Goto(r, "sender") \/ \E a \in {"DB", "NO_CONVERSATION"} : req' = Answer(r, a)
    BY <1>3 DEF Lookup, NoneFound
  <2>2. req[r].shut => "sender" # "insert"
    OBVIOUS
  <2>3. QED
    BY <1>1, <1>2, <2>1, <2>2 DEF Refusals
<1>4. CASE CheckSender(r)
  <2>1. Objection(r) # "none" => Objection(r) \in Refusals
    BY DEF Objection, Refusals
  <2>2. Objection(r) = "none" => device[Sender(r)] # "revoked"
    BY DEF Objection
  <2>3. req[r].shut => "revoked" \in {device[Sender(r)], device[Recipient(r)]}
    BY <1>0 DEF Barred, Sender, Recipient
  <2>4. CASE Objection(r) = "none" /\ req' = Goto(r, "recipient")
    BY <1>2, <1>4, <2>2, <2>3, <2>4
  <2>5. CASE Objection(r) # "none" /\ req' = Answer(r, Objection(r))
    BY <1>1, <1>4, <2>1, <2>5
  <2>6. QED
    BY <1>4, <2>4, <2>5, <1>f DEF CheckSender
<1>5. CASE CheckRecipient(r)
  <2>1. req[r].shut => device[Recipient(r)] = "revoked"
    BY <1>0, <1>5 DEF Barred, CheckRecipient, Recipient
  <2>2. CASE req' = Answer(r, "BAD_REQUEST")
    BY <1>f, <2>2
  <2>3. CASE req' = (IF device[Recipient(r)] = "active" THEN Goto(r, "insert") ELSE Answer(r, "RECIPIENT_UNKNOWN"))
    BY <1>1, <1>2, <2>1, <2>3 DEF Refusals
  <2>4. QED
    BY <1>5, <2>2, <2>3 DEF CheckRecipient
<1>6. QED
  BY <1>3, <1>4, <1>5

\* An INSERT stores a row for the recipient, or leaves the one there is.
LEMMA InsertedRow ==
  ASSUME Inv, NEW r \in Requests, req[r].pc = "insert", row' = Inserted(r), box' = box, told' = told
  PROVE  /\ row' \in [Msgs -> Row] /\ RowFits' /\ BoxFits' /\ row'[req[r].msg].state # "none"
         /\ \A m \in Msgs : row[m].state # "none" => row'[m].state # "none"
         /\ \A m \in Msgs : row[m].state = "stored" => row'[m] = row[m]
<1> DEFINE new == Stored(r, Recipient(r))
<1>1. req[r].msg \in Msgs /\ Recipient(r) \in Devices /\ box[req[r].msg].from # NoDevice
      /\ Conv(r) \in Users /\ Conv(r) = Filed(req[r].msg)
  <2>1. UserParty(r) \in UserDevices
    BY Known DEF Pairs, UserParty
  <2>2. QED
    BY <2>1, Known, MessagesAssumption DEF Inv, RequestsFit, Handles, Conv, UserParty, Filed, Sender, Recipient
<1>2. new \in Row /\ new.state = "stored" /\ new.to = box[req[r].msg].to
      /\ new.conv = Filed(req[r].msg) /\ ~ new.delivered /\ ~ new.read
  BY <1>1 DEF Row, Recipient, Stored
<1>3. row' = IF row[req[r].msg].state # "stored" THEN [row EXCEPT ![req[r].msg] = new] ELSE row
  BY DEF Inserted, Fresh
<1> HIDE DEF new
<1>4. row \in [Msgs -> Row] /\ RowFits /\ BoxFits
  BY DEF Inv, Sorts
<1>5. row' \in [Msgs -> Row]
  BY <1>2, <1>3, <1>4
<1>6. RowFits'
  BY <1>1, <1>2, <1>3, <1>4 DEF RowFits, Filed
<1>7. BoxFits'
  BY <1>1, <1>2, <1>3, <1>4 DEF BoxFits
<1>8. QED
  BY <1>1, <1>2, <1>3, <1>4, <1>5, <1>6, <1>7

\* What a step of a request leaves right beyond the requests.
RowsFit == row \in [Msgs -> Row] /\ RowFits /\ BoxFits

LEMMA HandleInsert ==
  ASSUME Inv, NEW r \in Requests, Insert(r)
  PROVE  RequestsFit' /\ req' \in [Requests -> Request] /\ RowsFit'
<1>0. /\ req[r].pc = "insert" /\ device' = device /\ box' = box /\ told' = told
      /\ Handles(req[r]) /\ Barred(req[r]) /\ req[r].msg \in Msgs /\ ~ req[r].added
      /\ req \in [Requests -> Request] /\ ~ req[r].shut
  BY Known DEF Insert, deviceVars, Inv, Sorts, RequestsFit, Barred
<1>a. RowsFit
  BY DEF Inv, Sorts, RowsFit
<1>b. Fresh(r) \in BOOLEAN
  BY DEF Fresh
<1>1. row' = row => RowsFit'
  BY <1>0, <1>a DEF RowsFit, RowFits, BoxFits, Filed
<1>2. row' = Inserted(r) => RowsFit'
  BY <1>0, InsertedRow DEF RowsFit
<1>3. CASE row' = Inserted(r) /\ req' = [Goto(r, "publish") EXCEPT ![r].added = Fresh(r)]
  <2> DEFINE G == Goto(r, "publish")
             b == Fresh(r)
  <2>a. /\ G \in [Requests -> Request] /\ \A q \in Requests \ {r} : G[q] = req[q]
        /\ G[r].pc = "publish" /\ G[r].msg = req[r].msg /\ G[r].shut = req[r].shut
        /\ G[r].answer = "none"
    BY <1>0, GotoMoves DEF Pcs, Handles
  <2>b. b \in BOOLEAN /\ req' = [G EXCEPT ![r].added = b]
    BY <1>3, <1>b
  <2> HIDE DEF G, b
  <2>c. Moves(r, "publish", "none", b)
    BY <2>a, <2>b, AddedMoves DEF Moves
  <2>1. Moves(r, "publish", "none", Fresh(r))
    BY <2>c DEF b
  <2>2. Handles(req[r])' /\ Barred(req[r])'
    BY <1>0, <1>3, <2>1, InsertedRow DEF Moves, Handles, Barred, Refusals
  <2>3. QED
    BY <1>0, <1>2, <1>3, <2>1, <2>2, InsertedRow, GoesOn DEF Moves, RequestsFit, Harmless
<1>4. CASE row' = Inserted(r) /\ req' = [Failed(r) EXCEPT ![r].added = Fresh(r)]
  <2>1. Moves(r, "done", "BAD_REQUEST", Fresh(r))
    BY <1>0, <1>4, <1>b, AnswerMoves, AddedMoves DEF Moves, Failed, Answers
  <2>2. Handles(req[r])' /\ Barred(req[r])'
    BY <1>0, <2>1 DEF Moves, Handles, Barred, Refusals
  <2>3. QED
    BY <1>0, <1>2, <1>4, <2>1, <2>2, InsertedRow, GoesOn DEF Moves, RequestsFit, Harmless
<1>5. CASE row' = row /\ req' = Failed(r)
  <2>1. Moves(r, "done", "BAD_REQUEST", FALSE)
    BY <1>0, <1>5, ToAnswer, Known DEF Failed, Answers
  <2>2. Handles(req[r])' /\ Barred(req[r])'
    BY <1>0, <2>1 DEF Moves, Handles, Barred, Refusals
  <2>3. QED
    BY <1>0, <1>1, <1>5, <2>1, <2>2, Checked DEF Moves
<1>6. QED
  BY <1>3, <1>4, <1>5 DEF Insert

LEMMA HandlePublish ==
  ASSUME Inv, NEW r \in Requests, Publish(r)
  PROVE  RequestsFit' /\ req' \in [Requests -> Request]
<1>0. /\ req[r].pc = "publish" /\ UNCHANGED <<device, box, row>>
      /\ Handles(req[r]) /\ Barred(req[r])
  BY DEF Publish, deviceVars, Inv, RequestsFit
<1>1. ASSUME NEW a \in {"persisted", "BAD_REQUEST"}, req' = Answer(r, a)
      PROVE  RequestsFit' /\ req' \in [Requests -> Request]
  <2>1. Moves(r, "done", a, req[r].added)
    BY <1>1, ToAnswer DEF Answers
  <2>2. Handles(req[r])' /\ Barred(req[r])'
    BY <1>0, <2>1 DEF Moves, Handles, Barred, Refusals
  <2>3. QED
    BY <1>0, <2>1, <2>2, Checked DEF Moves
<1>2. QED
  BY <1>1 DEF Publish

LEMMA HandleBegin ==
  ASSUME Inv, NEW r \in Requests, NEW m \in Msgs, NEW route \in Routes, NEW wire \in Wires,
         Begin(r, m, route, wire)
  PROVE  RequestsFit' /\ req' \in [Requests -> Request]
<1> DEFINE b == "revoked" \in {device[box[m].from], device[box[m].to]}
           s == [pc |-> "lookup", route |-> route, msg |-> m, wire |-> wire,
                 shut |-> b, added |-> FALSE, answer |-> "none"]
<1>1. b \in BOOLEAN
  OBVIOUS
<1>2. req' = [req EXCEPT ![r] = s]
  BY DEF Begin
<1>3. b => "revoked" \in {device[box[m].from], device[box[m].to]}
  OBVIOUS
<1> HIDE DEF b
<1>4. /\ s \in Request /\ s.pc = "lookup" /\ s.msg = m /\ s.shut = b /\ ~ s.added
      /\ s.answer = "none"
  BY <1>1 DEF Request, Wires, Answers
<1>5. UNCHANGED <<device, box, row>> /\ box[m].from # NoDevice
  BY DEF Begin, deviceVars
<1> HIDE DEF s
<1>6. /\ req' \in [Requests -> Request] /\ req'[r] = s
      /\ \A q \in Requests \ {r} : req'[q] = req[q]
  BY <1>2, <1>4 DEF Inv, Sorts
<1>7. Handles(req[r])' /\ Barred(req[r])'
  BY <1>3, <1>4, <1>5, <1>6 DEF Handles, Barred
<1>8. QED
  BY <1>5, <1>6, <1>7, Checked

-----------------------------------------------------------------------------
(* The steps that are no request's. *)

\* Typing, messages and rows.
LEMMA RestNext ==
  ASSUME Inv,
         \/ \E d \in AdminDevices : InsertDevice(d) \/ IssueToken(d) \/ Touch(d)
         \/ \E d \in Devices : Revoke(d)
         \/ \E u \in UserDevices : Resolve(u)
  PROVE  Inv'
<1>0. AdminDevices \subseteq Devices
  BY DEF Devices
<1>1. req' = req /\ box' = box /\ row' = row /\ told' = told
  BY DEF InsertDevice, IssueToken, Touch, Revoke, Resolve
<1>2. /\ device' \in [Devices -> {"absent", "active", "revoked"}]
      /\ \A d \in Devices : device[d] = "revoked" => device'[d] = "revoked"
  BY <1>0 DEF InsertDevice, IssueToken, Touch, Revoke, Resolve, deviceVars, Inv, Sorts
<1>3. peer' \in [UserDevices -> AdminDevices \cup {NoDevice}]
  BY DEF InsertDevice, IssueToken, Touch, Revoke, Resolve, Inv, Sorts
<1>4. Sorts'
  BY <1>1, <1>2, <1>3 DEF Inv, Sorts
<1>5. BoxFits' /\ RowFits'
  BY <1>1 DEF Inv, BoxFits, RowFits, Filed
<1>6. RequestsFit'
  BY <1>1, <1>2, OthersGoOn DEF Harmless
<1>7. QED
  BY <1>4, <1>5, <1>6 DEF Inv

LEMMA SealNext ==
  ASSUME Inv, NEW m \in Msgs, NEW s \in Devices, NEW d \in Devices, Seal(m, s, d)
  PROVE  Inv'
<1>1. /\ UNCHANGED <<device, peer, row, req, told>> /\ box[m].from = NoDevice
      /\ box' = [box EXCEPT ![m] = [from |-> s, to |-> d]] /\ NoDevice \notin Devices
  BY MessagesAssumption DEF Seal, deviceVars
<1>2. Sorts'
  BY <1>1 DEF Inv, Sorts
<1>3. BoxFits'
  <2>1. <<s, d>> \in Pairs
    BY MessagesAssumption DEF Seal, Inv, Sorts, Pairs, Devices
  <2>2. QED
    BY <1>1, <2>1 DEF Inv, Sorts, BoxFits
<1>4. RowFits'
  BY <1>1 DEF Inv, Sorts, BoxFits, RowFits, Filed
<1>5. RequestsFit'
  BY <1>1, OthersGoOn DEF Harmless, Inv, Sorts
<1>6. QED
  BY <1>2, <1>3, <1>4, <1>5 DEF Inv

LEMMA PurgeNext ==
  ASSUME Inv, NEW m \in Msgs, Purge(m)
  PROVE  Inv'
<1> DEFINE gone == NoRow("purged")
<1>1. /\ UNCHANGED <<device, peer, box, req, told>> /\ row[m].state = "stored"
      /\ row' = [row EXCEPT ![m] = gone]
  BY DEF Purge, deviceVars
<1>2. gone \in Row /\ gone.state = "purged" /\ ~ gone.delivered /\ ~ gone.read
  BY DEF Row, NoRow
<1> HIDE DEF gone
<1>3. Sorts'
  BY <1>1, <1>2 DEF Inv, Sorts
<1>4. BoxFits' /\ RowFits'
  BY <1>1, <1>2 DEF Inv, Sorts, BoxFits, RowFits, Filed
<1>5. RequestsFit'
  BY <1>1, <1>2, OthersGoOn DEF Harmless, Inv, Sorts
<1>6. QED
  BY <1>3, <1>4, <1>5 DEF Inv

\* A receipt marks a row of which nothing else changes.
LEMMA Marked ==
  ASSUME Inv, NEW m \in Msgs, NEW d \in Devices, NEW kind \in Kinds, Receipt(d, m, kind)
  PROVE  /\ row' \in [Msgs -> Row] /\ told' \in [Msgs -> SUBSET Kinds]
         /\ \A n \in Msgs : row'[n].state = row[n].state /\ row'[n].to = row[n].to /\ row'[n].conv = row[n].conv
         /\ \A n \in Msgs : told[n] \subseteq told'[n]
         /\ \A n \in Msgs : row[n].delivered => row'[n].delivered
         /\ \A n \in Msgs : row[n].read => row'[n].read
         /\ \A n \in Msgs : row'[n].delivered => row[n].delivered \/ "delivered" \in told'[n]
         /\ \A n \in Msgs : row'[n].read => row[n].read \/ "read" \in told'[n]
         /\ row' # row => row[m].state = "stored"
<1>0. row \in [Msgs -> Row] /\ told \in [Msgs -> SUBSET Kinds] /\ RowFits
  BY DEF Inv, Sorts
<1>1. told' = IF d = box[m].to THEN [told EXCEPT ![m] = @ \cup {kind}] ELSE told
  BY DEF Receipt
<1>2. CASE ~ Matches(d, m)
  <2>1. row' = row
    BY <1>2 DEF Receipt
  <2>2. QED
    BY <1>0, <1>1, <2>1
<1>3. CASE Matches(d, m)
  <2>1. row[m].state = "stored" /\ d = box[m].to
    BY <1>0, <1>3 DEF Matches, RowFits
  <2>2. told' = [told EXCEPT ![m] = @ \cup {kind}]
    BY <1>1, <2>1
  <2>3. CASE kind = "delivered"
    <3> DEFINE s == [row[m] EXCEPT !.delivered = TRUE]
    <3>1. row' = [row EXCEPT ![m] = s]
      BY <1>3, <2>3 DEF Receipt
    <3>2. s \in Row /\ s.state = row[m].state /\ s.to = row[m].to /\ s.conv = row[m].conv /\ s.delivered /\ s.read = row[m].read
      BY <1>0 DEF Row
    <3> HIDE DEF s
    <3>3. QED
      BY <1>0, <2>1, <2>2, <2>3, <3>1, <3>2
  <2>4. CASE kind = "read"
    <3> DEFINE s == [row[m] EXCEPT !.read = TRUE]
    <3>1. row' = [row EXCEPT ![m] = s]
      BY <1>3, <2>4 DEF Receipt
    <3>2. s \in Row /\ s.state = row[m].state /\ s.to = row[m].to /\ s.conv = row[m].conv /\ s.read /\ s.delivered = row[m].delivered
      BY <1>0 DEF Row
    <3> HIDE DEF s
    <3>3. QED
      BY <1>0, <2>1, <2>2, <2>4, <3>1, <3>2
  <2>5. QED
    BY <2>3, <2>4 DEF Kinds
<1>4. QED
  BY <1>2, <1>3

LEMMA ReceiptNext ==
  ASSUME Inv, NEW m \in Msgs, NEW d \in Devices, NEW kind \in Kinds, Receipt(d, m, kind)
  PROVE  Inv'
<1>1. UNCHANGED <<device, peer, box, req>>
  BY DEF Receipt, deviceVars
<1>2. Sorts'
  BY <1>1, Marked DEF Inv, Sorts
<1>3. BoxFits'
  BY <1>1, Marked DEF Inv, BoxFits
<1>4. RowFits'
  <2>1. ASSUME NEW n \in Msgs, row[n].state = "stored"
        PROVE  /\ row'[n].to = box'[n].to /\ row'[n].conv = Filed(n)'
               /\ row'[n].delivered => "delivered" \in told'[n]
               /\ row'[n].read => "read" \in told'[n]
    BY <1>1, <2>1, Marked DEF Inv, RowFits, Filed
  <2>2. ASSUME NEW n \in Msgs, row[n].state # "stored"
        PROVE  ~ row'[n].delivered /\ ~ row'[n].read
    <3>1. row'[n] = row[n]
      BY <2>2 DEF Receipt, Matches, Inv, Sorts
    <3>2. QED
      BY <2>2, <3>1 DEF Inv, RowFits
  <2>3. QED
    BY <2>1, <2>2, Marked DEF RowFits
<1>5. RequestsFit'
  BY <1>1, Marked, OthersGoOn DEF Harmless
<1>6. QED
  BY <1>2, <1>3, <1>4, <1>5 DEF Inv

-----------------------------------------------------------------------------
(* The invariant. *)

LEMMA InvInit == Init => Inv
<1> SUFFICES ASSUME Init PROVE Inv
  OBVIOUS
<1>1. Sorts
  BY DEF Init, Sorts, Row, NoRow, Request, Routes, Answers, Devices
<1>2. BoxFits /\ RowFits /\ RequestsFit
  BY DEF Init, NoRow, BoxFits, RowFits, RequestsFit, Handles, Barred
<1>3. QED
  BY <1>1, <1>2 DEF Inv

LEMMA InvNext == Inv /\ [Next]_vars => Inv'
<1> SUFFICES ASSUME Inv, [Next]_vars
             PROVE  Inv'
  OBVIOUS
<1>0. RowsFit
  BY DEF Inv, Sorts, RowsFit
<1>1. CASE UNCHANGED vars
  BY <1>1 DEF vars, Inv, Sorts, BoxFits, RowFits, Filed, RequestsFit, Handles, Barred
<1>2. ASSUME NEW r \in Requests, Handle(r)
      PROVE  Inv'
  <2>1. UNCHANGED <<device, peer, box, told>>
    BY <1>2 DEF Handle, Lookup, CheckSender, CheckRecipient, Insert, Publish, deviceVars
  <2>2. CASE Insert(r)
    BY <2>1, <2>2, HandleInsert DEF Inv, Sorts, RowsFit
  <2>3. CASE Lookup(r) \/ CheckSender(r) \/ CheckRecipient(r) \/ Publish(r)
    <3>1. row' = row
      BY <2>3 DEF Lookup, CheckSender, CheckRecipient, Publish
    <3>2. RequestsFit' /\ req' \in [Requests -> Request]
      BY <2>3, HandleLookup, HandlePublish
    <3>3. Sorts'
      BY <2>1, <3>1, <3>2 DEF Inv, Sorts
    <3>4. BoxFits' /\ RowFits'
      BY <2>1, <3>1 DEF Inv, BoxFits, RowFits, Filed
    <3>5. QED
      BY <3>2, <3>3, <3>4 DEF Inv
  <2>4. QED
    BY <1>2, <2>2, <2>3 DEF Handle
<1>3. ASSUME NEW r \in Requests, NEW m \in Msgs, NEW route \in Routes, NEW wire \in Wires,
             Begin(r, m, route, wire)
      PROVE  Inv'
  <2>1. UNCHANGED <<device, peer, box, row, told>>
    BY <1>3 DEF Begin, deviceVars
  <2>2. RequestsFit' /\ req' \in [Requests -> Request]
    BY <1>3, HandleBegin
  <2>3. Sorts'
    BY <2>1, <2>2 DEF Inv, Sorts
  <2>4. BoxFits' /\ RowFits'
    BY <2>1 DEF Inv, BoxFits, RowFits, Filed
  <2>5. QED
    BY <2>2, <2>3, <2>4 DEF Inv
<1>4. ASSUME NEW m \in Msgs, Purge(m) \/ (\E s \in Devices, d \in Devices : Seal(m, s, d))
                                    \/ (\E d \in Devices, kind \in Kinds : Receipt(d, m, kind))
      PROVE  Inv'
  BY <1>4, PurgeNext, SealNext, ReceiptNext
<1>5. CASE \/ \E d \in AdminDevices : InsertDevice(d) \/ IssueToken(d) \/ Touch(d)
           \/ \E d \in Devices : Revoke(d)
           \/ \E u \in UserDevices : Resolve(u)
  BY <1>5, RestNext
<1>6. QED
  BY <1>1, <1>2, <1>3, <1>4, <1>5 DEF Next, Wires

\* The invariant on which the theorems rest.
THEOREM MessagesFit == Spec => []Inv
  BY InvInit, InvNext, PTL DEF Spec

-----------------------------------------------------------------------------
(* What follows from it. *)

\* What was reported as persisted is listed for its user until it is purged, and
\* for the admins as long as its phone is the one that was seen last.
THEOREM PersistedListed == Spec => []PersistedIsListed
<1>1. Inv => PersistedIsListed
  <2> SUFFICES ASSUME Inv, NEW r \in Requests, Persisted(r)
               PROVE  /\ req[r].msg \in Mine(UserParty(r))
                      /\ Active # <<>> /\ Head(Active) = PhoneParty(r)
                           => req[r].msg \in Thread(UserOf[UserParty(r)])
    BY DEF PersistedIsListed
  <2>1. req[r].msg \in Msgs /\ row[req[r].msg].state # "none" /\ req[r].pc # "idle"
    BY DEF Inv, RequestsFit, Handles, Persisted
  <2>2. row[req[r].msg].state = "stored"
    BY <2>1 DEF Inv, Sorts, Row, Persisted
  <2>3. row[req[r].msg].to = Recipient(r) /\ row[req[r].msg].conv = UserOf[UserParty(r)]
    BY <2>1, <2>2 DEF Inv, RowFits, Recipient, Sender, UserParty, Filed
  <2>4. {UserParty(r), PhoneParty(r)} \subseteq {box[req[r].msg].from, row[req[r].msg].to}
    BY <2>3 DEF UserParty, PhoneParty, Sender
  <2>5. QED
    BY <2>1, <2>2, <2>3, <2>4 DEF Mine, Thread
<1>2. QED
  BY <1>1, MessagesFit, PTL

\* A refusal means that the attempt has stored nothing.
THEOREM RefusalsStoreNothing == Spec => []RefusedStoresNothing
<1>1. Inv => RefusedStoresNothing
  BY DEF Inv, RequestsFit, Handles, RefusedStoresNothing
<1>2. QED
  BY <1>1, MessagesFit, PTL

\* A request that comes after the revocation of one of its parties stores
\* nothing.
THEOREM RevocationBars == Spec => []RevokedStoresNothing
<1>1. Inv => RevokedStoresNothing
  BY DEF Inv, RequestsFit, Barred, RevokedStoresNothing
<1>2. QED
  BY <1>1, MessagesFit, PTL

\* A receipt is the recipient's own word.
THEOREM ReceiptsAreOwn == Spec => []ReceiptIsOwn
<1>1. Inv => ReceiptIsOwn
  <2> SUFFICES ASSUME Inv, NEW m \in Msgs, NEW kind \in Kinds, row[m][kind]
               PROVE  kind \in told[m]
    BY DEF ReceiptIsOwn
  <2>1. CASE kind = "delivered"
    <3>1. row[m].delivered
      BY <2>1
    <3>2. QED
      BY <2>1, <3>1 DEF Inv, RowFits
  <2>2. CASE kind = "read"
    <3>1. row[m].read
      BY <2>2
    <3>2. QED
      BY <2>2, <3>1 DEF Inv, RowFits
  <2>3. QED
    BY <2>1, <2>2 DEF Kinds
<1>2. QED
  BY <1>1, MessagesFit, PTL

\* A step keeps the recipient and the receipts of a row that stays stored.
Stable ==
  \A m \in Msgs : (row[m].state = "stored" /\ row'[m].state = "stored") =>
    /\ row'[m].to = row[m].to
    /\ \A kind \in Kinds : row[m][kind] => row'[m][kind]

LEMMA StableNext == Inv /\ [Next]_vars => Stable
<1> SUFFICES ASSUME Inv, [Next]_vars, NEW m \in Msgs,
                    row[m].state = "stored", row'[m].state = "stored"
             PROVE  /\ row'[m].to = row[m].to
                    /\ \A kind \in Kinds : row[m][kind] => row'[m][kind]
  BY DEF Stable
<1>1. ASSUME NEW n \in Msgs, NEW d \in Devices, NEW k \in Kinds, Receipt(d, n, k)
      PROVE  /\ row'[m].to = row[m].to
             /\ \A kind \in Kinds : row[m][kind] => row'[m][kind]
  <2>1. /\ row'[m].to = row[m].to
        /\ row[m].delivered => row'[m].delivered
        /\ row[m].read => row'[m].read
    BY <1>1, Marked
  <2>2. ASSUME NEW kind \in Kinds, row[m][kind]
        PROVE  row'[m][kind]
    <3>1. CASE kind = "delivered"
      <4>1. row[m].delivered
        BY <2>2, <3>1
      <4>2. row'[m].delivered
        BY <2>1, <4>1
      <4>3. QED
        BY <3>1, <4>2
    <3>2. CASE kind = "read"
      <4>1. row[m].read
        BY <2>2, <3>2
      <4>2. row'[m].read
        BY <2>1, <4>1
      <4>3. QED
        BY <3>2, <4>2
    <3>3. QED
      BY <3>1, <3>2 DEF Kinds
  <2>3. QED
    BY <2>1, <2>2
<1>2. ASSUME NEW r \in Requests, Insert(r)
      PROVE  row'[m] = row[m]
  <2>1. row' = row \/ row' = Inserted(r)
    BY <1>2 DEF Insert
  <2>2. req[r].pc = "insert" /\ box' = box /\ told' = told
    BY <1>2 DEF Insert, deviceVars
  <2>3. QED
    BY <2>1, <2>2, InsertedRow
<1>3. ASSUME NEW n \in Msgs, Purge(n)
      PROVE  row'[m] = row[m]
  <2>1. row' = [row EXCEPT ![n] = NoRow("purged")]
    BY <1>3 DEF Purge
  <2>2. row \in [Msgs -> Row]
    BY DEF Inv, Sorts
  <2>3. n # m
    BY <2>1, <2>2 DEF NoRow
  <2>4. QED
    BY <2>1, <2>2, <2>3
<1>4. CASE row' = row
  BY <1>4
<1>5. QED
  <2>1. CASE UNCHANGED vars
    BY <1>4, <2>1 DEF vars
  <2>2. CASE Next
    BY <1>1, <1>2, <1>3, <1>4, <2>2
       DEF Next, InsertDevice, IssueToken, Touch, Revoke, Resolve, Seal, Handle, Lookup,
           CheckSender, CheckRecipient, Publish, Begin
  <2>3. QED
    BY <2>1, <2>2

\* A retry takes nothing back.
THEOREM RowsAreStable == Spec => RowIsStable
<1>1. Inv /\ [Next]_vars => [Stable]_vars
  BY StableNext
<1>2. Spec => [][Stable]_vars
  BY <1>1, MessagesFit, PTL DEF Spec
<1>3. QED
  BY <1>2 DEF RowIsStable, Stable

-----------------------------------------------------------------------------
(* The types. *)

LEMMA ElementsOf ==
  ASSUME NEW S, NEW s \in Seq(S), NEW e
  PROVE  e \in ToSet(s) <=> \E i \in 1..Len(s) : e = s[i]
<1>1. DOMAIN s = 1..Len(s)
  OBVIOUS
<1>2. e \in ToSet(s) <=> \E i \in DOMAIN s : e = s[i]
  BY Zenon DEF ToSet
<1>3. QED
  BY <1>1, <1>2

\* A sequence one element of which is moved to the front keeps its elements.
LEMMA MovedToFront ==
  ASSUME NEW S, NEW s \in Seq(S), NEW p \in 2..Len(s)
  PROVE  LET t == <<s[p]>> \o RemoveAt(s, p) IN t \in Seq(S) /\ ToSet(t) = ToSet(s)
<1> DEFINE r == RemoveAt(s, p)
           t == <<s[p]>> \o r
<1>1. /\ r \in Seq(S) /\ Len(r) = Len(s) - 1
      /\ \A i \in 1..(p - 1) : r[i] = s[i]
      /\ \A i \in p..Len(r) : r[i] = s[i + 1]
  <2>1. SubSeq(s, 1, p - 1) \in Seq(S) /\ SubSeq(s, p + 1, Len(s)) \in Seq(S)
    OBVIOUS
  <2>2. /\ Len(SubSeq(s, 1, p - 1)) = p - 1
        /\ \A i \in 1..(p - 1) : SubSeq(s, 1, p - 1)[i] = s[i]
    OBVIOUS
  <2>3. /\ Len(SubSeq(s, p + 1, Len(s))) = Len(s) - p
        /\ \A i \in 1..(Len(s) - p) : SubSeq(s, p + 1, Len(s))[i] = s[p + i]
    OBVIOUS
  <2> DEFINE a == SubSeq(s, 1, p - 1)
             b == SubSeq(s, p + 1, Len(s))
  <2>4. r = a \o b
    BY DEF RemoveAt
  <2> HIDE DEF a, b, r
  <2>5. a \in Seq(S) /\ b \in Seq(S) /\ Len(a) = p - 1 /\ Len(b) = Len(s) - p
    BY <2>1, <2>2, <2>3 DEF a, b
  <2>6. r \in Seq(S) /\ Len(r) = Len(s) - 1
    <3>1. a \o b \in Seq(S) /\ Len(a \o b) = Len(a) + Len(b)
      BY <2>5
    <3>2. p \in Int /\ Len(s) \in Int
      OBVIOUS
    <3>3. QED
      BY <2>4, <2>5, <3>1, <3>2
  <2>7. \A i \in 1..(p - 1) : r[i] = a[i]
    BY <2>4, <2>5
  <2>8. \A i \in p..Len(r) : r[i] = b[i - (p - 1)]
    BY <2>4, <2>5, <2>6
  <2>9. \A i \in 1..(p - 1) : r[i] = s[i]
    BY <2>7, <2>2 DEF a
  <2>10. \A i \in p..Len(r) : r[i] = s[i + 1]
    <3> SUFFICES ASSUME NEW i \in p..Len(r) PROVE r[i] = s[i + 1]
      OBVIOUS
    <3>1. i - (p - 1) \in 1..(Len(s) - p) /\ p + (i - (p - 1)) = i + 1
      BY <2>6
    <3>2. b[i - (p - 1)] = s[i + 1]
      BY <3>1, <2>3 DEF b
    <3>3. QED
      BY <2>8, <3>2
  <2>11. QED
    BY <2>6, <2>9, <2>10
<1> HIDE DEF r
<1>2. /\ t \in Seq(S) /\ Len(t) = Len(s) /\ t[1] = s[p]
      /\ \A i \in 1..Len(r) : t[i + 1] = r[i]
  BY <1>1
<1> HIDE DEF t
<1>3. \A i \in 1..Len(t) : \E j \in 1..Len(s) : t[i] = s[j]
  <2> SUFFICES ASSUME NEW i \in 1..Len(t) PROVE \E j \in 1..Len(s) : t[i] = s[j]
    OBVIOUS
  <2>1. CASE i = 1
    BY <1>2, <2>1
  <2>2. CASE i \in 2..p
    <3>1. t[i] = s[i - 1] /\ i - 1 \in 1..Len(s)
      BY <1>1, <1>2, <2>2
    <3>2. QED
      BY <3>1
  <2>3. CASE i > p
    <3>1. i - 1 \in p..Len(r) /\ i - 1 \in 1..Len(r) /\ (i - 1) + 1 = i /\ i \in 1..Len(s)
      BY <1>1, <1>2, <2>3
    <3>2. t[i] = r[i - 1] /\ r[i - 1] = s[i]
      BY <1>1, <1>2, <3>1
    <3>3. QED
      BY <3>1, <3>2
  <2>4. QED
    BY <2>1, <2>2, <2>3
<1>4. \A j \in 1..Len(s) : \E i \in 1..Len(t) : s[j] = t[i]
  <2> SUFFICES ASSUME NEW j \in 1..Len(s) PROVE \E i \in 1..Len(t) : s[j] = t[i]
    OBVIOUS
  <2>1. CASE j = p
    BY <1>2, <2>1
  <2>2. CASE j < p
    <3>1. s[j] = t[j + 1] /\ j + 1 \in 1..Len(t)
      BY <1>1, <1>2, <2>2
    <3>2. QED
      BY <3>1
  <2>3. CASE j > p
    <3>1. j - 1 \in p..Len(r) /\ j - 1 \in 1..Len(r) /\ (j - 1) + 1 = j /\ j \in 1..Len(t)
      BY <1>1, <1>2, <2>3
    <3>2. t[j] = r[j - 1] /\ r[j - 1] = s[j]
      BY <1>1, <1>2, <3>1
    <3>3. QED
      BY <3>1, <3>2
  <2>4. QED
    BY <2>1, <2>2, <2>3
<1>5. ToSet(t) = ToSet(s)
  <2>1. ASSUME NEW e
        PROVE  e \in ToSet(t) <=> e \in ToSet(s)
    <3>1. e \in ToSet(t) <=> \E i \in 1..Len(t) : e = t[i]
      BY <1>2, ElementsOf
    <3>2. e \in ToSet(s) <=> \E i \in 1..Len(s) : e = s[i]
      BY ElementsOf
    <3>3. QED
      BY <1>3, <1>4, <3>1, <3>2
  <2>2. QED
    BY <2>1
<1>6. QED
  BY <1>2, <1>5 DEF t, r

\* The devices that have a last_seen_at are those that are registered; and what
\* TypeOK asks beyond Inv.
Seen ==
  /\ form \in [AdminDevices -> {"none", "inserted", "answered", "failed"}]
  /\ fresh \in Seq(AdminDevices)
  /\ \A d \in AdminDevices : d \in ToSet(fresh) <=> device[d] # "absent"
  /\ faults \in 0..MaxFaults
  /\ \A m \in Msgs : row[m].state # "stored" => row[m].to = NoDevice /\ row[m].conv = NoUser

LEMMA SeenInit == Init => Seen
<1> SUFFICES ASSUME Init PROVE Seen
  OBVIOUS
<1>1. fresh = <<>> /\ ToSet(fresh) = {}
  BY DEF Init, ToSet
<1>2. \A d \in AdminDevices : device[d] = "absent"
  BY MessagesAssumption DEF Init, Devices
<1>3. QED
  BY <1>1, <1>2, MessagesAssumption DEF Init, NoRow, Seen

\* A step that leaves devices, their order and rows alone.
LEMMA SeenStays ==
  ASSUME Seen, UNCHANGED <<deviceVars, row>>, faults' = faults \/ Fault
  PROVE  Seen'
<1>1. faults' \in 0..MaxFaults
  BY MessagesAssumption DEF Seen, Fault
<1>2. QED
  BY <1>1 DEF Seen, deviceVars

LEMMA SeenDevices ==
  ASSUME Inv, Seen, NEW d \in AdminDevices, InsertDevice(d) \/ IssueToken(d) \/ Touch(d)
  PROVE  Seen'
<1>0. /\ form \in [AdminDevices -> {"none", "inserted", "answered", "failed"}]
      /\ fresh \in Seq(AdminDevices) /\ d \in Devices
      /\ device \in [Devices -> {"absent", "active", "revoked"}]
      /\ \A e \in AdminDevices : e \in Devices /\ (e \in ToSet(fresh) <=> device[e] # "absent")
  BY DEF Inv, Sorts, Seen, Devices
<1>1. CASE InsertDevice(d)
  <2>1. /\ device' = [device EXCEPT ![d] = "active"] /\ form' = [form EXCEPT ![d] = "inserted"]
        /\ fresh' = <<d>> \o fresh /\ row' = row /\ faults' = faults
    BY <1>1 DEF InsertDevice
  <2>2. fresh' \in Seq(AdminDevices) /\ Len(fresh') = Len(fresh) + 1 /\ fresh'[1] = d
        /\ \A i \in 1..Len(fresh) : fresh'[i + 1] = fresh[i]
    BY <1>0, <2>1
  <2>3. \A e : e \in ToSet(fresh') <=> e = d \/ e \in ToSet(fresh)
    <3> SUFFICES ASSUME NEW e
                 PROVE  e \in ToSet(fresh') <=> e = d \/ e \in ToSet(fresh)
      OBVIOUS
    <3>1. /\ e \in ToSet(fresh) <=> \E i \in 1..Len(fresh) : e = fresh[i]
          /\ e \in ToSet(fresh') <=> \E i \in 1..Len(fresh') : e = fresh'[i]
      BY <1>0, <2>2, ElementsOf
    <3>2. ASSUME NEW i \in 1..Len(fresh'), i # 1
          PROVE  i - 1 \in 1..Len(fresh) /\ fresh'[i] = fresh[i - 1]
      <4>1. Len(fresh) \in Nat /\ i \in Int /\ i >= 1 /\ i <= Len(fresh) + 1
        BY <1>0, <2>2
      <4>2. i - 1 \in 1..Len(fresh) /\ (i - 1) + 1 = i
        BY <3>2, <4>1
      <4>3. QED
        BY <2>2, <4>2
    <3>3. \A i \in 1..Len(fresh) : i + 1 \in 1..Len(fresh')
      BY <1>0, <2>2
    <3>4. 1 \in 1..Len(fresh')
      BY <1>0, <2>2
    <3>5. QED
      BY <2>2, <3>1, <3>2, <3>3, <3>4
  <2>4. \A e \in AdminDevices : e \in ToSet(fresh') <=> device'[e] # "absent"
    BY <1>0, <2>1, <2>3
  <2>5. QED
    BY <1>0, <2>1, <2>2, <2>4 DEF Seen
<1>2. CASE IssueToken(d)
  <2>1. UNCHANGED <<device, fresh, row>> /\ (faults' = faults \/ Fault)
    BY <1>2 DEF IssueToken
  <2>2. form' \in [AdminDevices -> {"none", "inserted", "answered", "failed"}]
    BY <1>0, <1>2 DEF IssueToken
  <2>3. faults' \in 0..MaxFaults
    BY <2>1, MessagesAssumption DEF Seen, Fault
  <2>4. QED
    BY <2>1, <2>2, <2>3 DEF Seen
<1>3. CASE Touch(d)
  <2>1. PICK p \in 2..Len(fresh) : fresh[p] = d /\ fresh' = <<d>> \o RemoveAt(fresh, p)
    BY <1>3 DEF Touch
  <2>2. fresh' \in Seq(AdminDevices) /\ ToSet(fresh') = ToSet(fresh)
    BY <1>0, <2>1, MovedToFront
  <2>3. QED
    BY <2>2, <1>3 DEF Touch, Seen
<1>4. QED
  BY <1>1, <1>2, <1>3

LEMMA SeenRevoke ==
  ASSUME Inv, Seen, NEW d \in Devices, Revoke(d)
  PROVE  Seen'
<1>1. /\ \A e \in AdminDevices : e \in Devices
      /\ device' = [device EXCEPT ![d] = "revoked"] /\ device[d] = "active"
      /\ UNCHANGED <<form, fresh, row, faults>> /\ device \in [Devices -> {"absent", "active", "revoked"}]
  BY DEF Devices, Revoke, Inv, Sorts
<1>2. \A e \in AdminDevices : device'[e] # "absent" <=> device[e] # "absent"
  BY <1>1
<1>3. QED
  BY <1>1, <1>2 DEF Seen

LEMMA SeenRows ==
  ASSUME Inv, Seen, NEW m \in Msgs,
         \/ Purge(m)
         \/ \E r \in Requests : Insert(r)
         \/ \E d \in Devices, kind \in Kinds : Receipt(d, m, kind)
  PROVE  Seen'
<1>0. row \in [Msgs -> Row] /\ \A n \in Msgs : row[n].state # "stored" => row[n].to = NoDevice /\ row[n].conv = NoUser
  BY DEF Inv, Sorts, Seen
<1>1. UNCHANGED deviceVars /\ (faults' = faults \/ Fault)
  BY DEF Purge, Insert, Receipt
<1>2. \A n \in Msgs : row'[n].state # "stored" => row'[n].to = NoDevice /\ row'[n].conv = NoUser
  <2>1. CASE Purge(m)
    BY <1>0, <2>1 DEF Purge, NoRow
  <2>2. ASSUME NEW r \in Requests, Insert(r)
        PROVE  \A n \in Msgs : row'[n].state # "stored" => row'[n].to = NoDevice /\ row'[n].conv = NoUser
    <3>1. row' = row \/ row' = Inserted(r)
      BY <2>2 DEF Insert
    <3>2. CASE row' = row
      BY <1>0, <3>2
    <3>3. CASE row' = Inserted(r)
      BY <1>0, <3>3 DEF Inserted, Stored
    <3>4. QED
      BY <3>1, <3>2, <3>3
  <2>3. ASSUME NEW d \in Devices, NEW kind \in Kinds, Receipt(d, m, kind)
        PROVE  \A n \in Msgs : row'[n].state # "stored" => row'[n].to = NoDevice /\ row'[n].conv = NoUser
    BY <1>0, <2>3, Marked
  <2>4. QED
    BY <2>1, <2>2, <2>3
<1>3. faults' \in 0..MaxFaults
  BY <1>1, MessagesAssumption DEF Seen, Fault
<1>4. QED
  BY <1>1, <1>2, <1>3 DEF Seen, deviceVars

LEMMA SeenNext == Inv /\ Seen /\ [Next]_vars => Seen'
<1> SUFFICES ASSUME Inv, Seen, [Next]_vars
             PROVE  Seen'
  OBVIOUS
<1>1. CASE UNCHANGED vars
  BY <1>1, SeenStays DEF vars, deviceVars
<1>2. ASSUME NEW d \in AdminDevices, InsertDevice(d) \/ IssueToken(d) \/ Touch(d)
      PROVE  Seen'
  BY <1>2, SeenDevices
<1>3. ASSUME NEW d \in Devices, Revoke(d)
      PROVE  Seen'
  BY <1>3, SeenRevoke
<1>4. ASSUME NEW u \in UserDevices, Resolve(u)
      PROVE  Seen'
  BY <1>4, SeenStays DEF Resolve
<1>5. ASSUME NEW m \in Msgs, Purge(m) \/ \E d \in Devices, kind \in Kinds : Receipt(d, m, kind)
      PROVE  Seen'
  BY <1>5, SeenRows
<1>6. ASSUME NEW m \in Msgs, NEW s \in Devices, NEW d \in Devices, Seal(m, s, d)
      PROVE  Seen'
  BY <1>6, SeenStays DEF Seal
<1>7. ASSUME NEW r \in Requests, Handle(r)
      PROVE  Seen'
  <2>1. CASE Insert(r)
    <3>1. req[r].msg \in Msgs
      BY <2>1, Known DEF Insert
    <3>2. QED
      BY <2>1, <3>1, SeenRows
  <2>2. CASE Lookup(r) \/ CheckSender(r) \/ CheckRecipient(r) \/ Publish(r)
    BY <2>2, SeenStays DEF Lookup, CheckSender, CheckRecipient, Publish
  <2>3. QED
    BY <1>7, <2>1, <2>2 DEF Handle
<1>8. ASSUME NEW r \in Requests, NEW m \in Msgs, NEW route \in Routes, NEW wire \in Wires,
             Begin(r, m, route, wire)
      PROVE  Seen'
  BY <1>8, SeenStays DEF Begin
<1>9. QED
  BY <1>1, <1>2, <1>3, <1>4, <1>5, <1>6, <1>7, <1>8 DEF Next, Wires

\* Every variable keeps its type; the order of last_seen_at holds the registered
\* devices; a stored row is for the device its message was sealed for.
THEOREM TypeCorrect == Spec => []TypeOK
<1>1. Inv /\ Seen => TypeOK
  <2> SUFFICES ASSUME Inv, Seen PROVE TypeOK
    OBVIOUS
  <2>1. ASSUME NEW m \in Msgs, row[m].state = "stored"
        PROVE  row[m].to = box[m].to /\ row[m].to # NoDevice /\ row[m].conv # NoUser
    <3>1. <<box[m].from, box[m].to>> \in Pairs
      BY <2>1 DEF Inv, BoxFits
    <3>2. QED
      BY <2>1, <3>1, MessagesAssumption DEF Inv, RowFits, Filed, Pairs, Devices
  <2>2. QED
    BY <2>1 DEF Inv, Sorts, Seen, TypeOK
<1>2. QED
  BY <1>1, SeenInit, SeenNext, MessagesFit, PTL DEF Spec

=============================================================================
