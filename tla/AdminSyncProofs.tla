--------------------------- MODULE AdminSyncProofs ---------------------------
(***************************************************************************)
(* Theorems about AdminSync, for any number of phones, replies and faults  *)
(* and any page: its types, the finality of verdicts, what "sent" and the  *)
(* screen of the dashboard stand for, and how many copies polling without  *)
(* leases can make of a reply.                                             *)
(***************************************************************************)
EXTENDS AdminSync, FiniteSetTheorems, TLAPS

-----------------------------------------------------------------------------
(* Verdicts. *)

RowsTyped == row \in [Replies -> Row]

\* What a step may do to the status of a reply.
Advances == \A q \in Replies : row'[q].status \in {row[q].status} \cup Successor[row[q].status]

\* Only an acknowledgement, the reaper and time touch the row of a reply that
\* has been enqueued.
LEMMA RowsNext == RowsTyped /\ [Next]_vars => RowsTyped' /\ Advances
<1> SUFFICES ASSUME RowsTyped, [Next]_vars
             PROVE  RowsTyped' /\ Advances
  OBVIOUS
<1>1. CASE row' = row
  BY <1>1 DEF RowsTyped, Advances
<1>2. ASSUME NEW q \in Replies, Enqueue(q)
      PROVE  RowsTyped' /\ Advances
  BY <1>2 DEF Enqueue, RowsTyped, Advances, Row, Successor
<1>3. ASSUME NEW a \in acks, HandleAck(a)
      PROVE  RowsTyped' /\ Advances
  <2>1. CASE ~ Stamps(a.id)
    BY <1>1, <1>3, <2>1 DEF HandleAck
  <2>2. CASE Stamps(a.id) /\ row' # row
    <3> DEFINE verdict == IF a.ok THEN "sent" ELSE "failed"
    <3>1. row' = [row EXCEPT ![a.id].status = verdict] /\ row[a.id].status = "pending"
      BY <1>3, <2>2 DEF HandleAck, Stamps
    <3>2. verdict \in {"sent", "failed"}
      OBVIOUS
    <3> HIDE DEF verdict
    <3>3. /\ row' = [q \in Replies |-> row'[q]]
          /\ \A q \in Replies : row'[q] = IF q = a.id THEN [row[q] EXCEPT !.status = verdict] ELSE row[q]
      BY <3>1 DEF RowsTyped
    <3>4. \A q \in Replies : row'[q] \in Row
      BY <3>2, <3>3 DEF RowsTyped, Row
    <3>5. Advances
      BY <3>1, <3>2, <3>3 DEF RowsTyped, Row, Advances, Successor
    <3>6. QED
      BY <3>3, <3>4, <3>5 DEF RowsTyped
  <2>3. QED
    BY <1>1, <2>1, <2>2
<1>4. CASE Reap
  BY <1>4 DEF Reap, Reapable, RowsTyped, Advances, Row, Successor
<1>5. ASSUME NEW q \in Replies, Day(q)
      PROVE  RowsTyped' /\ Advances
  BY <1>5 DEF Day, RowsTyped, Advances, Row
<1>6. QED
  BY <1>1, <1>2, <1>3, <1>4, <1>5
     DEF Next, vars, Step, Launch, Drain, NextItem, Seal, Report, Kill, GiveUp, OpenSession

\* A verdict is final, in whatever order acknowledgements arrive.
THEOREM VerdictsAreFinal == Spec => VerdictIsFinal
<1>1. Init => RowsTyped
  BY DEF Init, RowsTyped, Row
<1>2. RowsTyped /\ [Next]_vars => [Advances]_vars
  BY RowsNext
<1>3. Spec => [][Advances]_vars
  BY <1>1, <1>2, RowsNext, PTL DEF Spec
<1>4. QED
  BY <1>3 DEF VerdictIsFinal, Advances

-----------------------------------------------------------------------------
(* Types, and what a phone may hold. *)

Queued(q) == row[q].status # "none"

InOrder == \A q, k \in Replies : k \in older[q] <=> Queued(k) /\ Queued(q) /\ q # k /\ q \notin older[k]

\* A reply is newer than all that have been enqueued before it.
LEMMA OrderNext ==
  ASSUME RowsTyped, older \in [Replies -> SUBSET Replies], InOrder, [Next]_vars
  PROVE  older' \in [Replies -> SUBSET Replies] /\ InOrder' /\ \A q \in Replies : Queued(q) => Queued(q)'
<1>0. RowsTyped' /\ Advances
  BY RowsNext
<1>1. \A q \in Replies : Queued(q) => Queued(q)'
  BY <1>0 DEF Advances, Queued, Successor, RowsTyped, Row
<1>2. ASSUME NEW q \in Replies, Enqueue(q)
      PROVE  older' \in [Replies -> SUBSET Replies] /\ InOrder'
  <2>1. /\ \A k \in Replies : Queued(k)' <=> Queued(k) \/ k = q
        /\ ~ Queued(q)
    BY <1>2 DEF Enqueue, RowsTyped, Row, Queued
  <2>2. /\ older' \in [Replies -> SUBSET Replies]
        /\ \A k \in Replies : older'[k] = IF k = q THEN {i \in Replies : Queued(i)} ELSE older[k]
    BY <1>2 DEF Enqueue, Queued
  <2> HIDE DEF Queued
  <2>3. QED
    BY <2>1, <2>2 DEF InOrder
<1>3. ASSUME older' = older, \A q \in Replies : Queued(q)' => Queued(q)
      PROVE  older' \in [Replies -> SUBSET Replies] /\ InOrder'
  <2> HIDE DEF Queued
  <2>1. QED
    BY <1>1, <1>3 DEF InOrder
<1>4. CASE Reap \/ \E q \in Replies : Day(q)
  <2>1. \A q \in Replies : Queued(q)' => Queued(q)
    BY <1>4 DEF Reap, Reapable, Day, RowsTyped, Row, Queued
  <2>2. QED
    BY <1>1, <1>3, <1>4, <2>1 DEF Reap, Day
<1>5. ASSUME NEW a \in acks, HandleAck(a)
      PROVE  older' \in [Replies -> SUBSET Replies] /\ InOrder'
  <2>1. \A q \in Replies : Queued(q)' => Queued(q)
    BY <1>5 DEF HandleAck, Stamps, RowsTyped, Row, Queued
  <2>2. QED
    BY <1>3, <1>5, <2>1 DEF HandleAck
<1>6. CASE UNCHANGED <<row, older>>
  BY <1>3, <1>6 DEF Queued
<1>7. QED
  BY <1>1, <1>2, <1>4, <1>5, <1>6
     DEF Next, vars, Step, Launch, Drain, NextItem, Seal, Report, Kill, GiveUp, OpenSession

\* Phone p has moved, to a state with these fields.
Now(p, pc, todo, cur, ok) ==
  /\ phone' \in [Phones -> Phone] /\ \A v \in Phones \ {p} : phone'[v] = phone[v]
  /\ phone'[p].pc = pc /\ phone'[p].todo = todo /\ phone'[p].cur = cur /\ phone'[p].ok = ok

LEMMA Moved ==
  ASSUME phone \in [Phones -> Phone], NEW p \in Phones, NEW s \in Phone, phone' = [phone EXCEPT ![p] = s]
  PROVE  Now(p, s.pc, s.todo, s.cur, s.ok)
BY DEF Now

\* Where a phone can move.
LEMMA Moves ==
  ASSUME phone \in [Phones -> Phone], NEW p \in Phones
  PROVE  /\ phone' = Drained(p) => Now(p, "idle", {}, NoReply, FALSE)
         /\ phone' = [phone EXCEPT ![p] = Off] => Now(p, "off", {}, NoReply, FALSE)
         /\ phone' = GoesOn(p) => Now(p, "next", phone[p].todo, NoReply, FALSE)
         /\ Launch(p) => Now(p, "idle", phone[p].todo, phone[p].cur, phone[p].ok)
         /\ phone' = [phone EXCEPT ![p].pc = "next", ![p].busy = TRUE, ![p].todo = Pending]
              => Now(p, "next", Pending, phone[p].cur, phone[p].ok)
         /\ \A q \in Replies : phone' = Taken(p, q) =>
              Now(p, IF UserOf[q] \in session[p] THEN "seal" ELSE "report", phone[p].todo \ {q}, q, phone[p].ok)
         /\ phone' = [phone EXCEPT ![p].pc = "report", ![p].ok = TRUE]
              => Now(p, "report", phone[p].todo, phone[p].cur, TRUE)
         /\ phone' = [phone EXCEPT ![p].pc = "report"]
              => Now(p, "report", phone[p].todo, phone[p].cur, phone[p].ok)
         /\ Report(p) => Now(p, "wait", phone[p].todo, phone[p].cur, phone[p].ok)
<1>0. phone[p] \in Phone
  OBVIOUS
<1>1. ASSUME phone' = Drained(p)
      PROVE  Now(p, "idle", {}, NoReply, FALSE)
  <2> DEFINE s == [Off EXCEPT !.pc = "idle"]
  <2>1. s \in Phone /\ <<s.pc, s.todo, s.cur, s.ok>> = <<"idle", {}, NoReply, FALSE>>
    BY <1>0 DEF Phone, Off
  <2>2. phone' = [phone EXCEPT ![p] = s]
    BY <1>1 DEF Drained
  <2> HIDE DEF s
  <2>3. QED
    BY <2>1, <2>2, Moved
<1>2. phone' = [phone EXCEPT ![p] = Off] => Now(p, "off", {}, NoReply, FALSE)
  <2>1. Off \in Phone
    BY DEF Off, Phone
  <2>2. QED
    BY <2>1, Moved DEF Off
<1>3. ASSUME phone' = GoesOn(p)
      PROVE  Now(p, "next", phone[p].todo, NoReply, FALSE)
  <2> DEFINE s == [phone[p] EXCEPT !.pc = "next", !.cur = NoReply, !.ok = FALSE]
  <2>1. s \in Phone /\ <<s.pc, s.todo, s.cur, s.ok>> = <<"next", phone[p].todo, NoReply, FALSE>>
    BY <1>0 DEF Phone
  <2>2. phone' = [phone EXCEPT ![p] = s]
    BY <1>3 DEF GoesOn
  <2> HIDE DEF s
  <2>3. QED
    BY <2>1, <2>2, Moved
<1>4. Launch(p) => Now(p, "idle", phone[p].todo, phone[p].cur, phone[p].ok)
  BY <1>0 DEF Launch, Now, Phone
<1>5. ASSUME phone' = [phone EXCEPT ![p].pc = "next", ![p].busy = TRUE, ![p].todo = Pending]
      PROVE  Now(p, "next", Pending, phone[p].cur, phone[p].ok)
  <2> DEFINE s == [phone[p] EXCEPT !.pc = "next", !.busy = TRUE, !.todo = Pending]
  <2>1. Pending \subseteq Replies
    BY DEF Pending, Oldest
  <2>2. phone' = [phone EXCEPT ![p] = s]
    BY <1>5
  <2> HIDE DEF Pending
  <2>3. s \in Phone /\ <<s.pc, s.todo, s.cur, s.ok>> = <<"next", Pending, phone[p].cur, phone[p].ok>>
    BY <1>0, <2>1 DEF Phone
  <2> HIDE DEF s
  <2>4. QED
    BY <2>2, <2>3, Moved
<1>6. ASSUME NEW q \in Replies, phone' = Taken(p, q)
      PROVE  Now(p, IF UserOf[q] \in session[p] THEN "seal" ELSE "report", phone[p].todo \ {q}, q, phone[p].ok)
  <2> DEFINE pc == IF UserOf[q] \in session[p] THEN "seal" ELSE "report"
  <2>1. phone' = [phone EXCEPT ![p] = [phone[p] EXCEPT !.todo = @ \ {q}, !.cur = q, !.pc = pc]]
    BY <1>6 DEF Taken
  <2>2. pc \in {"seal", "report"}
    OBVIOUS
  <2> HIDE DEF pc
  <2>3. Now(p, pc, phone[p].todo \ {q}, q, phone[p].ok)
    BY <1>0, <2>1, <2>2 DEF Now, Phone
  <2>4. QED
    BY <2>3 DEF pc
<1>7. ASSUME phone' = [phone EXCEPT ![p].pc = "report", ![p].ok = TRUE]
      PROVE  Now(p, "report", phone[p].todo, phone[p].cur, TRUE)
  <2> DEFINE s == [phone[p] EXCEPT !.pc = "report", !.ok = TRUE]
  <2>1. s \in Phone /\ <<s.pc, s.todo, s.cur, s.ok>> = <<"report", phone[p].todo, phone[p].cur, TRUE>>
    BY <1>0 DEF Phone
  <2>2. phone' = [phone EXCEPT ![p] = s]
    BY <1>7
  <2> HIDE DEF s
  <2>3. QED
    BY <2>1, <2>2, Moved
<1>8. Report(p) => Now(p, "wait", phone[p].todo, phone[p].cur, phone[p].ok)
  BY <1>0 DEF Report, Now, Phone
<1>9. phone' = [phone EXCEPT ![p].pc = "report"] => Now(p, "report", phone[p].todo, phone[p].cur, phone[p].ok)
  BY <1>0 DEF Now, Phone
<1>10. QED
  BY <1>1, <1>2, <1>3, <1>4, <1>5, <1>6, <1>7, <1>8, <1>9

\* What the fields of a phone have to do with each other: it is at work on one
\* reply, which it has taken off its batch, and holds no batch between two polls.
Fits(pc, todo, cur, ok) ==
  /\ cur # NoReply <=> pc \in {"seal", "report", "wait"}
  /\ ok => pc \in {"report", "wait"}
  /\ pc \in {"off", "idle"} => todo = {}
  /\ cur \notin todo

\* Phones and acknowledgements know of replies that have been enqueued.
PhonesKnow == \A p \in Phones : LET s == phone[p] IN
  /\ Fits(s.pc, s.todo, s.cur, s.ok)
  /\ \A q \in s.todo \cup {s.cur} : q # NoReply => q \in Replies /\ Queued(q)
AcksKnow == \A a \in acks : Queued(a.id)
Work == TypeOK /\ PhonesKnow /\ AcksKnow

LEMMA WorkTypes == Work => /\ RowsTyped /\ older \in [Replies -> SUBSET Replies] /\ InOrder
                           /\ phone \in [Phones -> Phone] /\ NoReply \notin Replies
BY AdminSyncAssumption DEF Work, TypeOK, RowsTyped, InOrder, Queued

\* One phone has moved on, the others know what they knew.
LEMMA OneMoved ==
  ASSUME Work, \A q \in Replies : Queued(q) => Queued(q)', NEW p \in Phones,
         NEW pc, NEW todo, NEW cur, NEW ok, Now(p, pc, todo, cur, ok), Fits(pc, todo, cur, ok),
         \A q \in todo \cup {cur} : q # NoReply => q \in Replies /\ Queued(q)'
  PROVE  phone' \in [Phones -> Phone] /\ PhonesKnow'
<1>1. ASSUME NEW v \in Phones
      PROVE  LET s == phone'[v] IN
             /\ Fits(s.pc, s.todo, s.cur, s.ok)
             /\ \A q \in s.todo \cup {s.cur} : q # NoReply => q \in Replies /\ Queued(q)'
  <2>1. CASE v = p
    BY <2>1 DEF Now
  <2>2. CASE v # p
    <3>1. phone'[v] = phone[v]
      BY <2>2 DEF Now
    <3>2. QED
      BY <3>1 DEF Work, PhonesKnow
  <2>3. QED
    BY <2>1, <2>2
<1>2. QED
  BY <1>1 DEF PhonesKnow, Fits, Now

\* What a poll answers has been enqueued.
LEMMA PollKnown == \A q \in Pending : q \in Replies /\ row[q].status = "pending" /\ Queued(q)
BY DEF Pending, Oldest, Waiting, Queued

\* A phone's step keeps its fields together.
LEMMA PhonesNext ==
  ASSUME Work, [Next]_vars
  PROVE  phone' \in [Phones -> Phone] /\ PhonesKnow'
<1>0. /\ phone \in [Phones -> Phone] /\ NoReply \notin Replies
      /\ \A q \in Replies : Queued(q) => Queued(q)'
  BY WorkTypes, OrderNext
<1>k. ASSUME NEW p \in Phones
      PROVE  /\ Fits(phone[p].pc, phone[p].todo, phone[p].cur, phone[p].ok)
             /\ \A q \in phone[p].todo \cup {phone[p].cur} : q # NoReply => q \in Replies /\ Queued(q)'
  BY <1>0 DEF Work, PhonesKnow
<1>s. ASSUME phone' = phone
      PROVE  phone' \in [Phones -> Phone] /\ PhonesKnow'
  BY <1>0, <1>s, <1>k DEF PhonesKnow
<1>d. ASSUME NEW p \in Phones, phone' = Drained(p) \/ phone' = [phone EXCEPT ![p] = Off]
      PROVE  phone' \in [Phones -> Phone] /\ PhonesKnow'
  <2>1. Now(p, "idle", {}, NoReply, FALSE) \/ Now(p, "off", {}, NoReply, FALSE)
    BY <1>0, <1>d, Moves
  <2>2. Fits("idle", {}, NoReply, FALSE) /\ Fits("off", {}, NoReply, FALSE)
    BY DEF Fits
  <2>0. \A q \in {} \cup {NoReply} : q # NoReply => q \in Replies /\ Queued(q)'
    OBVIOUS
  <2>3. CASE Now(p, "idle", {}, NoReply, FALSE)
    BY <1>0, <2>0, <2>2, <2>3, OneMoved
  <2>4. CASE Now(p, "off", {}, NoReply, FALSE)
    BY <1>0, <2>0, <2>2, <2>4, OneMoved
  <2>5. QED
    BY <2>1, <2>3, <2>4
<1>g. ASSUME NEW p \in Phones, phone' = GoesOn(p), phone[p].pc = "wait"
      PROVE  phone' \in [Phones -> Phone] /\ PhonesKnow'
  <2>1. Now(p, "next", phone[p].todo, NoReply, FALSE)
    BY <1>0, <1>g, Moves
  <2>2. NoReply \notin phone[p].todo
    BY <1>0 DEF Phone
  <2>3. Fits("next", phone[p].todo, NoReply, FALSE)
    BY <2>2 DEF Fits
  <2>4. QED
    BY <1>0, <1>k, <2>1, <2>3, OneMoved
<1>1. ASSUME NEW p \in Phones, Launch(p)
      PROVE  phone' \in [Phones -> Phone] /\ PhonesKnow'
  <2>1. Now(p, "idle", phone[p].todo, phone[p].cur, phone[p].ok)
    BY <1>0, <1>1, Moves
  <2>2. Fits("idle", phone[p].todo, phone[p].cur, phone[p].ok)
    BY <1>1, <1>k DEF Launch, Fits
  <2>3. QED
    BY <1>0, <1>k, <2>1, <2>2, OneMoved
<1>2. ASSUME NEW p \in Phones, Drain(p)
      PROVE  phone' \in [Phones -> Phone] /\ PhonesKnow'
  <2>1. CASE phone' = Drained(p)
    BY <1>d, <2>1
  <2>2. CASE phone' = [phone EXCEPT ![p].pc = "next", ![p].busy = TRUE, ![p].todo = Pending]
    <3>1. Now(p, "next", Pending, phone[p].cur, phone[p].ok)
      BY <1>0, <2>2, Moves
    <3>2. phone[p].cur = NoReply /\ Fits("next", Pending, phone[p].cur, phone[p].ok)
      BY <1>0, <1>2, <1>k, PollKnown DEF Drain, Fits
    <3>3. QED
      BY <1>0, <3>1, <3>2, OneMoved, PollKnown
  <2>3. QED
    BY <1>2, <2>1, <2>2 DEF Drain
<1>3. ASSUME NEW p \in Phones, NextItem(p)
      PROVE  phone' \in [Phones -> Phone] /\ PhonesKnow'
  <2>1. CASE phone' = Drained(p)
    BY <1>d, <2>1
  <2>2. ASSUME NEW q \in phone[p].todo, phone' = Taken(p, q)
        PROVE  phone' \in [Phones -> Phone] /\ PhonesKnow'
    <3> DEFINE pc == IF UserOf[q] \in session[p] THEN "seal" ELSE "report"
    <3>0. q \in Replies
      BY <1>0 DEF Phone
    <3>1. Now(p, pc, phone[p].todo \ {q}, q, phone[p].ok) /\ pc \in {"seal", "report"}
      BY <1>0, <2>2, <3>0, Moves
    <3> HIDE DEF pc
    <3>2. ~ phone[p].ok
      BY <1>3, <1>k DEF NextItem, Fits
    <3>3. Fits(pc, phone[p].todo \ {q}, q, phone[p].ok)
      BY <1>0, <3>0, <3>1, <3>2 DEF Fits
    <3>4. QED
      BY <1>0, <1>k, <3>1, <3>3, OneMoved
  <2>3. QED
    BY <1>3, <2>1, <2>2 DEF NextItem
<1>4. ASSUME NEW p \in Phones, Seal(p)
      PROVE  phone' \in [Phones -> Phone] /\ PhonesKnow'
  <2>1. CASE phone' = Drained(p)
    BY <1>d, <2>1
  <2>2. CASE phone' = [phone EXCEPT ![p].pc = "report", ![p].ok = TRUE]
    <3>1. Now(p, "report", phone[p].todo, phone[p].cur, TRUE)
      BY <1>0, <2>2, Moves
    <3>2. Fits("report", phone[p].todo, phone[p].cur, TRUE)
      BY <1>4, <1>k DEF Seal, Fits
    <3>3. QED
      BY <1>0, <1>k, <3>1, <3>2, OneMoved
  <2>3. CASE phone' = [phone EXCEPT ![p].pc = "report"]
    <3>1. Now(p, "report", phone[p].todo, phone[p].cur, phone[p].ok)
      BY <1>0, <2>3, Moves
    <3>2. Fits("report", phone[p].todo, phone[p].cur, phone[p].ok)
      BY <1>4, <1>k DEF Seal, Fits
    <3>3. QED
      BY <1>0, <1>k, <3>1, <3>2, OneMoved
  <2>4. QED
    BY <1>4, <2>1, <2>2, <2>3 DEF Seal
<1>5. ASSUME NEW p \in Phones, Report(p)
      PROVE  phone' \in [Phones -> Phone] /\ PhonesKnow'
  <2>1. Now(p, "wait", phone[p].todo, phone[p].cur, phone[p].ok)
    BY <1>0, <1>5, Moves
  <2>2. Fits("wait", phone[p].todo, phone[p].cur, phone[p].ok)
    BY <1>5, <1>k DEF Report, Fits
  <2>3. QED
    BY <1>0, <1>k, <2>1, <2>2, OneMoved
<1>6. ASSUME NEW p \in Phones, Kill(p) \/ GiveUp(p) \/ \E u \in Users : OpenSession(p, u)
      PROVE  phone' \in [Phones -> Phone] /\ PhonesKnow'
  BY <1>6, <1>d, <1>g, <1>s DEF Kill, GiveUp, OpenSession
<1>7. ASSUME NEW a \in acks, HandleAck(a)
      PROVE  phone' \in [Phones -> Phone] /\ PhonesKnow'
  <2>1. a.phone \in Phones
    BY DEF Work, TypeOK, Ack
  <2>2. QED
    BY <1>7, <1>g, <1>s, <2>1 DEF HandleAck, WaitsFor
<1>8. CASE UNCHANGED vars \/ (\E q \in Replies : Enqueue(q) \/ Day(q)) \/ Reap
  BY <1>8, <1>s DEF vars, phoneVars, Enqueue, Day, Reap
<1>9. QED
  BY <1>1, <1>2, <1>3, <1>4, <1>5, <1>6, <1>7, <1>8 DEF Next, Step

\* What the steps do to the rest.
LEMMA RestNext ==
  ASSUME Work, [Next]_vars
  PROVE  /\ session' \in [Phones -> SUBSET Users] /\ copies' \in [Replies -> Nat] /\ stored' \subseteq Replies
         /\ acks' \subseteq Ack /\ AcksKnow' /\ faults' \in 0 .. MaxFaults
<1>0. /\ \A q \in Replies : Queued(q) => Queued(q)'
      /\ acks \subseteq Ack /\ \A a \in acks : a.id \in Replies /\ Queued(a.id)
  BY WorkTypes, OrderNext DEF Work, TypeOK, AcksKnow, Ack
<1>1. /\ session \in [Phones -> SUBSET Users] /\ copies \in [Replies -> Nat] /\ stored \subseteq Replies
      /\ faults \in 0 .. MaxFaults /\ MaxFaults \in Nat
  BY AdminSyncAssumption DEF Work, TypeOK
<1>2. ASSUME NEW p \in Phones, phone[p].pc \in {"seal", "report", "wait"}
      PROVE  phone[p].cur \in Replies /\ Queued(phone[p].cur) /\ phone[p].ok \in BOOLEAN
  <2>1. phone[p].cur # NoReply /\ phone[p].ok \in BOOLEAN
    BY <1>2 DEF Work, PhonesKnow, Fits, TypeOK, Phone
  <2>2. QED
    BY <2>1 DEF Work, PhonesKnow
<1>3. faults' \in 0 .. MaxFaults
  <2>1. UNCHANGED faults \/ Fault
    BY DEF Next, vars, Step, Enqueue, Day, Reap, HandleAck, Launch, Drain, NextItem, Seal, Report, Kill,
           GiveUp, OpenSession
  <2>2. QED
    BY <1>1, <2>1 DEF Fault
<1>4. session' \in [Phones -> SUBSET Users]
  <2>1. session' = session \/ \E p \in Phones, u \in Users : session' = [session EXCEPT ![p] = @ \cup {u}]
    BY DEF Next, vars, phoneVars, Step, Enqueue, Day, Reap, HandleAck, Launch, Drain, NextItem, Seal, Report, Kill,
           GiveUp, OpenSession
  <2>2. QED
    BY <1>1, <2>1
<1>5. copies' \in [Replies -> Nat] /\ stored' \subseteq Replies
  <2>1. ASSUME NEW p \in Phones, Seal(p)
        PROVE  copies' \in [Replies -> Nat] /\ stored' \subseteq Replies
    <3>1. phone[p].cur \in Replies
      BY <1>2, <2>1 DEF Seal
    <3>2. QED
      BY <1>1, <2>1, <3>1 DEF Seal, Posted
  <2>2. UNCHANGED <<copies, stored>> \/ \E p \in Phones : Seal(p)
    BY DEF Next, vars, phoneVars, Step, Enqueue, Day, Reap, HandleAck, Launch, Drain, NextItem, Report, Kill,
           GiveUp, OpenSession
  <2>3. QED
    BY <1>1, <2>1, <2>2
<1>6. acks' \subseteq Ack /\ AcksKnow'
  <2>1. CASE acks' \subseteq acks
    BY <1>0, <2>1 DEF AcksKnow
  <2>2. ASSUME NEW p \in Phones, Report(p)
        PROVE  acks' \subseteq Ack /\ AcksKnow'
    <3> DEFINE new == [phone |-> p, id |-> phone[p].cur, ok |-> phone[p].ok]
    <3>1. acks' = acks \cup {new}
      BY <2>2 DEF Report
    <3>2. new \in Ack /\ new.id \in Replies /\ Queued(new.id)
      BY <1>2, <2>2 DEF Report, Ack
    <3> HIDE DEF new
    <3>3. QED
      BY <1>0, <3>1, <3>2 DEF AcksKnow
  <2>3. acks' \subseteq acks \/ \E p \in Phones : Report(p)
    BY DEF Next, vars, Step, Enqueue, Day, Reap, HandleAck, Launch, Drain, NextItem, Seal, Kill,
           GiveUp, OpenSession
  <2>4. QED
    BY <2>1, <2>2, <2>3
<1>7. QED
  BY <1>3, <1>4, <1>5, <1>6

\* The invariant that the rest of the theorems start from.
LEMMA WorkNext == Work /\ [Next]_vars => Work'
<1> SUFFICES ASSUME Work, [Next]_vars
             PROVE  Work'
  OBVIOUS
<1>1. RowsTyped' /\ older' \in [Replies -> SUBSET Replies] /\ InOrder'
  BY WorkTypes, RowsNext, OrderNext
<1>2. \A p \in Phones : phone'[p].cur # NoReply <=> phone'[p].pc \in {"seal", "report", "wait"}
  BY PhonesNext DEF PhonesKnow, Fits
<1>3. QED
  BY <1>1, <1>2, PhonesNext, RestNext DEF Work, TypeOK, RowsTyped, InOrder, Queued

\* Phones and acknowledgements name replies that have been enqueued, and a phone
\* between two polls holds none.
THEOREM WorkKept == Spec => []Work
<1>1. Init => Work
  <2> SUFFICES ASSUME Init PROVE Work
    OBVIOUS
  <2>1. Off \in Phone /\ Off.cur = NoReply /\ Off.todo = {} /\ Off.pc = "off" /\ ~ Off.ok
    BY DEF Off, Phone
  <2>2. QED
    BY <2>1, AdminSyncAssumption DEF Init, Work, TypeOK, Row, PhonesKnow, AcksKnow, Fits, Queued
<1>2. QED
  BY <1>1, WorkNext, PTL DEF Spec

\* Of two replies in the queue one is older, and a phone has a reply at hand
\* exactly between taking it up and the end of its report.
THEOREM TypeCorrect == Spec => []TypeOK
<1>1. Work => TypeOK
  BY DEF Work
<1>2. QED
  BY <1>1, WorkKept, PTL

-----------------------------------------------------------------------------
(* What "sent" stands for. *)

\* A phone that is about to report success has sealed the reply, and so has the
\* one whose report is on its way.
Earned ==
  /\ \A p \in Phones : phone[p].ok => phone[p].cur \in Replies /\ copies[phone[p].cur] > 0
  /\ \A a \in acks : a.ok => copies[a.id] > 0
  /\ SentWasSealed

\* Copies are not taken back.
LEMMA CopiesGrow == Work /\ [Next]_vars => \A q \in Replies : copies[q] > 0 => copies'[q] > 0
<1> SUFFICES ASSUME Work, [Next]_vars
             PROVE  \A q \in Replies : copies[q] > 0 => copies'[q] > 0
  OBVIOUS
<1>1. copies \in [Replies -> Nat]
  BY DEF Work, TypeOK
<1>2. copies' = copies \/ \E c : copies' = [copies EXCEPT ![c] = @ + 1]
  BY DEF Next, vars, phoneVars, Step, Enqueue, Day, Reap, HandleAck, Launch, Drain, NextItem, Seal, Report, Kill,
         GiveUp, OpenSession
<1>3. QED
  BY <1>1, <1>2

LEMMA EarnedNext == Work /\ Earned /\ [Next]_vars => Earned'
<1> SUFFICES ASSUME Work, Earned, [Next]_vars
             PROVE  Earned'
  OBVIOUS
<1>0. /\ phone \in [Phones -> Phone] /\ RowsTyped /\ RowsTyped' /\ acks \subseteq Ack /\ copies \in [Replies -> Nat]
      /\ \A q \in Replies : copies[q] > 0 => copies'[q] > 0
      /\ \A a \in acks : a.id \in Replies
      /\ \A p \in Phones : Fits(phone[p].pc, phone[p].todo, phone[p].cur, phone[p].ok)
  BY WorkTypes, RowsNext, CopiesGrow DEF Work, TypeOK, Ack, PhonesKnow
<1>p. ASSUME NEW p \in Phones, NEW pc, NEW todo, NEW cur, NEW ok, Now(p, pc, todo, cur, ok),
             ok => cur \in Replies /\ copies'[cur] > 0
      PROVE  \A v \in Phones : phone'[v].ok => phone'[v].cur \in Replies /\ copies'[phone'[v].cur] > 0
  BY <1>0, <1>p DEF Now, Earned
<1>1. \A v \in Phones : phone'[v].ok => phone'[v].cur \in Replies /\ copies'[phone'[v].cur] > 0
  <2>1. CASE phone' = phone
    BY <1>0, <2>1 DEF Earned
  <2>2. ASSUME NEW p \in Phones,
               phone' = Drained(p) \/ phone' = [phone EXCEPT ![p] = Off] \/ phone' = GoesOn(p)
        PROVE  \A v \in Phones : phone'[v].ok => phone'[v].cur \in Replies /\ copies'[phone'[v].cur] > 0
    <3>1. \E pc, todo, cur : Now(p, pc, todo, cur, FALSE)
      BY <1>0, <2>2, Moves
    <3>2. QED
      BY <1>p, <3>1
  <2>3. ASSUME NEW p \in Phones, Launch(p) \/ Report(p)
        PROVE  \A v \in Phones : phone'[v].ok => phone'[v].cur \in Replies /\ copies'[phone'[v].cur] > 0
    <3>1. \E pc : Now(p, pc, phone[p].todo, phone[p].cur, phone[p].ok)
      BY <1>0, <2>3, Moves
    <3>2. QED
      BY <1>0, <1>p, <3>1 DEF Earned
  <2>4. ASSUME NEW p \in Phones, phone' = [phone EXCEPT ![p].pc = "next", ![p].busy = TRUE, ![p].todo = Pending]
        PROVE  \A v \in Phones : phone'[v].ok => phone'[v].cur \in Replies /\ copies'[phone'[v].cur] > 0
    <3>1. Now(p, "next", Pending, phone[p].cur, phone[p].ok)
      BY <1>0, <2>4, Moves
    <3>2. QED
      BY <1>0, <1>p, <3>1 DEF Earned
  <2>5. ASSUME NEW p \in Phones, phone[p].pc = "next", NEW q \in phone[p].todo, phone' = Taken(p, q)
        PROVE  \A v \in Phones : phone'[v].ok => phone'[v].cur \in Replies /\ copies'[phone'[v].cur] > 0
    <3>1. q \in Replies /\ ~ phone[p].ok
      BY <1>0, <2>5 DEF Phone, Fits
    <3>2. \E pc, todo : Now(p, pc, todo, q, phone[p].ok)
      BY <1>0, <2>5, <3>1, Moves
    <3>3. QED
      BY <1>p, <3>1, <3>2
  <2>6. ASSUME NEW p \in Phones, phone[p].pc = "seal", copies' = [copies EXCEPT ![phone[p].cur] = @ + 1],
               phone' = [phone EXCEPT ![p].pc = "report", ![p].ok = TRUE]
        PROVE  \A v \in Phones : phone'[v].ok => phone'[v].cur \in Replies /\ copies'[phone'[v].cur] > 0
    <3>1. phone[p].cur \in Replies
      BY <1>0, <2>6 DEF Fits, Phone
    <3>2. copies[phone[p].cur] \in Nat /\ copies'[phone[p].cur] = copies[phone[p].cur] + 1
      BY <1>0, <2>6, <3>1
    <3>3. Now(p, "report", phone[p].todo, phone[p].cur, TRUE)
      BY <1>0, <2>6, Moves
    <3>4. copies'[phone[p].cur] > 0
      BY <3>2
    <3>5. QED
      BY <1>p, <3>1, <3>3, <3>4
  <2>7. ASSUME NEW p \in Phones, phone' = [phone EXCEPT ![p].pc = "report"]
        PROVE  \A v \in Phones : phone'[v].ok => phone'[v].cur \in Replies /\ copies'[phone'[v].cur] > 0
    <3>1. Now(p, "report", phone[p].todo, phone[p].cur, phone[p].ok)
      BY <1>0, <2>7, Moves
    <3>2. QED
      BY <1>0, <1>p, <3>1 DEF Earned
  <2>8. \/ phone' = phone
        \/ \E p \in Phones :
             \/ phone' = Drained(p) \/ phone' = [phone EXCEPT ![p] = Off] \/ phone' = GoesOn(p)
             \/ Launch(p) \/ Report(p)
             \/ phone' = [phone EXCEPT ![p].pc = "next", ![p].busy = TRUE, ![p].todo = Pending]
             \/ phone[p].pc = "next" /\ \E q \in phone[p].todo : phone' = Taken(p, q)
             \/ /\ phone[p].pc = "seal" /\ copies' = [copies EXCEPT ![phone[p].cur] = @ + 1]
                /\ phone' = [phone EXCEPT ![p].pc = "report", ![p].ok = TRUE]
             \/ phone' = [phone EXCEPT ![p].pc = "report"]
    BY <1>0 DEF Next, vars, phoneVars, Step, Enqueue, Day, Reap, HandleAck, Drain, NextItem, Seal, Kill,
                GiveUp, OpenSession, Ack
  <2>9. QED
    BY <2>1, <2>2, <2>3, <2>4, <2>5, <2>6, <2>7, <2>8
<1>2. \A a \in acks' : a.ok => copies'[a.id] > 0
  <2>1. CASE acks' \subseteq acks
    BY <1>0, <2>1 DEF Earned
  <2>2. ASSUME NEW p \in Phones, Report(p)
        PROVE  \A a \in acks' : a.ok => copies'[a.id] > 0
    <3> DEFINE new == [phone |-> p, id |-> phone[p].cur, ok |-> phone[p].ok]
    <3>1. acks' = acks \cup {new} /\ copies' = copies
      BY <2>2 DEF Report
    <3>2. new.ok => copies[new.id] > 0
      BY DEF Earned
    <3> HIDE DEF new
    <3>3. QED
      BY <3>1, <3>2 DEF Earned
  <2>3. acks' \subseteq acks \/ \E p \in Phones : Report(p)
    BY DEF Next, vars, Step, Enqueue, Day, Reap, HandleAck, Launch, Drain, NextItem, Seal, Kill,
           GiveUp, OpenSession
  <2>4. QED
    BY <2>1, <2>2, <2>3
<1>3. SentWasSealed'
  <2>1. ASSUME NEW q \in Replies, row'[q].status = "sent", row[q].status # "sent"
        PROVE  copies[q] > 0
    <3>0. RowsTyped
      BY <1>0
    <3>1. PICK a \in acks : HandleAck(a) /\ row' # row
      BY <2>1, <3>0 DEF Next, vars, Step, Enqueue, Day, Reap, Launch, Drain, NextItem, Seal, Report, Kill,
                        GiveUp, OpenSession, RowsTyped, Row
    <3>2. row' = [row EXCEPT ![a.id].status = IF a.ok THEN "sent" ELSE "failed"]
      BY <3>1 DEF HandleAck
    <3>3. q = a.id /\ a.ok
      BY <1>0, <2>1, <3>2 DEF RowsTyped, Row
    <3>4. QED
      BY <3>3 DEF Earned
  <2>2. QED
    BY <1>0, <2>1 DEF Earned, SentWasSealed
<1>4. QED
  BY <1>1, <1>2, <1>3 DEF Earned

\* "Sent" is not said of a reply that no phone has sealed.
THEOREM SentWasSealedAlways == Spec => []SentWasSealed
<1>1. Init => Earned
  BY DEF Init, Earned, Off, SentWasSealed
<1>2. Earned => SentWasSealed
  BY DEF Earned
<1>3. QED
  BY <1>1, <1>2, EarnedNext, WorkKept, PTL DEF Spec

-----------------------------------------------------------------------------
(* The screen. *)

\* What the reaper takes, the dashboard no longer lists.
Aged == \A q \in Replies : row[q].done \/ row[q].status = "reaped" => row[q].old

LEMMA AgedNext == RowsTyped /\ Aged /\ [Next]_vars => Aged'
<1> SUFFICES ASSUME RowsTyped, Aged, [Next]_vars
             PROVE  Aged'
  OBVIOUS
<1>1. CASE row' = row
  BY <1>1 DEF Aged
<1>2. ASSUME NEW q \in Replies, Enqueue(q) \/ Day(q)
      PROVE  Aged'
  BY <1>2 DEF Enqueue, Day, RowsTyped, Row, Aged
<1>3. ASSUME NEW a \in acks, HandleAck(a)
      PROVE  Aged'
  BY <1>3 DEF HandleAck, RowsTyped, Row, Aged
<1>4. CASE Reap
  BY <1>4 DEF Reap, Reapable, RowsTyped, Row, Aged
<1>5. QED
  BY <1>1, <1>2, <1>3, <1>4
     DEF Next, vars, Step, Launch, Drain, NextItem, Seal, Report, Kill, GiveUp, OpenSession

\* A reply that is younger than 24 hours, or still pending, is on the screen unless
\* Page older ones are: what the reaper deletes is nothing the dashboard lists.
THEOREM AlwaysOnScreen == Spec => []OnScreen
<1>1. Init => Aged
  BY DEF Init, Aged
<1>2. Work => RowsTyped
  BY WorkTypes
<1>3. RowsTyped /\ Aged => OnScreen
  <2> SUFFICES ASSUME RowsTyped, Aged, NEW q \in Replies,
                      row[q].status = "pending" \/ (row[q].status # "none" /\ ~ row[q].old)
               PROVE  q \in Of(UserOf[q])
    BY DEF OnScreen, Listed, Oldest
  <2>1. QED
    BY DEF RowsTyped, Row, Aged, Of, Recent
<1>4. QED
  BY <1>1, <1>2, <1>3, AgedNext, WorkKept, PTL DEF Spec

-----------------------------------------------------------------------------
(* How many copies are made of a reply.                                    *)
(*                                                                         *)
(* As long as a reply waits, every phone may make one more copy without a  *)
(* fault, but those that are reporting it; once it has its verdict, only   *)
(* those that have it in their batch.  What has been copied and what still *)
(* may be, is within the bound; the verdict "failed" that is on its way    *)
(* takes the place of the copy which the phone did not make.               *)

Open(q) == row[q].status \in {"none", "pending"}
Reporting(q, pc, cur) == cur = q /\ pc \in {"report", "wait"}
Can(open, q, pc, todo, cur) ==
  \/ open /\ ~ Reporting(q, pc, cur)
  \/ ~ open /\ (q \in todo \/ (cur = q /\ pc = "seal"))
Able(q) == {p \in Phones : Can(Open(q), q, phone[p].pc, phone[p].todo, phone[p].cur)}

\* A failure of the reply has been found, and not been stored.
Owed(q) == \/ \E a \in acks : a.id = q /\ ~ a.ok
           \/ \E p \in Phones : Reporting(q, phone[p].pc, phone[p].cur) /\ ~ phone[p].ok
InDebt(q) == row[q].status = "failed" \/ (Open(q) /\ Owed(q))

Balance(q) ==
  copies[q] + (IF InDebt(q) THEN 1 ELSE 0) + Cardinality(Able(q)) <= Cardinality(Phones) + faults
Balanced == \A q \in Replies : Balance(q)

\* The four kinds of step: one that costs nothing, one paid for by a fault, a copy,
\* and a copy that will not be made.
Quiet(q) == Able(q)' \subseteq Able(q) /\ copies'[q] = copies[q] /\ (InDebt(q)' => InDebt(q)) /\ faults' >= faults
Charged(q) == \E p \in Phones :
  Able(q)' \subseteq Able(q) \cup {p} /\ copies'[q] = copies[q] /\ (InDebt(q)' => InDebt(q)) /\ faults' = faults + 1
Copied(q) == \E p \in Able(q) :
  Able(q)' \subseteq Able(q) \ {p} /\ copies'[q] = copies[q] + 1 /\ (InDebt(q)' => InDebt(q)) /\ faults' >= faults
Refused(q) == \E p \in Able(q) :
  Able(q)' \subseteq Able(q) \ {p} /\ copies'[q] = copies[q] /\ faults' = faults

\* One element more or less.
LEMMA OneMore ==
  ASSUME NEW A, IsFiniteSet(A), NEW B, NEW x
  PROVE  /\ B \subseteq A => IsFiniteSet(B) /\ Cardinality(B) <= Cardinality(A)
         /\ B \subseteq A \cup {x} => Cardinality(B) <= Cardinality(A) + 1
         /\ x \in A /\ B \subseteq A \ {x} => Cardinality(B) + 1 <= Cardinality(A)
<1>0. Cardinality(A) \in Nat
  BY FS_CardinalityType
<1>1. B \subseteq A => IsFiniteSet(B) /\ Cardinality(B) <= Cardinality(A)
  BY FS_Subset
<1>2. ASSUME B \subseteq A \cup {x}
      PROVE  Cardinality(B) <= Cardinality(A) + 1
  <2>1. IsFiniteSet(A \cup {x}) /\ Cardinality(A \cup {x}) \in {Cardinality(A), Cardinality(A) + 1}
    BY FS_AddElement
  <2>2. Cardinality(B) <= Cardinality(A \cup {x}) /\ Cardinality(B) \in Nat
    BY <1>2, <2>1, FS_Subset, FS_CardinalityType
  <2>3. QED
    BY <1>0, <2>1, <2>2
<1>3. ASSUME x \in A, B \subseteq A \ {x}
      PROVE  Cardinality(B) + 1 <= Cardinality(A)
  <2>1. IsFiniteSet(A \ {x}) /\ Cardinality(A \ {x}) = Cardinality(A) - 1
    BY <1>3, FS_RemoveElement
  <2>2. Cardinality(B) <= Cardinality(A \ {x}) /\ Cardinality(B) \in Nat
    BY <1>3, <2>1, FS_Subset, FS_CardinalityType
  <2>3. QED
    BY <1>0, <2>1, <2>2
<1>4. QED
  BY <1>1, <1>2, <1>3

LEMMA BalanceKept ==
  ASSUME NEW q \in Replies, copies[q] \in Nat, faults \in Nat, faults' \in Nat, Balance(q),
         Quiet(q) \/ Charged(q) \/ Copied(q) \/ Refused(q)
  PROVE  Balance(q)'
<1> DEFINE A == Able(q)
           B == Able(q)'
           d == IF InDebt(q) THEN 1 ELSE 0
           e == IF InDebt(q)' THEN 1 ELSE 0
           N == Cardinality(Phones)
<1>1. IsFiniteSet(Phones) /\ A \subseteq Phones /\ B \subseteq Phones
  BY AdminSyncAssumption DEF Able
<1>2. IsFiniteSet(A) /\ IsFiniteSet(B)
  BY <1>1, FS_Subset
<1>3. Cardinality(A) \in Nat /\ Cardinality(B) \in Nat /\ N \in Nat
  BY <1>1, <1>2, FS_CardinalityType
<1>4. d \in {0, 1} /\ e \in {0, 1} /\ copies[q] + d + Cardinality(A) <= N + faults
  BY DEF Balance
<1>5. CASE Quiet(q)
  <2>1. Cardinality(B) <= Cardinality(A) /\ copies'[q] = copies[q] /\ e <= d /\ faults' >= faults
    BY <1>2, <1>5, OneMore DEF Quiet
  <2> HIDE DEF A, B, d, e, N
  <2>2. copies'[q] + e + Cardinality(B) <= N + faults'
    BY <1>3, <1>4, <2>1
  <2>3. QED
    BY <2>2 DEF Balance, B, e, N
<1>6. CASE Charged(q)
  <2>1. Cardinality(B) <= Cardinality(A) + 1 /\ copies'[q] = copies[q] /\ e <= d /\ faults' = faults + 1
    BY <1>2, <1>6, OneMore DEF Charged
  <2> HIDE DEF A, B, d, e, N
  <2>2. copies'[q] + e + Cardinality(B) <= N + faults'
    BY <1>3, <1>4, <2>1
  <2>3. QED
    BY <2>2 DEF Balance, B, e, N
<1>7. CASE Copied(q)
  <2>1. Cardinality(B) + 1 <= Cardinality(A) /\ copies'[q] = copies[q] + 1 /\ e <= d /\ faults' >= faults
    BY <1>2, <1>7, OneMore DEF Copied
  <2> HIDE DEF A, B, d, e, N
  <2>2. copies'[q] + e + Cardinality(B) <= N + faults'
    BY <1>3, <1>4, <2>1
  <2>3. QED
    BY <2>2 DEF Balance, B, e, N
<1>8. CASE Refused(q)
  <2>1. Cardinality(B) + 1 <= Cardinality(A) /\ copies'[q] = copies[q] /\ faults' = faults
    BY <1>2, <1>8, OneMore DEF Refused
  <2> HIDE DEF A, B, d, e, N
  <2>2. copies'[q] + e + Cardinality(B) <= N + faults'
    BY <1>3, <1>4, <2>1
  <2>3. QED
    BY <2>2 DEF Balance, B, e, N
<1>9. QED
  BY <1>5, <1>6, <1>7, <1>8

\* What the move of one phone makes of those that can copy a reply.
LEMMA AbleMoves ==
  ASSUME NEW q \in Replies, Open(q)' = Open(q), NEW p \in Phones,
         NEW pc, NEW todo, NEW cur, NEW ok, Now(p, pc, todo, cur, ok)
  PROVE  /\ Able(q)' \subseteq Able(q) \cup {p}
         /\ Can(Open(q), q, pc, todo, cur) => p \in Able(q)'
         /\ ~ Can(Open(q), q, pc, todo, cur) => Able(q)' \subseteq Able(q) \ {p}
<1>1. \A v \in Phones \ {p} : v \in Able(q)' <=> v \in Able(q)
  BY DEF Now, Able
<1>2. p \in Able(q)' <=> Can(Open(q), q, pc, todo, cur)
  BY DEF Now, Able
<1>3. Able(q)' \subseteq Phones
  BY DEF Able
<1>4. QED
  BY <1>1, <1>2, <1>3

\* What it makes of the failures that have been found.
LEMMA DebtMoves ==
  ASSUME NEW q \in Replies, UNCHANGED row, acks' \subseteq acks, NEW p \in Phones,
         NEW pc, NEW todo, NEW cur, NEW ok, Now(p, pc, todo, cur, ok),
         Reporting(q, pc, cur) /\ ~ ok => Reporting(q, phone[p].pc, phone[p].cur) /\ ~ phone[p].ok
  PROVE  InDebt(q)' => InDebt(q)
<1>1. \A v \in Phones : Reporting(q, phone'[v].pc, phone'[v].cur) /\ ~ phone'[v].ok
                       => Reporting(q, phone[v].pc, phone[v].cur) /\ ~ phone[v].ok
  BY DEF Now
<1> HIDE DEF Reporting
<1>2. QED
  BY <1>1 DEF InDebt, Owed, Open

\* A step that leaves the phones and the acknowledgements as they are.
LEMMA StillQuiet ==
  ASSUME NEW q \in Replies, UNCHANGED <<phone, acks, copies, faults>>, faults \in Nat,
         Open(q)' = Open(q), row'[q].status = "failed" => row[q].status = "failed"
  PROVE  Quiet(q)
<1>1. Able(q)' = Able(q) /\ Owed(q)' = Owed(q)
  BY DEF Able, Owed
<1>2. QED
  BY <1>1 DEF Quiet, InDebt

\* A phone that stops, or goes on, after a fault.
LEMMA FaultCharged ==
  ASSUME Work, NEW q \in Replies, UNCHANGED <<row, copies>>, acks' \subseteq acks, Fault, NEW p \in Phones,
         \/ phone' = phone \/ phone' = Drained(p) \/ phone' = [phone EXCEPT ![p] = Off] \/ phone' = GoesOn(p)
  PROVE  Charged(q)
<1>1. Open(q)' = Open(q) /\ faults' = faults + 1
  BY DEF Open, Fault
<1>2. CASE phone' = phone
  <2>1. Able(q)' = Able(q) /\ (InDebt(q)' => InDebt(q))
    BY <1>1, <1>2 DEF Able, InDebt, Owed
  <2>2. QED
    BY <1>1, <2>1 DEF Charged
<1>3. ASSUME NEW pc, NEW todo, Now(p, pc, todo, NoReply, FALSE)
      PROVE  Charged(q)
  <2>1. ~ Reporting(q, pc, NoReply)
    BY AdminSyncAssumption DEF Reporting
  <2>2. (InDebt(q)' => InDebt(q)) /\ Able(q)' \subseteq Able(q) \cup {p}
    BY <1>1, <1>3, <2>1, DebtMoves, AbleMoves
  <2>3. QED
    BY <1>1, <2>2 DEF Charged
<1>4. QED
  BY <1>2, <1>3, WorkTypes, Moves

\* The phone at work: what it copies or refuses is paid for from what it could do.
LEMMA PhoneBalance ==
  ASSUME Work, NEW q \in Replies, NEW p \in Phones, Step(p)
  PROVE  Quiet(q) \/ Charged(q) \/ Copied(q) \/ Refused(q)
<1>0. /\ phone \in [Phones -> Phone] /\ NoReply \notin Replies /\ faults \in Nat /\ copies \in [Replies -> Nat]
      /\ row' = row /\ Open(q)' = Open(q)
      /\ Fits(phone[p].pc, phone[p].todo, phone[p].cur, phone[p].ok)
  BY WorkTypes
     DEF Work, TypeOK, PhonesKnow, Step, Launch, Drain, NextItem, Seal, Report, Open
<1>1. p \in Able(q) <=> Can(Open(q), q, phone[p].pc, phone[p].todo, phone[p].cur)
  BY DEF Able
<1>q. ASSUME NEW pc, NEW todo, NEW cur, NEW ok, Now(p, pc, todo, cur, ok),
             Reporting(q, pc, cur) /\ ~ ok => Reporting(q, phone[p].pc, phone[p].cur) /\ ~ phone[p].ok,
             Can(Open(q), q, pc, todo, cur) => Can(Open(q), q, phone[p].pc, phone[p].todo, phone[p].cur),
             acks' = acks, copies'[q] = copies[q], faults' >= faults
      PROVE  Quiet(q)
  <2>1. InDebt(q)' => InDebt(q)
    BY <1>0, <1>q, DebtMoves
  <2>2. Able(q)' \subseteq Able(q)
    BY <1>0, <1>1, <1>q, AbleMoves
  <2>3. QED
    BY <1>q, <2>1, <2>2 DEF Quiet
<1>2. CASE Launch(p)
  <2>1. Now(p, "idle", phone[p].todo, phone[p].cur, phone[p].ok) /\ phone[p].pc = "off"
        /\ acks' = acks /\ copies' = copies /\ faults' = faults
    BY <1>0, <1>2, Moves DEF Launch
  <2>2. ~ Reporting(q, "idle", phone[p].cur)
        /\ (Can(Open(q), q, "idle", phone[p].todo, phone[p].cur)
              => Can(Open(q), q, phone[p].pc, phone[p].todo, phone[p].cur))
    BY <1>0, <2>1 DEF Can, Reporting, Fits
  <2>3. QED
    BY <1>0, <1>q, <2>1, <2>2
<1>3. CASE Drain(p)
  <2>1. CASE Fault /\ phone' = Drained(p)
    BY <1>3, <2>1, FaultCharged DEF Drain
  <2>2. CASE /\ phone' = [phone EXCEPT ![p].pc = "next", ![p].busy = TRUE, ![p].todo = Pending]
             /\ UNCHANGED faults
    <3>1. Now(p, "next", Pending, phone[p].cur, phone[p].ok) /\ phone[p].pc = "idle"
          /\ acks' = acks /\ copies' = copies /\ faults' = faults
      BY <1>0, <1>3, <2>2, Moves DEF Drain
    <3>2. ~ Reporting(q, "next", phone[p].cur)
          /\ (Can(Open(q), q, "next", Pending, phone[p].cur)
                => Can(Open(q), q, phone[p].pc, phone[p].todo, phone[p].cur))
      BY <1>0, <3>1, PollKnown DEF Can, Reporting, Fits, Open
    <3>3. QED
      BY <1>0, <1>q, <3>1, <3>2
  <2>3. QED
    BY <1>3, <2>1, <2>2 DEF Drain
<1>4. CASE NextItem(p)
  <2>0. phone[p].pc = "next" /\ phone[p].cur = NoReply /\ ~ phone[p].ok
        /\ acks' = acks /\ copies' = copies /\ faults' = faults
    BY <1>0, <1>4 DEF NextItem, Fits
  <2>1. CASE phone[p].todo = {} /\ phone' = Drained(p)
    <3>1. Now(p, "idle", {}, NoReply, FALSE)
      BY <1>0, <2>1, Moves
    <3>2. ~ Reporting(q, "idle", NoReply)
          /\ (Can(Open(q), q, "idle", {}, NoReply) => Can(Open(q), q, phone[p].pc, phone[p].todo, phone[p].cur))
      BY <1>0, <2>0, <2>1 DEF Can, Reporting
    <3>3. InDebt(q)' => InDebt(q)
      BY <1>0, <2>0, <3>1, <3>2, DebtMoves
    <3>4. Able(q)' \subseteq Able(q)
      BY <1>0, <1>1, <3>1, <3>2, AbleMoves
    <3>5. QED
      BY <1>0, <2>0, <3>3, <3>4 DEF Quiet
  <2>2. ASSUME NEW k \in phone[p].todo, phone' = Taken(p, k)
        PROVE  Quiet(q) \/ Refused(q)
    <3> DEFINE pc == IF UserOf[k] \in session[p] THEN "seal" ELSE "report"
    <3>0. k \in Replies
      BY <1>0 DEF Phone
    <3>1. Now(p, pc, phone[p].todo \ {k}, k, phone[p].ok) /\ pc \in {"seal", "report"}
      BY <1>0, <2>2, <3>0, Moves
    <3> HIDE DEF pc
    <3>2. CASE q # k \/ pc = "seal"
      <4>1. ~ Reporting(q, pc, k)
            /\ (Can(Open(q), q, pc, phone[p].todo \ {k}, k)
                  => Can(Open(q), q, phone[p].pc, phone[p].todo, phone[p].cur))
        BY <1>0, <2>0, <3>0, <3>2 DEF Can, Reporting
      <4>2. QED
        BY <1>0, <1>q, <2>0, <3>1, <4>1
    <3>3. CASE q = k /\ pc = "report"
      <4>1. /\ ~ Can(Open(q), q, pc, phone[p].todo \ {k}, k)
            /\ Can(Open(q), q, phone[p].pc, phone[p].todo, phone[p].cur)
        BY <1>0, <2>0, <3>0, <3>3 DEF Can, Reporting
      <4>2. Able(q)' \subseteq Able(q) \ {p} /\ p \in Able(q)
        BY <1>0, <1>1, <3>1, <4>1, AbleMoves
      <4>3. QED
        BY <2>0, <4>2 DEF Refused
    <3>4. QED
      BY <3>1, <3>2, <3>3
  <2>3. QED
    BY <1>4, <2>1, <2>2 DEF NextItem
<1>5. CASE Seal(p)
  <2>1. CASE Fault /\ phone' = Drained(p) /\ UNCHANGED copies
    BY <1>5, <2>1, FaultCharged DEF Seal
  <2>2. CASE /\ copies' = [copies EXCEPT ![phone[p].cur] = @ + 1]
             /\ phone' = [phone EXCEPT ![p].pc = "report", ![p].ok = TRUE]
             /\ UNCHANGED faults \/ Fault
    <3>0. Now(p, "report", phone[p].todo, phone[p].cur, TRUE)
      BY <1>0, <2>2, Moves
    <3>1. PICK ok \in BOOLEAN : ok /\ Now(p, "report", phone[p].todo, phone[p].cur, ok)
      BY <3>0
    <3>2. phone[p].cur \in Replies /\ phone[p].cur \notin phone[p].todo
      BY <1>0, <1>5 DEF Seal, Fits, Phone
    <3>3. faults' >= faults
      BY <1>0, <2>2 DEF Fault
    <3>4. phone[p].pc = "seal" /\ acks' = acks
      BY <1>5 DEF Seal
    <3>5. CASE q # phone[p].cur
      <4>1. copies'[q] = copies[q]
        BY <1>0, <2>2, <3>5
      <4>2. ~ Reporting(q, "report", phone[p].cur)
            /\ (Can(Open(q), q, "report", phone[p].todo, phone[p].cur)
                  => Can(Open(q), q, phone[p].pc, phone[p].todo, phone[p].cur))
        BY <3>4, <3>5 DEF Can, Reporting
      <4>3. QED
        BY <1>q, <3>1, <3>3, <3>4, <4>1, <4>2
    <3>6. CASE q = phone[p].cur
      <4>1. copies'[q] = copies[q] + 1
        BY <1>0, <2>2, <3>6
      <4>2. /\ ~ Can(Open(q), q, "report", phone[p].todo, phone[p].cur)
            /\ Can(Open(q), q, phone[p].pc, phone[p].todo, phone[p].cur)
        BY <3>2, <3>4, <3>6 DEF Can, Reporting
      <4>3. p \in Able(q)
        BY <1>1, <4>2
      <4>4. Able(q)' \subseteq Able(q) \ {p}
        <5>1. Open(q)' = Open(q) /\ Now(p, "report", phone[p].todo, phone[p].cur, ok)
          BY <1>0, <3>1
        <5>2. ~ Can(Open(q), q, "report", phone[p].todo, phone[p].cur)
          BY <4>2
        <5>3. QED
          BY <5>1, <5>2, AbleMoves
      <4>5. InDebt(q)' => InDebt(q)
        BY <1>0, <3>1, <3>4, DebtMoves
      <4>6. QED
        BY <3>3, <4>1, <4>3, <4>4, <4>5 DEF Copied
    <3>7. QED
      BY <3>5, <3>6
  <2>3. CASE phone' = [phone EXCEPT ![p].pc = "report"] /\ UNCHANGED <<copies, faults>>
    <3>1. Now(p, "report", phone[p].todo, phone[p].cur, phone[p].ok)
      BY <1>0, <2>3, Moves
    <3>2. phone[p].pc = "seal" /\ phone[p].cur \notin phone[p].todo /\ acks' = acks
          /\ copies' = copies /\ faults' = faults
      BY <1>0, <1>5, <2>3 DEF Seal, Fits
    <3>3. CASE q # phone[p].cur
      <4>1. ~ Reporting(q, "report", phone[p].cur)
            /\ (Can(Open(q), q, "report", phone[p].todo, phone[p].cur)
                  => Can(Open(q), q, phone[p].pc, phone[p].todo, phone[p].cur))
        BY <3>2, <3>3 DEF Can, Reporting
      <4>2. QED
        BY <1>0, <1>q, <3>1, <3>2, <4>1
    <3>4. CASE q = phone[p].cur
      <4>1. /\ ~ Can(Open(q), q, "report", phone[p].todo, phone[p].cur)
            /\ Can(Open(q), q, phone[p].pc, phone[p].todo, phone[p].cur)
        BY <3>2, <3>4 DEF Can, Reporting
      <4>2. Able(q)' \subseteq Able(q) \ {p} /\ p \in Able(q)
        BY <1>0, <1>1, <3>1, <4>1, AbleMoves
      <4>3. QED
        BY <3>2, <4>2 DEF Refused
    <3>5. QED
      BY <3>3, <3>4
  <2>4. QED
    BY <1>5, <2>1, <2>2, <2>3 DEF Seal
<1>6. CASE Report(p)
  <2>1. Now(p, "wait", phone[p].todo, phone[p].cur, phone[p].ok) /\ phone[p].pc = "report"
        /\ copies' = copies /\ faults' = faults
        /\ acks' = acks \cup {[phone |-> p, id |-> phone[p].cur, ok |-> phone[p].ok]}
    BY <1>0, <1>6, Moves DEF Report
  <2>2. Can(Open(q), q, "wait", phone[p].todo, phone[p].cur)
          => Can(Open(q), q, phone[p].pc, phone[p].todo, phone[p].cur)
    BY <2>1 DEF Can, Reporting
  <2>3. Able(q)' \subseteq Able(q)
    BY <1>0, <1>1, <2>1, <2>2, AbleMoves
  <2>4. Owed(q)' => Owed(q)
    <3>1. ASSUME NEW v \in Phones, Reporting(q, phone'[v].pc, phone'[v].cur), ~ phone'[v].ok
          PROVE  Reporting(q, phone[v].pc, phone[v].cur) /\ ~ phone[v].ok
      BY <2>1, <3>1 DEF Now, Reporting
    <3>2. ASSUME NEW a \in acks', a.id = q, ~ a.ok
          PROVE  a \in acks \/ (Reporting(q, phone[p].pc, phone[p].cur) /\ ~ phone[p].ok)
      BY <2>1, <3>2 DEF Reporting
    <3> HIDE DEF Reporting
    <3>3. QED
      BY <3>1, <3>2 DEF Owed
  <2>5. QED
    BY <1>0, <2>1, <2>3, <2>4 DEF Quiet, InDebt
<1>7. QED
  BY <1>2, <1>3, <1>4, <1>5, <1>6 DEF Step

\* A verdict that is stored was on its way, and the phone that waited goes on.
LEMMA AckBalance ==
  ASSUME Work, NEW q \in Replies, NEW a \in acks, HandleAck(a)
  PROVE  Quiet(q) \/ Charged(q)
<1>0. /\ phone \in [Phones -> Phone] /\ RowsTyped /\ NoReply \notin Replies /\ faults \in Nat
      /\ acks' \subseteq acks /\ copies' = copies
      /\ a.phone \in Phones /\ a.id \in Replies /\ Queued(a.id) /\ a.ok \in BOOLEAN
      /\ \A v \in Phones : Fits(phone[v].pc, phone[v].todo, phone[v].cur, phone[v].ok)
  BY WorkTypes DEF Work, TypeOK, PhonesKnow, AcksKnow, Ack, HandleAck
<1>1. CASE Fault /\ row' = row
  BY <1>0, <1>1, FaultCharged DEF HandleAck
<1>2. CASE /\ faults' = faults
           /\ row' = IF Stamps(a.id)
                     THEN [row EXCEPT ![a.id].status = IF a.ok THEN "sent" ELSE "failed"] ELSE row
  <2>1. ASSUME NEW v \in Phones
        PROVE  \/ phone'[v] = phone[v]
               \/ /\ phone[v].pc = "wait" /\ phone[v].cur = a.id
                  /\ phone'[v].pc = "next" /\ phone'[v].cur = NoReply /\ phone'[v].todo = phone[v].todo
    <3>1. CASE phone' = phone
      BY <3>1
    <3>2. CASE phone' = GoesOn(a.phone) /\ WaitsFor(a)
      <4>1. Now(a.phone, "next", phone[a.phone].todo, NoReply, FALSE)
        BY <1>0, <3>2, Moves
      <4>2. QED
        BY <3>2, <4>1 DEF Now, WaitsFor
    <3>3. QED
      BY <3>1, <3>2 DEF HandleAck
  <2>2. \A v \in Phones : Reporting(q, phone'[v].pc, phone'[v].cur) /\ ~ phone'[v].ok
                         => Reporting(q, phone[v].pc, phone[v].cur) /\ ~ phone[v].ok
    BY <1>0, <2>1 DEF Reporting
  <2>3. Owed(q)' => Owed(q)
    <3> HIDE DEF Reporting
    <3>1. QED
      BY <1>0, <2>2 DEF Owed
  <2>4. CASE Stamps(a.id) /\ q = a.id
    <3>1. row'[q].status = (IF a.ok THEN "sent" ELSE "failed") /\ row[q].status = "pending"
      BY <1>0, <1>2, <2>4 DEF RowsTyped, Row, Stamps
    <3>2. Open(q) /\ ~ Open(q)' /\ (row'[q].status = "failed" => ~ a.ok)
      BY <3>1 DEF Open
    <3>3. InDebt(q)' => InDebt(q)
      BY <2>4, <3>2 DEF InDebt, Owed
    <3>4. ASSUME NEW v \in Phones, Can(FALSE, q, phone'[v].pc, phone'[v].todo, phone'[v].cur)
          PROVE  Can(TRUE, q, phone[v].pc, phone[v].todo, phone[v].cur)
      BY <1>0, <2>1, <3>4 DEF Can, Reporting, Fits
    <3>5. Able(q)' \subseteq Able(q)
      BY <3>2, <3>4 DEF Able, Can
    <3>6. QED
      BY <1>0, <1>2, <3>3, <3>5 DEF Quiet
  <2>5. CASE ~ (Stamps(a.id) /\ q = a.id)
    <3>1. row'[q] = row[q]
      BY <1>0, <1>2, <2>5 DEF RowsTyped
    <3>2. Open(q)' = Open(q) /\ (InDebt(q)' => InDebt(q)) /\ (q = a.id => ~ Open(q))
      BY <1>0, <2>3, <2>5, <3>1 DEF InDebt, Open, Stamps, Queued
    <3>3. ASSUME NEW v \in Phones, Can(Open(q), q, phone'[v].pc, phone'[v].todo, phone'[v].cur)
          PROVE  Can(Open(q), q, phone[v].pc, phone[v].todo, phone[v].cur)
      BY <1>0, <2>1, <3>2, <3>3 DEF Can, Reporting
    <3>4. Able(q)' \subseteq Able(q)
      BY <3>2, <3>3 DEF Able
    <3>5. QED
      BY <1>0, <1>2, <3>2, <3>4 DEF Quiet
  <2>6. QED
    BY <2>4, <2>5
<1>3. QED
  BY <1>1, <1>2 DEF HandleAck

LEMMA BalancedNext == Work /\ Balanced /\ [Next]_vars => Balanced'
<1> SUFFICES ASSUME Work, Balanced, [Next]_vars, NEW q \in Replies
             PROVE  Balance(q)'
  BY DEF Balanced
<1>0. copies[q] \in Nat /\ faults \in Nat /\ faults' \in Nat /\ RowsTyped
  BY RestNext, WorkTypes DEF Work, TypeOK
<1>1. CASE UNCHANGED vars \/ (\E p \in Phones, u \in Users : OpenSession(p, u))
  <2>1. UNCHANGED <<row, phone, acks, copies, faults>>
    BY <1>1 DEF vars, OpenSession
  <2>2. QED
    BY <1>0, <2>1, StillQuiet, BalanceKept DEF Open, Balanced
<1>2. CASE Reap \/ \E k \in Replies : Enqueue(k) \/ Day(k)
  <2>1. UNCHANGED <<phone, acks, copies, faults>>
    BY <1>2 DEF Reap, Enqueue, Day, phoneVars
  <2>2. Open(q)' = Open(q) /\ (row'[q].status = "failed" => row[q].status = "failed")
    BY <1>0, <1>2 DEF Reap, Reapable, Enqueue, Day, RowsTyped, Row, Open
  <2>3. QED
    BY <1>0, <2>1, <2>2, StillQuiet, BalanceKept DEF Balanced
<1>3. ASSUME NEW p \in Phones, Step(p)
      PROVE  Balance(q)'
  BY <1>0, <1>3, PhoneBalance, BalanceKept DEF Balanced
<1>4. ASSUME NEW p \in Phones, Kill(p) \/ GiveUp(p)
      PROVE  Balance(q)'
  <2>1. /\ UNCHANGED <<row, copies>> /\ acks' \subseteq acks /\ Fault
        /\ phone' = [phone EXCEPT ![p] = Off] \/ phone' = GoesOn(p)
    BY <1>4 DEF Kill, GiveUp
  <2>2. Charged(q)
    BY <2>1, FaultCharged
  <2>3. QED
    BY <1>0, <2>2, BalanceKept DEF Balanced
<1>5. ASSUME NEW a \in acks, HandleAck(a)
      PROVE  Balance(q)'
  BY <1>0, <1>5, AckBalance, BalanceKept DEF Balanced
<1>6. QED
  BY <1>1, <1>2, <1>3, <1>4, <1>5 DEF Next

\* Polling without leases costs at most one copy of a reply for each phone and each
\* fault, and one that is reported as failed owes each copy to another phone or to
\* a fault, in whatever order polls, reports and verdicts come.
THEOREM CopiesAreAccounted == Spec => []CopiesAccounted
<1>1. Init => Balanced
  <2> SUFFICES ASSUME Init, NEW q \in Replies
               PROVE  Balance(q)
    BY DEF Balanced
  <2>1. copies[q] = 0 /\ faults = 0 /\ ~ InDebt(q)
    BY AdminSyncAssumption DEF Init, InDebt, Owed, Reporting, Off
  <2>2. IsFiniteSet(Phones) /\ Able(q) \subseteq Phones
    BY AdminSyncAssumption DEF Able
  <2>3. Cardinality(Able(q)) <= Cardinality(Phones) /\ Cardinality(Able(q)) \in Nat /\ Cardinality(Phones) \in Nat
    BY <2>2, FS_Subset, FS_CardinalityType
  <2>4. QED
    BY <2>1, <2>3 DEF Balance
<1>2. Work /\ Balanced => CopiesAccounted
  <2> SUFFICES ASSUME Work, Balanced, NEW q \in Replies
               PROVE  copies[q] + (IF row[q].status = "failed" THEN 1 ELSE 0) <= Cardinality(Phones) + faults
    BY DEF CopiesAccounted
  <2> DEFINE d == IF InDebt(q) THEN 1 ELSE 0
             e == IF row[q].status = "failed" THEN 1 ELSE 0
  <2>1. e <= d /\ e \in Nat /\ d \in Nat
    BY DEF InDebt
  <2>2. IsFiniteSet(Phones) /\ Able(q) \subseteq Phones
    BY AdminSyncAssumption DEF Able
  <2>3. Cardinality(Able(q)) \in Nat /\ Cardinality(Phones) \in Nat
    BY <2>2, FS_Subset, FS_CardinalityType
  <2>4. copies[q] \in Nat /\ faults \in Nat
    BY DEF Work, TypeOK
  <2>5. copies[q] + d + Cardinality(Able(q)) <= Cardinality(Phones) + faults
    BY DEF Balanced, Balance
  <2> HIDE DEF d, e
  <2>6. copies[q] + e <= Cardinality(Phones) + faults
    BY <2>1, <2>3, <2>4, <2>5
  <2>7. QED
    BY <2>6 DEF e
<1>3. QED
  BY <1>1, <1>2, BalancedNext, WorkKept, PTL DEF Spec

=============================================================================
