------------------------------ MODULE AdminSync ------------------------------
(***************************************************************************)
(* The outbound queue (internal/api/admin_sync.go): replies that an admin  *)
(* types in the dashboard wait in admin_outbound_queue until a companion   *)
(* phone polls for them, seals them, hands them to its socket and reports  *)
(* back; the retention worker reaps the tail; the dashboard lists the rest *)
(* (adminGetConversation).                                                 *)
(***************************************************************************)
EXTENDS Naturals, FiniteSets

CONSTANTS
  Replies,   \* rows that may be enqueued
  Users,     \* users with an account, each with a conversation
  Admin,     \* the owner of the phones
  UserOf,    \* the user a reply is for
  Phones,    \* companion phones of the admin
  Page,      \* rows a poll or the dashboard takes at most (50)
  MaxFaults, \* bound: requests that fail and phones that die
  NoReply

ASSUME AdminSyncAssumption ==
  /\ UserOf \in [Replies -> Users] /\ Admin \notin Users /\ IsFiniteSet(Phones)
  /\ Page \in Nat \ {0} /\ MaxFaults \in Nat /\ NoReply \notin Replies

VARIABLES
  row,     \* admin_outbound_queue; old and done: created, sent more than 24 h ago
  older,   \* order of created_at: the replies enqueued before one
  phone,   \* the polling loop of a phone
  session, \* users a phone has a ratchet for
  copies,  \* history: how often a reply was sealed and handed to a socket
  stored,  \* replies with a row in messages
  acks,    \* POST /outbound/{id}/sent on their way
  faults
vars == <<row, older, phone, session, copies, stored, acks, faults>>
phoneVars == <<phone, session, copies>>

Row == [status : {"none", "pending", "sent", "failed", "reaped"}, old : BOOLEAN, done : BOOLEAN]
Phone == [pc : {"off", "idle", "next", "seal", "report", "wait"}, busy : BOOLEAN,
          todo : SUBSET Replies, cur : Replies \cup {NoReply}, ok : BOOLEAN]
Ack == [phone : Phones, id : Replies, ok : BOOLEAN]
Off == [pc |-> "off", busy |-> FALSE, todo |-> {}, cur |-> NoReply, ok |-> FALSE]

Init ==
  /\ row = [q \in Replies |-> [status |-> "none", old |-> FALSE, done |-> FALSE]]
  /\ older = [q \in Replies |-> {}]
  /\ phone = [p \in Phones |-> Off]
  /\ session \in [Phones -> SUBSET Users]
  /\ copies = [q \in Replies |-> 0]
  /\ stored = {} /\ acks = {} /\ faults = 0

Fault == faults < MaxFaults /\ faults' = faults + 1

\* ORDER BY created_at ASC LIMIT 50
Oldest(S) == {q \in S : Cardinality(older[q] \cap S) < Page}
-----------------------------------------------------------------------------
(* The server. *)

Enqueue(q) ==
  /\ row[q].status = "none"
  /\ row' = [row EXCEPT ![q].status = "pending"]
  /\ older' = [older EXCEPT ![q] = {k \in Replies : row[k].status # "none"}]
  /\ UNCHANGED <<phoneVars, stored, acks, faults>>

Unreaped(q) == row[q].status # "reaped"   \* mutant: without status = 'pending'
Waiting(q) == row[q].status = "pending"
Pending == Oldest({q \in Replies : Waiting(q)})

\* UPDATE ... WHERE id = $1 AND status = 'pending'
AlwaysStamps(q) == TRUE   \* mutant: without status = 'pending'
Stamps(q) == row[q].status = "pending"

\* The phone takes the answer for what it is: there is none it looks at.
WaitsFor(a) == phone[a.phone].pc = "wait" /\ phone[a.phone].cur = a.id /\ phone[a.phone].ok = a.ok
GoneOn(p) == [phone EXCEPT ![p].pc = "next"]   \* mutant: the item stays at hand
GoesOn(p) == [phone EXCEPT ![p].pc = "next", ![p].cur = NoReply, ![p].ok = FALSE]

\* An acknowledgement that comes late stamps the row all the same; one that
\* finds it stamped is answered with a noop.
HandleAck(a) ==
  /\ a \in acks
  /\ acks' = acks \ {a}
  /\ phone' = IF WaitsFor(a) THEN GoesOn(a.phone) ELSE phone
  /\ \/ /\ row' = IF Stamps(a.id)
                  THEN [row EXCEPT ![a.id].status = IF a.ok THEN "sent" ELSE "failed"] ELSE row
        /\ UNCHANGED faults
     \/ Fault /\ UNCHANGED row
  /\ UNCHANGED <<older, session, copies, stored>>

\* handleSend stores a message in the conversation of the connection's owner,
\* which it looks for among the users.  The owner of a phone is the admin.
Posted(owner, q) == IF owner \in Users THEN stored \cup {q} ELSE stored

\* created_at, then sent_at, are 24 hours ago.
Day(q) ==
  /\ row[q].status \in {"pending", "sent", "failed"}
  /\ \/ ~ row[q].old /\ row' = [row EXCEPT ![q].old = TRUE]
     \/ row[q].old /\ row[q].status = "sent" /\ ~ row[q].done /\ row' = [row EXCEPT ![q].done = TRUE]
  /\ UNCHANGED <<older, phoneVars, stored, acks, faults>>

\* COALESCE(sent_at, created_at) < NOW() - 24 hours
ReapableAtOnce(q) == row[q].status \in {"sent", "failed"}   \* mutant: whatever its age
Reapable(q) == (row[q].status = "sent" /\ row[q].done) \/ (row[q].status = "failed" /\ row[q].old)

Reap ==
  /\ \E q \in Replies : Reapable(q)
  /\ row' = [q \in Replies |-> IF Reapable(q) THEN [row[q] EXCEPT !.status = "reaped"] ELSE row[q]]
  /\ UNCHANGED <<older, phoneVars, stored, acks, faults>>
-----------------------------------------------------------------------------
(* A phone. *)

\* The app is in the foreground: a timer ticks every five seconds.
Launch(p) ==
  /\ phone[p].pc = "off"
  /\ phone' = [phone EXCEPT ![p].pc = "idle"]
  /\ UNCHANGED <<row, older, session, copies, stored, acks, faults>>

Kill(p) ==
  /\ phone[p].pc # "off" /\ Fault
  /\ phone' = [phone EXCEPT ![p] = Off]
  /\ UNCHANGED <<row, older, session, copies, stored, acks>>

\* A first message of the user is opened, which leaves a ratchet.
OpenSession(p, u) ==
  /\ phone[p].pc # "off" /\ u \notin session[p]
  /\ session' = [session EXCEPT ![p] = @ \cup {u}]
  /\ UNCHANGED <<row, older, phone, copies, stored, acks, faults>>

\* The finally of _drainOutbound.
StayBusy(p) == [phone EXCEPT ![p] = [Off EXCEPT !.pc = "idle", !.busy = TRUE]]   \* mutant: no finally
Drained(p) == [phone EXCEPT ![p] = [Off EXCEPT !.pc = "idle"]]

\* A tick while the loop is at work does nothing.
Drain(p) ==
  /\ phone[p].pc = "idle" /\ ~ phone[p].busy
  /\ \/ /\ phone' = [phone EXCEPT ![p].pc = "next", ![p].busy = TRUE, ![p].todo = Pending]
        /\ UNCHANGED faults
     \/ Fault /\ phone' = Drained(p)
  /\ UNCHANGED <<row, older, session, copies, stored, acks>>

\* The next item of the batch, as it was when the batch was read: to be sealed,
\* or to be reported as failed for want of a session.
SentByDefault(p, q) == [phone EXCEPT ![p].todo = @ \ {q}, ![p].cur = q, ![p].ok = TRUE,   \* mutant: sent by default
                               ![p].pc = IF UserOf[q] \in session[p] THEN "seal" ELSE "report"]
Taken(p, q) == [phone EXCEPT ![p].todo = @ \ {q}, ![p].cur = q,
                             ![p].pc = IF UserOf[q] \in session[p] THEN "seal" ELSE "report"]
NextItem(p) ==
  /\ phone[p].pc = "next"
  /\ \/ phone[p].todo = {} /\ phone' = Drained(p)
     \/ \E q \in phone[p].todo : older[q] \cap phone[p].todo = {} /\ phone' = Taken(p, q)
  /\ UNCHANGED <<row, older, session, copies, stored, acks, faults>>

\* sendReply.  A socket that is down drops the frame without a word; what the
\* server makes of one is counted here, as no step waits for it.  A phone that has
\* lost its device_id, being signed out, finds the session and fails all the same.
\* An exception ends the batch.
Seal(p) ==
  /\ phone[p].pc = "seal"
  /\ LET q == phone[p].cur IN
     \/ /\ copies' = [copies EXCEPT ![q] = @ + 1]
        /\ phone' = [phone EXCEPT ![p].pc = "report", ![p].ok = TRUE]
        /\ \/ stored' = Posted(Admin, q) /\ UNCHANGED faults
           \/ Fault /\ UNCHANGED stored
     \/ phone' = [phone EXCEPT ![p].pc = "report"] /\ UNCHANGED <<copies, stored, faults>>
     \/ Fault /\ phone' = Drained(p) /\ UNCHANGED <<copies, stored>>
  /\ UNCHANGED <<row, older, session, acks>>

\* _markOutboundSent, _markOutboundFailed.
Report(p) ==
  /\ phone[p].pc = "report"
  /\ acks' = acks \cup {[phone |-> p, id |-> phone[p].cur, ok |-> phone[p].ok]}
  /\ phone' = [phone EXCEPT ![p].pc = "wait"]
  /\ UNCHANGED <<row, older, session, copies, stored, faults>>

\* The request's timer fires; the server may handle the request yet.
GiveUp(p) ==
  /\ phone[p].pc = "wait" /\ Fault
  /\ phone' = GoesOn(p)
  /\ acks' \in {acks, acks \ {[phone |-> p, id |-> phone[p].cur, ok |-> phone[p].ok]}}
  /\ UNCHANGED <<row, older, session, copies, stored>>

Step(p) == Launch(p) \/ Drain(p) \/ NextItem(p) \/ Seal(p) \/ Report(p)

Next ==
  \/ \E q \in Replies : Enqueue(q) \/ Day(q)
  \/ \E a \in acks : HandleAck(a)
  \/ Reap
  \/ \E p \in Phones : Step(p) \/ Kill(p) \/ GiveUp(p) \/ \E u \in Users : OpenSession(p, u)

Spec == Init /\ [][Next]_vars

\* The operator opens the app; the loop, the timer and the server go on.
Fairness ==
  /\ \A p \in Phones : WF_vars(Step(p))
  /\ \A a \in Ack : WF_vars(HandleAck(a))
FairSpec == Spec /\ Fairness
-----------------------------------------------------------------------------
(* Properties. *)

\* Types; of two replies in the queue one is older, and a phone has a reply at
\* hand exactly between taking it up and the end of its report.
TypeOK ==
  /\ row \in [Replies -> Row] /\ phone \in [Phones -> Phone]
  /\ older \in [Replies -> SUBSET Replies]
  /\ \A q, k \in Replies :
       k \in older[q] <=> row[k].status # "none" /\ row[q].status # "none" /\ q # k /\ q \notin older[k]
  /\ session \in [Phones -> SUBSET Users] /\ copies \in [Replies -> Nat]
  /\ stored \subseteq Replies /\ acks \subseteq Ack
  /\ faults \in 0..MaxFaults
  /\ \A p \in Phones : phone[p].cur # NoReply <=> phone[p].pc \in {"seal", "report", "wait"}

\* A verdict is final: whatever acknowledgements overtake each other (a late
\* one of a request that the phone gave up, those of two phones), a reply is
\* sent or failed once, and only then reaped (adminSyncOutboundAck,
\* purgeAdminSync: "pending rows are NEVER expired").
Successor == [none |-> {"pending"}, pending |-> {"sent", "failed"}, sent |-> {"reaped"},
              failed |-> {"reaped"}, reaped |-> {}]
VerdictIsFinal ==
  [][\A q \in Replies : row'[q].status \in {row[q].status} \cup Successor[row[q].status]]_vars

\* Polling without leases (adminSyncOutboundPending) costs at most one copy
\* of a reply for each phone and each fault; and a reply that is reported as
\* failed owes each copy to another phone or to a fault.
CopiesAccounted ==
  \A q \in Replies :
    copies[q] + (IF row[q].status = "failed" THEN 1 ELSE 0) <= Cardinality(Phones) + faults

\* "Sent" is not said of a reply that no phone has sealed.
SentWasSealed == \A q \in Replies : row[q].status = "sent" => copies[q] > 0

\* What the dashboard lists of user u (the queue part of adminGetConversation).
Recent(q) == row[q].status = "pending" \/ (row[q].status \in {"sent", "failed"} /\ ~ row[q].old)
Of(u) == {q \in Replies : UserOf[q] = u /\ Recent(q)}
Listed(u) == Oldest(Of(u))

\* A reply that is younger than 24 hours, or still pending, is on the screen
\* with its verdict, unless Page older ones are: the reaper and the
\* dashboard's own filter agree.
OnScreen ==
  \A q \in Replies :
    /\ row[q].status = "pending" \/ (row[q].status # "none" /\ ~ row[q].old)
    /\ Cardinality(older[q] \cap Of(UserOf[q])) < Page
    => q \in Listed(UserOf[q])

\* Every reply gets its verdict, in spite of faults, of phones that die, and
\* of a page that holds fewer replies than wait.
EveryReplyDecided == \A q \in Replies : row[q].status = "pending" ~> row[q].status # "pending"

\* The documentation's reading of "sent": the reply has been posted
\* (admin_sync.go:272-273), so that it comes to be a row of messages.
SentIsStored == \A q \in Replies : row[q].status = "sent" ~> q \in stored
=============================================================================
