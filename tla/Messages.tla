------------------------------ MODULE Messages ------------------------------
(***************************************************************************)
(* Sending a message (internal/messages, internal/api/messages.go, ws.go,  *)
(* adminSendMessage), a statement at a time, while companion phones are    *)
(* registered and devices revoked, clients retry, recipients report        *)
(* receipts and the retention worker empties the table.                    *)
(*                                                                         *)
(* A message is known by its client_id, which its sender makes up.         *)
(***************************************************************************)
EXTENDS Naturals, Sequences, SequencesExt

CONSTANTS
  Users,        \* each has one conversation
  UserDevices,  \* devices of users, signed in from the start
  UserOf,       \* the user of each of them
  AdminDevices, \* companion phones that may be registered
  Msgs,         \* messages that may be sealed
  Requests,     \* attempts to send one
  MaxFaults,    \* bound: statements and publications that fail
  NoUser, NoDevice, NoMsg

Devices == UserDevices \cup AdminDevices
ASSUME MessagesAssumption ==
  /\ UserDevices \cap AdminDevices = {} /\ UserOf \in [UserDevices -> Users] /\ NoUser \notin Users
  /\ MaxFaults \in Nat /\ NoDevice \notin Devices /\ NoMsg \notin Msgs

VARIABLES
  device, \* devices: absent, active, revoked
  form,   \* registrations: what adminDeviceRegister has come to
  fresh,  \* the admins' devices in the order of last_seen_at, latest first
  peer,   \* the device a user's app takes for its counterpart
  box,    \* the devices a message is sealed by and for
  row,    \* messages
  req,    \* the requests
  told,   \* history: receipts that a message's recipient has sent
  faults
vars == <<device, form, fresh, peer, box, row, req, told, faults>>
deviceVars == <<device, form, fresh>>

Kinds == {"delivered", "read"}
Routes == {"ws", "rest", "admin"}
Refusals == {"NO_CONVERSATION", "DB", "PAYLOAD_TOO_LARGE", "SESSION_REVOKED", "INVALID_SIG", "RECIPIENT_UNKNOWN"}
Answers == {"none", "persisted", "BAD_REQUEST"} \cup Refusals
Row == [state : {"none", "stored", "purged"}, conv : Users \cup {NoUser},
        to : Devices \cup {NoDevice}, delivered : BOOLEAN, read : BOOLEAN]
NoRow(state) == [state |-> state, conv |-> NoUser, to |-> NoDevice, delivered |-> FALSE, read |-> FALSE]
Request == [pc : {"idle", "lookup", "sender", "recipient", "insert", "publish", "done"},
            route : Routes, msg : Msgs \cup {NoMsg}, wire : {"good", "large", "missigned"},
            shut : BOOLEAN,   \* history: a party was revoked when the request came
            added : BOOLEAN,  \* history: its INSERT made the row
            answer : Answers]

Init ==
  /\ device = [d \in Devices |-> IF d \in UserDevices THEN "active" ELSE "absent"]
  /\ form = [d \in AdminDevices |-> "none"]
  /\ fresh = <<>>
  /\ peer = [d \in UserDevices |-> NoDevice]
  /\ box = [m \in Msgs |-> [from |-> NoDevice, to |-> NoDevice]]
  /\ row = [m \in Msgs |-> NoRow("none")]
  /\ req = [r \in Requests |-> [pc |-> "idle", route |-> "ws", msg |-> NoMsg, wire |-> "good",
                                shut |-> FALSE, added |-> FALSE, answer |-> "none"]]
  /\ told = [m \in Msgs |-> {}] /\ faults = 0

Fault == faults < MaxFaults /\ faults' = faults + 1
-----------------------------------------------------------------------------
(* Devices. *)

\* adminDeviceRegister: the device's row, then its refresh token.
InsertDevice(d) ==
  /\ device[d] = "absent"
  /\ device' = [device EXCEPT ![d] = "active"]
  /\ form' = [form EXCEPT ![d] = "inserted"]
  /\ fresh' = <<d>> \o fresh
  /\ UNCHANGED <<peer, box, row, req, told, faults>>

\* A failure is answered with REFRESH and leaves the device as it is.
IssueToken(d) ==
  /\ form[d] = "inserted"
  /\ \/ form' = [form EXCEPT ![d] = "answered"] /\ UNCHANGED faults
     \/ Fault /\ form' = [form EXCEPT ![d] = "failed"]
  /\ UNCHANGED <<device, fresh, peer, box, row, req, told>>

\* authMiddleware touches last_seen_at in a goroutine of its own, of a revoked
\* device too while its access token lasts.
Touch(d) ==
  /\ form[d] = "answered"
  /\ \E p \in 2..Len(fresh) : fresh[p] = d /\ fresh' = <<d>> \o RemoveAt(fresh, p)
  /\ UNCHANGED <<device, form, peer, box, row, req, told, faults>>

\* adminRevokeDevice: the error of its UPDATE is discarded.
Revoke(d) ==
  /\ device[d] = "active"
  /\ device' = [device EXCEPT ![d] = "revoked"]
  /\ UNCHANGED <<form, fresh, peer, box, row, req, told, faults>>

\* adminDevicesActive
Active == SelectSeq(fresh, LAMBDA d : device[d] = "active")

\* _resolveActiveAdminDevice: an empty answer, or none, leaves the cached device.
Resolve(u) ==
  /\ Active # <<>>
  /\ \E d \in AdminDevices \ {peer[u]} : d = Head(Active) /\ peer' = [peer EXCEPT ![u] = d]
  /\ UNCHANGED <<deviceVars, box, row, req, told, faults>>

\* A phone is signed in once its registration has been answered.
SignedIn == UserDevices \cup {d \in AdminDevices : form[d] = "answered"}

\* sendText and sendReply: the recipient is part of what is sealed, and a retry
\* sends the same envelope.
Seal(m, s, d) ==
  /\ box[m].from = NoDevice /\ s \in SignedIn
  /\ d \in IF s \in UserDevices THEN {peer[s]} \ {NoDevice} ELSE UserDevices
  /\ box' = [box EXCEPT ![m] = [from |-> s, to |-> d]]
  /\ UNCHANGED <<deviceVars, peer, row, req, told, faults>>
-----------------------------------------------------------------------------
(* A request. *)

Begin(r, m, route, wire) ==
  /\ req[r].pc = "idle" /\ box[m].from # NoDevice
  /\ route = "admin" => box[m].from \in AdminDevices
  /\ req' = [req EXCEPT ![r] = [pc |-> "lookup", route |-> route, msg |-> m, wire |-> wire,
                                shut |-> "revoked" \in {device[box[m].from], device[box[m].to]},
                                added |-> FALSE, answer |-> "none"]]
  /\ UNCHANGED <<deviceVars, peer, box, row, told, faults>>

Sender(r) == box[req[r].msg].from
Recipient(r) == box[req[r].msg].to
\* What the request carried no longer matters once it has been checked.
Goto(r, pc) == [req EXCEPT ![r].pc = pc, ![r].route = "ws",
                           ![r].wire = IF pc = "sender" THEN @ ELSE "good"]
Answer(r, a) == [Goto(r, "done") EXCEPT ![r].answer = a]

\* The conversation of the caller, who has one if he is a user; adminSendMessage
\* takes that of the user in its path, whom the message is for.  A read that
\* fails is answered as one that finds nothing.
Converses(r) == req[r].route = "admin" \/ Sender(r) \in UserDevices
UserParty(r) == IF Sender(r) \in UserDevices THEN Sender(r) ELSE Recipient(r)
Conv(r) == UserOf[UserParty(r)]
NoneFound(r) == Answer(r, IF req[r].route = "rest" THEN "DB" ELSE "NO_CONVERSATION")
Lookup(r) ==
  /\ req[r].pc = "lookup"
  /\ \/ req' = (IF Converses(r) THEN Goto(r, "sender") ELSE NoneFound(r)) /\ UNCHANGED faults
     \/ Fault /\ req' = NoneFound(r)
  /\ UNCHANGED <<deviceVars, peer, box, row, told>>

\* The size of the envelope, the sender's device and the signature.
TrustsToken(r) ==   \* mutant: revoked_at is not looked at
  IF req[r].wire = "large" THEN "PAYLOAD_TOO_LARGE"
  ELSE IF req[r].wire = "missigned" THEN "INVALID_SIG" ELSE "none"
Objection(r) ==
  IF req[r].wire = "large" THEN "PAYLOAD_TOO_LARGE"
  ELSE IF device[Sender(r)] = "revoked" THEN "SESSION_REVOKED"
  ELSE IF req[r].wire = "missigned" THEN "INVALID_SIG" ELSE "none"
CheckSender(r) ==
  /\ req[r].pc = "sender"
  /\ \/ /\ req' = IF Objection(r) = "none" THEN Goto(r, "recipient") ELSE Answer(r, Objection(r))
        /\ UNCHANGED faults
     \/ req[r].wire # "large" /\ Fault /\ req' = Answer(r, "BAD_REQUEST")
  /\ UNCHANGED <<deviceVars, peer, box, row, told>>

\* The row that an INSERT for device d makes.
Stored(r, d) == [state |-> "stored", conv |-> Conv(r), to |-> d, delivered |-> FALSE, read |-> FALSE]

CheckRecipientLast(r) ==   \* mutant: INSERT, then look
  /\ req[r].pc = "recipient"
  /\ row' = IF row[req[r].msg].state = "stored" THEN row
            ELSE [row EXCEPT ![req[r].msg] = Stored(r, Recipient(r))]
  /\ req' = [(IF device[Recipient(r)] = "active" THEN Goto(r, "publish") ELSE Answer(r, "RECIPIENT_UNKNOWN"))
             EXCEPT ![r].added = row' # row]
  /\ UNCHANGED <<deviceVars, peer, box, told, faults>>
CheckRecipient(r) ==
  /\ req[r].pc = "recipient"
  /\ \/ /\ req' = IF device[Recipient(r)] = "active" THEN Goto(r, "insert") ELSE Answer(r, "RECIPIENT_UNKNOWN")
        /\ UNCHANGED faults
     \/ Fault /\ req' = Answer(r, "BAD_REQUEST")
  /\ UNCHANGED <<deviceVars, peer, box, row, told>>

\* INSERT ... ON CONFLICT (sender_device_id, client_id) DO NOTHING
NoConflict(r) == TRUE   \* mutant: DO UPDATE
Fresh(r) == row[req[r].msg].state # "stored"
InsertedForPeer(r) ==   \* mutant: the recipient is looked up again
  IF Fresh(r) /\ Sender(r) \in UserDevices
  THEN [row EXCEPT ![req[r].msg] = Stored(r, peer[Sender(r)])] ELSE row
Inserted(r) ==
  IF Fresh(r) THEN [row EXCEPT ![req[r].msg] = Stored(r, Recipient(r))] ELSE row
Ignored(r) == Goto(r, "publish")   \* mutant: the error of the INSERT is not looked at
Failed(r) == Answer(r, "BAD_REQUEST")

\* An INSERT whose outcome is not learnt has been committed or not.
Insert(r) ==
  /\ req[r].pc = "insert"
  /\ \/ /\ row' = Inserted(r)
        /\ req' = [Goto(r, "publish") EXCEPT ![r].added = Fresh(r)]
        /\ UNCHANGED faults
     \/ /\ Fault
        /\ \/ row' = Inserted(r) /\ req' = [Failed(r) EXCEPT ![r].added = Fresh(r)]
           \/ req' = Failed(r) /\ UNCHANGED row
  /\ UNCHANGED <<deviceVars, peer, box, told>>

\* The row stays when its publication fails.
Publish(r) ==
  /\ req[r].pc = "publish"
  /\ \/ req' = Answer(r, "persisted") /\ UNCHANGED faults
     \/ Fault /\ req' = Answer(r, "BAD_REQUEST")
  /\ UNCHANGED <<deviceVars, peer, box, row, told>>
-----------------------------------------------------------------------------
(* Receipts and retention. *)

AnyDevice(d, m) == row[m].state = "stored"   \* mutant: without recipient_device_id
Matches(d, m) == row[m].state = "stored" /\ row[m].to = d

\* handleAck, MarkDelivered; handleRead, MarkRead for each of the ids, whatever
\* became of the others.  Any device may name any message.
Receipt(d, m, kind) ==
  /\ row[m].state # "none"
  /\ told' = IF d = box[m].to THEN [told EXCEPT ![m] = @ \cup {kind}] ELSE told
  /\ row' = IF Matches(d, m) THEN [row EXCEPT ![m][kind] = TRUE] ELSE row
  /\ UNCHANGED <<deviceVars, peer, box, req, faults>>

\* purgeMessages; with the row goes what made a retry harmless.
Purge(m) ==
  /\ row[m].state = "stored"
  /\ row' = [row EXCEPT ![m] = NoRow("purged")]
  /\ UNCHANGED <<deviceVars, peer, box, req, told, faults>>

Handle(r) ==
  Lookup(r) \/ CheckSender(r) \/ CheckRecipient(r) \/ Insert(r) \/ Publish(r)

Next ==
  \/ \E d \in AdminDevices : InsertDevice(d) \/ IssueToken(d) \/ Touch(d)
  \/ \E d \in Devices : Revoke(d)
  \/ \E u \in UserDevices : Resolve(u)
  \/ \E m \in Msgs : Purge(m)
  \/ \E m \in Msgs, s \in Devices, d \in Devices : Seal(m, s, d)
  \/ \E m \in Msgs, d \in Devices, kind \in Kinds : Receipt(d, m, kind)
  \/ \E r \in Requests :
       \/ Handle(r)
       \/ \E m \in Msgs, route \in Routes, wire \in {"good", "large", "missigned"} : Begin(r, m, route, wire)

Spec == Init /\ [][Next]_vars
-----------------------------------------------------------------------------
(* Properties. *)

\* Types; what is sealed has its sender, what is stored its recipient.
TypeOK ==
  /\ device \in [Devices -> {"absent", "active", "revoked"}]
  /\ form \in [AdminDevices -> {"none", "inserted", "answered", "failed"}]
  /\ fresh \in Seq(AdminDevices) /\ \A d \in AdminDevices : d \in ToSet(fresh) <=> device[d] # "absent"
  /\ peer \in [UserDevices -> AdminDevices \cup {NoDevice}]
  /\ box \in [Msgs -> [from : Devices \cup {NoDevice}, to : Devices \cup {NoDevice}]]
  /\ row \in [Msgs -> Row] /\ req \in [Requests -> Request]
  /\ told \in [Msgs -> SUBSET Kinds] /\ faults \in 0..MaxFaults
  /\ \A m \in Msgs : IF row[m].state = "stored"
                     THEN row[m].to = box[m].to /\ row[m].to # NoDevice /\ row[m].conv # NoUser
                     ELSE row[m].to = NoDevice /\ row[m].conv = NoUser

\* What conversationGet shows on device d of a user, as far as its limit reaches;
\* a companion phone has no conversation of its own and is answered with DB.
Mine(d) ==
  {m \in Msgs : row[m].state = "stored" /\ row[m].conv = UserOf[d] /\ d \in {box[m].from, row[m].to}}

\* What adminGetConversation shows of user x: what the phone that was seen last
\* has sent or is sent.
Thread(x) ==
  {m \in Msgs : /\ row[m].state = "stored" /\ row[m].conv = x
                /\ Active # <<>> /\ Head(Active) \in {box[m].from, row[m].to}}

PhoneParty(r) == IF Sender(r) \in UserDevices THEN Recipient(r) ELSE Sender(r)
Persisted(r) == req[r].answer = "persisted" /\ row[req[r].msg].state # "purged"

\* A client that was told "persisted" may forget the message: its user finds it
\* in his conversation until retention takes it, and the admins in their thread
\* with him as long as its phone is the one seen last, though the attempts of
\* one message overlap and some of their statements fail (Service.Send).
PersistedIsListed ==
  \A r \in Requests : Persisted(r) =>
    /\ req[r].msg \in Mine(UserParty(r))
    /\ Active # <<>> /\ Head(Active) = PhoneParty(r) => req[r].msg \in Thread(UserOf[UserParty(r)])

\* A code other than BAD_REQUEST says that the attempt has stored nothing
\* (mapErr): the order of the checks in Service.Send and of its INSERT.
RefusedStoresNothing == \A r \in Requests : req[r].answer \in Refusals => ~ req[r].added

\* A request that comes after the revocation of its sender or of its recipient
\* stores nothing, though the access token is still good (Service.Send).
RevokedStoresNothing == \A r \in Requests : req[r].shut => ~ req[r].added

\* A receipt is the recipient's own word, whoever else names the message.
ReceiptIsOwn == \A m \in Msgs, kind \in Kinds : row[m][kind] => kind \in told[m]

\* A retry takes nothing back: a stored message keeps its recipient and its
\* receipts until it is purged (ON CONFLICT DO NOTHING).
RowIsStable ==
  [][\A m \in Msgs : (row[m].state = "stored" /\ row'[m].state = "stored") =>
       /\ row'[m].to = row[m].to
       /\ \A kind \in Kinds : row[m][kind] => row'[m][kind]]_vars
=============================================================================
