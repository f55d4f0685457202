------------------------------- MODULE Sessions -------------------------------
(***************************************************************************)
(* Device sessions of the backend: logins, refresh-token rotation with     *)
(* replay detection, logout, revocation and suspension (internal/auth/     *)
(* refresh.go, internal/api/auth.go, internal/api/admin.go).               *)
(*                                                                         *)
(* A request is a handler goroutine. RefreshRotate is a SERIALIZABLE       *)
(* transaction of PostgreSQL: its first statement takes a snapshot and     *)
(* then waits for the row lock, and an UPDATE or FOR UPDATE that meets a   *)
(* row changed since the snapshot fails (SQLSTATE 40001). Every other      *)
(* statement is a READ COMMITTED transaction of its own, whose rows are    *)
(* chosen when it starts and written once nobody else holds them.          *)
(***************************************************************************)
EXTENDS Naturals, FiniteSets

CONSTANTS Users, Devices, Tokens, Requests,
          OwnerOf,  \* the user a device id is drawn for
          NoToken,  \* stands for no row of refresh_tokens
          Failing,  \* bound: the requests whose handlers may end early
          Revokers  \* bound: the requests that may log out, revoke or suspend

ASSUME SessionsAssumption ==
  OwnerOf \in [Devices -> Users] /\ NoToken \notin Tokens
  /\ Failing \subseteq Requests /\ Revokers \subseteq Requests

VARIABLES
  status,   \* users.status
  device,   \* rows of devices: "absent", "active" or "revoked" (revoked_at)
  issued,   \* rows of refresh_tokens
  used,     \* ... with used_at
  revoked,  \* ... with revoked_at
  expired,  \* ... past expires_at
  fam,      \* family_id, named by the family's first token
  devOf,    \* device_id
  pc,       \* where the handler of a request is
  tok,      \* refresh: the token presented, from its row lock on locked
  subj,     \* the devices of a login or a revocation
  view,     \* refresh: unrevoked rows in the snapshot; revocation: rows to write
  changed,  \* rows that others have written since that snapshot
  named,    \* revocation: the devices its first statement was to revoke
  late,     \* requests that presented a token of a device already shut out
  shut,     \* devices of the revocations that have been answered with ok
  unwritten, \* devices a revocation left active because its statement failed
  burned    \* families a replay has revoked

users    == <<status, device>>
flags    == <<used, revoked>>
rows     == <<issued, fam, devOf>>
frame    == <<pc, tok, subj, view, named, changed, late>>
history  == <<shut, unwritten, burned>>
vars == <<users, flags, expired, rows, frame, history>>

InTx     == {"wait", "rotate", "replay"}           \* RefreshRotate
Handlers == InTx \cup {"device", "granted",        \* authRefresh after it
                       "insert", "issue",          \* authLogin
                       "suspend",                  \* adminSuspendUser
                       "tokens", "update"}         \* logout and revocations

Init ==
  /\ status = [u \in Users |-> "active"] /\ device = [d \in Devices |-> "absent"]
  /\ issued = {} /\ used = {} /\ revoked = {} /\ expired = {}
  /\ fam = [t \in Tokens |-> NoToken] /\ devOf = [t \in Tokens |-> NoToken]
  /\ pc = [r \in Requests |-> "idle"] /\ tok = [r \in Requests |-> NoToken]
  /\ subj = [r \in Requests |-> {}] /\ view = [r \in Requests |-> {}]
  /\ named = [r \in Requests |-> {}] /\ changed = [r \in Requests |-> {}] /\ late = {}
  /\ shut = {} /\ unwritten = {} /\ burned = {}

DevicesOf(u) == {d \in Devices : OwnerOf[d] = u}

-----------------------------------------------------------------------------
(* Rows, transactions and the frames of handlers.                          *)

HoldsLock(q) == pc[q] \in {"rotate", "replay"}
LockedByNobody(r) == {}   \* mutant: SELECT without FOR UPDATE
\* The rows that others than r hold locked.
LockedRows(r) == {tok[q] : q \in {q \in Requests \ {r} : HoldsLock(q)}}

ConflictsNever(r, S) == FALSE   \* mutant: BeginTx without Serializable
\* Locking or writing S in r's transaction is a serialization failure.
Conflicts(r, S) == S \cap changed[r] # {}

\* r commits writes of rows S: a change under every other open snapshot.
Commit(r, S) ==
  changed' = [q \in Requests |-> IF q # r /\ pc[q] \in InTx THEN changed[q] \cup S ELSE {}]

Goto(r, label) ==
  /\ pc' = [pc EXCEPT ![r] = label]
  /\ UNCHANGED <<tok, subj, view, named, late>>

\* The handler has returned.
Return(r) ==
  /\ pc' = [pc EXCEPT ![r] = "idle"] /\ tok' = [tok EXCEPT ![r] = NoToken]
  /\ subj' = [subj EXCEPT ![r] = {}] /\ view' = [view EXCEPT ![r] = {}]
  /\ named' = [named EXCEPT ![r] = {}] /\ late' = late \ {r}

InsertWithoutFamily(n, f, d) ==   \* mutant: family_id is left out of the INSERT
  /\ issued' = issued \cup {n} /\ devOf' = [devOf EXCEPT ![n] = d] /\ UNCHANGED fam
InsertToken(n, f, d) ==
  /\ issued' = issued \cup {n}
  /\ fam' = [fam EXCEPT ![n] = f]
  /\ devOf' = [devOf EXCEPT ![n] = d]

\* A handler ends early: a statement or the commit fails, the client has gone,
\* or the process dies.
Fail(r) ==
  /\ r \in Failing /\ pc[r] \in Handlers
  /\ Return(r) /\ Commit(r, {})
  /\ UNCHANGED <<users, flags, expired, rows, history>>

-----------------------------------------------------------------------------
(* authRefresh and RefreshRotate.                                          *)

\* Bound: a request that may insert a token starts while there is a spare one.
Spare == Cardinality({q \in Requests : pc[q] \in InTx \cup {"insert", "issue"}})
           < Cardinality(Tokens \ issued)

\* SELECT ... FOR UPDATE starts: the snapshot. Whoever presents the token, it
\* is one the server has issued (others answer ErrBadRefresh and change nothing).
Refresh(r, t) ==
  /\ pc[r] = "idle" /\ t \in issued /\ (t \in used \/ Spare)
  /\ pc' = [pc EXCEPT ![r] = "wait"]
  /\ tok' = [tok EXCEPT ![r] = t]
  /\ view' = [view EXCEPT ![r] = issued \ revoked]
  /\ late' = IF devOf[t] \in shut THEN late \cup {r} ELSE late
  /\ UNCHANGED <<users, flags, expired, rows, subj, named, changed, history>>

\* The row lock is granted to a row that is there to rotate, or a replay.
LockAs(r, label) ==
  /\ pc[r] = "wait" /\ tok[r] \notin LockedRows(r)
  /\ ~Conflicts(r, {tok[r]}) /\ tok[r] \notin revoked \cup expired
  /\ (tok[r] \in used) = (label = "replay")
  /\ Goto(r, label)
  /\ UNCHANGED <<users, flags, expired, rows, changed, history>>

\* The row has changed since the snapshot (40001), or the token is revoked or
\* has expired: 401.
Refuse(r) ==
  /\ pc[r] = "wait" /\ tok[r] \notin LockedRows(r)
  /\ Conflicts(r, {tok[r]}) \/ tok[r] \in revoked \cup expired
  /\ Return(r) /\ Commit(r, {})
  /\ UNCHANGED <<users, flags, expired, rows, history>>

\* used_at is set and the successor inserted, in one commit.
Rotate(r, n) ==
  /\ pc[r] = "rotate" /\ n \in Tokens \ issued
  /\ used' = used \cup {tok[r]}
  /\ InsertToken(n, fam[tok[r]], devOf[tok[r]])
  /\ Commit(r, {tok[r]})
  /\ Goto(r, "device")
  /\ UNCHANGED <<users, revoked, expired, history>>

\* The rows of its family that the replay's UPDATE finds in its snapshot.
Family(r) == {t \in view[r] : fam[t] = fam[tok[r]]}

\* UPDATE and commit succeed: the family is revoked.
Replay(r) ==
  /\ pc[r] = "replay" /\ ~Conflicts(r, Family(r)) /\ Family(r) \cap LockedRows(r) = {}
  /\ revoked' = revoked \cup Family(r)
  /\ burned' = burned \cup {fam[tok[r]]}
  /\ Return(r) /\ Commit(r, Family(r))
  /\ UNCHANGED <<users, used, expired, rows, shut, unwritten>>

\* The UPDATE fails; its error is discarded and the commit rolls back: the
\* request answers 401 like any other replay.
ReplayConflict(r) ==
  /\ pc[r] = "replay" /\ Conflicts(r, Family(r))
  /\ Return(r) /\ Commit(r, {})
  /\ UNCHANGED <<users, flags, expired, rows, history>>

\* PostgreSQL ends a deadlock of two replays, each of which wants the row the
\* other has locked, by failing one of them.
Victim(r) ==
  /\ pc[r] = "replay"
  /\ \E q \in Requests \ {r} : pc[q] = "replay" /\ tok[q] \in Family(r) /\ tok[r] \in Family(q)
  /\ Return(r) /\ Commit(r, {})
  /\ UNCHANGED <<users, flags, expired, rows, history>>

GrantableOnceRevoked(d) == device[d] # "absent"   \* mutant: without "AND revoked_at IS NULL"
Grantable(d) == device[d] = "active"

\* The device is looked up and the access token signed ...
Grant(r) ==
  /\ pc[r] = "device" /\ Grantable(devOf[tok[r]])
  /\ Goto(r, "granted")
  /\ UNCHANGED <<users, flags, expired, rows, changed, history>>

\* ... and answered; a device that has gone gets a 401 instead.
Answer(r) ==
  /\ pc[r] = "granted" \/ (pc[r] = "device" /\ ~Grantable(devOf[tok[r]]))
  /\ Return(r) /\ Commit(r, {})
  /\ UNCHANGED <<users, flags, expired, rows, history>>

-----------------------------------------------------------------------------
(* authLogin: the status is read before the password is verified, and the   *)
(* device inserted after it.                                                *)

Login(r, u) ==
  /\ pc[r] = "idle" /\ status[u] = "active" /\ Spare
  /\ pc' = [pc EXCEPT ![r] = "insert"] /\ subj' = [subj EXCEPT ![r] = DevicesOf(u)]
  /\ UNCHANGED <<users, flags, expired, rows, tok, view, named, changed, late, history>>

InsertDevice(r, d) ==
  /\ pc[r] = "insert" /\ d \in subj[r] /\ device[d] = "absent"
  /\ device' = [device EXCEPT ![d] = "active"]
  /\ pc' = [pc EXCEPT ![r] = "issue"] /\ subj' = [subj EXCEPT ![r] = {d}]
  /\ UNCHANGED <<status, flags, expired, rows, tok, view, named, changed, late, history>>

\* RefreshIssue without a family: the token begins one.
Issue(r, n) ==
  /\ pc[r] = "issue" /\ n \in Tokens \ issued
  /\ \E d \in subj[r] : InsertToken(n, n, d)
  /\ Return(r) /\ Commit(r, {})
  /\ UNCHANGED <<users, flags, expired, history>>

-----------------------------------------------------------------------------
(* Revocations. Their errors are discarded: the handler goes on after a      *)
(* statement that fails, and answers ok.                                    *)

\* authLogout and adminRevokeDevice take one device, adminRevokeSessions those
\* of a user.
Scopes == {{d} : d \in Devices} \cup {DevicesOf(u) : u \in Users}
Shutting(S) == [d \in Devices |-> IF d \in S /\ device[d] = "active" THEN "revoked" ELSE device[d]]

RevokeDevices(r, S) ==
  /\ r \in Revokers /\ pc[r] = "idle" /\ \E d \in S : device[d] # "absent"
  /\ \/ device' = Shutting(S) /\ UNCHANGED unwritten
     \/ /\ r \in Failing /\ UNCHANGED device
        /\ unwritten' = unwritten \cup {d \in S : device[d] = "active"}
  /\ pc' = [pc EXCEPT ![r] = "tokens"] /\ subj' = [subj EXCEPT ![r] = S]
  /\ named' = [named EXCEPT ![r] = {d \in S : device[d] # "absent"}]
  /\ UNCHANGED <<status, flags, expired, rows, tok, view, changed, late, shut, burned>>

\* The second statement chooses its rows (a logout skips revoked ones) ...
RevokeTokens(r) ==
  /\ pc[r] = "tokens"
  /\ \E among \in {issued, issued \ revoked} :
       view' = [view EXCEPT ![r] = {t \in among : devOf[t] \in subj[r]}]
  /\ pc' = [pc EXCEPT ![r] = "update"]
  /\ UNCHANGED <<users, flags, expired, rows, tok, subj, named, changed, late, history>>

\* ... and writes them once no rotation holds one, or fails; the handler answers.
RevokeDone(r) ==
  /\ pc[r] = "update"
  /\ \E written \in {view[r]} \cup {{} : q \in {r} \cap Failing} :
       /\ written \cap LockedRows(r) = {}
       /\ revoked' = revoked \cup written
       /\ Return(r) /\ Commit(r, written)
  /\ shut' = shut \cup named[r]
  /\ UNCHANGED <<users, used, expired, rows, unwritten, burned>>

\* adminSuspendUser: the status, then the devices; tokens are left alone.
Suspend(r, u) ==
  /\ r \in Revokers /\ pc[r] = "idle" /\ status[u] = "active"
  /\ status' = [status EXCEPT ![u] = "suspended"]
  /\ pc' = [pc EXCEPT ![r] = "suspend"] /\ subj' = [subj EXCEPT ![r] = DevicesOf(u)]
  /\ UNCHANGED <<device, flags, expired, rows, tok, view, named, changed, late, history>>

SuspendDevices(r) ==
  /\ pc[r] = "suspend"
  /\ device' = Shutting(subj[r])
  /\ Return(r) /\ Commit(r, {})
  /\ UNCHANGED <<status, flags, expired, rows, history>>

Unsuspend(u) ==
  /\ status[u] = "suspended" /\ status' = [status EXCEPT ![u] = "active"]
  /\ UNCHANGED <<device, flags, expired, rows, frame, history>>

\* Time passes expires_at.
Expire(t) ==
  /\ t \in issued \ expired /\ expired' = expired \cup {t}
  /\ UNCHANGED <<users, flags, rows, frame, history>>

-----------------------------------------------------------------------------
RefreshStep(r) == \/ LockAs(r, "rotate") \/ LockAs(r, "replay") \/ Refuse(r)
                  \/ Replay(r) \/ ReplayConflict(r) \/ Victim(r) \/ Grant(r) \/ Answer(r)
                  \/ \E t \in Tokens : Refresh(r, t) \/ Rotate(r, t)
LoginStep(r)   == \/ \E u \in Users : Login(r, u)
                  \/ \E d \in Devices : InsertDevice(r, d)
                  \/ \E n \in Tokens : Issue(r, n)
RevokeStep(r)  == \/ RevokeTokens(r) \/ RevokeDone(r) \/ SuspendDevices(r)
                  \/ \E S \in Scopes : RevokeDevices(r, S)
                  \/ \E u \in Users : Suspend(r, u)

Next == \/ \E r \in Requests : RefreshStep(r) \/ LoginStep(r) \/ RevokeStep(r) \/ Fail(r)
        \/ \E u \in Users : Unsuspend(u)
        \/ \E t \in Tokens : Expire(t)

Spec == Init /\ [][Next]_vars

-----------------------------------------------------------------------------
(* Properties.                                                             *)

\* Every variable stays in its type; marks are only on rows that exist, and a
\* handler has a token or a device exactly where its code has read one.
TypeOK ==
  /\ status \in [Users -> {"active", "suspended"}]
  /\ device \in [Devices -> {"absent", "active", "revoked"}]
  /\ issued \subseteq Tokens /\ used \subseteq issued /\ revoked \subseteq issued
  /\ expired \subseteq issued
  /\ fam \in [Tokens -> issued \cup {NoToken}] /\ \A t \in issued : fam[t] # NoToken
  /\ devOf \in [Tokens -> Devices \cup {NoToken}]
  /\ pc \in [Requests -> Handlers \cup {"idle"}]
  /\ tok \in [Requests -> issued \cup {NoToken}]
  /\ \A r \in Requests : pc[r] \in InTx \cup {"device", "granted"} => tok[r] # NoToken
  /\ subj \in [Requests -> SUBSET Devices]
  /\ view \in [Requests -> SUBSET issued] /\ changed \in [Requests -> SUBSET issued]
  /\ named \in [Requests -> SUBSET Devices]
  /\ late \subseteq Requests /\ shut \subseteq Devices /\ unwritten \subseteq Devices
  /\ burned \subseteq issued

\* However many requests present tokens of a family at once, at most one of
\* its tokens has not been used: concurrent rotations of one token never both
\* succeed, so a session never forks.
OneUnused == \A s, t \in issued \ used : fam[s] = fam[t] => s = t

\* Once a replay's commit has revoked a family, none of its tokens works again,
\* not even the successor that a concurrent rotation was inserting (which the
\* replay's snapshot cannot see).
BurnedStaysDead == \A t \in issued : fam[t] \in burned => t \in revoked

\* A refresh that starts after a logout or a revocation of its device has been
\* answered gets no access token, although the statement that revokes the
\* device's tokens may have failed or missed one that a concurrent rotation
\* inserts: unless a revocation's statement on devices failed unnoticed.
NoAccessUnlessFailed ==
  \A r \in late : pc[r] = "granted" => devOf[tok[r]] \in unwritten

\* "suspend account" (docs/API.md:112): a suspended user, once the suspension and the
\* logins under way are done, is left without a device that can refresh.
SuspendedHasNoSession ==
  (\A r \in Requests : pc[r] = "idle") =>
    \A t \in issued \ (used \cup revoked \cup expired) :
      device[devOf[t]] = "active" => status[OwnerOf[devOf[t]]] = "active"
=============================================================================
