----------------------------- MODULE SessionsProofs -----------------------------
(***************************************************************************)
(* Proofs about Sessions for any number of users, devices, tokens and      *)
(* concurrent requests: type correctness, that a session never forks, and  *)
(* that a family revoked by a replay stays revoked.                        *)
(***************************************************************************)
EXTENDS Sessions, TLAPS

\* The frame of a handler that has returned, and the snapshots others keep,
\* are well typed whatever rows the commit touches.
LEMMA ReturnType ==
  ASSUME TypeOK, NEW r \in Requests, NEW S \in SUBSET issued, Return(r), Commit(r, S)
  PROVE  /\ pc' \in [Requests -> Handlers \cup {"idle"}]
         /\ tok' \in [Requests -> issued \cup {NoToken}]
         /\ \A q \in Requests : pc'[q] \in InTx \cup {"device", "granted"} => tok'[q] # NoToken
         /\ subj' \in [Requests -> SUBSET Devices]
         /\ view' \in [Requests -> SUBSET issued] /\ changed' \in [Requests -> SUBSET issued]
         /\ named' \in [Requests -> SUBSET Devices] /\ late' \subseteq Requests
<1>1. /\ pc' \in [Requests -> Handlers \cup {"idle"}] /\ tok' \in [Requests -> issued \cup {NoToken}]
      /\ subj' \in [Requests -> SUBSET Devices] /\ view' \in [Requests -> SUBSET issued]
      /\ named' \in [Requests -> SUBSET Devices] /\ late' \subseteq Requests
  BY DEF TypeOK, Return
<1>2. \A q \in Requests : pc'[q] \in InTx \cup {"device", "granted"} => tok'[q] # NoToken
  BY DEF TypeOK, Return, InTx
<1>3. changed' \in [Requests -> SUBSET issued]
  BY DEF TypeOK, Commit
<1>4. QED
  BY <1>1, <1>2, <1>3

\* A request in the transaction, or past it, holds a token that exists.
LEMMA TokIssued ==
  ASSUME TypeOK, NEW r \in Requests, pc[r] \in InTx \cup {"device", "granted"}
  PROVE  tok[r] \in issued /\ tok[r] \in Tokens /\ fam[tok[r]] \in issued
BY DEF TypeOK

\* A handler that moves on within its frame keeps it well typed.
LEMMA GotoType ==
  ASSUME TypeOK, NEW r \in Requests, NEW label \in Handlers, Goto(r, label),
         label \in InTx \cup {"device", "granted"} => pc[r] \in InTx \cup {"device", "granted"}
  PROVE  /\ pc' \in [Requests -> Handlers \cup {"idle"}]
         /\ \A q \in Requests : pc'[q] \in InTx \cup {"device", "granted"} => tok'[q] # NoToken
         /\ UNCHANGED <<tok, subj, view, named, late>>
BY DEF TypeOK, Goto

\* A row that is inserted has a family, its own or its parent's.
LEMMA InsertType ==
  ASSUME TypeOK, NEW n \in Tokens \ issued, NEW f \in issued \cup {n}, NEW d \in Devices \cup {NoToken},
         InsertToken(n, f, d)
  PROVE  /\ issued' \subseteq Tokens /\ issued \subseteq issued' /\ n \in issued'
         /\ fam' \in [Tokens -> issued' \cup {NoToken}] /\ \A t \in issued' : fam'[t] # NoToken
         /\ devOf' \in [Tokens -> Devices \cup {NoToken}]
<1>1. issued' = issued \cup {n} /\ f # NoToken
  BY SessionsAssumption DEF InsertToken, TypeOK
<1>2. QED
  BY <1>1 DEF InsertToken, TypeOK

\* Marks stay on rows that exist, handlers keep what they have read.
THEOREM TypeCorrect == Spec => []TypeOK
<1>1. Init => TypeOK
  BY SessionsAssumption DEF Init, TypeOK, InTx
<1>2. TypeOK /\ [Next]_vars => TypeOK'
  <2> SUFFICES ASSUME TypeOK, [Next]_vars
               PROVE  TypeOK'
    OBVIOUS
  <2> USE DEF users, flags, rows, frame, history
  <2>1. ASSUME NEW r \in Requests, RefreshStep(r)
        PROVE  TypeOK'
    <3>1. CASE LockAs(r, "rotate") \/ LockAs(r, "replay")
      <4>1. PICK label \in {"rotate", "replay"} : LockAs(r, label)
        BY <3>1
      <4>2. label \in Handlers /\ pc[r] \in InTx
        BY <4>1 DEF LockAs, Handlers, InTx
      <4>3. QED
        BY <4>1, <4>2, GotoType DEF TypeOK, LockAs
    <3>2. CASE Refuse(r) \/ Victim(r) \/ Answer(r) \/ ReplayConflict(r)
      <4>1. Return(r) /\ Commit(r, {})
        BY <3>2 DEF Refuse, Victim, Answer, ReplayConflict
      <4>2. ReplayConflict(r) => fam[tok[r]] \in issued
        BY TokIssued DEF ReplayConflict, InTx
      <4>3. QED
        BY <3>2, <4>1, <4>2, ReturnType DEF TypeOK, Refuse, Victim, Answer, ReplayConflict
    <3>3. CASE Replay(r)
      <4>1. Family(r) \subseteq issued /\ fam[tok[r]] \in issued
        BY <3>3, TokIssued DEF TypeOK, Family, Replay, InTx
      <4>2. QED
        BY <3>3, <4>1, ReturnType DEF TypeOK, Replay
    <3>4. CASE Grant(r)
      <4>1. "granted" \in Handlers
        BY DEF Handlers
      <4>2. QED
        BY <3>4, <4>1, GotoType DEF TypeOK, Grant
    <3>5. ASSUME NEW t \in Tokens, Refresh(r, t)
          PROVE  TypeOK'
      <4>1. t \in issued /\ t # NoToken /\ "wait" \in Handlers
        BY <3>5, SessionsAssumption DEF Refresh, Handlers, InTx
      <4>2. \A q \in Requests : pc'[q] \in InTx \cup {"device", "granted"} => tok'[q] # NoToken
        BY <3>5, <4>1 DEF TypeOK, Refresh
      <4>3. late' \subseteq Requests
        BY <3>5 DEF TypeOK, Refresh
      <4>4. QED
        BY <3>5, <4>1, <4>2, <4>3 DEF TypeOK, Refresh
    <3>6. ASSUME NEW n \in Tokens, Rotate(r, n)
          PROVE  TypeOK'
      <4>1. tok[r] \in issued /\ fam[tok[r]] \in issued /\ devOf[tok[r]] \in Devices \cup {NoToken}
        BY <3>6, TokIssued DEF Rotate, InTx, TypeOK
      <4>2. /\ issued' \subseteq Tokens /\ issued \subseteq issued' /\ n \in issued'
            /\ fam' \in [Tokens -> issued' \cup {NoToken}] /\ \A t \in issued' : fam'[t] # NoToken
            /\ devOf' \in [Tokens -> Devices \cup {NoToken}]
        BY <3>6, <4>1, InsertType DEF Rotate
      <4>3. "device" \in Handlers
        BY DEF Handlers
      <4>4. /\ pc' \in [Requests -> Handlers \cup {"idle"}]
            /\ \A q \in Requests : pc'[q] \in InTx \cup {"device", "granted"} => tok'[q] # NoToken
            /\ UNCHANGED <<tok, subj, view, named, late>>
        BY <3>6, <4>3, GotoType DEF Rotate, InTx
      <4>5. changed' \in [Requests -> SUBSET issued]
        BY <3>6, <4>1 DEF TypeOK, Rotate, Commit
      <4>6. QED
        BY <3>6, <4>1, <4>2, <4>4, <4>5 DEF TypeOK, Rotate
    <3>7. QED
      BY <2>1, <3>1, <3>2, <3>3, <3>4, <3>5, <3>6 DEF RefreshStep
  <2>2. ASSUME NEW r \in Requests, LoginStep(r)
        PROVE  TypeOK'
    <3>1. ASSUME NEW u \in Users, Login(r, u)
          PROVE  TypeOK'
      BY <3>1 DEF TypeOK, Login, DevicesOf, Handlers, InTx
    <3>2. ASSUME NEW d \in Devices, InsertDevice(r, d)
          PROVE  TypeOK'
      BY <3>2 DEF TypeOK, InsertDevice, Handlers, InTx
    <3>3. ASSUME NEW n \in Tokens, Issue(r, n)
          PROVE  TypeOK'
      <4>1. PICK d \in subj[r] : InsertToken(n, n, d)
        BY <3>3 DEF Issue
      <4>2. /\ issued' \subseteq Tokens /\ issued \subseteq issued'
            /\ fam' \in [Tokens -> issued' \cup {NoToken}] /\ \A t \in issued' : fam'[t] # NoToken
            /\ devOf' \in [Tokens -> Devices \cup {NoToken}]
        BY <3>3, <4>1, InsertType DEF Issue, TypeOK
      <4>3. QED
        BY <3>3, <4>2, ReturnType DEF TypeOK, Issue
    <3>4. QED
      BY <2>2, <3>1, <3>2, <3>3 DEF LoginStep
  <2>3. ASSUME NEW r \in Requests, RevokeStep(r)
        PROVE  TypeOK'
    <3>1. CASE RevokeTokens(r)
      BY <3>1 DEF TypeOK, RevokeTokens, Handlers, InTx
    <3>2. CASE RevokeDone(r)
      <4>1. PICK written \in SUBSET issued :
              revoked' = revoked \cup written /\ Return(r) /\ Commit(r, written)
        BY <3>2 DEF TypeOK, RevokeDone
      <4>2. shut' \subseteq Devices
        BY <3>2 DEF TypeOK, RevokeDone
      <4>3. QED
        BY <3>2, <4>1, <4>2, ReturnType DEF TypeOK, RevokeDone
    <3>3. CASE SuspendDevices(r)
      BY <3>3, ReturnType DEF TypeOK, SuspendDevices, Shutting
    <3>4. ASSUME NEW S \in Scopes, RevokeDevices(r, S)
          PROVE  TypeOK'
      <4>1. S \subseteq Devices
        BY DEF Scopes, DevicesOf
      <4>2. /\ device' \in [Devices -> {"absent", "active", "revoked"}]
            /\ named' \in [Requests -> SUBSET Devices] /\ unwritten' \subseteq Devices
        BY <3>4, <4>1 DEF TypeOK, RevokeDevices, Shutting
      <4>3. QED
        BY <3>4, <4>1, <4>2 DEF TypeOK, RevokeDevices, Handlers, InTx
    <3>5. ASSUME NEW u \in Users, Suspend(r, u)
          PROVE  TypeOK'
      BY <3>5 DEF TypeOK, Suspend, DevicesOf, Handlers, InTx
    <3>6. QED
      BY <2>3, <3>1, <3>2, <3>3, <3>4, <3>5 DEF RevokeStep
  <2>4. ASSUME NEW r \in Requests, Fail(r)
        PROVE  TypeOK'
    BY <2>4, ReturnType DEF TypeOK, Fail
  <2>5. ASSUME NEW u \in Users, Unsuspend(u)
        PROVE  TypeOK'
    BY <2>5 DEF TypeOK, Unsuspend
  <2>6. ASSUME NEW t \in Tokens, Expire(t)
        PROVE  TypeOK'
    BY <2>6 DEF TypeOK, Expire
  <2>7. CASE UNCHANGED vars
    BY <2>7 DEF TypeOK, vars
  <2>8. QED
    BY <2>1, <2>2, <2>3, <2>4, <2>5, <2>6, <2>7 DEF Next
<1>3. QED
  BY <1>1, <1>2, PTL DEF Spec

-----------------------------------------------------------------------------
(* Families. OneUnused needs that a row is locked by one request and that    *)
(* the row of a rotation is still unused and unrevoked; BurnedStaysDead      *)
(* needs SnapshotsKnow: a member of the family that a snapshot misses        *)
(* descends from one it has, which has been written since, so that the       *)
(* replay's UPDATE of that ancestor fails.                                   *)

LocksExclude ==
  \A r, q \in Requests : r # q /\ HoldsLock(r) /\ HoldsLock(q) => tok[r] # tok[q]
RotatesFresh == \A r \in Requests : pc[r] = "rotate" => tok[r] \notin used \cup revoked
SnapshotsKnow ==
  \A r \in Requests : pc[r] \in InTx =>
    \A x \in issued \ (revoked \cup view[r]) :
      fam[x] = fam[tok[r]] => \E y \in view[r] \cap changed[r] : fam[y] = fam[x]

Families == OneUnused /\ LocksExclude /\ RotatesFresh /\ SnapshotsKnow /\ BurnedStaysDead

\* Steps that issue and use no token and open no transaction keep the families,
\* if what they revoke is not being rotated and no family is burned by it.
LEMMA QuietStep ==
  ASSUME TypeOK, Families,
         UNCHANGED <<issued, fam, used, burned>>, revoked \subseteq revoked',
         \A q \in Requests : pc'[q] = "rotate" => tok[q] \notin revoked',
         \A q \in Requests : pc'[q] \in InTx =>
           pc'[q] = pc[q] /\ tok'[q] = tok[q] /\ view'[q] = view[q] /\ changed[q] \subseteq changed'[q]
  PROVE  Families'
<1>1. \A q \in Requests : HoldsLock(q)' => HoldsLock(q) /\ tok'[q] = tok[q]
  BY DEF HoldsLock, InTx
<1>2. LocksExclude'
  BY <1>1 DEF Families, LocksExclude
<1>3. RotatesFresh'
  BY DEF Families, RotatesFresh, InTx
<1>4. SnapshotsKnow'
  BY DEF Families, SnapshotsKnow
<1>5. OneUnused' /\ BurnedStaysDead'
  BY DEF Families, OneUnused, BurnedStaysDead
<1>6. QED
  BY <1>2, <1>3, <1>4, <1>5 DEF Families

\* What a commit and a return do to the snapshots of the others.
LEMMA ReturnFrame ==
  ASSUME TypeOK, NEW r \in Requests, NEW S, Return(r), Commit(r, S)
  PROVE  /\ \A q \in Requests : pc'[q] \in InTx =>
              /\ q # r /\ pc'[q] = pc[q] /\ tok'[q] = tok[q] /\ view'[q] = view[q]
              /\ changed'[q] = changed[q] \cup S
BY DEF TypeOK, Return, Commit, InTx

\* Handlers that return without writing, however they end.
LEMMA ReturnQuiet ==
  ASSUME TypeOK, Families, NEW r \in Requests, Return(r), Commit(r, {}),
         UNCHANGED <<issued, fam, used, revoked, burned>>
  PROVE  Families'
<1>1. \A q \in Requests : pc'[q] \in InTx =>
        pc'[q] = pc[q] /\ tok'[q] = tok[q] /\ view'[q] = view[q] /\ changed[q] \subseteq changed'[q]
  BY ReturnFrame
<1>2. \A q \in Requests : pc'[q] = "rotate" => tok[q] \notin revoked'
  BY <1>1 DEF Families, RotatesFresh, InTx
<1>3. QED
  BY <1>1, <1>2, QuietStep

\* A snapshot misses nothing when it is taken.
LEMMA RefreshFamilies ==
  ASSUME TypeOK, Families, NEW r \in Requests, NEW t \in Tokens, Refresh(r, t)
  PROVE  Families'
<1>1. /\ issued' = issued /\ fam' = fam /\ used' = used /\ revoked' = revoked /\ burned' = burned
      /\ changed' = changed
  BY DEF Refresh, flags, rows, history
<1>2. /\ pc'[r] = "wait" /\ view'[r] = issued \ revoked
      /\ \A q \in Requests \ {r} : pc'[q] = pc[q] /\ tok'[q] = tok[q] /\ view'[q] = view[q]
  BY DEF Refresh, TypeOK
<1>3. LocksExclude' /\ RotatesFresh'
  BY <1>1, <1>2 DEF Families, LocksExclude, RotatesFresh, HoldsLock
<1>4. SnapshotsKnow'
  BY <1>1, <1>2 DEF Families, SnapshotsKnow
<1>5. QED
  BY <1>1, <1>3, <1>4 DEF Families, OneUnused, BurnedStaysDead

\* The row lock goes to one request, and to a rotation only on a fresh row.
LEMMA LockFamilies ==
  ASSUME TypeOK, Families, NEW r \in Requests, NEW label \in {"rotate", "replay"}, LockAs(r, label)
  PROVE  Families'
<1>1. /\ issued' = issued /\ fam' = fam /\ used' = used /\ revoked' = revoked /\ burned' = burned
      /\ changed' = changed /\ tok' = tok /\ view' = view
  BY DEF LockAs, Goto, flags, rows, history
<1>2. pc[r] = "wait" /\ pc'[r] = label /\ \A q \in Requests \ {r} : pc'[q] = pc[q]
  BY DEF LockAs, Goto, TypeOK
<1>3. \A q \in Requests \ {r} : HoldsLock(q) => tok[q] # tok[r]
  BY DEF LockAs, LockedRows
<1>4. label = "rotate" => tok[r] \notin used \cup revoked
  BY DEF LockAs
<1>5. LocksExclude' /\ RotatesFresh'
  BY <1>1, <1>2, <1>3, <1>4 DEF Families, LocksExclude, RotatesFresh, HoldsLock
<1>6. SnapshotsKnow'
  BY <1>1, <1>2 DEF Families, SnapshotsKnow, InTx
<1>7. QED
  BY <1>1, <1>5, <1>6 DEF Families, OneUnused, BurnedStaysDead

\* A token that is issued as the successor of one that is used up, or as the
\* first of its family, leaves one unused token in each family, and every
\* snapshot that misses it knows an ancestor that has been written.
LEMMA RotateFamilies ==
  ASSUME TypeOK, Families, NEW r \in Requests, NEW n \in Tokens, Rotate(r, n)
  PROVE  Families'
<1> DEFINE t == tok[r]
<1>1. t \in issued /\ t \notin used \cup revoked /\ n \notin issued /\ pc[r] = "rotate"
  BY TokIssued DEF Rotate, InTx, Families, RotatesFresh
<1>2. /\ issued' = issued \cup {n} /\ used' = used \cup {t} /\ revoked' = revoked /\ burned' = burned
      /\ fam'[n] = fam[t] /\ \A x \in issued : fam'[x] = fam[x]
      /\ tok' = tok /\ view' = view
  BY <1>1 DEF Rotate, InsertToken, Goto, history, TypeOK
<1>3. /\ pc'[r] = "device" /\ \A q \in Requests \ {r} : pc'[q] = pc[q]
      /\ \A q \in Requests \ {r} : pc[q] \in InTx => changed'[q] = changed[q] \cup {t}
  BY DEF Rotate, Goto, Commit, TypeOK
<1>4. OneUnused'
  BY <1>1, <1>2 DEF Families, OneUnused, TypeOK
<1>5. LocksExclude'
  BY <1>2, <1>3 DEF Families, LocksExclude, HoldsLock
<1>6. RotatesFresh'
  BY <1>1, <1>2, <1>3 DEF Families, RotatesFresh, LocksExclude, HoldsLock
<1>7. SnapshotsKnow'
  <2>1. SUFFICES ASSUME NEW q \in Requests, pc'[q] \in InTx,
                        NEW x \in issued' \ (revoked \cup view[q]), fam'[x] = fam'[tok[q]]
                 PROVE  \E y \in view[q] \cap changed'[q] : fam'[y] = fam'[x]
    BY <1>2 DEF SnapshotsKnow
  <2>2. q # r /\ pc[q] \in InTx /\ changed'[q] = changed[q] \cup {t}
    BY <1>3, <2>1 DEF InTx
  <2>3. tok[q] \in issued /\ view[q] \subseteq issued
    BY <2>2, TokIssued DEF TypeOK
  <2>4. \A z \in issued \ (revoked \cup view[q]) :
          fam[z] = fam[tok[q]] => \E y \in view[q] \cap changed[q] : fam[y] = fam[z]
    BY <2>2 DEF Families, SnapshotsKnow
  <2>5. CASE x # n
    BY <2>1, <2>2, <2>3, <2>4, <2>5, <1>2
  <2>6. CASE x = n
    <3>1. fam[t] = fam[tok[q]]
      BY <2>1, <2>3, <2>6, <1>2
    <3>2. CASE t \in view[q]
      BY <3>2, <2>2, <2>6, <1>1, <1>2
    <3>3. CASE t \notin view[q]
      <4>1. PICK y \in view[q] \cap changed[q] : fam[y] = fam[t]
        BY <3>1, <3>3, <2>4, <1>1
      <4>2. QED
        BY <4>1, <2>2, <2>3, <2>6, <1>2
    <3>4. QED
      BY <3>2, <3>3
  <2>7. QED
    BY <2>5, <2>6
<1>8. BurnedStaysDead'
  BY <1>1, <1>2 DEF Families, BurnedStaysDead, TypeOK
<1>9. QED
  BY <1>4, <1>5, <1>6, <1>7, <1>8 DEF Families

\* A login's token belongs to a family nobody has heard of.
LEMMA IssueFamilies ==
  ASSUME TypeOK, Families, NEW r \in Requests, NEW n \in Tokens, Issue(r, n)
  PROVE  Families'
<1>1. n \notin issued /\ pc[r] = "issue" /\ Return(r) /\ Commit(r, {})
  BY DEF Issue
<1>2. /\ issued' = issued \cup {n} /\ used' = used /\ revoked' = revoked /\ burned' = burned
      /\ fam'[n] = n /\ \A x \in issued : fam'[x] = fam[x] /\ fam[x] \in issued
  BY <1>1 DEF Issue, InsertToken, flags, history, TypeOK
<1>3. \A q \in Requests : pc'[q] \in InTx =>
        /\ pc'[q] = pc[q] /\ tok'[q] = tok[q] /\ view'[q] = view[q] /\ changed'[q] = changed[q]
        /\ tok[q] \in issued
  <2>1. ASSUME NEW q \in Requests, pc'[q] \in InTx
        PROVE  /\ pc'[q] = pc[q] /\ tok'[q] = tok[q] /\ view'[q] = view[q] /\ changed'[q] = changed[q]
               /\ tok[q] \in issued
    <3>1. /\ pc'[q] = pc[q] /\ tok'[q] = tok[q] /\ view'[q] = view[q]
          /\ changed'[q] = changed[q] \cup {}
      BY <2>1, <1>1, ReturnFrame
    <3>2. tok[q] \in issued
      BY <2>1, <3>1, TokIssued
    <3>3. QED
      BY <3>1, <3>2
  <2>2. QED
    BY <2>1
<1>4. OneUnused'
  BY <1>1, <1>2 DEF Families, OneUnused, TypeOK
<1>5. \A q \in Requests : HoldsLock(q)' => HoldsLock(q) /\ tok'[q] = tok[q]
  BY <1>3 DEF HoldsLock, InTx
<1>6. LocksExclude' /\ RotatesFresh'
  BY <1>2, <1>3, <1>5 DEF Families, LocksExclude, RotatesFresh, InTx
<1>7. SnapshotsKnow'
  <2>1. SUFFICES ASSUME NEW q \in Requests, pc'[q] \in InTx,
                        NEW x \in issued' \ (revoked' \cup view'[q]), fam'[x] = fam'[tok'[q]]
                 PROVE  \E y \in view'[q] \cap changed'[q] : fam'[y] = fam'[x]
    BY DEF SnapshotsKnow
  <2>2. x \in issued /\ fam'[x] = fam[x] /\ fam'[tok'[q]] = fam[tok[q]] /\ view[q] \subseteq issued
    <3>1. tok[q] \in issued /\ tok'[q] = tok[q] /\ view[q] \subseteq issued
      BY <2>1, <1>3 DEF TypeOK
    <3>2. fam'[tok'[q]] = fam[tok[q]] /\ fam[tok[q]] # n
      BY <3>1, <1>1, <1>2
    <3>3. x # n /\ x \in issued
      BY <2>1, <3>2, <1>2
    <3>4. QED
      BY <3>1, <3>2, <3>3, <1>2
  <2>3. PICK y \in view[q] \cap changed[q] : fam[y] = fam[x]
    <3>1. pc[q] \in InTx /\ x \notin revoked \cup view[q]
      BY <2>1, <1>2, <1>3
    <3>2. fam[x] = fam[tok[q]]
      BY <2>1, <2>2
    <3>3. QED
      BY <3>1, <3>2, <2>2 DEF Families, SnapshotsKnow
  <2>4. QED
    BY <2>1, <2>2, <2>3, <1>2, <1>3
<1>8. BurnedStaysDead'
  BY <1>1, <1>2 DEF Families, BurnedStaysDead, TypeOK
<1>9. QED
  BY <1>4, <1>6, <1>7, <1>8 DEF Families

\* A replay that commits has written every unrevoked member of the family.
LEMMA ReplayFamilies ==
  ASSUME TypeOK, Families, NEW r \in Requests, Replay(r)
  PROVE  Families'
<1> DEFINE f == fam[tok[r]]
<1>1. /\ issued' = issued /\ fam' = fam /\ used' = used
      /\ revoked' = revoked \cup Family(r) /\ burned' = burned \cup {f}
      /\ Return(r) /\ Commit(r, Family(r)) /\ pc[r] = "replay"
  BY DEF Replay, rows
<1>2. \A q \in Requests : pc'[q] \in InTx =>
        /\ q # r /\ pc'[q] = pc[q] /\ tok'[q] = tok[q] /\ view'[q] = view[q]
        /\ changed[q] \subseteq changed'[q]
  BY <1>1, ReturnFrame
<1>3. \A q \in Requests \ {r} : HoldsLock(q) => tok[q] \notin Family(r)
  BY DEF Replay, LockedRows
<1>4. \A q \in Requests : HoldsLock(q)' => HoldsLock(q) /\ q # r /\ tok'[q] = tok[q]
  BY <1>2 DEF HoldsLock, InTx
<1>5. LocksExclude'
  BY <1>4 DEF Families, LocksExclude
<1>6. RotatesFresh'
  BY <1>1, <1>2, <1>3 DEF Families, RotatesFresh, InTx, HoldsLock
<1>7. SnapshotsKnow'
  BY <1>1, <1>2 DEF Families, SnapshotsKnow
<1>8. BurnedStaysDead'
  <2>1. SUFFICES ASSUME NEW x \in issued, fam[x] = f, x \notin revoked
                 PROVE  x \in Family(r)
    BY <1>1 DEF Families, BurnedStaysDead
  <2>2. CASE x \in view[r]
    BY <2>1, <2>2 DEF Family
  <2>3. CASE x \notin view[r]
    <3>1. \E y \in view[r] \cap changed[r] : fam[y] = f
      BY <2>1, <2>3, <1>1 DEF Families, SnapshotsKnow, InTx
    <3>2. Family(r) \cap changed[r] = {}
      BY DEF Replay, Conflicts
    <3>3. QED
      BY <3>1, <3>2 DEF Family
  <2>4. QED
    BY <2>2, <2>3
<1>9. QED
  BY <1>1, <1>5, <1>6, <1>7, <1>8 DEF Families, OneUnused

\* Families stay as described in every step.
THEOREM FamiliesInductive == Spec => []Families
<1>1. Init => Families
  BY DEF Init, Families, OneUnused, LocksExclude, RotatesFresh, SnapshotsKnow, BurnedStaysDead,
         HoldsLock, InTx
<1>2. TypeOK /\ Families /\ [Next]_vars => Families'
  <2> SUFFICES ASSUME TypeOK, Families, [Next]_vars
               PROVE  Families'
    OBVIOUS
  <2> USE DEF users, flags, rows, frame, history
  <2>0. ASSUME UNCHANGED <<issued, fam, used, revoked, burned, tok, view, changed>>,
               \A q \in Requests : pc'[q] \in InTx => pc'[q] = pc[q]
        PROVE  Families'
    <3>1. \A q \in Requests : pc'[q] = "rotate" => tok[q] \notin revoked'
      BY <2>0 DEF Families, RotatesFresh, InTx
    <3>2. QED
      BY <2>0, <3>1, QuietStep
  <2>1. ASSUME NEW r \in Requests, RefreshStep(r)
        PROVE  Families'
    <3>1. CASE LockAs(r, "rotate") \/ LockAs(r, "replay")
      BY <3>1, LockFamilies
    <3>2. CASE Refuse(r) \/ Victim(r) \/ Answer(r) \/ ReplayConflict(r)
      BY <3>2, ReturnQuiet DEF Refuse, Victim, Answer, ReplayConflict
    <3>3. CASE Replay(r)
      BY <3>3, ReplayFamilies
    <3>4. CASE Grant(r)
      BY <3>4, <2>0 DEF Grant, Goto, TypeOK, InTx
    <3>5. ASSUME NEW t \in Tokens, Refresh(r, t) \/ Rotate(r, t)
          PROVE  Families'
      BY <3>5, RefreshFamilies, RotateFamilies
    <3>6. QED
      BY <2>1, <3>1, <3>2, <3>3, <3>4, <3>5 DEF RefreshStep
  <2>2. ASSUME NEW r \in Requests, LoginStep(r)
        PROVE  Families'
    <3>1. ASSUME NEW u \in Users, Login(r, u)
          PROVE  Families'
      BY <3>1, <2>0 DEF Login, TypeOK, InTx
    <3>2. ASSUME NEW d \in Devices, InsertDevice(r, d)
          PROVE  Families'
      BY <3>2, <2>0 DEF InsertDevice, TypeOK, InTx
    <3>3. ASSUME NEW n \in Tokens, Issue(r, n)
          PROVE  Families'
      BY <3>3, IssueFamilies
    <3>4. QED
      BY <2>2, <3>1, <3>2, <3>3 DEF LoginStep
  <2>3. ASSUME NEW r \in Requests, RevokeStep(r)
        PROVE  Families'
    <3>1. CASE RevokeTokens(r)
      <4>1. pc[r] = "tokens" /\ pc' = [pc EXCEPT ![r] = "update"]
            /\ \A q \in Requests \ {r} : view'[q] = view[q]
        BY <3>1 DEF RevokeTokens, TypeOK
      <4>2. \A q \in Requests : pc'[q] \in InTx => q # r /\ pc'[q] = pc[q]
        BY <4>1 DEF TypeOK, InTx
      <4>3. \A q \in Requests : pc'[q] = "rotate" => tok[q] \notin revoked'
        BY <3>1, <4>2 DEF RevokeTokens, Families, RotatesFresh, InTx
      <4>4. QED
        BY <3>1, <4>1, <4>2, <4>3, QuietStep DEF RevokeTokens
    <3>2. CASE RevokeDone(r)
      <4>1. PICK written \in SUBSET issued :
              /\ written \cap LockedRows(r) = {} /\ revoked' = revoked \cup written
              /\ Return(r) /\ Commit(r, written)
        BY <3>2 DEF RevokeDone, TypeOK
      <4>2. \A q \in Requests : pc'[q] \in InTx =>
              /\ q # r /\ pc'[q] = pc[q] /\ tok'[q] = tok[q] /\ view'[q] = view[q]
              /\ changed[q] \subseteq changed'[q]
        BY <4>1, ReturnFrame
      <4>3. \A q \in Requests \ {r} : pc[q] = "rotate" => tok[q] \notin written
        BY <4>1 DEF LockedRows, HoldsLock
      <4>4. \A q \in Requests : pc'[q] = "rotate" => tok[q] \notin revoked'
        BY <4>1, <4>2, <4>3 DEF Families, RotatesFresh, InTx
      <4>5. QED
        BY <3>2, <4>1, <4>2, <4>4, QuietStep DEF RevokeDone
    <3>3. CASE SuspendDevices(r)
      BY <3>3, ReturnQuiet DEF SuspendDevices
    <3>4. ASSUME NEW S \in Scopes, RevokeDevices(r, S)
          PROVE  Families'
      BY <3>4, <2>0 DEF RevokeDevices, TypeOK, InTx
    <3>5. ASSUME NEW u \in Users, Suspend(r, u)
          PROVE  Families'
      BY <3>5, <2>0 DEF Suspend, TypeOK, InTx
    <3>6. QED
      BY <2>3, <3>1, <3>2, <3>3, <3>4, <3>5 DEF RevokeStep
  <2>4. ASSUME NEW r \in Requests, Fail(r)
        PROVE  Families'
    BY <2>4, ReturnQuiet DEF Fail
  <2>5. ASSUME NEW u \in Users, Unsuspend(u)
        PROVE  Families'
    BY <2>5, <2>0 DEF Unsuspend
  <2>6. ASSUME NEW t \in Tokens, Expire(t)
        PROVE  Families'
    BY <2>6, <2>0 DEF Expire
  <2>7. CASE UNCHANGED vars
    BY <2>7, <2>0 DEF vars
  <2>8. QED
    BY <2>1, <2>2, <2>3, <2>4, <2>5, <2>6, <2>7 DEF Next
<1>3. QED
  BY <1>1, <1>2, TypeCorrect, PTL DEF Spec

\* No number of requests that present a family's tokens at once forks a session.
THEOREM SessionsNeverFork == Spec => []OneUnused
<1>1. Families => OneUnused
  BY DEF Families
<1>2. QED
  BY <1>1, FamiliesInductive, PTL

\* A family that a replay has revoked is dead for good, whatever rotations,
\* revocations and failures surround the replay.
THEOREM BurnedFamiliesDie == Spec => []BurnedStaysDead
<1>1. Families => BurnedStaysDead
  BY DEF Families
<1>2. QED
  BY <1>1, FamiliesInductive, PTL

-----------------------------------------------------------------------------
(* Devices that have been shut out.                                        *)

\* A device is accounted for if it is revoked, or a statement that was to revoke
\* it has failed. That holds for the devices of a revocation under way as of one
\* that has been answered. A request that came later holds a token of such a
\* device, and has an access token only in the second case.
Gone(d) == device[d] = "revoked" \/ d \in unwritten
ShutOut ==
  /\ \A d \in shut : Gone(d)
  /\ \A r \in Requests : \A d \in named[r] : Gone(d)
  /\ \A r \in late : /\ pc[r] \in InTx \cup {"device", "granted"} /\ devOf[tok[r]] \in shut
                     /\ pc[r] = "granted" => devOf[tok[r]] \in unwritten

\* No statement brings a revoked device back or forgets a failure, the device of
\* a token is never changed, and only devices that were named are shut out.
LEMMA DevicesLast ==
  ASSUME TypeOK, [Next]_vars
  PROVE  /\ \A d \in Devices : device[d] = "revoked" => device'[d] = "revoked"
         /\ unwritten \subseteq unwritten'
         /\ \A t \in issued : devOf'[t] = devOf[t]
         /\ \A r \in Requests : \A d \in named'[r] : d \in named[r] \/ Gone(d)'
         /\ shut \subseteq shut' /\ \A d \in shut' \ shut : \E r \in Requests : d \in named[r]
<1> USE DEF users, flags, rows, frame, history
<1> DEFINE Lasting == \A d \in Devices : device[d] = "revoked" => device'[d] = "revoked"
           Fewer   == \A r \in Requests : named'[r] \subseteq named[r]
<1>1. ASSUME NEW r \in Requests, Return(r)
      PROVE  Fewer
  BY <1>1 DEF Return, TypeOK
<1>2. ASSUME NEW r \in Requests, NEW d \in Devices, InsertDevice(r, d)
      PROVE  Lasting /\ UNCHANGED <<devOf, shut, unwritten, named>>
  BY <1>2 DEF InsertDevice, TypeOK
<1>3. ASSUME NEW r \in Requests, SuspendDevices(r)
      PROVE  Lasting /\ Fewer /\ UNCHANGED <<devOf, shut, unwritten>>
  BY <1>1, <1>3 DEF SuspendDevices, Shutting, TypeOK
<1>4. ASSUME NEW r \in Requests, NEW S \in Scopes, RevokeDevices(r, S)
      PROVE  /\ Lasting /\ unwritten \subseteq unwritten' /\ UNCHANGED <<devOf, shut>>
             /\ \A q \in Requests : \A d \in named'[q] : d \in named[q] \/ Gone(d)'
  <2>1. named' = [named EXCEPT ![r] = {d \in S : device[d] # "absent"}] /\ S \subseteq Devices
    BY <1>4 DEF RevokeDevices, Scopes, DevicesOf
  <2>2. \A d \in S : device[d] # "absent" => Gone(d)'
    BY <1>4, <2>1 DEF RevokeDevices, Shutting, Gone, TypeOK
  <2>3. Lasting /\ unwritten \subseteq unwritten' /\ UNCHANGED <<devOf, shut>>
    BY <1>4 DEF RevokeDevices, Shutting, TypeOK
  <2>4. QED
    BY <2>1, <2>2, <2>3 DEF TypeOK
<1>5. ASSUME NEW r \in Requests, NEW n \in Tokens, Issue(r, n) \/ Rotate(r, n)
      PROVE  /\ \A t \in issued : devOf'[t] = devOf[t]
             /\ Fewer /\ UNCHANGED <<device, shut, unwritten>>
  <2>1. (\A t \in issued : devOf'[t] = devOf[t]) /\ UNCHANGED <<device, shut, unwritten>>
    BY <1>5 DEF Issue, Rotate, InsertToken, TypeOK
  <2>2. Fewer
    BY <1>1, <1>5 DEF Issue, Rotate, Goto
  <2>3. QED
    BY <2>1, <2>2
<1>6. ASSUME NEW r \in Requests, RevokeDone(r)
      PROVE  Fewer /\ UNCHANGED <<device, devOf, unwritten>> /\ shut' = shut \cup named[r]
  BY <1>1, <1>6 DEF RevokeDone
<1>7. ASSUME NEW r \in Requests,
             \/ RefreshStep(r) /\ ~ \E n \in Tokens : Rotate(r, n)
             \/ Fail(r) \/ RevokeTokens(r)
             \/ \E u \in Users : Login(r, u) \/ Suspend(r, u)
      PROVE  Fewer /\ UNCHANGED <<device, devOf, shut, unwritten>>
  <2>1. UNCHANGED <<device, devOf, shut, unwritten>> /\ (Return(r) \/ UNCHANGED named)
    BY <1>7 DEF RefreshStep, LockAs, Refuse, Replay, ReplayConflict, Victim, Grant, Answer, Refresh, Fail,
                RevokeTokens, Login, Suspend, Goto
  <2>2. QED
    BY <1>1, <2>1
<1>8. ASSUME (\E u \in Users : Unsuspend(u)) \/ (\E t \in Tokens : Expire(t)) \/ UNCHANGED vars
      PROVE  UNCHANGED <<device, devOf, shut, unwritten, named>>
  BY <1>8 DEF Unsuspend, Expire, vars
<1>9. QED
  <2>1. ASSUME NEW r \in Requests, RefreshStep(r) \/ LoginStep(r) \/ RevokeStep(r) \/ Fail(r)
        PROVE  /\ Lasting /\ unwritten \subseteq unwritten'
               /\ \A t \in issued : devOf'[t] = devOf[t]
               /\ \A q \in Requests : \A d \in named'[q] : d \in named[q] \/ Gone(d)'
               /\ shut \subseteq shut' /\ \A d \in shut' \ shut : \E q \in Requests : d \in named[q]
    BY <1>2, <1>3, <1>4, <1>5, <1>6, <1>7, <2>1 DEF RefreshStep, LoginStep, RevokeStep
  <2>2. QED
    BY <1>8, <2>1 DEF Next

\* What a step makes of the requests that came too late: they hold on to their
\* token, and are granted nothing if its device is not active.
LEMMA LateNext ==
  ASSUME TypeOK, ShutOut, [Next]_vars
  PROVE  \A r \in late' : /\ pc'[r] \in InTx \cup {"device", "granted"} /\ tok'[r] \in issued
                          /\ devOf[tok'[r]] \in shut
                          /\ pc'[r] = "granted" => devOf[tok'[r]] \in unwritten
<1> USE DEF users, flags, rows, frame, history
<1> DEFINE Late(r) == /\ pc'[r] \in InTx \cup {"device", "granted"} /\ tok'[r] \in issued
                      /\ devOf[tok'[r]] \in shut
                      /\ pc'[r] = "granted" => devOf[tok'[r]] \in unwritten
<1>0. \A r \in late : /\ pc[r] \in InTx \cup {"device", "granted"} /\ tok[r] \in issued
                      /\ devOf[tok[r]] \in shut /\ Gone(devOf[tok[r]])
                      /\ pc[r] = "granted" => devOf[tok[r]] \in unwritten
  BY TokIssued DEF ShutOut, TypeOK
<1>1. ASSUME NEW r \in Requests, Return(r)
      PROVE  \A q \in late' : Late(q)
  BY <1>0, <1>1 DEF Return, TypeOK
<1>2. ASSUME NEW r \in Requests, NEW t \in Tokens, Refresh(r, t)
      PROVE  \A q \in late' : Late(q)
  BY <1>0, <1>2 DEF Refresh, TypeOK, InTx
<1>3. ASSUME NEW r \in Requests, NEW label \in InTx \cup {"device"}, Goto(r, label)
      PROVE  \A q \in late' : Late(q)
  BY <1>0, <1>3 DEF Goto, TypeOK, InTx
<1>4. ASSUME NEW r \in Requests, Grant(r)
      PROVE  \A q \in late' : Late(q)
  <2>1. r \in late => devOf[tok[r]] \in unwritten
    BY <1>0, <1>4 DEF Grant, Grantable, Gone
  <2>2. QED
    BY <1>0, <1>4, <2>1 DEF Grant, Goto, TypeOK
<1>5. ASSUME NEW r \in Requests, pc[r] \notin InTx \cup {"device", "granted"}, UNCHANGED <<tok, late>>,
             \A q \in Requests \ {r} : pc'[q] = pc[q]
      PROVE  \A q \in late' : Late(q)
  BY <1>0, <1>5 DEF TypeOK
<1>6. ASSUME NEW r \in Requests, RefreshStep(r) \/ LoginStep(r) \/ RevokeStep(r) \/ Fail(r)
      PROVE  \A q \in late' : Late(q)
  <2>1. CASE RefreshStep(r) \/ Fail(r)
    <3>1. CASE \/ Refuse(r) \/ Replay(r) \/ ReplayConflict(r) \/ Victim(r) \/ Answer(r) \/ Fail(r)
      BY <1>1, <3>1 DEF Refuse, Replay, ReplayConflict, Victim, Answer, Fail
    <3>2. CASE LockAs(r, "rotate") \/ LockAs(r, "replay") \/ (\E n \in Tokens : Rotate(r, n))
      BY <1>3, <3>2 DEF LockAs, Rotate, InTx
    <3>3. QED
      BY <1>2, <1>4, <2>1, <3>1, <3>2 DEF RefreshStep
  <2>2. CASE (\E n \in Tokens : Issue(r, n)) \/ RevokeDone(r) \/ SuspendDevices(r)
    BY <1>1, <2>2 DEF Issue, RevokeDone, SuspendDevices
  <2>3. CASE \/ \E u \in Users : Login(r, u) \/ Suspend(r, u)
             \/ \E d \in Devices : InsertDevice(r, d)
             \/ \E S \in Scopes : RevokeDevices(r, S)
             \/ RevokeTokens(r)
    <3>1. /\ pc[r] \notin InTx \cup {"device", "granted"} /\ UNCHANGED <<tok, late>>
          /\ \A q \in Requests \ {r} : pc'[q] = pc[q]
      BY <2>3 DEF Login, Suspend, InsertDevice, RevokeDevices, RevokeTokens, InTx, TypeOK
    <3>2. QED
      BY <1>5, <3>1
  <2>4. QED
    BY <1>6, <2>1, <2>2, <2>3 DEF LoginStep, RevokeStep
<1>7. CASE (\E u \in Users : Unsuspend(u)) \/ (\E t \in Tokens : Expire(t)) \/ UNCHANGED vars
  BY <1>0, <1>7 DEF Unsuspend, Expire, vars
<1>8. QED
  BY <1>6, <1>7 DEF Next

\* After a logout or a revocation has been answered, no token of the device
\* gains access any more, not even the successor that a rotation inserts behind
\* the back of the statement that revokes the device's tokens, and even if that
\* statement fails: unless the one that revokes the device has failed.
THEOREM NoAccessAfterShut == Spec => []NoAccessUnlessFailed
<1>1. Init => ShutOut
  BY DEF Init, ShutOut
<1>2. TypeOK /\ ShutOut /\ [Next]_vars => ShutOut'
  <2> SUFFICES ASSUME TypeOK, ShutOut, [Next]_vars
               PROVE  ShutOut'
    OBVIOUS
  <2>1. \A d \in Devices : Gone(d) => Gone(d)'
    BY DevicesLast DEF Gone
  <2>2. \A r \in Requests : \A d \in named'[r] : Gone(d)'
    BY <2>1, DevicesLast DEF ShutOut, TypeOK
  <2>3. \A d \in shut' : Gone(d)'
    BY <2>1, DevicesLast DEF ShutOut, TypeOK
  <2>4. \A r \in late' : /\ pc'[r] \in InTx \cup {"device", "granted"} /\ devOf'[tok'[r]] \in shut'
                         /\ pc'[r] = "granted" => devOf'[tok'[r]] \in unwritten'
    BY DevicesLast, LateNext
  <2>5. QED
    BY <2>2, <2>3, <2>4 DEF ShutOut, InTx
<1>3. ShutOut => NoAccessUnlessFailed
  BY DEF ShutOut, NoAccessUnlessFailed
<1>4. QED
  BY <1>1, <1>2, <1>3, TypeCorrect, PTL DEF Spec

=============================================================================
