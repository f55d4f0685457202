------------------------------- MODULE Overlap -------------------------------
(***************************************************************************)
(* What overlapping runs of sendText, and overlapping handlers of the      *)
(* phone, can spoil. Neither app takes a lock from loading a ratchet, or   *)
(* finding a prekey, to saving the ratchet, so two runs may save the same  *)
(* step twice or undo each other's. The steps are those of Conversation;   *)
(* two history variables note the sessions where that has happened.        *)
(***************************************************************************)
EXTENDS Conversation

VARIABLES
  sendRaced, \* sessions whose ratchet a run of sendText saved over another's
  recvRaced  \* sessions of which two handlers used one prekey, or one ratchet

overlapVars == <<vars, sendRaced, recvRaced>>

\* A run seals with a ratchet that is no longer the saved one, if not with the
\* new one of its own session.
SealsOverlapping(u) == Seal(u) /\ send[u].r.session # send[u].m /\ send[u].r # uRatchet

\* A handler uses a prekey that another has deleted since it was looked up ...
ConsumesOverlapping(h) ==
  ConsumePrekey(h) /\ env[hand[h].m].opk # NoOpk /\ env[hand[h].m].opk \notin opks

\* ... or saves the successor of a ratchet that is no longer the saved one ...
OpensOverlapping(h) ==
  /\ OpenEnvelope(h) /\ ~ Bootstraps(hand[h].m)
  /\ Opens(hand[h].r, env[hand[h].m]) /\ hand[h].r # pRatchet

\* ... or such a ratchet itself, after a reply.
SavesOverlapping(h) == SaveReply(h) /\ hand[h].r # pRatchet

OverlapInit == Init /\ sendRaced = {} /\ recvRaced = {}

OverlapNext ==
  /\ Next
  /\ sendRaced' = sendRaced \cup {send[u].r.session : u \in {v \in Senders : SealsOverlapping(v)}}
  /\ recvRaced' = recvRaced
       \cup {hand[h].m : h \in {g \in Handlers : ConsumesOverlapping(g)}}
       \cup {hand[h].r.session : h \in {g \in Handlers : OpensOverlapping(g) \/ SavesOverlapping(g)}}

OverlapSpec == OverlapInit /\ [][OverlapNext]_overlapVars

-----------------------------------------------------------------------------
(* Properties.                                                             *)

\* Two messages that leave the app are sealed with one key only in a session
\* where a run of sendText saved the ratchet over another's: no kill between the
\* steps of sendText, no resend from the outbox and no second session leads to it.
KeySharedOnlyByRace ==
  \A a, b \in handed :
    env[a].session = env[b].session /\ env[a].n = env[b].n => a = b \/ env[a].session \in sendRaced

\* The phone opens a message of a session that began with a one-time prekey a
\* second time only where two handlers used one prekey or one ratchet: no repeated
\* or retried event and no kill of the phone leads to it.
ReopenedOnlyByRace == \A m \in reopened : Protected(m) => env[m].session \in recvRaced

\* Except in such sessions, the ratchet no longer waits for a message the server
\* has been told is delivered, and will not deliver again.
AckedBehindUnlessRace ==
  \A m \in acked : Protected(m) /\ env[m].session = pRatchet.session /\ pRatchet.session \notin recvRaced =>
    env[m].n < pRatchet.n
=============================================================================
