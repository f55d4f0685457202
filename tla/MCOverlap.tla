------------------------------ MODULE MCOverlap ------------------------------
(* Instances of Overlap, and so of Conversation, for TLC. *)
EXTENDS Overlap, TLC

CONSTANTS m1, m2, m3, o1, o2, u1, u2, h1, h2

Symmetry == Permutations(Senders) \cup Permutations(Handlers)

\* Messages are typed, and prekeys generated, in one order: their names tell
\* nothing apart.
Named == (m2 \in typed => m1 \in typed) /\ (m3 \in typed => m2 \in typed) /\ (o2 \in used => o1 \in used)

RelaysTake == \A m \in inbox \ (mirrored \cup retried) : \E h \in Handlers : hand[h].m = m /\ hand[h].pc = "relay"

\* Bounds of the long run: at most two events are on their way to the server, and
\* one message is published again; a relay that fails is not followed further, unless
\* it failed for want of a row. A second message meets either a second launch, while
\* nothing is stored, or a message that is published again; a third meets neither.
FewRetries ==
  /\ Cardinality(retried) <= 1 /\ Cardinality(uplink) <= 2 /\ RelaysTake
  /\ Cardinality(typed) = 2 => rows = {} \/ (spk <= 1 /\ (retried = {} \/ uplink = {}))
  /\ typed = Msgs => retried = {} /\ spk <= 1 /\ (Cardinality(uplink) <= 1 \/ opened = {})

\* What only overlapping runs of sendText lead to: a message in the works while a
\* later one is, two sessions, numbers out of order.
InOrderOf == {<<m1, m2>>, <<m1, m3>>, <<m2, m3>>}
SendersOverlap ==
  \/ sendRaced # {}
  \/ \E p \in InOrderOf :
       \/ p[2] \in typed /\ \E u \in Senders : send[u].m = p[1]
       \/ Bootstraps(p[1]) /\ Bootstraps(p[2])
       \/ env[p[2]].session # NoMsg /\ env[p[1]].session = env[p[2]].session /\ env[p[1]].n >= env[p[2]].n

HandlersOverlap ==
  \/ recvRaced # {}
  \/ \E h, g \in Handlers : h # g /\ hand[h].pc # "idle" /\ hand[g].pc # "idle"

\* Bounds on overlaps: runs of sendText overlap before the phone has opened
\* anything, its handlers once both of two messages are stored.
Bounded ==
  /\ Named /\ FewRetries
  /\ SendersOverlap => /\ spk <= 1 /\ Cardinality(uplink) <= 1
                       /\ opened = {} /\ \A h \in Handlers : hand[h].pc = "idle"
  /\ HandlersOverlap => /\ typed # Msgs /\ rows = typed /\ retried = {} /\ spk <= 1
                        /\ uplink = {} /\ outbox = {}
==============================================================================
