------------------------------- MODULE Courier -------------------------------
(***************************************************************************)
(* What the two apps and the server promise together about a message that  *)
(* a user types, whatever is lost, repeated, reordered or killed on its    *)
(* way: it gets its place in a session once, waits until it is posted, is  *)
(* opened after its predecessors, kept before it is shown to the dashboard *)
(* or confirmed.  Nothing says that it arrives.                            *)
(***************************************************************************)
EXTENDS Naturals

CONSTANTS Msgs, NoMsg

VARIABLES
  place,  \* the session and the number under which a message is sealed
  due,    \* messages that the sender will send again
  posted, \* messages the server has stored
  opened, \* messages the recipient has opened
  kept,   \* ... and has in its database
  shown,  \* messages with a plaintext on the dashboard
  acked   \* messages marked as delivered

vars == <<place, due, posted, opened, kept, shown, acked>>

Nowhere == [session |-> NoMsg, n |-> 0]
Placed(m) == place[m].session # NoMsg

Init ==
  /\ place = [m \in Msgs |-> Nowhere]
  /\ due = {} /\ posted = {} /\ opened = {} /\ kept = {} /\ shown = {} /\ acked = {}

\* In a session of its own, or in one that another message has begun.
Place(m) ==
  /\ ~ Placed(m)
  /\ place' = [place EXCEPT ![m] = place'[m]]
  /\ place'[m].session \in {m} \cup {s \in Msgs : Placed(s)}
  /\ UNCHANGED <<due, posted, opened, kept, shown, acked>>

Queue(m) ==
  /\ Placed(m) /\ due' = due \cup {m}
  /\ UNCHANGED <<place, posted, opened, kept, shown, acked>>

\* Only what is stored is no longer due.
Post(m) ==
  /\ Placed(m) /\ posted' = posted \cup {m} /\ due' \in {due, due \ {m}}
  /\ UNCHANGED <<place, opened, kept, shown, acked>>

Follows(m) ==
  \A i \in 0 .. place[m].n - 1 :
    \E k \in opened : place[k].session = place[m].session /\ place[k].n = i

Open(m) ==
  /\ m \in posted /\ Follows(m) /\ opened' = opened \cup {m}
  /\ UNCHANGED <<place, due, posted, kept, shown, acked>>

Keep(m) ==
  /\ m \in opened /\ kept' = kept \cup {m}
  /\ UNCHANGED <<place, due, posted, opened, shown, acked>>

Show(m) ==
  /\ m \in kept /\ shown' = shown \cup {m}
  /\ UNCHANGED <<place, due, posted, opened, kept, acked>>

Ack(m) ==
  /\ m \in kept /\ acked' = acked \cup {m}
  /\ UNCHANGED <<place, due, posted, opened, kept, shown>>

Next ==
  \E m \in Msgs : Place(m) \/ Queue(m) \/ Post(m) \/ Open(m) \/ Keep(m) \/ Show(m) \/ Ack(m)

Spec == Init /\ [][Next]_vars
=============================================================================
