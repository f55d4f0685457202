------------------------------- MODULE Mailbox -------------------------------
(***************************************************************************)
(* What the backend promises about stored messages, whatever connections   *)
(* come and go: at-least-once delivery to the recipient, and a delivered   *)
(* mark that means the recipient has the message.                          *)
(***************************************************************************)
CONSTANTS Devices, Messages, To

VARIABLES posted,   \* messages the server has stored
          seen,     \* pairs of a device and a message pushed to it
          fetched,  \* pairs of a device and a message it has read for itself
          acked     \* messages marked as delivered

vars == <<posted, seen, fetched, acked>>

Init == posted = {} /\ seen = {} /\ fetched = {} /\ acked = {}

Post(m) == /\ posted' = posted \cup {m}
           /\ UNCHANGED <<seen, fetched, acked>>

\* A push may repeat, and never reaches a device m is not addressed to.
Hand(m) == /\ m \in posted
           /\ seen' = seen \cup {<<To[m], m>>}
           /\ UNCHANGED <<posted, fetched, acked>>

\* What is stored can be read, by other devices of the recipient too.
Read(d, m) == /\ m \in posted
              /\ fetched' = fetched \cup {<<d, m>>}
              /\ UNCHANGED <<posted, seen, acked>>

\* The mark means that the device m is addressed to has it.
Ack(m) == /\ <<To[m], m>> \in seen \cup fetched
          /\ acked' = acked \cup {m}
          /\ UNCHANGED <<posted, seen, fetched>>

Next == \E m \in Messages : Post(m) \/ Hand(m) \/ Ack(m) \/ \E d \in Devices : Read(d, m)

Spec == Init /\ [][Next]_vars
=============================================================================
