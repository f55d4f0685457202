-------------------------------- MODULE MCHub --------------------------------
(* Instances of Hub for TLC. *)
EXTENDS Hub, TLC

CONSTANTS c1, c2, c3, c4, m1, m2, d1, d2

\* Every connection and every message belongs to one device ...
OneDevice   == [c \in Conns |-> d1]
ToOneDevice == [m \in Messages |-> d1]

\* ... or a second device is connected next to it.
TwoDevices   == [c \in Conns |-> IF c = c4 THEN d2 ELSE d1]
ToTwoDevices == [m \in Messages |-> IF m = m2 THEN d2 ELSE d1]

Fresh(S) == \A c \in S : sock[c] = "fresh"

\* Bound: three connections of one device come and go while nothing is stored,
\* or there are messages, and the hub of one process has one connection of each
\* device: the admin phone's comes and goes, the other one stays, neither is
\* answered by a handler.
ReconnectsOrMessages ==
  \/ rows = <<>> /\ Fresh({c4})
  \/ /\ Fresh({c2, c3}) /\ running = "running" /\ sock[c4] # "down"
     /\ \A c \in Conns : Reply \notin Rng(buf[c])
=============================================================================
