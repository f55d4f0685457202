\* A session of three messages; launches, failing uploads, kills, losses and
\* repetitions, two runs of sendText and two handlers.
SPECIFICATION OverlapSpec
CONSTANTS
  m1 = m1 m2 = m2 m3 = m3 o1 = o1 o2 = o2 u1 = u1 u2 = u2 h1 = h1 h2 = h2
  NoMsg = NoMsg NoOpk = NoOpk
  Msgs = {m1, m2, m3}
  Opks = {o1, o2}
  Senders = {u1, u2}
  Handlers = {h1, h2}
  LowWater = 1
  TargetPool = 1
  MaxStarts = 2
SYMMETRY Symmetry
CONSTRAINT Bounded
INVARIANTS TypeOK  OpenedInOrder AckedIsKept KeySharedOnlyByRace ReopenedOnlyByRace AckedBehindUnlessRace
PROPERTIES OutboxUntilStored ImplementsCourier
