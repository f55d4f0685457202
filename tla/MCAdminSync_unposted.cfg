\* One phone with a session, one reply, no faults.
SPECIFICATION FairSpec
CONSTANTS
  q1 = q1 q2 = q2 q3 = q3 u1 = u1 u2 = u2 p1 = p1 p2 = p2
  Admin = Admin NoReply = NoReply
  Replies = {q1, q3}
  Users = {u1, u2}
  UserOf <- TwoUsers
  Phones = {p1}
  Page = 2
  MaxFaults = 0
PROPERTIES SentIsStored
CHECK_DEADLOCK FALSE
