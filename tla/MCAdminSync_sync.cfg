\* Two phones, two replies of which a page holds one, a fault.
SPECIFICATION FairSpec
CONSTANTS
  q1 = q1 q2 = q2 q3 = q3 u1 = u1 u2 = u2 p1 = p1 p2 = p2
  Admin = Admin NoReply = NoReply
  Replies = {q1, q2}
  Users = {u1}
  UserOf <- TwoUsers
  Phones = {p1, p2}
  Page = 1
  MaxFaults = 1
INVARIANTS TypeOK CopiesAccounted SentWasSealed OnScreen
PROPERTIES VerdictIsFinal EveryReplyDecided
CHECK_DEADLOCK FALSE
