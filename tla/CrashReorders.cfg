\* A crash between two membership events of one user.
SPECIFICATION Spec
CONSTANTS
  Users = {u1, u2}
  Founders = {u1, u2}
  Nobody = nobody
  Messages = {m1}
  Workers = {w1}
  MaxAttempts = 2
  MaxCrashes = 1
  MaxErrors = 0
  MaxReplays = 0
  MaxEvents = 2
  MaxNotices = 0
INVARIANT MembershipConverges
\* Bounds used up and nothing under way: the model may stop there.
CHECK_DEADLOCK FALSE
