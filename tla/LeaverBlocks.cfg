\* The system event a leaver's own departure causes.
SPECIFICATION Spec
CONSTANTS
  Users = {u1, u2, u3}
  Founders = {u1, u2, u3}
  Nobody = nobody
  Messages = {m1}
  Workers = {w1}
  MaxAttempts = 2
  MaxCrashes = 0
  MaxErrors = 0
  MaxReplays = 0
  MaxEvents = 2
  MaxNotices = 1
INVARIANT SystemEventUpdatesConversations
\* Bounds used up and nothing under way: the model may stop there.
CHECK_DEADLOCK FALSE
