\* One worker that gives up at the first error, a database error, and one repair beside it.
SPECIFICATION RepairSpec
CONSTANTS
  Users = {u1, u2}
  Founders = {u1}
  Nobody = nobody
  Messages = {m1}
  Workers = {w1}
  MaxAttempts = 1
  MaxCrashes = 0
  MaxErrors = 1
  MaxReplays = 0
  MaxEvents = 3
  MaxNotices = 1
  MaxRepairs = 1
SYMMETRY Symmetry
INVARIANTS RepairedConverges RefusedOnlyByChange UnfaultedConverges
PROPERTY ViewsNeverRegress
\* Bounds used up and nothing under way: the model may stop there.
CHECK_DEADLOCK FALSE
