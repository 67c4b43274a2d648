\* Two sends that interleave, a notice of the system, a crash, a retry and a replay.
SPECIFICATION Spec
CONSTANTS
  Users = {u1, u2}
  Founders = {u1, u2}
  Nobody = nobody
  Messages = {m1, m2}
  Workers = {w1}
  MaxAttempts = 2
  MaxCrashes = 1
  MaxErrors = 0
  MaxReplays = 1
  MaxEvents = 2
  MaxNotices = 1
SYMMETRY Symmetry
INVARIANTS TypeOK CompletedReflected ReadWithinChat SummaryAddressed
PROPERTY ViewsNeverRegress
\* Bounds used up and nothing under way: the model may stop there.
CHECK_DEADLOCK FALSE
