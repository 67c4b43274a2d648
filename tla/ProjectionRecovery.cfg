\* Two workers, a crash: every event settles, as the abstract delivery promises.
SPECIFICATION FairSpec
CONSTANTS
  Users = {u1, u2}
  Founders = {u1}
  Nobody = nobody
  Messages = {m1}
  Workers = {w1, w2}
  MaxAttempts = 2
  MaxCrashes = 1
  MaxErrors = 0
  MaxReplays = 0
  MaxEvents = 2
  MaxNotices = 0
PROPERTIES DeliversEvents AllSettle
\* Bounds used up and nothing under way: the model may stop there.
CHECK_DEADLOCK FALSE
