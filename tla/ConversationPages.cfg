\* The conversation list alone, without a write beside it.
SPECIFICATION Spec
CONSTANTS
  Parts = {"paging"}
  Kinds = {"conversations"}
  Ids <- MCIds
  Limits = {1, 3}
  MaxLimit = 2
  MaxMillis = 2
  MaxChanges = 0
  Keys = {alice}
  Rate = 1
  Burst = 2
  Cleanup = 2
  MaxClock = 6
  Writers = {w1, w2, w3}
  MaxVersion = 3
  MaxPuts = 2
  Buses = {"nats", "rabbit"}
  Events = {e1, e2}
  MaxDeliver = 2
  MaxFaults = 2
  People = {bob, carol, dave}
  Calls = {c1, c2, c3}
INVARIANT ConversationsComplete
\* A part stops when its bounds are used up and nothing is under way.
CHECK_DEADLOCK FALSE
