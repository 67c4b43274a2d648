\* One behaviour of one part at a time; bounds are those of each part.
SPECIFICATION Spec
CONSTANTS
  Parts = {"paging", "limiter", "users", "bus", "chats"}
  Kinds = {"history", "search", "conversations", "members", "groups"}
  Ids <- MCIds
  Limits = {1, 3}
  MaxLimit = 2
  MaxMillis = 2
  MaxChanges = 2
  Keys = {alice}
  Rate = 1
  Burst = 2
  Cleanup = 2
  MaxClock = 6
  Writers = {w1, w2, w3}
  MaxVersion = 3
  MaxPuts = 2
  Buses = {"nats", "rabbit"}
  Events = {e1, e2}
  MaxDeliver = 2
  MaxFaults = 2
  People = {bob, carol, dave}
  Calls = {c1, c2, c3}
INVARIANTS SteadyRowsOnce WithinRate AcknowledgedIsKept StaleMeansNewer NothingVanishes DeadAfterAllTries OneSingleChat
\* A part stops when its bounds are used up and nothing is under way.
CHECK_DEADLOCK FALSE
