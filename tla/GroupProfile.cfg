\* Two requests and three goroutines on one group; or two consumers that push
\* it while one request and two goroutines write it.
SPECIFICATION MCSpec
CONSTANTS
  a = a
  b = b
  Users = {a, b}
  Founders <- MCFounders
  Admins = {a}
  JoinMethods = {"invite", "free"}
  Default = "free"
  Requests = {r1, r2}
  Ops <- MCOps
  Jobs = {j1, j2, j3}
  AvatarMembers = 1
  Consumers = {g1, g2}
  MaxRevs = 4
  PushedRevs = 3
SYMMETRY Symmetry
INVARIANTS TypeOK MembersSeeWhatWasAnnounced AvatarShowsMembers
PROPERTIES UnnamedSettingsKept ChosenLostOnlyByOverlap
\* A dismissed group stops for good.
CHECK_DEADLOCK FALSE
