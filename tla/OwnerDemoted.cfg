\* A transfer commits between the checks and the write of SetMemberRole.
SPECIFICATION Spec
CONSTANTS
  Users = {u1, u2, u3}
  MaxMembers = 2
  GroupDoc = groupDoc
  Nobody = nobody
  Txns = {t1, t2}
  Requests = {r1}
SYMMETRY Symmetry
INVARIANT OwnerHoldsRole
\* A dismissed group stops for good.
CHECK_DEADLOCK FALSE
