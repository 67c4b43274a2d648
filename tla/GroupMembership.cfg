\* Two transactions and one other request at a time; room for three of four.
SPECIFICATION Spec
CONSTANTS
  Users = {u1, u2, u3, u4}
  MaxMembers = 3
  GroupDoc = groupDoc
  Nobody = nobody
  Txns = {t1, t2}
  Requests = {r1}
SYMMETRY Symmetry
INVARIANTS TypeOK CountsMembers OnlyOwnerRules
PROPERTIES OwnerLeavesByHandingOver ServesOneByOne
\* A dismissed group stops for good.
CHECK_DEADLOCK FALSE
