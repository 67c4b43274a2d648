----------------------- MODULE GroupMembership_proofs -----------------------
(***************************************************************************)
(* Proofs about GroupMembership.  The strengthening says what the writes   *)
(* of an open transaction are worth: applied to the group as it is NOW,    *)
(* not as it was in the snapshot, they keep the count right, the owner     *)
(* unique and the step one that GroupRegistry allows.  It is inductive     *)
(* because every transaction writes the group document: a commit leaves no *)
(* other transaction open, and a role set in between touches only rows     *)
(* that no transaction left open is going to write.                        *)
(***************************************************************************)
EXTENDS GroupMembership, FiniteSetTheorems, TLAPS

AllRows == [Users -> Roles \union {"keep"}]
AllRoles == [Users -> Roles]

\* The rows ro once rows are written, and the users who have a row.
Overlay(ro, rows) == [u \in Users |-> IF rows[u] = "keep" THEN ro[u] ELSE rows[u]]
MembersOf(ro) == {u \in Users : ro[u] # "none"}

\* From owner ow and members M to owner o, members N and status st is a step
\* GroupRegistry allows an active group.
Legal(ow, M, o, N, st) ==
  \/ /\ st = "active" /\ o = ow
     /\ M \subseteq N /\ M # N /\ Cardinality(N) <= MaxMembers
  \/ /\ st = "active"
     /\ \E u \in M : /\ N = M \ {u} /\ M # {u}
                     /\ \/ o = ow
                        \/ u = ow /\ o \in N
  \/ st = "active" /\ N = M /\ o \in M
  \/ st = "dismissed" /\ N = M /\ o = ow

HandsOver(ro, rows, o) ==
  \A u \in Users : ro[u] = "owner" /\ rows[u] = "none"
                     => o # u /\ rows[o] = "owner"

\* The writes rows, o, d, st are sound for a group with rows ro, owner ow and
\* count c.
Sound(ro, ow, c, rows, o, d, st) ==
  /\ o \in Users /\ d \in Int
  /\ c + d = Cardinality(MembersOf(Overlay(ro, rows)))
  /\ \A u \in Users : Overlay(ro, rows)[u] = "owner" => u = o
  /\ Legal(ow, MembersOf(ro), o, MembersOf(Overlay(ro, rows)), st)
  /\ HandsOver(ro, rows, o)

SoundPlan(p) ==
  p.stage = "open" =>
    /\ status = "active"
    /\ Sound(roles, owner, count, p.rows, p.owner, p.delta, p.status)

IInv ==
  /\ TypeOK /\ CountsMembers /\ OnlyOwnerRules
  /\ \A t \in Txns : SoundPlan(txns[t])

---------------------------------------------------------------------------

\* The sets of users that are counted are finite.
LEMMA Finite ==
  ASSUME NEW ro
  PROVE  IsFiniteSet(MembersOf(ro)) /\ Cardinality(MembersOf(ro)) \in Nat
<1>1. MembersOf(ro) \in SUBSET Users
  BY DEF MembersOf
<1> QED
  BY <1>1, MembershipAssumption, FS_Subset, FS_CardinalityType

\* NoPlan has the type of a plan and is not open.
LEMMA NoPlanType == NoPlan \in Plan /\ NoPlan.stage = "idle"
BY SMTT(30), MembershipAssumption DEF NoPlan, Plan, NoRows, Roles, Statuses

\* A transaction that begins with sound writes keeps the invariant.
LEMMA BeginKeeps ==
  ASSUME IInv, NEW t \in Txns, NEW rows \in AllRows, NEW o, NEW d,
         NEW st \in Statuses, status = "active",
         Sound(roles, owner, count, rows, o, d, st),
         Begin(t, rows, o, d, st)
  PROVE  IInv'
<1> DEFINE p == [stage |-> "open", rows |-> rows, owner |-> o,
                 delta |-> d, status |-> st]
<1>1. UNCHANGED <<groupVars, settingVars, roles, requests>>
  BY DEF Begin
<1>2. txns \in [Txns -> Plan]
  BY DEF IInv, TypeOK
<1>3. p \in Plan
  BY SMTT(30) DEF Plan, AllRows, Sound, Statuses
<1>4. txns' = [txns EXCEPT ![t] = p]
  BY DEF Begin
<1>5. p.rows = rows /\ p.owner = o /\ p.delta = d /\ p.status = st
  OBVIOUS
<1> HIDE DEF p
<1>6. txns' \in [Txns -> Plan]
  BY <1>2, <1>3, <1>4
<1>7. TypeOK' /\ CountsMembers' /\ OnlyOwnerRules'
  BY <1>1, <1>6 DEF IInv, TypeOK, CountsMembers, OnlyOwnerRules, Members,
                    groupVars, settingVars
<1>8. status' = status /\ roles' = roles /\ owner' = owner /\ count' = count
  BY <1>1 DEF groupVars
<1>9. ASSUME NEW s \in Txns
      PROVE  SoundPlan(txns[s])'
  <2>1. CASE s = t
    <3>1. txns'[s] = p
      BY <1>2, <1>4, <2>1
    <3> QED
      BY <1>5, <1>8, <3>1 DEF SoundPlan
  <2>2. CASE s # t
    <3>1. txns'[s] = txns[s]
      BY <1>2, <1>4, <2>2
    <3>2. SoundPlan(txns[s])
      BY DEF IInv
    <3> QED
      BY <1>8, <3>1, <3>2 DEF SoundPlan
  <2> QED
    BY <2>1, <2>2
<1> QED
  BY <1>7, <1>9 DEF IInv

\* A write of the group document leaves no transaction open.
LEMMA NothingStaysOpen ==
  ASSUME NEW docs, GroupDoc \in docs
  PROVE  Unconflicted(docs) = [t \in Txns |-> NoPlan]
BY DEF Unconflicted, Docs
(***************************************************************************)
(* The writes each request decides on are sound.                           *)
(***************************************************************************)

\* What the invariant says of the group alone.
LEMMA GroupFacts ==
  ASSUME IInv
  PROVE  /\ roles \in AllRoles /\ owner \in Users /\ count \in Nat
         /\ Members = MembersOf(roles) /\ count = Cardinality(MembersOf(roles))
         /\ \A u \in Users : roles[u] = "owner" => u = owner
BY DEF IInv, TypeOK, CountsMembers, OnlyOwnerRules, AllRoles, Members, MembersOf

\* Giving one role to a set of users is a choice of rows.
LEMMA GiveType ==
  ASSUME NEW S, NEW role \in Roles
  PROVE  Give(S, role) \in AllRows
BY DEF Give, AllRows

\* Admitting users without a row, in a group with room for them, is sound.
LEMMA AdmitSound ==
  ASSUME IInv, status = "active", NEW S \in SUBSET (Users \ Members), S # {},
         HasRoom(Cardinality(S))
  PROVE  Sound(roles, owner, count, Give(S, "member"), owner, Cardinality(S), status)
<1> DEFINE rows == Give(S, "member")
           N == MembersOf(Overlay(roles, rows))
<1>1. \A u \in Users : rows[u] = IF u \in S THEN "member" ELSE "keep"
  BY DEF Give
<1>2. \A u \in Users : Overlay(roles, rows)[u] = IF u \in S THEN "member" ELSE roles[u]
  BY <1>1 DEF Overlay
<1> HIDE DEF rows
<1>3. N = MembersOf(roles) \union S
  BY <1>2, GroupFacts DEF MembersOf
<1>4. IsFiniteSet(S) /\ Cardinality(S) \in Nat
  BY MembershipAssumption, FS_Subset, FS_CardinalityType
<1>5. MembersOf(roles) \cap S = {}
  BY GroupFacts
<1>6. Cardinality(N) = Cardinality(MembersOf(roles)) + Cardinality(S)
  <2>1. Cardinality(MembersOf(roles) \cap S) = 0
    BY <1>5, FS_EmptySet
  <2>2. IsFiniteSet(MembersOf(roles)) /\ Cardinality(MembersOf(roles)) \in Nat
    BY Finite
  <2> DEFINE M == MembersOf(roles)
  <2> HIDE DEF M, N
  <2>3. Cardinality(M \union S) = Cardinality(M) + Cardinality(S) - Cardinality(M \cap S)
    BY <1>4, <2>2, FS_Union, Zenon DEF M
  <2> QED
    BY <1>3, <1>4, <2>1, <2>2, <2>3 DEF M
<1>7. Cardinality(N) <= MaxMembers
  BY <1>6, GroupFacts DEF HasRoom
<1>8. Legal(owner, MembersOf(roles), owner, N, status)
  <2>1. MembersOf(roles) \subseteq N /\ MembersOf(roles) # N
    BY <1>3, <1>5
  <2> QED
    BY <1>7, <2>1 DEF Legal
<1>9. \A u \in Users : Overlay(roles, rows)[u] = "owner" => u = owner
  BY <1>2, GroupFacts
<1>10. HandsOver(roles, rows, owner)
  BY <1>1 DEF HandsOver
<1> QED
  BY <1>4, <1>6, <1>8, <1>9, <1>10, GroupFacts DEF Sound, rows

\* Removing a member who is neither the owner nor alone is sound.
LEMMA RemoveSound ==
  ASSUME IInv, status = "active", NEW u \in Members, Members # {u},
         roles[u] # "owner"
  PROVE  Sound(roles, owner, count, Give({u}, "none"), owner, -1, status)
<1> DEFINE rows == Give({u}, "none")
           N == MembersOf(Overlay(roles, rows))
<1>1. \A x \in Users : rows[x] = IF x = u THEN "none" ELSE "keep"
  BY DEF Give
<1>2. \A x \in Users : Overlay(roles, rows)[x] = IF x = u THEN "none" ELSE roles[x]
  BY <1>1 DEF Overlay
<1> HIDE DEF rows
<1>3. N = MembersOf(roles) \ {u}
  BY <1>2, GroupFacts DEF MembersOf
<1>4. u \in MembersOf(roles) /\ MembersOf(roles) # {u}
  BY GroupFacts
<1>5. Cardinality(N) = Cardinality(MembersOf(roles)) - 1
  <2> DEFINE M == MembersOf(roles)
  <2>1. IsFiniteSet(M)
    BY Finite
  <2> HIDE DEF M, N
  <2>2. Cardinality(M \ {u}) = IF u \in M THEN Cardinality(M) - 1 ELSE Cardinality(M)
    BY <2>1, FS_RemoveElement, Zenon
  <2> QED
    BY <1>3, <1>4, <2>2 DEF M
<1>6. Legal(owner, MembersOf(roles), owner, N, status)
  BY <1>3, <1>4 DEF Legal
<1>7. \A x \in Users : Overlay(roles, rows)[x] = "owner" => x = owner
  BY <1>2, GroupFacts
<1>8. HandsOver(roles, rows, owner)
  BY <1>1 DEF HandsOver
<1>9. count + (-1) = Cardinality(N)
  BY <1>5, GroupFacts
<1> QED
  BY <1>6, <1>7, <1>8, <1>9, GroupFacts DEF Sound, rows

\* An owner who leaves to another member: sound.
LEMMA LeaveOwnerSound ==
  ASSUME IInv, status = "active", NEW u \in Members, roles[u] = "owner",
         NEW next \in Members \ {u}
  PROVE  /\ [Give({u}, "none") EXCEPT ![next] = "owner"] \in AllRows
         /\ Sound(roles, owner, count,
                  [Give({u}, "none") EXCEPT ![next] = "owner"], next, -1, status)
<1> DEFINE rows == [Give({u}, "none") EXCEPT ![next] = "owner"]
           N == MembersOf(Overlay(roles, rows))
<1>0. u \in Users /\ next \in Users /\ next # u
  BY DEF Members
<1>1. \A x \in Users : rows[x] = IF x = next THEN "owner" ELSE
                                 IF x = u THEN "none" ELSE "keep"
  BY <1>0 DEF Give
<1>1a. rows \in AllRows
  BY DEF AllRows, Give, Roles
<1>2. \A x \in Users : Overlay(roles, rows)[x] =
        IF x = next THEN "owner" ELSE IF x = u THEN "none" ELSE roles[x]
  BY <1>1 DEF Overlay
<1> HIDE DEF rows
<1>3. N = MembersOf(roles) \ {u}
  BY <1>0, <1>2, GroupFacts DEF MembersOf
<1>4. u \in MembersOf(roles) /\ next \in MembersOf(roles)
  BY GroupFacts
<1>5. Cardinality(N) = Cardinality(MembersOf(roles)) - 1
  BY <1>3, <1>4, Finite, FS_RemoveElement
<1>6. u = owner
  BY <1>0, GroupFacts
<1>7. Legal(owner, MembersOf(roles), next, N, status)
  BY <1>0, <1>3, <1>4, <1>6 DEF Legal
<1>8. \A x \in Users : Overlay(roles, rows)[x] = "owner" => x = next
  BY <1>0, <1>2, <1>6, GroupFacts
<1>9. HandsOver(roles, rows, next)
  BY <1>0, <1>1 DEF HandsOver
<1>10. count + (-1) = Cardinality(N)
  BY <1>5, GroupFacts
<1>11. Sound(roles, owner, count, rows, next, -1, status)
  BY <1>0, <1>7, <1>8, <1>9, <1>10 DEF Sound
<1> QED
  BY <1>1a, <1>11 DEF rows

\* Handing the group over: sound.
LEMMA TransferSound ==
  ASSUME IInv, status = "active", NEW u \in Members, roles[u] = "owner",
         NEW target \in Members \ {u}
  PROVE  /\ [Give({u}, "admin") EXCEPT ![target] = "owner"] \in AllRows
         /\ Sound(roles, owner, count,
                  [Give({u}, "admin") EXCEPT ![target] = "owner"], target, 0, status)
<1> DEFINE rows == [Give({u}, "admin") EXCEPT ![target] = "owner"]
           N == MembersOf(Overlay(roles, rows))
<1>0. u \in Users /\ target \in Users /\ target # u
  BY DEF Members
<1>1. \A x \in Users : rows[x] = IF x = target THEN "owner" ELSE
                                 IF x = u THEN "admin" ELSE "keep"
  BY <1>0 DEF Give
<1>1a. rows \in AllRows
  BY DEF AllRows, Give, Roles
<1>2. \A x \in Users : Overlay(roles, rows)[x] =
        IF x = target THEN "owner" ELSE IF x = u THEN "admin" ELSE roles[x]
  BY <1>1 DEF Overlay
<1> HIDE DEF rows
<1>4. u \in MembersOf(roles) /\ target \in MembersOf(roles)
  BY GroupFacts
<1>3. N = MembersOf(roles)
  BY <1>0, <1>2, <1>4, GroupFacts DEF MembersOf
<1>6. u = owner
  BY <1>0, GroupFacts
<1>7. Legal(owner, MembersOf(roles), target, N, status)
  BY <1>3, <1>4 DEF Legal
<1>8. \A x \in Users : Overlay(roles, rows)[x] = "owner" => x = target
  BY <1>0, <1>2, <1>6, GroupFacts
<1>9. HandsOver(roles, rows, target)
  BY <1>1 DEF HandsOver
<1>10. count + 0 = Cardinality(N)
  BY <1>3, GroupFacts
<1>11. Sound(roles, owner, count, rows, target, 0, status)
  BY <1>0, <1>7, <1>8, <1>9, <1>10 DEF Sound
<1> QED
  BY <1>1a, <1>11 DEF rows

\* Dismissing: sound.
LEMMA DismissSound ==
  ASSUME IInv
  PROVE  NoRows \in AllRows /\ Sound(roles, owner, count, NoRows, owner, 0, "dismissed")
<1>1. NoRows \in AllRows
  BY DEF NoRows, AllRows
<1>2. Overlay(roles, NoRows) = roles
  BY GroupFacts DEF Overlay, NoRows, AllRoles
<1>3. Legal(owner, MembersOf(roles), owner, MembersOf(roles), "dismissed")
  BY DEF Legal
<1>4. HandsOver(roles, NoRows, owner)
  BY DEF HandsOver, NoRows
<1>5. count + 0 = Cardinality(MembersOf(roles))
  BY GroupFacts
<1> QED
  BY <1>1, <1>2, <1>3, <1>4, <1>5, GroupFacts DEF Sound
(***************************************************************************)
(* The invariant.                                                          *)
(***************************************************************************)

\* The initial group is counted, its owner unique and nothing is open.
LEMMA InitIInv == Init => IInv
<1> SUFFICES ASSUME Init PROVE IInv
  OBVIOUS
<1>1. txns \in [Txns -> Plan] /\ \A t \in Txns : txns[t].stage = "idle"
  BY NoPlanType DEF Init
<1>2. requests \in [Requests -> Request]
  BY DEF Init, NoRequest, Request
<1>3. count \in Nat
  BY Finite DEF Init, Members, MembersOf
<1>4. roles \in [Users -> Roles]
  BY DEF Init, Roles
<1>5. TypeOK
  BY <1>1, <1>2, <1>3, <1>4 DEF TypeOK, Init, Statuses
<1>6. CountsMembers /\ OnlyOwnerRules
  BY DEF Init, CountsMembers, OnlyOwnerRules
<1> QED
  BY <1>1, <1>5, <1>6 DEF IInv, SoundPlan

\* JoinGroup, AddMembers, LeaveGroup, KickMember, TransferOwner, DismissGroup.
LEMMA JoinKeeps ==
  ASSUME IInv, NEW t \in Txns, JoinGroup(t)
  PROVE  IInv'
<1>1. PICK u \in Users :
        /\ status = "active" /\ roles[u] = "none" /\ HasRoom(1)
        /\ Begin(t, Give({u}, "member"), owner, 1, status)
  BY DEF JoinGroup
<1>2. Cardinality({u}) = 1 /\ {u} \in SUBSET (Users \ Members)
  BY <1>1, FS_Singleton DEF Members
<1>3. Sound(roles, owner, count, Give({u}, "member"), owner, 1, status)
  BY <1>1, <1>2, AdmitSound
<1>4. Give({u}, "member") \in AllRows /\ status \in Statuses
  BY GiveType, <1>1 DEF Roles, Statuses
<1> QED
  BY <1>1, <1>3, <1>4, BeginKeeps

LEMMA AddKeeps ==
  ASSUME IInv, NEW t \in Txns, AddMembers(t)
  PROVE  IInv'
<1>1. PICK S \in SUBSET (Users \ Members) :
        /\ status = "active" /\ S # {} /\ HasRoom(Cardinality(S))
        /\ Begin(t, Give(S, "member"), owner, Cardinality(S), status)
  BY DEF AddMembers, IsMember
<1>2. Sound(roles, owner, count, Give(S, "member"), owner, Cardinality(S), status)
  BY <1>1, AdmitSound
<1>3. Give(S, "member") \in AllRows /\ status \in Statuses
  BY GiveType, <1>1 DEF Roles, Statuses
<1> QED
  BY <1>1, <1>2, <1>3, BeginKeeps

LEMMA DismissKeeps ==
  ASSUME IInv, NEW t \in Txns, NEW u \in Users, DismissInternal(t, u)
  PROVE  IInv'
<1>1. status = "active" /\ Begin(t, NoRows, owner, 0, "dismissed")
  BY DEF DismissInternal, IsMember
<1>2. "dismissed" \in Statuses
  BY DEF Statuses
<1> QED
  BY <1>1, <1>2, DismissSound, BeginKeeps

LEMMA LeaveKeeps ==
  ASSUME IInv, NEW t \in Txns, LeaveGroup(t)
  PROVE  IInv'
<1>1. PICK u \in Users :
        /\ IsMember(u)
        /\ \/ count <= 1 /\ DismissInternal(t, u)
           \/ /\ count > 1 /\ roles[u] # "owner"
              /\ Begin(t, Give({u}, "none"), owner, -1, status)
           \/ /\ count > 1 /\ roles[u] = "owner"
              /\ \E next \in Members \ {u} :
                   Begin(t, [Give({u}, "none") EXCEPT ![next] = "owner"],
                         next, -1, status)
  BY DEF LeaveGroup
<1>2. status = "active" /\ status \in Statuses /\ u \in Members
  BY <1>1 DEF IsMember, Members, Statuses
<1>3. CASE DismissInternal(t, u)
  BY <1>3, DismissKeeps
<1>4. CASE count > 1 /\ roles[u] # "owner" /\ Begin(t, Give({u}, "none"), owner, -1, status)
  <2>1. Members # {u}
    <3>1. Cardinality({u}) = 1
      BY FS_Singleton
    <3> QED
      BY <1>4, <3>1, GroupFacts
  <2>2. Give({u}, "none") \in AllRows
    BY GiveType DEF Roles
  <2> QED
    BY <1>2, <1>4, <2>1, <2>2, RemoveSound, BeginKeeps
<1>5. CASE /\ count > 1 /\ roles[u] = "owner"
           /\ \E next \in Members \ {u} :
                Begin(t, [Give({u}, "none") EXCEPT ![next] = "owner"],
                      next, -1, status)
  <2>1. PICK next \in Members \ {u} :
          Begin(t, [Give({u}, "none") EXCEPT ![next] = "owner"], next, -1, status)
    BY <1>5
  <2> QED
    BY <1>2, <1>5, <2>1, LeaveOwnerSound, BeginKeeps
<1> QED
  BY <1>1, <1>3, <1>4, <1>5

LEMMA KickKeeps ==
  ASSUME IInv, NEW t \in Txns, KickMember(t)
  PROVE  IInv'
<1>1. PICK u \in Users, target \in Users :
        /\ IsMember(u) /\ target \in Members \ {u} /\ roles[target] # "owner"
        /\ Begin(t, Give({target}, "none"), owner, -1, status)
  BY DEF KickMember
<1>2. status = "active" /\ status \in Statuses /\ Members # {target}
  BY <1>1 DEF IsMember, Members, Statuses
<1>3. Give({target}, "none") \in AllRows
  BY GiveType DEF Roles
<1> QED
  BY <1>1, <1>2, <1>3, RemoveSound, BeginKeeps

LEMMA TransferKeeps ==
  ASSUME IInv, NEW t \in Txns, TransferOwner(t)
  PROVE  IInv'
<1>1. PICK u \in Users, target \in Users :
        /\ IsMember(u) /\ roles[u] = "owner" /\ target \in Members \ {u}
        /\ Begin(t, [Give({u}, "admin") EXCEPT ![target] = "owner"],
                 target, 0, status)
  BY DEF TransferOwner
<1>2. status = "active" /\ status \in Statuses /\ u \in Members
  BY <1>1 DEF IsMember, Members, Statuses
<1> QED
  BY <1>1, <1>2, TransferSound, BeginKeeps

\* A commit makes the group what its writes promised and closes the others.
LEMMA CommitKeeps ==
  ASSUME IInv, NEW t \in Txns, Commit(t)
  PROVE  IInv'
<1> DEFINE p == txns[t]
<1>1. p \in Plan /\ Sound(roles, owner, count, p.rows, p.owner, p.delta, p.status)
  BY DEF IInv, TypeOK, Commit, SoundPlan
<1>2. p.rows \in AllRows /\ p.status \in Statuses
  BY <1>1 DEF Plan, AllRows
<1>3. roles' = Overlay(roles, p.rows) /\ owner' = p.owner /\ count' = count + p.delta
      /\ status' = p.status /\ UNCHANGED <<joining, inviting, requests>>
  BY DEF Commit, After, Overlay, settingVars
<1>4. txns' = [s \in Txns |-> NoPlan]
  <2>1. GroupDoc \in Docs(p)
    BY DEF Docs
  <2>2. Unconflicted(Docs(p)) = [s \in Txns |-> NoPlan]
    BY <2>1, NothingStaysOpen
  <2> QED
    BY <2>2 DEF Commit
<1>5. roles' \in [Users -> Roles]
  BY <1>2, <1>3, GroupFacts DEF AllRows, AllRoles, Overlay
<1>6. count' = Cardinality(MembersOf(roles')) /\ count' \in Nat
  BY <1>1, <1>3, Finite DEF Sound
<1>7. TypeOK'
  BY <1>1, <1>2, <1>3, <1>4, <1>5, <1>6, NoPlanType DEF IInv, TypeOK, Sound
<1>8. CountsMembers' /\ OnlyOwnerRules'
  BY <1>1, <1>3, <1>6 DEF CountsMembers, OnlyOwnerRules, Members, MembersOf, Sound
<1> QED
  BY <1>4, <1>7, <1>8, NoPlanType DEF IInv, SoundPlan

\* Closing transactions without touching the group keeps the invariant.
LEMMA CloseKeeps ==
  ASSUME IInv, requests' \in [Requests -> Request],
         UNCHANGED <<groupVars, roles>>,
         joining' \in {"free", "closed"}, inviting' \in {"all", "admins"},
         txns' \in [Txns -> Plan],
         \A t \in Txns : txns'[t] = txns[t] \/ txns'[t] = NoPlan
  PROVE  IInv'
<1>1. status' = status /\ owner' = owner /\ count' = count /\ roles' = roles
  BY DEF groupVars
<1>2. TypeOK' /\ CountsMembers' /\ OnlyOwnerRules'
  BY <1>1 DEF IInv, TypeOK, CountsMembers, OnlyOwnerRules, Members
<1>3. ASSUME NEW t \in Txns
      PROVE  SoundPlan(txns[t])'
  <2>1. CASE txns'[t] = txns[t]
    <3>1. SoundPlan(txns[t])
      BY DEF IInv
    <3> QED
      BY <1>1, <2>1, <3>1 DEF SoundPlan
  <2>2. CASE txns'[t] = NoPlan
    BY <2>2, NoPlanType DEF SoundPlan
  <2> QED
    BY <2>1, <2>2
<1> QED
  BY <1>2, <1>3 DEF IInv

\* What a write leaves of the open transactions.
LEMMA UnconflictedType ==
  ASSUME IInv, NEW docs
  PROVE  /\ Unconflicted(docs) \in [Txns -> Plan]
         /\ \A t \in Txns : \/ Unconflicted(docs)[t] = NoPlan
                            \/ /\ Unconflicted(docs)[t] = txns[t]
                               /\ Docs(txns[t]) \cap docs = {}
BY NoPlanType DEF Unconflicted, IInv, TypeOK

\* Any progress of a request is a request.
LEMMA AdvanceType ==
  ASSUME IInv, NEW r \in Requests, NEW stage, NEW user, Advance(r, stage, user),
         stage \in {"idle", "group", "role", "settings"},
         user \in Users \union {Nobody}
  PROVE  requests' \in [Requests -> Request]
<1>1. [stage |-> stage, user |-> user] \in Request
  BY DEF Request
<1> QED
  BY <1>1 DEF Advance, IInv, TypeOK

\* A role set without a transaction leaves the writes of every transaction it
\* does not abort sound: it is on a member they keep, and never that of owner.
LEMMA SetRoleKeeps ==
  ASSUME IInv, NEW r \in Requests, SetRole(r)
  PROVE  IInv'
<1>1. PICK x \in Users, role \in {"admin", "member"} :
        /\ roles[x] # "none" /\ roles' = [roles EXCEPT ![x] = role]
        /\ txns' = Unconflicted({x}) /\ Advance(r, "idle", Nobody)
  BY DEF SetRole, Members
<1>2. status' = status /\ owner' = owner /\ count' = count
      /\ joining' = joining /\ inviting' = inviting
  BY DEF SetRole, groupVars, settingVars
<1>3. roles' \in AllRoles
  BY <1>1, GroupFacts DEF AllRoles, Roles
<1>4. \A u \in Users : roles'[u] = IF u = x THEN role ELSE roles[u]
  BY <1>1, GroupFacts DEF AllRoles
<1>5. requests' \in [Requests -> Request]
  BY <1>1, AdvanceType
<1>6. txns' \in [Txns -> Plan]
  BY <1>1, UnconflictedType
<1>7. MembersOf(roles') = MembersOf(roles)
  BY <1>1, <1>4 DEF MembersOf
<1>8. TypeOK'
  BY <1>2, <1>3, <1>5, <1>6 DEF IInv, TypeOK, AllRoles
<1>9. CountsMembers' /\ OnlyOwnerRules'
  <2>1. Members' = MembersOf(roles')
    BY DEF Members, MembersOf
  <2>2. CountsMembers'
    BY <1>2, <1>7, <2>1, GroupFacts DEF CountsMembers
  <2>3. OnlyOwnerRules'
    BY <1>2, <1>4, GroupFacts DEF OnlyOwnerRules
  <2> QED
    BY <2>2, <2>3
<1>10. ASSUME NEW t \in Txns
       PROVE  SoundPlan(txns[t])'
  <2>1. CASE txns'[t] = NoPlan
    BY <2>1, NoPlanType DEF SoundPlan
  <2>2. CASE txns'[t] = txns[t] /\ Docs(txns[t]) \cap {x} = {}
    <3> SUFFICES ASSUME txns[t].stage = "open"
                 PROVE  SoundPlan(txns[t])'
      BY <2>2 DEF SoundPlan
    <3> DEFINE p == txns[t]
               N == MembersOf(Overlay(roles, p.rows))
    <3>1. status = "active" /\ Sound(roles, owner, count, p.rows, p.owner, p.delta, p.status)
      BY DEF IInv, SoundPlan
    <3>2. p.rows[x] = "keep"
      BY <2>2 DEF Docs
    <3> HIDE DEF p
    <3>3. \A u \in Users : Overlay(roles', p.rows)[u] =
            IF u = x THEN role ELSE Overlay(roles, p.rows)[u]
      BY <1>4, <3>2 DEF Overlay
    <3>4. Overlay(roles, p.rows)[x] # "none"
      BY <1>1, <3>2 DEF Overlay
    <3>5. MembersOf(Overlay(roles', p.rows)) = N
      BY <3>3, <3>4 DEF MembersOf
    <3>6. \A u \in Users : Overlay(roles', p.rows)[u] = "owner" => u = p.owner
      BY <3>1, <3>3 DEF Sound
    <3>7. HandsOver(roles', p.rows, p.owner)
      BY <1>4, <3>1 DEF Sound, HandsOver
    <3>8. Sound(roles', owner, count, p.rows, p.owner, p.delta, p.status)
      BY <1>7, <3>1, <3>5, <3>6, <3>7 DEF Sound
    <3> QED
      BY <1>2, <2>2, <3>1, <3>8 DEF SoundPlan, p
  <2> QED
    BY <1>1, <2>1, <2>2, UnconflictedType
<1> QED
  BY <1>8, <1>9, <1>10 DEF IInv

LEMMA NextIInv == IInv /\ [Next]_vars => IInv'
<1> SUFFICES ASSUME IInv, [Next]_vars PROVE IInv'
  OBVIOUS
<1>1. txns \in [Txns -> Plan] /\ requests \in [Requests -> Request]
      /\ owner \in Users /\ joining \in {"free", "closed"} /\ inviting \in {"all", "admins"}
  BY DEF IInv, TypeOK
<1>2. ASSUME NEW t \in Txns,
             JoinGroup(t) \/ AddMembers(t) \/ LeaveGroup(t) \/ KickMember(t)
               \/ TransferOwner(t) \/ DismissGroup(t)
      PROVE  IInv'
  BY <1>2, JoinKeeps, AddKeeps, LeaveKeeps, KickKeeps, TransferKeeps, DismissKeeps
     DEF DismissGroup
<1>3. ASSUME NEW t \in Txns, Commit(t)
      PROVE  IInv'
  BY <1>3, CommitKeeps
<1>4. ASSUME NEW t \in Txns, Abort(t)
      PROVE  IInv'
  <2>1. /\ txns' \in [Txns -> Plan]
        /\ \A s \in Txns : txns'[s] = txns[s] \/ txns'[s] = NoPlan
    BY <1>1, <1>4, NoPlanType DEF Abort
  <2>2. UNCHANGED <<groupVars, settingVars, roles, requests>>
    BY <1>4 DEF Abort
  <2> QED
    BY <1>1, <2>1, <2>2, CloseKeeps DEF settingVars
<1>5. ASSUME NEW r \in Requests,
             ReadGroup(r) \/ CheckOwner(r) \/ CheckPrivileged(r) \/ GiveUp(r)
      PROVE  IInv'
  <2>1. UNCHANGED <<groupVars, settingVars, roles, txns>>
    BY <1>5 DEF ReadGroup, CheckOwner, CheckPrivileged, GiveUp
  <2>2. \E stage \in {"idle", "group", "role", "settings"}, user \in Users \union {Nobody} :
          Advance(r, stage, user)
    <3>1. CASE ReadGroup(r)
      BY <1>1, <3>1 DEF ReadGroup
    <3>2. CASE CheckOwner(r)
      BY <3>2 DEF CheckOwner
    <3>3. CASE CheckPrivileged(r)
      BY <3>3 DEF CheckPrivileged
    <3>4. CASE GiveUp(r)
      BY <3>4 DEF GiveUp
    <3> QED
      BY <1>5, <3>1, <3>2, <3>3, <3>4
  <2>3. requests' \in [Requests -> Request]
    BY <2>2, AdvanceType
  <2> QED
    BY <1>1, <2>1, <2>3, CloseKeeps DEF settingVars
<1>6. ASSUME NEW r \in Requests, SetRole(r)
      PROVE  IInv'
  BY <1>6, SetRoleKeeps
<1>7. ASSUME NEW r \in Requests, WriteSettings(r)
      PROVE  IInv'
  <2>1. requests' \in [Requests -> Request]
    BY <1>7, AdvanceType DEF WriteSettings
  <2>2. /\ txns' \in [Txns -> Plan]
        /\ \A s \in Txns : txns'[s] = txns[s] \/ txns'[s] = NoPlan
    BY <1>7, UnconflictedType DEF WriteSettings
  <2> QED
    BY <1>7, <2>1, <2>2, CloseKeeps DEF WriteSettings
<1>8. CASE UNCHANGED vars
  <2>1. UNCHANGED <<groupVars, settingVars, roles, txns, requests>>
    BY <1>8 DEF vars
  <2> QED
    BY <1>1, <2>1, CloseKeeps DEF settingVars
<1> QED
  BY <1>2, <1>3, <1>4, <1>5, <1>6, <1>7, <1>8 DEF Next

\* IInv holds throughout: the inductive invariant.
THEOREM MembershipInvariant == Spec => []IInv
BY InitIInv, NextIInv, PTL DEF Spec

\* Every variable keeps its type; the member count never goes negative.
THEOREM MembershipTypeCorrect == Spec => []TypeOK
<1>1. IInv => TypeOK
  BY DEF IInv
<1> QED
  BY <1>1, MembershipInvariant, PTL

\* member_count is the number of rows, for any number of gateways.
THEOREM CountIsExact == Spec => []CountsMembers
<1>1. IInv => CountsMembers
  BY DEF IInv
<1> QED
  BY <1>1, MembershipInvariant, PTL

\* No one but the named owner ever has the role of owner.
THEOREM OwnerIsUnique == Spec => []OnlyOwnerRules
<1>1. IInv => OnlyOwnerRules
  BY DEF IInv
<1> QED
  BY <1>1, MembershipInvariant, PTL

(***************************************************************************)
(* The steps: handing over, and the abstract specification.                *)
(***************************************************************************)

\* Only a commit and a role set alone change the group or its rows.
LEMMA WhoChangesTheGroup ==
  ASSUME [Next]_vars
  PROVE  \/ \E t \in Txns : Commit(t)
         \/ \E r \in Requests : SetRole(r)
         \/ UNCHANGED <<groupVars, roles>>
<1>1. ASSUME NEW t \in Txns,
             JoinGroup(t) \/ AddMembers(t) \/ LeaveGroup(t) \/ KickMember(t)
               \/ TransferOwner(t) \/ DismissGroup(t)
      PROVE  UNCHANGED <<groupVars, roles>>
  BY <1>1 DEF JoinGroup, AddMembers, LeaveGroup, KickMember, TransferOwner,
              DismissGroup, DismissInternal, Begin
<1>2. ASSUME NEW t \in Txns, Abort(t)
      PROVE  UNCHANGED <<groupVars, roles>>
  BY <1>2 DEF Abort
<1>3. ASSUME NEW r \in Requests,
             ReadGroup(r) \/ CheckOwner(r) \/ CheckPrivileged(r)
               \/ WriteSettings(r) \/ GiveUp(r)
      PROVE  UNCHANGED <<groupVars, roles>>
  BY <1>3 DEF ReadGroup, CheckOwner, CheckPrivileged, WriteSettings, GiveUp
<1>4. CASE UNCHANGED vars
  BY <1>4 DEF vars
<1> QED
  BY <1>1, <1>2, <1>3, <1>4 DEF Next

\* What a commit does to the group, in the terms of the invariant.
LEMMA CommitFacts ==
  ASSUME IInv, NEW t \in Txns, Commit(t)
  PROVE  /\ status = "active" /\ status' = txns[t].status /\ owner' = txns[t].owner
         /\ Members = MembersOf(roles) /\ Members' = MembersOf(roles')
         /\ roles' = Overlay(roles, txns[t].rows)
         /\ Legal(owner, Members, owner', Members', status')
         /\ HandsOver(roles, txns[t].rows, owner')
<1>1. status = "active" /\ Sound(roles, owner, count, txns[t].rows, txns[t].owner,
                                 txns[t].delta, txns[t].status)
  BY DEF IInv, Commit, SoundPlan
<1>2. status' = txns[t].status /\ owner' = txns[t].owner
      /\ roles' = Overlay(roles, txns[t].rows)
  BY DEF Commit, After, Overlay
<1>3. Members = MembersOf(roles) /\ Members' = MembersOf(roles')
  BY DEF Members, MembersOf
<1> QED
  BY <1>1, <1>2, <1>3 DEF Sound

\* A role set alone removes nobody and changes no field of the group.
LEMMA SetRoleFacts ==
  ASSUME IInv, NEW r \in Requests, SetRole(r)
  PROVE  /\ status' = status /\ owner' = owner /\ Members' = Members
         /\ \A u \in Users : roles'[u] = "none" => roles[u] = "none"
<1>1. PICK x \in Users, role \in {"admin", "member"} :
        roles[x] # "none" /\ roles' = [roles EXCEPT ![x] = role]
  BY DEF SetRole, Members
<1>2. \A u \in Users : roles'[u] = IF u = x THEN role ELSE roles[u]
  BY <1>1, GroupFacts DEF AllRoles
<1>3. status' = status /\ owner' = owner
  BY DEF SetRole, groupVars
<1> QED
  BY <1>1, <1>2, <1>3 DEF Members

\* Whoever has the role of owner loses their row only to a transaction that
\* gives the role to the user it names as the owner.
THEOREM OwnerHandsOver == Spec => OwnerLeavesByHandingOver
<1>1. IInv /\ [Next]_vars =>
        [\A u \in Users : roles[u] = "owner" /\ roles'[u] = "none"
           => owner' # u /\ roles'[owner'] = "owner"]_vars
  <2> SUFFICES ASSUME IInv, [Next]_vars, NEW u \in Users,
                      roles[u] = "owner", roles'[u] = "none"
               PROVE  owner' # u /\ roles'[owner'] = "owner"
    OBVIOUS
  <2>1. CASE \E t \in Txns : Commit(t)
    <3>1. PICK t \in Txns : Commit(t)
      BY <2>1
    <3>2. /\ HandsOver(roles, txns[t].rows, owner')
          /\ roles' = Overlay(roles, txns[t].rows)
      BY <3>1, CommitFacts
    <3>3. txns[t].rows[u] = "none"
      BY <3>2 DEF Overlay
    <3>4. owner' # u /\ txns[t].rows[owner'] = "owner"
      BY <3>2, <3>3 DEF HandsOver
    <3>5. owner' \in Users
      BY <3>1, CommitKeeps DEF IInv, TypeOK
    <3> QED
      BY <3>2, <3>4, <3>5 DEF Overlay
  <2>2. CASE \E r \in Requests : SetRole(r)
    BY <2>2, SetRoleFacts
  <2>3. CASE UNCHANGED <<groupVars, roles>>
    BY <2>3
  <2> QED
    BY <2>1, <2>2, <2>3, WhoChangesTheGroup
<1> QED
  BY <1>1, MembershipInvariant, PTL DEF Spec, OwnerLeavesByHandingOver

\* Every behaviour of the concurrent requests is one of GroupRegistry, which
\* serves them alone: Members is the refinement mapping.
THEOREM RefinesRegistry == Spec => ServesOneByOne
<1>1. Init => Registry!Init
  BY DEF Init, Registry!Init, Members
<1>2. IInv /\ [Next]_vars => [Registry!Next]_(Registry!vars)
  <2> SUFFICES ASSUME IInv, [Next]_vars
               PROVE  [Registry!Next]_(Registry!vars)
    OBVIOUS
  <2>1. CASE \E t \in Txns : Commit(t)
    <3>1. PICK t \in Txns : Commit(t)
      BY <2>1
    <3>2. status = "active" /\ Legal(owner, Members, owner', Members', status')
      BY <3>1, CommitFacts
    <3>3. Members \in SUBSET Users /\ Members' \in SUBSET Users
      BY DEF Members
    <3>4. CASE /\ status' = "active" /\ owner' = owner
               /\ Members \subseteq Members' /\ Members # Members'
               /\ Cardinality(Members') <= MaxMembers
      <4>1. Registry!Admit
        BY <3>2, <3>3, <3>4 DEF Registry!Admit, Rosters
      <4> QED
        BY <4>1 DEF Registry!Next
    <3>5. CASE /\ status' = "active"
               /\ \E u \in Members : /\ Members' = Members \ {u} /\ Members # {u}
                                     /\ \/ owner' = owner
                                        \/ u = owner /\ owner' \in Members'
      <4>1. PICK u \in Members : Registry!Depart(u)
        BY <3>2, <3>5 DEF Registry!Depart
      <4> QED
        BY <3>3, <4>1 DEF Registry!Next
    <3>6. CASE status' = "active" /\ Members' = Members /\ owner' \in Members
      <4>1. Registry!HandOver
        BY <3>2, <3>6 DEF Registry!HandOver
      <4> QED
        BY <4>1 DEF Registry!Next
    <3>7. CASE status' = "dismissed" /\ Members' = Members /\ owner' = owner
      <4>1. Registry!Dismiss
        BY <3>2, <3>7 DEF Registry!Dismiss
      <4> QED
        BY <4>1 DEF Registry!Next
    <3> QED
      BY <3>2, <3>4, <3>5, <3>6, <3>7 DEF Legal
  <2>2. CASE \E r \in Requests : SetRole(r)
    BY <2>2, SetRoleFacts DEF Registry!vars
  <2>3. CASE UNCHANGED <<groupVars, roles>>
    BY <2>3 DEF groupVars, Members, Registry!vars
  <2> QED
    BY <2>1, <2>2, <2>3, WhoChangesTheGroup
<1> QED
  BY <1>1, <1>2, MembershipInvariant, PTL DEF Spec, ServesOneByOne, Registry!Spec
===========================================================================
