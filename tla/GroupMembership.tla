-------------------------- MODULE GroupMembership --------------------------
(***************************************************************************)
(* The membership of one group: the groups document and the group_members  *)
(* rows, under requests that several gateways serve at once.  Joining,     *)
(* adding, leaving, kicking, handing over and dismissing are MongoDB       *)
(* transactions: they read one snapshot and fail to commit when a document *)
(* they write was written by another since.  Setting a role and updating   *)
(* the settings are not: they read, check and write in separate steps.     *)
(*                                                                         *)
(* A transaction is two steps.  The first reads its snapshot and decides   *)
(* every write, so that the second, the commit, only applies them.  A      *)
(* write of a document an open transaction is going to write aborts it.    *)
(***************************************************************************)
EXTENDS FiniteSets, Integers

CONSTANTS Users,
          MaxMembers,  \* groups.max_members
          GroupDoc,    \* the groups document, among the documents written
          Nobody,      \* no user
          Txns,        \* transactions that may be open at once
          Requests     \* requests served without one

ASSUME MembershipAssumption ==
  /\ IsFiniteSet(Users) /\ GroupDoc \notin Users /\ Nobody \notin Users
  /\ MaxMembers \in Nat \ {0}

VARIABLES status,    \* groups.status
          owner,     \* groups.owner_uid
          count,     \* groups.member_count
          joining,   \* "free" when settings are public with join_method free
          inviting,  \* "all" when settings allow members to invite
          roles,     \* the role in each user's row, "none" without a row
          txns,      \* the writes of each open transaction
          requests   \* the progress of each other request

groupVars == <<status, owner, count>>
settingVars == <<joining, inviting>>
vars == <<groupVars, settingVars, roles, txns, requests>>

Statuses == {"active", "dismissed"}
Roles == {"none", "member", "admin", "owner"}
Privileged == {"admin", "owner"}

\* Writes of a transaction: rows whose entry is not "keep", and the group.
Plan == [stage  : {"idle", "open"},
         rows   : [Users -> Roles \union {"keep"}],
         owner  : Users \union {Nobody},
         delta  : Int,
         status : Statuses]

NoRows == [u \in Users |-> "keep"]
NoPlan == [stage |-> "idle", rows |-> NoRows, owner |-> Nobody,
           delta |-> 0, status |-> "active"]

Request == [stage : {"idle", "group", "role", "settings"},
            user  : Users \union {Nobody}]
NoRequest == [stage |-> "idle", user |-> Nobody]

Members == {u \in Users : roles[u] # "none"}

\* CreateGroup, with any users beside the owner: it does not compare their
\* number with MaxMembers.
Init ==
  /\ status = "active"
  /\ owner \in Users
  /\ roles \in [Users -> {"none", "member", "owner"}]
  /\ \A u \in Users : roles[u] = "owner" <=> u = owner
  /\ count = Cardinality(Members)
  /\ joining = "free" /\ inviting = "all"
  /\ txns = [t \in Txns |-> NoPlan]
  /\ requests = [r \in Requests |-> NoRequest]

(***************************************************************************)
(* Transactions: the snapshot and the decisions.                           *)
(***************************************************************************)

\* requireMember
IsMember(u) == status = "active" /\ roles[u] # "none"

\* ensureCapacity
HasRoom(adding) == count + adding <= MaxMembers

\* canInviteMembers
MayInvite(u) == roles[u] \in Privileged \/ inviting = "all"

Give(S, role) == [u \in Users |-> IF u \in S THEN role ELSE "keep"]

Begin(t, rows, newOwner, delta, newStatus) ==
  /\ txns[t].stage = "idle"
  /\ txns' = [txns EXCEPT ![t] =
       [stage |-> "open", rows |-> rows, owner |-> newOwner,
        delta |-> delta, status |-> newStatus]]
  /\ UNCHANGED <<groupVars, settingVars, roles, requests>>

\* As if the user had no row: Add would find it, and the count would grow.
JoinUnfound(t) == \E u \in Users :
  /\ status = "active" /\ joining = "free" /\ HasRoom(1)
  /\ Begin(t, Give({u}, "member"), owner, 1, status)

\* A user who is a member already gets the group back and writes nothing.
JoinGroup(t) == \E u \in Users :
  /\ status = "active" /\ roles[u] = "none"
  /\ joining = "free" /\ HasRoom(1)
  /\ Begin(t, Give({u}, "member"), owner, 1, status)

\* S is what remains of the list once the members are left out.
AddMembers(t) == \E u \in Users, S \in SUBSET (Users \ Members) :
  /\ IsMember(u) /\ MayInvite(u)
  /\ S # {} /\ HasRoom(Cardinality(S))
  /\ Begin(t, Give(S, "member"), owner, Cardinality(S), status)

DismissInternal(t, u) ==
  /\ IsMember(u) /\ roles[u] = "owner"
  /\ Begin(t, NoRows, owner, 0, "dismissed")

DismissGroup(t) == \E u \in Users : DismissInternal(t, u)

\* The next owner is the member who joined first; joined_at comes from the
\* clocks of the gateways, so it may be any other member.
LeaveGroup(t) == \E u \in Users :
  /\ IsMember(u)
  /\ \/ count <= 1 /\ DismissInternal(t, u)
     \/ /\ count > 1 /\ roles[u] # "owner"
        /\ Begin(t, Give({u}, "none"), owner, -1, status)
     \/ /\ count > 1 /\ roles[u] = "owner"
        /\ \E next \in Members \ {u} :
             Begin(t, [Give({u}, "none") EXCEPT ![next] = "owner"],
                   next, -1, status)

\* Without the test of the target's role.
KickAnyone(t) == \E u, target \in Users :
  /\ IsMember(u) /\ target \in Members \ {u}
  /\ roles[u] \in Privileged
  /\ Begin(t, Give({target}, "none"), owner, -1, status)

KickMember(t) == \E u, target \in Users :
  /\ IsMember(u) /\ target \in Members \ {u}
  /\ roles[u] \in Privileged
  /\ \/ roles[target] = "member"
     \/ roles[target] = "admin" /\ roles[u] = "owner"
  /\ Begin(t, Give({target}, "none"), owner, -1, status)

\* The operator keeps the role of owner.
TransferKeeping(t) == \E u, target \in Users :
  /\ IsMember(u) /\ roles[u] = "owner" /\ target \in Members \ {u}
  /\ Begin(t, Give({target}, "owner"), target, 0, status)

TransferOwner(t) == \E u, target \in Users :
  /\ IsMember(u) /\ roles[u] = "owner" /\ target \in Members \ {u}
  /\ Begin(t, [Give({u}, "admin") EXCEPT ![target] = "owner"],
           target, 0, status)

(***************************************************************************)
(* Transactions: the commit, and the conflicts between writes.             *)
(***************************************************************************)

\* Only the rows conflict: the group document is not written.
RowDocs(plan) == {u \in Users : plan.rows[u] # "keep"}

\* Nothing conflicts.
NoDocs(plan) == {}

\* Documents a transaction writes.  Every one that writes at all writes the
\* group: owner_uid, member_count or status.
Docs(plan) == {u \in Users : plan.rows[u] # "keep"} \union {GroupDoc}

\* Transactions left open by a write of docs.
Unconflicted(docs) ==
  [t \in Txns |-> IF txns[t].stage = "open" /\ Docs(txns[t]) \cap docs = {}
                  THEN txns[t] ELSE NoPlan]

After(rows) == [u \in Users |-> IF rows[u] = "keep" THEN roles[u] ELSE rows[u]]

Commit(t) ==
  /\ txns[t].stage = "open"
  /\ status' = txns[t].status
  /\ owner' = txns[t].owner
  /\ count' = count + txns[t].delta
  /\ roles' = After(txns[t].rows)
  /\ txns' = [Unconflicted(Docs(txns[t])) EXCEPT ![t] = NoPlan]
  /\ UNCHANGED <<settingVars, requests>>

\* The five seconds are over, the caller has gone, the gateway stops, or the
\* name, the announcement or the avatar of the group is written meanwhile.
Abort(t) ==
  /\ txns[t].stage = "open"
  /\ txns' = [txns EXCEPT ![t] = NoPlan]
  /\ UNCHANGED <<groupVars, settingVars, roles, requests>>

(***************************************************************************)
(* Requests without a transaction.                                         *)
(***************************************************************************)

Advance(r, stage, user) ==
  requests' = [requests EXCEPT ![r] = [stage |-> stage, user |-> user]]

\* The group of requireMember: its owner is remembered.
ReadGroup(r) ==
  /\ requests[r].stage = "idle" /\ status = "active"
  /\ Advance(r, "group", owner)
  /\ UNCHANGED <<groupVars, settingVars, roles, txns>>

\* The row of requireMember and the checks of SetMemberRole: the target is
\* compared with the owner read before.
CheckOwner(r) ==
  /\ requests[r].stage = "group"
  /\ \E u \in Users : roles[u] = "owner"
  /\ \E target \in Users \ {requests[r].user} : Advance(r, "role", target)
  /\ UNCHANGED <<groupVars, settingVars, roles, txns>>

\* The row of requireMember and the check of UpdateSettings.
CheckPrivileged(r) ==
  /\ requests[r].stage = "group"
  /\ \E u \in Users : roles[u] \in Privileged
  /\ Advance(r, "settings", Nobody)
  /\ UNCHANGED <<groupVars, settingVars, roles, txns>>

\* The write of SetMemberRole: by chat and user, whatever the row holds now.
SetRole(r) ==
  /\ requests[r].stage = "role"
  /\ requests[r].user \in Members
  /\ \E role \in {"admin", "member"} :
       roles' = [roles EXCEPT ![requests[r].user] = role]
  /\ txns' = Unconflicted({requests[r].user})
  /\ Advance(r, "idle", Nobody)
  /\ UNCHANGED <<groupVars, settingVars>>

\* The write of UpdateSettings, to an active group.
WriteSettings(r) ==
  /\ requests[r].stage = "settings" /\ status = "active"
  /\ joining' \in {"free", "closed"} /\ inviting' \in {"all", "admins"}
  /\ txns' = Unconflicted({GroupDoc})
  /\ Advance(r, "idle", Nobody)
  /\ UNCHANGED <<groupVars, roles>>

\* A check refuses, a read or the write fails, or the caller has gone.
GiveUp(r) ==
  /\ requests[r].stage # "idle"
  /\ Advance(r, "idle", Nobody)
  /\ UNCHANGED <<groupVars, settingVars, roles, txns>>

Next ==
  \/ \E t \in Txns : \/ JoinGroup(t) \/ AddMembers(t) \/ LeaveGroup(t)
                     \/ KickMember(t) \/ TransferOwner(t) \/ DismissGroup(t)
                     \/ Commit(t) \/ Abort(t)
  \/ \E r \in Requests : \/ ReadGroup(r) \/ CheckOwner(r) \/ CheckPrivileged(r)
                         \/ SetRole(r) \/ WriteSettings(r) \/ GiveUp(r)

Spec == Init /\ [][Next]_vars

(***************************************************************************)
(* Properties.                                                             *)
(***************************************************************************)

\* Every variable has its type, and the count is never negative.
TypeOK ==
  /\ status \in Statuses
  /\ owner \in Users
  /\ count \in Nat
  /\ joining \in {"free", "closed"} /\ inviting \in {"all", "admins"}
  /\ roles \in [Users -> Roles]
  /\ txns \in [Txns -> Plan]
  /\ requests \in [Requests -> Request]

\* groups.member_count, which IncMemberCount moves beside the inserted and
\* deleted rows, is the number of rows, however the transactions interleave.
CountsMembers == count = Cardinality(Members)

\* Nobody but the user groups.owner_uid names has the role of owner, so two
\* users can never both hand over or dismiss the group.
OnlyOwnerRules == \A u \in Users : roles[u] = "owner" => u = owner

\* Whoever has the role of owner leaves the group only by handing it over to
\* someone who then has it: no kick decided on an older role removes them.
OwnerLeavesByHandingOver ==
  [][\A u \in Users : roles[u] = "owner" /\ roles'[u] = "none"
       => owner' # u /\ roles'[owner'] = "owner"]_vars

\* The concurrent requests have the effect of requests served one by one: two
\* admissions that each find room cannot overfill the group together, two
\* members cannot both leave as the one but last, and no request decided on an
\* open group takes effect on a dismissed one.
Rosters == {S \in SUBSET Users : Cardinality(S) <= MaxMembers}
Registry == INSTANCE GroupRegistry WITH members <- Members
ServesOneByOne == Registry!Spec

\* An active group has an owner who can hand it over or dismiss it: its
\* owner_uid has the role of owner.
OwnerHoldsRole == status = "active" => roles[owner] = "owner"
===========================================================================
