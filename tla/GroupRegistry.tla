--------------------------- MODULE GroupRegistry ---------------------------
(***************************************************************************)
(* What the membership of one group promises, as if every request were     *)
(* served alone: people come in while there is room and leave one at a     *)
(* time, the last one never leaves an open group, the group is handed over *)
(* only to a member, and nothing changes once it is dismissed.             *)
(***************************************************************************)
CONSTANTS Users,
          Rosters  \* the sets of users there is room for

VARIABLES status, owner, members

vars == <<status, owner, members>>

Init ==
  /\ status = "active"
  /\ owner \in Users
  /\ members \in SUBSET Users
  /\ owner \in members

Admit ==
  /\ status = "active"
  /\ members' \in Rosters
  /\ members \subseteq members' /\ members # members'
  /\ UNCHANGED <<status, owner>>

\* An owner who leaves names a remaining member; one whose role was taken away
\* leaves like anyone else.
Depart(u) ==
  /\ status = "active"
  /\ u \in members /\ members # {u}
  /\ members' = members \ {u}
  /\ \/ owner' = owner
     \/ u = owner /\ owner' \in members'
  /\ UNCHANGED status

HandOver ==
  /\ status = "active"
  /\ owner' \in members
  /\ UNCHANGED <<status, members>>

Dismiss ==
  /\ status = "active" /\ status' = "dismissed"
  /\ UNCHANGED <<owner, members>>

Next ==
  \/ Admit
  \/ \E u \in Users : Depart(u)
  \/ HandOver
  \/ Dismiss

Spec == Init /\ [][Next]_vars
===========================================================================
