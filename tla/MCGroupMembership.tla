------------------------- MODULE MCGroupMembership -------------------------
(***************************************************************************)
(* Instances of GroupMembership for TLC.                                   *)
(***************************************************************************)
EXTENDS GroupMembership, TLC

\* No user, transaction or request is named by Init or Next.
Symmetry == Permutations(Users) \union Permutations(Txns)
===========================================================================
