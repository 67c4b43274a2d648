------------------------ MODULE MCConversationRepair ------------------------
(***************************************************************************)
(* Instances of ConversationRepair for TLC.                                *)
(***************************************************************************)
EXTENDS ConversationRepair, TLC

\* As in MCConversationProjection.
Symmetry == Permutations(Messages) \union Permutations(Workers)
=============================================================================
