--------------------- MODULE MCConversationProjection ---------------------
(***************************************************************************)
(* Instances of ConversationProjection for TLC: each configuration names   *)
(* its users, workers and messages as model values and gives the bounds.   *)
(***************************************************************************)
EXTENDS ConversationProjection, TLC

\* Messages are interchangeable and so are workers: Init and Next name none of
\* them.  Users are not, since some are founders.  Runs of safety only.
Symmetry == Permutations(Messages) \union Permutations(Workers)
===========================================================================
