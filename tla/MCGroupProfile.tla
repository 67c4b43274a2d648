--------------------------- MODULE MCGroupProfile ---------------------------
(***************************************************************************)
(* The instance of GroupProfile for TLC: a and b found the group, and its  *)
(* avatar shows one of them.  What is pushed does not depend on settings,  *)
(* nor settings and avatars on what is pushed, so a behaviour is of one of *)
(* two parts, chosen at the start.                                         *)
(***************************************************************************)
EXTENDS GroupProfile, TLC

CONSTANTS a, b

CONSTANT PushedRevs  \* bound: revisions of a group that is pushed

VARIABLE part

MCFounders == <<a, b>>

MCOps == {[kind |-> "settings", named |-> [join |-> ""]],
          [kind |-> "settings", named |-> [muted |-> TRUE]],
          [kind |-> "settings", named |-> [join |-> "invite"]],
          [kind |-> "avatar", avatar |-> Chosen],
          [kind |-> "avatar", avatar |-> NoAvatar],
          [kind |-> "info"]}

Busy(slots) == {s \in DOMAIN slots : slots[s].pc # "idle"}

\* All requests and goroutines write; nobody listens, so every event is lost.
Writes == UNCHANGED <<pushVars, waiting>>

\* One request for the group's name and two goroutines make three revisions;
\* the consumers push.
Pushes ==
  /\ doc'.rev <= PushedRevs
  /\ Cardinality(Busy(requests')) <= 1 /\ Cardinality(Busy(jobs')) <= 2
  /\ \A r \in Busy(requests') : requests'[r].op.kind = "info"

MCInit == Init /\ part \in {"writes", "pushes"}

MCNext ==
  /\ Next
  /\ UNCHANGED part
  /\ part = "writes" => Writes
  /\ part = "pushes" => Pushes

MCSpec == MCInit /\ [][MCNext]_<<vars, part>>

\* Requests, goroutines and consumers are interchangeable; users are not.
Symmetry == Permutations(Requests) \union Permutations(Jobs) \union Permutations(Consumers)
=============================================================================
