--------------------------- MODULE EventDelivery ---------------------------
(***************************************************************************)
(* What a transactional outbox promises its publishers, whoever works it   *)
(* off: an event is never lost, it is not completed before its effect has  *)
(* been in the read model, an effect stays, and every event is in the end  *)
(* completed or given up.  Events are known by their position.             *)
(***************************************************************************)
EXTENDS Naturals

CONSTANT MaxEvents   \* bound: events that are followed to the end

VARIABLES published,   \* number of events published
          reflected,   \* events whose effect is in the read model
          completed,   \* events settled as done
          failed       \* events given up

vars == <<published, reflected, completed, failed>>

Open == (1..published) \ (completed \union failed)

Init == published = 0 /\ reflected = {} /\ completed = {} /\ failed = {}

\* An event may ask for what is so already.
PublishEvents ==
  /\ published' \in Nat /\ published' > published
  /\ reflected \subseteq reflected' /\ reflected' \subseteq 1..published'
  /\ UNCHANGED <<completed, failed>>

\* One write may bring in the effect of several events: a later message
\* summary stands for the earlier ones.
Project ==
  /\ reflected \subseteq reflected' /\ reflected' \subseteq 1..published
  /\ UNCHANGED <<published, completed, failed>>

Finish(i) ==
  /\ i \in Open \intersect reflected
  /\ completed' = completed \union {i}
  /\ UNCHANGED <<published, reflected, failed>>

GiveUp(i) ==
  /\ i \in Open
  /\ failed' = failed \union {i}
  /\ UNCHANGED <<published, reflected, completed>>

\* An operator asks for every settled event once more.
Reopen ==
  /\ completed' = {} /\ failed' = {}
  /\ UNCHANGED <<published, reflected>>

Next ==
  \/ PublishEvents
  \/ Project
  \/ \E i \in 1..published : Finish(i) \/ GiveUp(i)
  \/ Reopen

\* Every event published is settled in the end.
SettlesAll ==
  \A i \in 1..MaxEvents : i <= published ~> i \in completed \union failed

\* The promise without its liveness, and all of it.
SafeSpec == Init /\ [][Next]_vars

Spec == SafeSpec /\ SettlesAll
===========================================================================
