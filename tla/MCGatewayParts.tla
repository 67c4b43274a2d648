--------------------------- MODULE MCGatewayParts ---------------------------
(***************************************************************************)
(* Five small parts that share no state: a behaviour is one of one part,   *)
(* chosen at the start.                                                    *)
(***************************************************************************)
EXTENDS Paging, RateLimiter, UserSnapshots, EventBus, SingleChat

CONSTANT Parts

VARIABLE part

partsVars == <<part, pagingVars, limiterVars, snapshotVars, busVars, chatVars>>

MCIds == 1..3

\* The parts that do not move stay in one initial state of theirs.
Init ==
  /\ part \in Parts
  /\ IF part = "paging" THEN PagingInit
     ELSE /\ kind = "history" /\ rows = {} /\ now = 1 /\ page = "first"
          /\ last = [top |-> "missing", time |-> 0, id |-> 0] /\ offset = 0
          /\ shown = [i \in Ids |-> 0] /\ changes = 0 /\ steady = {} /\ disturbed = FALSE
  /\ LimiterInit
  /\ IF part = "bus" THEN BusInit ELSE BusInit /\ bus = "nats"
  /\ IF part = "users" THEN SnapshotsInit ELSE SnapshotsInit /\ user = 0
  /\ ChatsInit

Next ==
  /\ UNCHANGED part
  /\ \/ /\ part = "paging" /\ PagingNext
        /\ UNCHANGED <<limiterVars, snapshotVars, busVars, chatVars>>
     \/ /\ part = "limiter" /\ LimiterNext
        /\ UNCHANGED <<pagingVars, snapshotVars, busVars, chatVars>>
     \/ /\ part = "users" /\ SnapshotsNext
        /\ UNCHANGED <<pagingVars, limiterVars, busVars, chatVars>>
     \/ /\ part = "bus" /\ BusNext
        /\ UNCHANGED <<pagingVars, limiterVars, snapshotVars, chatVars>>
     \/ /\ part = "chats" /\ ChatsNext
        /\ UNCHANGED <<pagingVars, limiterVars, snapshotVars, busVars>>

Spec == Init /\ [][Next]_partsVars
=============================================================================
