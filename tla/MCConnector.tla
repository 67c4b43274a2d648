--------------------------- MODULE MCConnector ---------------------------
(***************************************************************************)
(* Instances of Connector: one device that reconnects, perhaps to another  *)
(* connector, while a message and an event of its group are pushed.        *)
(***************************************************************************)
EXTENDS Connector

CONSTANTS phone

MCDeviceOf == [c \in Conns |-> phone]
MCKinds == <<"message", "group_event">>
=============================================================================
