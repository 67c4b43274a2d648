------------------------ MODULE MCMessageDelivery ------------------------
(***************************************************************************)
(* Instances of MessageDelivery: a text with a client_message_id, which    *)
(* the client may repeat, a text that is empty, and the system event of a  *)
(* departure.                                                              *)
(***************************************************************************)
EXTENDS MessageDelivery

CONSTANTS alice, bob, hello, blank

MCRequests ==
  {[sender |-> alice, client |-> hello, content |-> [type |-> "text", valid |-> TRUE]],
   [sender |-> alice, client |-> blank, content |-> [type |-> "text", valid |-> FALSE]],
   [sender |-> bob, client |-> NoClient,
    content |-> [type |-> "system_event", valid |-> TRUE]]}
=============================================================================
