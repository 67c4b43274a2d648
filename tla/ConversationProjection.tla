---------------------- MODULE ConversationProjection ----------------------
(***************************************************************************)
(* One group chat: its members, its messages and the read positions, as    *)
(* the group, message and conversation services write them, together with  *)
(* the outbox that projects them into conversation views.  A MongoDB       *)
(* transaction is one step.  Sending is not one: the recipients are read,  *)
(* the sequence number is taken and the message is stored in three steps,  *)
(* as MessageService.Send does, and it may stop after any of them.         *)
(***************************************************************************)
EXTENDS ConversationOutbox, FiniteSets

CONSTANTS Founders,   \* members the group is created with
          Messages,   \* the messages that may be sent
          Nobody,     \* the sender of a message nobody has sent
          MaxEvents,  \* bound: events of the outbox
          MaxNotices  \* bound: system events under way at once

ASSUME ProjectionAssumption ==
  /\ IsFiniteSet(Users)
  /\ Founders \subseteq Users /\ Nobody \notin Users /\ MaxEvents \in Nat
  /\ MaxNotices \in Nat

VARIABLES active,   \* groups.status is active
          members,  \* users with a row in group_members
          notices,  \* senders of system events under way on im.message.send
          lastSeq,  \* chats.last_seq
          sends     \* the progress of each Send

groupVars == <<active, members, notices>>
sendVars == <<lastSeq, sends>>
vars == <<outboxVars, groupVars, sendVars>>

Send == [stage  : {"new", "resolved", "numbered", "stored"},
         sender : Users \union {Nobody},
         to     : SUBSET Users,    \* targetUIDs, the sender excluded
         seq    : Nat]

\* participantUIDs of a message
Participants(m) == {sends[m].sender} \union sends[m].to

\* CreateGroup projects the founders in its own transaction.
Init ==
  /\ OutboxInit
  /\ views = [u \in Users |-> IF u \in Founders THEN EnsureUser(NoView) ELSE NoView]
  /\ active = TRUE
  /\ members = Founders
  /\ notices = {}
  /\ lastSeq = 0
  /\ sends = [m \in Messages |->
                [stage |-> "new", sender |-> Nobody, to |-> {}, seq |-> 0]]

RoomFor(n) == Len(outbox) + n <= MaxEvents

\* publishMessageSend, after the commit: core NATS may lose the request.
Notify(operator) ==
  \/ UNCHANGED notices
  \/ /\ Cardinality(notices) < MaxNotices
     /\ notices' = notices \union {operator}

---------------------------------------------------------------------------
\* JoinGroup, and AddMembers for each user it adds.  The event carries the
\* chat's last_seq as the joiner's read position; the system event that
\* follows the commit has the joiner or the inviter as its sender.
Join(u) ==
  /\ active /\ u \notin members /\ RoomFor(1)
  /\ members' = members \union {u}
  /\ Publish(NewEvent("user_joined", {u}, u, lastSeq))
  /\ \E operator \in members' : Notify(operator)
  /\ UNCHANGED <<workers, views, crashes, errors, replays, active, sendVars>>

\* LeaveGroup when others remain (operator = u), and KickMember.
Leave(u) ==
  /\ active /\ u \in members /\ members # {u} /\ RoomFor(1)
  /\ members' = members \ {u}
  /\ Publish(NewEvent("user_left", {u}, u, 0))
  /\ \E operator \in members : Notify(operator)
  /\ UNCHANGED <<workers, views, crashes, errors, replays, active, sendVars>>

\* What publishes a system event and changes no membership: JoinGroup by a
\* member, TransferOwner, SetMemberRole and the updates of the group's settings.
Announce(u) ==
  /\ active /\ u \in members
  /\ Notify(u)
  /\ UNCHANGED <<outboxVars, active, members, sendVars>>

Orders(S) ==
  {q \in [1..Cardinality(S) -> S] : \A i, j \in DOMAIN q : q[i] = q[j] => i = j}

\* DismissGroup, and LeaveGroup of the last member: the rows of group_members
\* stay.  The system event is published too, but the Send it asks for finds
\* no active group and returns an error.
Dismiss ==
  /\ active /\ members # {} /\ RoomFor(Cardinality(members))
  /\ active' = FALSE
  /\ \E q \in Orders(members) :
       outbox' = outbox \o [i \in DOMAIN q |-> NewEvent("user_left", {q[i]}, q[i], 0)]
  /\ UNCHANGED <<workers, views, crashes, errors, replays, members, notices, sendVars>>

---------------------------------------------------------------------------
Resolve(m, u) ==
  /\ sends[m].stage = "new"
  /\ active
  /\ sends' = [sends EXCEPT ![m] =
       [stage |-> "resolved", sender |-> u, to |-> members \ {u}, seq |-> 0]]
  /\ UNCHANGED <<outboxVars, active, members, lastSeq>>

\* A user's message: checkSendPermission asks for membership.
SendUserMessage(m, u) ==
  /\ u \in members
  /\ Resolve(m, u)
  /\ UNCHANGED notices

\* A system event: no permission is asked, so its sender may have left.  Every
\* gateway subscribes to im.message.send, so another may send it once more.
SendSystemEvent(m, u) ==
  /\ u \in notices
  /\ Resolve(m, u)
  /\ notices' \in {notices, notices \ {u}}

\* Mutant: the number is taken before the sender is checked.
TakeSeqUnchecked(m) ==
  /\ sends[m].stage \in {"new", "resolved"}
  /\ lastSeq' = lastSeq + 1
  /\ sends' = [sends EXCEPT ![m].stage = "numbered", ![m].seq = lastSeq + 1]
  /\ UNCHANGED <<outboxVars, groupVars>>

\* NextMessageSeq, outside the transaction that stores the message.
TakeSeq(m) ==
  /\ sends[m].stage = "resolved"
  /\ lastSeq' = lastSeq + 1
  /\ sends' = [sends EXCEPT ![m].stage = "numbered", ![m].seq = lastSeq + 1]
  /\ UNCHANGED <<outboxVars, groupVars>>

\* Mutant: the event is numbered by the chat, which others have moved on.
StoreLastSeq(m) ==
  /\ sends[m].stage = "numbered" /\ RoomFor(1)
  /\ sends' = [sends EXCEPT ![m].stage = "stored"]
  /\ Publish(NewEvent("message_sent", Participants(m), sends[m].sender, lastSeq))
  /\ UNCHANGED <<workers, views, crashes, errors, replays, groupVars, lastSeq>>

\* The transaction of Send: the message and its event.
Store(m) ==
  /\ sends[m].stage = "numbered" /\ RoomFor(1)
  /\ sends' = [sends EXCEPT ![m].stage = "stored"]
  /\ Publish(NewEvent("message_sent", Participants(m), sends[m].sender, sends[m].seq))
  /\ UNCHANGED <<workers, views, crashes, errors, replays, groupVars, lastSeq>>

\* Send is called again with the client_message_id of a stored message:
\* existingSendResponse, for a sender who may have left.
SendAgain(m) ==
  /\ sends[m].stage = "stored"
  /\ views' = [views EXCEPT ![sends[m].sender] = MarkRead(@, sends[m].seq)]
  /\ UNCHANGED <<outbox, workers, crashes, errors, replays, groupVars, sendVars>>

\* Mutant: the position asked for is not clamped.
ReadAhead(u) ==
  /\ views[u].state # "absent"
  /\ \E seq \in 0..(lastSeq + 1) : views' = [views EXCEPT ![u] = MarkRead(@, seq)]
  /\ UNCHANGED <<outbox, workers, crashes, errors, replays, groupVars, sendVars>>

\* ReadConversation: any position up to the chat's last_seq, which is what a
\* request that names none or a later one gets.  The view was visible when the
\* request looked it up, and may be left by now.
ReadConversation(u) ==
  /\ views[u].state # "absent"
  /\ \E seq \in 0..lastSeq : views' = [views EXCEPT ![u] = MarkRead(@, seq)]
  /\ UNCHANGED <<outbox, workers, crashes, errors, replays, groupVars, sendVars>>

---------------------------------------------------------------------------
GroupNext == Dismiss \/ \E u \in Users : Join(u) \/ Leave(u) \/ Announce(u)

SendNext ==
  \E m \in Messages :
    \/ \E u \in Users : SendUserMessage(m, u) \/ SendSystemEvent(m, u)
    \/ TakeSeq(m)
    \/ Store(m)
    \/ SendAgain(m)

Next ==
  \/ OutboxNext /\ UNCHANGED <<groupVars, sendVars>>
  \/ GroupNext
  \/ SendNext
  \/ \E u \in Users : ReadConversation(u)

Spec == Init /\ [][Next]_vars

\* Every worker loops, and time passes; nobody has to send, join or replay.
Fairness ==
  /\ \A w \in Workers : WF_vars(ProcessOne(w) /\ UNCHANGED <<groupVars, sendVars>>)
  /\ \A i \in 1..MaxEvents : WF_vars(TimePasses(i) /\ UNCHANGED <<groupVars, sendVars>>)

FairSpec == Spec /\ Fairness

---------------------------------------------------------------------------
TypeOK ==
  /\ OutboxTypeOK
  /\ active \in BOOLEAN
  /\ members \subseteq Users
  /\ notices \subseteq Users
  /\ lastSeq \in Nat
  /\ sends \in [Messages -> Send]
  /\ \A m \in Messages : sends[m].stage # "new" => sends[m].sender \in Users

\* A summary is never made up: the message a view shows was stored, under that
\* sequence number, and the view's user was among its participants.  Views are
\* written from copies in events, by any worker, long after the transaction
\* (Send stores the message and its event; UpdateLastMessage writes the copy).
SummaryAddressed ==
  \A u \in Users : views[u].last > 0 =>
    \E m \in Messages : /\ sends[m].stage = "stored"
                        /\ sends[m].seq = views[u].last
                        /\ u \in Participants(m)

\* A read position never runs ahead of the chat, so no message is read before
\* its number exists, although many writers move it: the read API with its
\* clamp, the sender's own messages, retried sends, joins, replays of all these.
ReadWithinChat == \A u \in Users : views[u].read <= lastSeq

MembershipSettled ==
  \A i \in DOMAIN outbox :
    outbox[i].kind # "message_sent" => outbox[i].status = "completed"

\* Once every membership event is completed, the conversations users see are
\* the groups they are in.  UserJoined and UserLeft overwrite one another, so
\* this rests on their being applied in the order they were committed
\* (Claim sorts by created_at; MarkLeft, Upsert).
MembershipConverges ==
  MembershipSettled =>
    \A u \in Users : Visible(views[u]) <=> (active /\ u \in members)

\* Without a database error a message is given up (20 attempts, failed) only
\* when one of its participants has left: in particular not because a joiner's
\* view is not there yet (projector MessageSent, UpdateLastMessage, Retry).
FailedOnlyByLeaver ==
  \A i \in DOMAIN outbox : outbox[i].status = "failed" =>
    \E j \in DOMAIN outbox : /\ outbox[j].kind = "user_left"
                             /\ outbox[j].parts \subseteq outbox[i].parts

\* Every published event is in the end completed or failed, and stays so: no
\* expired claim, back-off or lost worker leaves one behind, and no two workers
\* hand one back and forth for ever (Worker.Run, Claim, Retry).
AllSettle ==
  \A i \in 1..MaxEvents :
    i \in DOMAIN outbox ~>
      [](i \in DOMAIN outbox /\ outbox[i].status \in Settled)

PositionsWith(status) == {i \in DOMAIN outbox : outbox[i].status = status}

Delivery == INSTANCE EventDelivery WITH
  published <- Len(outbox),
  reflected <- {i \in DOMAIN outbox : Reflected(outbox[i])},
  completed <- PositionsWith("completed"),
  failed <- PositionsWith("failed")

\* The outbox, its workers and the views deliver every event at least once:
\* they implement EventDelivery, in spite of crashes, errors and replays.
DeliversEvents == Delivery!Spec

\* What CompositeEventAdapter promises of a system event: it is stored, and the
\* conversations are updated.  Checked once nothing is under way.
Quiet ==
  /\ \A i \in DOMAIN outbox : outbox[i].status \in Settled
  /\ \A m \in Messages : sends[m].stage \in {"new", "stored"}

SystemEventUpdatesConversations ==
  Quiet => \A m \in Messages, u \in members :
    (sends[m].stage = "stored" /\ u \in sends[m].to) => views[u].last >= sends[m].seq
===========================================================================
