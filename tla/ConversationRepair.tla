------------------------ MODULE ConversationRepair ------------------------
(***************************************************************************)
(* The repair command on one chat, next to the gateways: it rebuilds the   *)
(* conversation views from the group, its members and its latest message   *)
(* with one read or write after the other and no transaction, while users  *)
(* join, leave and send and the outbox worker projects their events.       *)
(***************************************************************************)
EXTENDS ConversationProjection

CONSTANT MaxRepairs  \* bound: runs of the command

ASSUME RepairAssumption == MaxRepairs \in Nat

VARIABLES repair,   \* what the command holds between two database calls
          repairs,  \* how often it was started
          calm      \* history: membership has rested since it was started

repairVars == <<repair, repairs, calm>>

NoRepair == [pc |-> "off", users |-> {}, todo |-> {}, seq |-> 0, sender |-> Nobody]
Ready == {"off", "done", "refused", "stopped"}

RepairInit == Init /\ repair = NoRepair /\ repairs = 0 /\ calm = FALSE

\* No event of membership is waiting, and none is being applied.
AtRest ==
  /\ \A i \in DOMAIN outbox : outbox[i].kind # "message_sent" => outbox[i].status \in Settled
  /\ \A w \in Workers : workers[w].pc = "apply" => Claimed(w).kind = "message_sent"

WriteView(u, v) ==
  /\ views' = [views EXCEPT ![u] = v]
  /\ UNCHANGED <<outbox, workers, crashes, errors, replays, groupVars, sendVars, repairs>>

---------------------------------------------------------------------------
\* repair stops at once for a group that is not active.
BeginRepair ==
  /\ repair.pc \in Ready /\ repairs < MaxRepairs
  /\ active
  /\ repair' = [NoRepair EXCEPT !.pc = "members"]
  /\ repairs' = repairs + 1
  /\ calm' = AtRest
  /\ UNCHANGED <<outboxVars, groupVars, sendVars>>

\* activeUsers, for a group
ReadMembers ==
  /\ repair.pc = "members"
  /\ repair' = [repair EXCEPT !.pc = "ensure", !.users = members, !.todo = members]
  /\ UNCHANGED <<vars, repairs>>

\* Mutant: the view is written anew.
EnsureAnew ==
  /\ repair.pc = "ensure"
  /\ \E u \in repair.todo :
       /\ WriteView(u, EnsureUser(NoView))
       /\ repair' = [repair EXCEPT !.todo = @ \ {u}]

\* EnsureUsers, one write of its bulk
EnsureUsers ==
  /\ repair.pc = "ensure"
  /\ \E u \in repair.todo :
       /\ WriteView(u, EnsureUser(views[u]))
       /\ repair' = [repair EXCEPT !.todo = @ \ {u}]

\* Mutant: the views of others are left alone.
ReadNoViews ==
  /\ repair.pc = "ensure" /\ repair.todo = {}
  /\ repair' = [repair EXCEPT !.pc = "stale"]
  /\ UNCHANGED <<vars, repairs>>

\* markStaleUsersLeft reads the views and marks those of users it did not read.
ReadViews ==
  /\ repair.pc = "ensure" /\ repair.todo = {}
  /\ repair' = [repair EXCEPT !.pc = "stale",
                  !.todo = {u \in Users : Visible(views[u])} \ repair.users]
  /\ UNCHANGED <<vars, repairs>>

MarkStaleUserLeft ==
  /\ repair.pc = "stale"
  /\ \E u \in repair.todo :
       /\ WriteView(u, MarkLeft(views[u]))
       /\ repair' = [repair EXCEPT !.todo = @ \ {u}]

Stored == {m \in Messages : sends[m].stage = "stored"}

Fanout(m, users) ==
  repair' = [repair EXCEPT !.pc = "fanout", !.todo = users,
               !.seq = sends[m].seq, !.sender = sends[m].sender]

\* Mutant: the message goes to its sender too, as when it was sent.
ReadLastMessageOfSender ==
  /\ repair.pc = "stale" /\ repair.todo = {}
  /\ \E m \in Stored :
       /\ \A n \in Stored : sends[n].seq <= sends[m].seq
       /\ Fanout(m, repair.users \union {sends[m].sender})
  /\ UNCHANGED <<vars, repairs>>

\* The latest message of the chat, by seq; without one the repair is done.
ReadLastMessage ==
  /\ repair.pc = "stale" /\ repair.todo = {}
  /\ \/ /\ Stored = {}
        /\ repair' = [repair EXCEPT !.pc = "done"]
     \/ \E m \in Stored :
          /\ \A n \in Stored : sends[n].seq <= sends[m].seq
          /\ Fanout(m, repair.users)
  /\ UNCHANGED <<vars, repairs>>

\* MessageSent, for one of the users: the first that is refused ends the command.
ProjectLastMessage ==
  /\ repair.pc = "fanout"
  /\ \E u \in repair.todo :
       /\ WriteView(u, UpdateLastMessage(views[u], repair.seq))
       /\ repair' = IF MessageAccepted(views[u], repair.seq)
                    THEN [repair EXCEPT !.todo = @ \ {u}]
                    ELSE [repair EXCEPT !.pc = "refused"]

\* MessageSent: the sender has read it.
ProjectSenderRead ==
  /\ repair.pc = "fanout" /\ repair.todo = {}
  /\ WriteView(repair.sender, MarkRead(views[repair.sender], repair.seq))
  /\ repair' = [repair EXCEPT !.pc = "done"]

\* A call to the database fails, or the command is interrupted.
StopRepair ==
  /\ repair.pc \notin Ready
  /\ repair' = [repair EXCEPT !.pc = "stopped"]
  /\ UNCHANGED <<vars, repairs>>

RepairChat ==
  \/ ReadMembers \/ EnsureUsers \/ ReadViews \/ MarkStaleUserLeft
  \/ ReadLastMessage \/ ProjectLastMessage \/ ProjectSenderRead \/ StopRepair

RepairNext ==
  \/ BeginRepair
  \/ /\ RepairChat \/ (Next /\ UNCHANGED <<repair, repairs>>)
     /\ calm' = (calm /\ AtRest' /\ UNCHANGED <<active, members>>)

RepairSpec == RepairInit /\ [][RepairNext]_<<vars, repairVars>>

---------------------------------------------------------------------------
\* A repair heals what a crash, an error or a given-up event left behind: from
\* its end, as long as membership rests, each member and nobody else sees the
\* conversation, with the message that was the latest or a later one, although
\* messages are sent, projected and read all the while.
RepairedConverges ==
  repair.pc = "done" /\ calm =>
    \A u \in Users : /\ Visible(views[u]) <=> u \in members
                     /\ u \in members => views[u].last >= repair.seq

\* The command breaks off at a user's view only when membership moved under it:
\* the sender of the latest message may have left long ago.
RefusedOnlyByChange == repair.pc = "refused" => ~calm

NoFault == crashes = 0 /\ errors = 0 /\ replays = 0 /\ repairs = 0

SingleWorker == \A w, x \in Workers : w = x

\* As long as nothing fails, nobody repairs and a single gateway runs, the views
\* converge by themselves, and only a leaver makes a message be given up: to
\* apply the events in the order of created_at is enough then.  Two workers may
\* apply two events of one user at once, in either order.
UnfaultedConverges == SingleWorker /\ NoFault => MembershipConverges /\ FailedOnlyByLeaver
===========================================================================
