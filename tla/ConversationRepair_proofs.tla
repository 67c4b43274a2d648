--------------------- MODULE ConversationRepair_proofs ---------------------
(***************************************************************************)
(* What holds of a chat while the repair command runs next to the gateways *)
(* and the outbox, for every set of users, messages and workers and for    *)
(* every bound: what its writes may not undo, what it heals, and that a    *)
(* chat with one worker and no fault needs no repair.                      *)
(***************************************************************************)
EXTENDS ConversationRepair, ConversationSummaries_proofs

RepairPlaces == {"off", "members", "ensure", "stale", "fanout", "done", "refused", "stopped"}

RepairType == [pc : RepairPlaces, users : SUBSET Users, todo : SUBSET Users,
               seq : Nat, sender : Users \union {Nobody}]

\* The command works with numbers the chat has reached and with users.
RepairTyped ==
  /\ repair \in RepairType /\ repair.seq <= lastSeq
  /\ repair.pc = "fanout" => repair.sender \in Users

---------------------------------------------------------------------------
(* What the command may write *)

\* EnsureUser is what Upsert does with no read position.
LEMMA EnsureIsUpsert ==
  ASSUME NEW v \in View PROVE EnsureUser(v) = Upsert(v, 0)
BY DEF View, EnsureUser, Upsert, Later

LEMMA OneViewWritten ==
  ASSUME IInv, NEW u \in Users, NEW v, WriteView(u, v), Written(views[u], v, lastSeq)
  PROVE  /\ views' \in [Users -> View] /\ views'[u] = v
         /\ \A x \in Users : x # u => views'[x] = views[x]
         /\ \A x \in Users : Advances(views[x], views'[x]) /\ views'[x].read <= lastSeq
<1>1. views \in [Users -> View] /\ lastSeq \in Nat /\ views' = [views EXCEPT ![u] = v]
  BY DEF IInv, TypeOK, OutboxTypeOK, WriteView
<1>2. \A x \in Users : views[x] \in View /\ views[x].read <= lastSeq
  BY <1>1 DEF IInv, ReadWithinChat
<1>3. v \in View /\ Advances(views[u], v) /\ v.read <= lastSeq
  BY <1>1, <1>2, WrittenAdvances
<1>4. \A x \in Users : Advances(views[x], views[x])
  BY <1>2, AdvancesPreorder
<1> QED BY <1>1, <1>2, <1>3, <1>4

\* A write of a view leaves all that is known of the events and the workers,
\* because it moves the view forward.
LEMMA WriteKeepsInvariant ==
  ASSUME IInv, NEW u \in Users, NEW v, WriteView(u, v), Written(views[u], v, lastSeq)
  PROVE  IInv'
<1>1. /\ UNCHANGED <<outbox, workers, crashes, errors, replays, active, members, notices,
                     lastSeq, sends>>
      /\ TypeOK /\ OutboxTypeOK /\ EventsWellFormed /\ SendsWithinChat
      /\ WorkersProgress /\ CompletedReflected
  BY DEF WriteView, groupVars, sendVars, IInv, TypeOK
<1>2. /\ views' \in [Users -> View]
      /\ \A x \in Users : Advances(views[x], views'[x]) /\ views'[x].read <= lastSeq
  BY OneViewWritten
<1>3. TypeOK'
  BY <1>1, <1>2 DEF TypeOK, OutboxTypeOK
<1>4. EventsWellFormed' /\ SendsWithinChat' /\ ReadWithinChat'
  BY <1>1, <1>2 DEF EventsWellFormed, SendsWithinChat, ReadWithinChat
<1>5. ASSUME NEW i \in DOMAIN outbox
      PROVE  /\ \A k \in Worker : Progress(k, outbox[i], views) => Progress(k, outbox[i], views')
             /\ Shown(outbox[i], views) => Shown(outbox[i], views')
  <2>1. /\ outbox[i].parts \subseteq Users /\ outbox[i].sender \in Users
        /\ outbox[i].seq \in Nat
    BY <1>1, EventAt
  <2>2. ASSUME NEW x \in Users
        PROVE  /\ views[x].last >= outbox[i].seq => views'[x].last >= outbox[i].seq
               /\ views[x].read >= outbox[i].seq => views'[x].read >= outbox[i].seq
               /\ views[x].state # "absent" => views'[x].state # "absent"
    <3>1. views[x] \in View /\ views'[x] \in View /\ Advances(views[x], views'[x])
      BY <1>1, <1>2 DEF OutboxTypeOK
    <3> QED BY <2>1, <3>1 DEF Advances, View
  <2>3. Shown(outbox[i], views) => Shown(outbox[i], views')
    BY <2>1, <2>2 DEF Shown
  <2>4. ASSUME NEW k \in Worker, Progress(k, outbox[i], views)
        PROVE  Progress(k, outbox[i], views')
    BY <2>1, <2>2, <2>3, <2>4 DEF Progress
  <2> QED BY <2>3, <2>4
<1>6. WorkersProgress'
  <2>1. \A w \in Workers : workers[w] \in Worker
                           /\ (workers[w].pc # "idle" => workers[w].ev \in DOMAIN outbox)
    BY <1>1 DEF OutboxTypeOK
  <2> QED BY <1>1, <1>5, <2>1 DEF WorkersProgress
<1>7. CompletedReflected'
  <2> SUFFICES ASSUME NEW i \in DOMAIN outbox, outbox[i].status = "completed"
               PROVE  Shown(outbox[i], views')
    BY <1>1 DEF CompletedReflected, Reflected, Shown
  <2>1. Shown(outbox[i], views)
    BY <1>1 DEF CompletedReflected, Reflected, Shown
  <2> QED BY <1>5, <2>1
<1> QED BY <1>3, <1>4, <1>6, <1>7 DEF IInv

\* A repair step reads, or writes one view as the repository does.
RepairWrites ==
  \/ UNCHANGED vars
  \/ \E u \in Users : \E v : WriteView(u, v) /\ Written(views[u], v, lastSeq)

LEMMA RepairStepWrites ==
  ASSUME IInv, RepairTyped, RepairChat
  PROVE  RepairWrites
<1>1. views \in [Users -> View] /\ lastSeq \in Nat /\ 0 \in 0..lastSeq
  BY DEF IInv, TypeOK, OutboxTypeOK
<1>2. repair.todo \subseteq Users /\ repair.seq \in 0..lastSeq
  BY <1>1 DEF RepairTyped, RepairType
<1>3. CASE ReadMembers \/ ReadViews \/ ReadLastMessage \/ StopRepair
  BY <1>3 DEF ReadMembers, ReadViews, ReadLastMessage, StopRepair, RepairWrites
<1>4. CASE EnsureUsers
  <2>1. PICK u \in repair.todo : WriteView(u, EnsureUser(views[u]))
    BY <1>4 DEF EnsureUsers
  <2>2. Written(views[u], EnsureUser(views[u]), lastSeq)
    BY <1>1, <1>2, EnsureIsUpsert DEF Written
  <2> QED BY <1>2, <2>1, <2>2 DEF RepairWrites
<1>5. CASE MarkStaleUserLeft
  <2>1. PICK u \in repair.todo : WriteView(u, MarkLeft(views[u]))
    BY <1>5 DEF MarkStaleUserLeft
  <2>2. Written(views[u], MarkLeft(views[u]), lastSeq)
    BY <1>1 DEF Written
  <2> QED BY <1>2, <2>1, <2>2 DEF RepairWrites
<1>6. CASE ProjectLastMessage
  <2>1. PICK u \in repair.todo : WriteView(u, UpdateLastMessage(views[u], repair.seq))
    BY <1>6 DEF ProjectLastMessage
  <2>2. Written(views[u], UpdateLastMessage(views[u], repair.seq), lastSeq)
    BY <1>2 DEF Written
  <2> QED BY <1>2, <2>1, <2>2 DEF RepairWrites
<1>7. CASE ProjectSenderRead
  <2>1. repair.sender \in Users
    BY <1>7 DEF ProjectSenderRead, RepairTyped
  <2>2. WriteView(repair.sender, MarkRead(views[repair.sender], repair.seq))
    BY <1>7 DEF ProjectSenderRead
  <2>3. Written(views[repair.sender], MarkRead(views[repair.sender], repair.seq), lastSeq)
    BY <1>2 DEF Written
  <2> QED BY <2>1, <2>2, <2>3 DEF RepairWrites
<1> QED BY <1>3, <1>4, <1>5, <1>6, <1>7 DEF RepairChat

---------------------------------------------------------------------------
(* Types, and the invariant of the projection *)

LEMMA RepairTypedStep ==
  ASSUME IInv, RepairTyped, RepairChat
  PROVE  RepairTyped'
<1>1. /\ repair \in RepairType /\ repair.seq <= lastSeq /\ repair.seq \in Nat
      /\ repair.users \subseteq Users /\ repair.todo \subseteq Users
      /\ lastSeq \in Nat /\ members \subseteq Users
  BY DEF RepairTyped, RepairType, IInv, TypeOK
<1>2. lastSeq' = lastSeq
  BY DEF RepairChat, ReadMembers, EnsureUsers, ReadViews, MarkStaleUserLeft, ReadLastMessage,
         ProjectLastMessage, ProjectSenderRead, StopRepair, WriteView, vars, sendVars
<1>3. CASE ReadMembers
  BY <1>1, <1>2, <1>3 DEF ReadMembers, RepairTyped, RepairType, RepairPlaces
<1>4. CASE EnsureUsers \/ MarkStaleUserLeft
  <2>1. PICK u \in repair.todo : repair' = [repair EXCEPT !.todo = repair.todo \ {u}]
    BY <1>4 DEF EnsureUsers, MarkStaleUserLeft
  <2>2. repair.pc # "fanout"
    BY <1>4 DEF EnsureUsers, MarkStaleUserLeft
  <2> QED BY <1>1, <1>2, <2>1, <2>2 DEF RepairTyped, RepairType, RepairPlaces
<1>5. CASE ReadViews
  <2> DEFINE T == {u \in Users : Visible(views[u])} \ repair.users
  <2>1. T \subseteq Users /\ repair' = [repair EXCEPT !.pc = "stale", !.todo = T]
    BY <1>5 DEF ReadViews
  <2> HIDE DEF T
  <2> QED BY <1>1, <1>2, <2>1 DEF RepairTyped, RepairType, RepairPlaces
<1>6. CASE ReadLastMessage
  <2>1. CASE repair' = [repair EXCEPT !.pc = "done"]
    BY <1>1, <1>2, <2>1 DEF RepairTyped, RepairType, RepairPlaces
  <2>2. ASSUME NEW m \in Stored, Fanout(m, repair.users) PROVE RepairTyped'
    <3>1. /\ m \in Messages /\ sends[m] \in Send /\ sends[m].seq <= lastSeq
          /\ sends[m].sender \in Users
      BY <2>2 DEF Stored, IInv, TypeOK, SendsWithinChat
    <3>2. sends[m].seq \in Nat
      BY <3>1 DEF Send
    <3> QED BY <1>1, <1>2, <2>2, <3>1, <3>2 DEF Fanout, RepairTyped, RepairType, RepairPlaces
  <2> QED BY <1>6, <2>1, <2>2 DEF ReadLastMessage
<1>7. CASE ProjectLastMessage
  <2>1. PICK u \in repair.todo : \/ repair' = [repair EXCEPT !.todo = repair.todo \ {u}]
                                 \/ repair' = [repair EXCEPT !.pc = "refused"]
    BY <1>7 DEF ProjectLastMessage
  <2>2. repair.sender \in Users
    BY <1>7 DEF ProjectLastMessage, RepairTyped
  <2> QED BY <1>1, <1>2, <2>1, <2>2 DEF RepairTyped, RepairType, RepairPlaces
<1>8. CASE ProjectSenderRead \/ StopRepair
  BY <1>1, <1>2, <1>8 DEF ProjectSenderRead, StopRepair, RepairTyped, RepairType, RepairPlaces
<1> QED BY <1>3, <1>4, <1>5, <1>6, <1>7, <1>8 DEF RepairChat

BaseInv == IInv /\ RepairTyped

LEMMA BaseStart == RepairInit => BaseInv
<1> SUFFICES ASSUME RepairInit PROVE BaseInv
  OBVIOUS
<1>1. IInv
  BY InitInvariant DEF RepairInit
<1>2. lastSeq \in Nat
  BY <1>1 DEF IInv, TypeOK
<1>3. RepairTyped
  BY <1>2 DEF RepairInit, NoRepair, RepairTyped, RepairType, RepairPlaces
<1> QED BY <1>1, <1>3 DEF BaseInv

LEMMA BaseStep ==
  ASSUME BaseInv, [RepairNext]_<<vars, repairVars>>
  PROVE  BaseInv'
<1>0. IInv /\ RepairTyped
  BY DEF BaseInv
<1>1. ASSUME [Next]_vars, repair' = repair PROVE BaseInv'
  <2>1. IInv'
    BY <1>0, <1>1, NextInvariant
  <2>2. lastSeq' \in Nat /\ lastSeq' >= lastSeq /\ lastSeq \in Nat /\ repair.seq \in Nat
    BY <1>0, <1>1, SendsStep DEF IInv, TypeOK, RepairTyped, RepairType
  <2>3. RepairTyped'
    BY <1>0, <1>1, <2>2 DEF RepairTyped
  <2> QED BY <2>1, <2>3 DEF BaseInv
<1>2. CASE RepairChat
  <2>1. RepairWrites
    BY <1>0, <1>2, RepairStepWrites
  <2>2. IInv'
    BY <1>0, <2>1, WriteKeepsInvariant, NextInvariant DEF RepairWrites
  <2> QED BY <1>0, <1>2, <2>2, RepairTypedStep DEF BaseInv
<1>3. CASE BeginRepair
  <2>1. UNCHANGED vars /\ repair' = [NoRepair EXCEPT !.pc = "members"]
    BY <1>3 DEF BeginRepair, vars
  <2>2. IInv' /\ lastSeq' \in Nat
    BY <1>0, <2>1, NextInvariant DEF IInv, TypeOK
  <2>3. RepairTyped'
    BY <2>1, <2>2 DEF RepairTyped, RepairType, RepairPlaces, NoRepair
  <2> QED BY <2>2, <2>3 DEF BaseInv
<1>4. CASE UNCHANGED <<vars, repairVars>>
  BY <1>1, <1>4 DEF repairVars
<1> QED BY <1>1, <1>2, <1>3, <1>4 DEF RepairNext

\* The invariant of the projection holds with the repair command at work too.
THEOREM RepairKeepsInvariant == RepairSpec => []BaseInv
BY BaseStart, BaseStep, PTL DEF RepairSpec

\* The command moves no summary and no read position back, whatever it finds.
THEOREM RepairsOnlyAdvance == RepairSpec => ViewsNeverRegress
<1> DEFINE Forward == \A u \in Users : Advances(views[u], views'[u])
<1>1. BaseInv /\ [RepairNext]_<<vars, repairVars>> => [Forward]_views
  <2> SUFFICES ASSUME BaseInv, RepairNext, views' # views PROVE Forward
    BY DEF vars, outboxVars
  <2>1. IInv /\ RepairTyped
    BY DEF BaseInv
  <2>2. CASE Next
    BY <2>1, <2>2, ViewsAdvance
  <2>3. CASE RepairChat
    <3>1. RepairWrites
      BY <2>1, <2>3, RepairStepWrites
    <3>2. ~UNCHANGED vars
      BY DEF vars, outboxVars
    <3> QED BY <2>1, <3>1, <3>2, OneViewWritten DEF RepairWrites
  <2>4. CASE BeginRepair
    BY <2>4 DEF BeginRepair, outboxVars
  <2> QED BY <2>2, <2>3, <2>4 DEF RepairNext
<1> QED BY <1>1, RepairKeepsInvariant, PTL DEF RepairSpec, ViewsNeverRegress

\* To the outbox a repair is one more writer of views: beside it too every event
\* is delivered as EventDelivery promises (liveness apart).
THEOREM RepairDelivers == RepairSpec => Delivery!SafeSpec
<1>1. RepairInit => Delivery!Init
  BY DeliveryStart DEF RepairInit
<1>2. ASSUME BaseInv, [RepairNext]_<<vars, repairVars>>
      PROVE  [Delivery!Next]_(Delivery!vars)
  <2>1. IInv /\ RepairTyped /\ outbox \in Seq(Event) /\ OutboxTypeOK
    BY <1>2 DEF BaseInv, IInv, TypeOK, OutboxTypeOK
  <2>2. ASSUME [Next]_vars PROVE [Delivery!Next]_(Delivery!vars)
    BY <2>1, <2>2, DeliveryStep
  <2>3. ASSUME NEW u \in Users, NEW v, WriteView(u, v), Written(views[u], v, lastSeq)
        PROVE  Delivery!Next
    <3>1. outbox' = outbox
      BY <2>3 DEF WriteView
    <3>2. ASSUME NEW i \in DOMAIN outbox, Reflected(outbox[i])
          PROVE  Reflected(outbox[i])'
      <4>1. /\ outbox[i].parts \subseteq Users /\ outbox[i].sender \in Users
            /\ outbox[i].seq \in Nat
        BY <2>1, EventAt
      <4>2. ASSUME NEW x \in Users
            PROVE  /\ views[x].last >= outbox[i].seq => views'[x].last >= outbox[i].seq
                   /\ views[x].read >= outbox[i].seq => views'[x].read >= outbox[i].seq
                   /\ views[x].state # "absent" => views'[x].state # "absent"
        <5>1. views[x] \in View /\ views'[x] \in View /\ Advances(views[x], views'[x])
          BY <2>1, <2>3, OneViewWritten DEF OutboxTypeOK
        <5> QED BY <4>1, <5>1 DEF Advances, View
      <4> QED BY <3>1, <3>2, <4>1, <4>2 DEF Reflected
    <3>3. Published(outbox')
      BY <2>1, <3>1 DEF Published
    <3> QED BY <2>1, <3>2, <3>3, GrowthDelivers
  <2>4. CASE RepairChat
    <3>1. RepairWrites
      BY <2>1, <2>4, RepairStepWrites
    <3> QED BY <2>2, <2>3, <3>1 DEF RepairWrites
  <2>5. CASE BeginRepair
    BY <2>2, <2>5 DEF BeginRepair, vars
  <2> QED BY <1>2, <2>2, <2>4, <2>5 DEF RepairNext
<1> QED BY <1>1, <1>2, RepairKeepsInvariant, PTL DEF RepairSpec, Delivery!SafeSpec

\* A completed event keeps its effect while views are repaired.
THEOREM CompletedSurvivesRepair == RepairSpec => []CompletedReflected
<1>1. BaseInv => CompletedReflected
  BY DEF BaseInv, IInv
<1> QED BY <1>1, RepairKeepsInvariant, PTL

---------------------------------------------------------------------------
(* What steps of others leave of the views *)

StatesKept == \A u \in Users : views'[u].state = views[u].state

LEMMA MessageKeepsState ==
  ASSUME NEW v, NEW seq
  PROVE  UpdateLastMessage(v, seq).state = v.state /\ MarkRead(v, seq).state = v.state
<1>1. [v EXCEPT !.last = seq].state = v.state
  OBVIOUS
<1>2. \A n : [v EXCEPT !.read = n].state = v.state
  OBVIOUS
<1> QED BY <1>1, <1>2 DEF UpdateLastMessage, MarkRead

\* Only a worker that applies an event of membership changes who sees the chat.
LEMMA StateMovers ==
  ASSUME IInv, [Next]_vars
  PROVE  StatesKept \/ \E w \in Workers : ApplyUserJoined(w) \/ ApplyUserLeft(w)
<1>1. DOMAIN views = Users
  BY DEF IInv, TypeOK, OutboxTypeOK
<1>2. ASSUME UNCHANGED views PROVE StatesKept
  BY <1>2 DEF StatesKept
<1>3. ASSUME NEW x, NEW v, views' = [views EXCEPT ![x] = v], v.state = views[x].state
      PROVE  StatesKept
  BY <1>1, <1>3 DEF StatesKept
<1>4. ASSUME NEW w \in Workers, ApplyMessageToUser(w) PROVE StatesKept
  <2>1. PICK u \in workers[w].todo :
          views' = [views EXCEPT ![u] = UpdateLastMessage(views[u], Claimed(w).seq)]
    BY <1>4 DEF ApplyMessageToUser
  <2> QED BY <1>3, <2>1, MessageKeepsState
<1>5. ASSUME NEW w \in Workers, ApplySenderRead(w) PROVE StatesKept
  <2> DEFINE u == Claimed(w).sender
  <2>1. views' = [views EXCEPT ![u] = MarkRead(views[u], Claimed(w).seq)]
    BY <1>5 DEF ApplySenderRead
  <2> HIDE DEF u
  <2> QED BY <1>3, <2>1, MessageKeepsState
<1>6. ASSUME NEW w \in Workers,
             Claim(w) \/ Complete(w) \/ Retry(w) \/ DatabaseError(w) \/ Crash(w)
      PROVE  StatesKept
  BY <1>2, <1>6 DEF Claim, Complete, Retry, DatabaseError, Crash
<1>7. ASSUME NEW u \in Users, ReadConversation(u) PROVE StatesKept
  <2>1. PICK seq \in 0..lastSeq : views' = [views EXCEPT ![u] = MarkRead(views[u], seq)]
    BY <1>7 DEF ReadConversation
  <2> QED BY <1>3, <2>1, MessageKeepsState
<1>8. ASSUME NEW m \in Messages, SendAgain(m) PROVE StatesKept
  <2> DEFINE u == sends[m].sender
  <2>1. views' = [views EXCEPT ![u] = MarkRead(views[u], sends[m].seq)]
    BY <1>8 DEF SendAgain
  <2> HIDE DEF u
  <2> QED BY <1>3, <2>1, MessageKeepsState
<1>9. CASE SendNext
  BY <1>2, <1>8, <1>9
     DEF SendNext, SendUserMessage, SendSystemEvent, Resolve, TakeSeq, Store, outboxVars
<1>10. CASE GroupNext
  BY <1>2, <1>10 DEF GroupNext, Dismiss, Join, Leave, Announce, outboxVars
<1>11. CASE OutboxNext
  <2>1. CASE \E i \in DOMAIN outbox : TimePasses(i)
    BY <1>2, <2>1 DEF TimePasses
  <2>2. CASE Replay
    BY <1>2, <2>2 DEF Replay
  <2> QED BY <1>4, <1>5, <1>6, <1>11, <2>1, <2>2 DEF OutboxNext, ProcessOne
<1>12. CASE UNCHANGED vars
  BY <1>2, <1>12 DEF vars, outboxVars
<1> QED BY <1>7, <1>9, <1>10, <1>11, <1>12 DEF Next

---------------------------------------------------------------------------
(* What a repair heals *)

SeenByMembers == \A u \in Users : Visible(views[u]) <=> u \in members

ShownLatest(S) == \A u \in S : views[u].last >= repair.seq

\* How far the command has come while membership rests: with the views of the
\* members, with those of the others, with the latest message.
Healed ==
  /\ repair.pc \notin {"off", "refused"}
  /\ repair.pc \in {"members", "ensure", "stale"} => repair.seq = 0
  /\ repair.pc \in {"ensure", "stale", "fanout"} => repair.users = members
  /\ repair.pc = "ensure" => \A u \in members \ repair.todo : Visible(views[u])
  /\ repair.pc = "stale" =>
       /\ repair.todo \intersect members = {}
       /\ \A u \in members : Visible(views[u])
       /\ \A u \in Users \ members : Visible(views[u]) => u \in repair.todo
  /\ repair.pc \in {"fanout", "done"} => SeenByMembers
  /\ repair.pc = "fanout" => repair.todo \subseteq members /\ ShownLatest(members \ repair.todo)
  /\ repair.pc = "done" => ShownLatest(members)

HealInv == calm => AtRest /\ Healed

\* While membership rests, no step of the gateways or a worker takes back what
\* the command has achieved.
LEMMA OthersKeepHealed ==
  ASSUME BaseInv, AtRest, Healed, [Next]_vars, repair' = repair, members' = members
  PROVE  Healed'
<1>1. IInv /\ RepairTyped /\ members \subseteq Users
  BY DEF BaseInv, IInv, TypeOK
<1>2. StatesKept
  <2>1. ASSUME NEW w \in Workers PROVE ~ApplyUserJoined(w) /\ ~ApplyUserLeft(w)
    BY DEF AtRest, ApplyUserJoined, ApplyUserLeft, Applying
  <2> QED BY <1>1, <2>1, StateMovers
<1>3. \A u \in Users : Visible(views[u])' <=> Visible(views[u])
  BY <1>2 DEF StatesKept, Visible
<1>4. ASSUME NEW u \in Users, views[u].last >= repair.seq PROVE views'[u].last >= repair.seq
  <2>1. views[u] \in View /\ views'[u] \in View /\ Advances(views[u], views'[u])
    BY <1>1, ViewsAdvance DEF IInv, TypeOK, OutboxTypeOK
  <2>2. repair.seq \in Nat
    BY <1>1 DEF RepairTyped, RepairType
  <2> QED BY <1>4, <2>1, <2>2 DEF View, Advances
<1> QED BY <1>1, <1>3, <1>4 DEF Healed, SeenByMembers, ShownLatest

\* Nor does a step of the command itself; a member's view, which it has made
\* visible, takes the latest message or has a later one.
LEMMA CommandHeals ==
  ASSUME BaseInv, Healed, RepairChat, members' = members
  PROVE  Healed'
<1>1. /\ IInv /\ RepairTyped /\ members \subseteq Users /\ repair \in RepairType
      /\ views \in [Users -> View] /\ repair.seq \in Nat /\ repair.todo \subseteq Users
  BY DEF BaseInv, IInv, TypeOK, OutboxTypeOK, RepairTyped, RepairType
<1>2. \A u \in Users : views[u].last \in Nat
  BY <1>1 DEF View
<1>3. CASE ReadMembers
  <2>1. /\ repair.pc = "members" /\ repair'.pc = "ensure"
        /\ repair'.users = members /\ repair'.todo = members /\ repair'.seq = repair.seq
    BY <1>1, <1>3 DEF ReadMembers, RepairType
  <2> QED BY <2>1 DEF Healed
<1>4. CASE EnsureUsers
  <2>1. PICK u \in repair.todo : /\ WriteView(u, EnsureUser(views[u]))
                                 /\ repair' = [repair EXCEPT !.todo = repair.todo \ {u}]
    BY <1>4 DEF EnsureUsers
  <2>2. /\ repair.pc = "ensure" /\ repair'.pc = "ensure" /\ repair'.users = repair.users
        /\ repair'.todo = repair.todo \ {u} /\ repair'.seq = repair.seq
    BY <1>1, <1>4, <2>1 DEF EnsureUsers, RepairType
  <2>3. views' = [views EXCEPT ![u] = EnsureUser(views[u])] /\ u \in Users
    BY <1>1, <2>1 DEF WriteView
  <2>4. Visible(views'[u]) /\ \A x \in Users : x # u => views'[x] = views[x]
    <3>1. EnsureUser(views[u]).state = "current"
      BY <1>1, <2>3 DEF EnsureUser, View
    <3> QED BY <1>1, <2>3, <3>1 DEF Visible
  <2>5. \A x \in members \ repair'.todo : Visible(views'[x])
    BY <1>1, <2>2, <2>4 DEF Healed
  <2> QED BY <2>2, <2>5 DEF Healed
<1>5. CASE ReadViews
  <2> DEFINE T == {u \in Users : Visible(views[u])} \ repair.users
  <2>1. /\ repair.pc = "ensure" /\ repair.todo = {} /\ views' = views
        /\ repair' = [repair EXCEPT !.pc = "stale", !.todo = T]
    BY <1>5 DEF ReadViews, vars, outboxVars
  <2>2. \A x \in members : Visible(views[x])
    BY <2>1 DEF Healed
  <2>3. /\ T \intersect members = {} /\ \A x \in Users \ members : Visible(views[x]) => x \in T
    BY <2>1 DEF Healed
  <2> HIDE DEF T
  <2>4. /\ repair'.pc = "stale" /\ repair'.todo = T /\ repair'.users = repair.users
        /\ repair'.seq = repair.seq
    BY <1>1, <2>1 DEF RepairType
  <2> QED BY <2>1, <2>2, <2>3, <2>4 DEF Healed
<1>6. CASE MarkStaleUserLeft
  <2>1. PICK u \in repair.todo : /\ WriteView(u, MarkLeft(views[u]))
                                 /\ repair' = [repair EXCEPT !.todo = repair.todo \ {u}]
    BY <1>6 DEF MarkStaleUserLeft
  <2>2. /\ repair.pc = "stale" /\ repair'.pc = "stale" /\ repair'.users = repair.users
        /\ repair'.todo = repair.todo \ {u} /\ repair'.seq = repair.seq
    BY <1>1, <1>6, <2>1 DEF MarkStaleUserLeft, RepairType
  <2>3. views' = [views EXCEPT ![u] = MarkLeft(views[u])] /\ u \in Users
    BY <1>1, <2>1 DEF WriteView
  <2>4. ~Visible(views'[u]) /\ \A x \in Users : x # u => views'[x] = views[x]
    <3>1. MarkLeft(views[u]).state # "current"
      BY <1>1, <2>3 DEF MarkLeft, View
    <3> QED BY <1>1, <2>3, <3>1 DEF Visible
  <2>5. u \notin members
    BY <2>1, <2>2 DEF Healed
  <2>6. \A x \in members : Visible(views'[x])
    BY <1>1, <2>2, <2>4, <2>5 DEF Healed
  <2>7. \A x \in Users \ members : Visible(views'[x]) => x \in repair'.todo
    BY <2>2, <2>4 DEF Healed
  <2>8. repair'.todo \intersect members = {}
    BY <2>2 DEF Healed
  <2> QED BY <2>2, <2>6, <2>7, <2>8 DEF Healed
<1>7. CASE ReadLastMessage
  <2>1. repair.pc = "stale" /\ repair.todo = {} /\ views' = views
    BY <1>7 DEF ReadLastMessage, vars, outboxVars
  <2>2. SeenByMembers' /\ repair.users = members /\ repair.seq = 0
    BY <1>1, <2>1 DEF Healed, SeenByMembers
  <2>3. CASE repair' = [repair EXCEPT !.pc = "done"]
    <3>1. repair'.pc = "done" /\ repair'.seq = 0
      BY <1>1, <2>2, <2>3 DEF RepairType
    <3>2. ShownLatest(members)'
      BY <1>1, <1>2, <2>1, <3>1 DEF ShownLatest
    <3> QED BY <2>2, <3>1, <3>2 DEF Healed
  <2>4. ASSUME NEW m \in Stored, Fanout(m, repair.users) PROVE Healed'
    <3>1. repair'.pc = "fanout" /\ repair'.users = members /\ repair'.todo = members
      BY <1>1, <2>2, <2>4 DEF Fanout, RepairType
    <3>2. ShownLatest(members \ repair.todo)'
      BY <3>1 DEF ShownLatest
    <3> QED BY <2>2, <3>1, <3>2 DEF Healed
  <2> QED BY <1>7, <2>3, <2>4 DEF ReadLastMessage
<1>8. CASE ProjectLastMessage
  <2>1. PICK u \in repair.todo :
          /\ WriteView(u, UpdateLastMessage(views[u], repair.seq))
          /\ repair' = IF MessageAccepted(views[u], repair.seq)
                       THEN [repair EXCEPT !.todo = repair.todo \ {u}]
                       ELSE [repair EXCEPT !.pc = "refused"]
    BY <1>8 DEF ProjectLastMessage
  <2>2. repair.pc = "fanout" /\ repair.todo \subseteq members /\ u \in Users /\ u \in members
    BY <1>1, <1>8, <2>1 DEF ProjectLastMessage, Healed
  <2>3. Visible(views[u]) /\ views[u] \in View
    BY <1>1, <2>2 DEF Healed, SeenByMembers
  <2>4. MessageAccepted(views[u], repair.seq)
    BY <1>1, <2>3 DEF MessageAccepted, AcceptsMessage, Visible, View
  <2>5. /\ repair'.pc = "fanout" /\ repair'.users = repair.users /\ repair'.seq = repair.seq
        /\ repair'.todo = repair.todo \ {u}
    BY <1>1, <2>1, <2>2, <2>4 DEF RepairType
  <2>6. views' = [views EXCEPT ![u] = UpdateLastMessage(views[u], repair.seq)]
    BY <2>1 DEF WriteView
  <2>7. /\ views'[u].last >= repair.seq /\ views'[u].state = views[u].state
        /\ \A x \in Users : x # u => views'[x] = views[x]
    BY <1>1, <2>2, <2>3, <2>4, <2>6, AcceptedIsShown, MessageKeepsState
  <2>8. SeenByMembers'
    BY <2>2, <2>7 DEF Healed, SeenByMembers, Visible
  <2>9. ShownLatest(members \ repair.todo)'
    BY <1>1, <2>2, <2>5, <2>7 DEF Healed, ShownLatest
  <2> QED BY <2>2, <2>5, <2>8, <2>9 DEF Healed
<1>9. CASE ProjectSenderRead
  <2> DEFINE u == repair.sender
  <2>1. /\ repair.pc = "fanout" /\ repair.todo = {} /\ u \in Users
        /\ views' = [views EXCEPT ![u] = MarkRead(views[u], repair.seq)]
        /\ repair' = [repair EXCEPT !.pc = "done"]
    BY <1>1, <1>9 DEF ProjectSenderRead, WriteView, RepairTyped
  <2>2. repair'.pc = "done" /\ repair'.seq = repair.seq
    BY <1>1, <2>1 DEF RepairType
  <2>3. MarkRead(views[u], repair.seq).last = views[u].last
    BY <1>1, <2>1, UpdateOrigins
  <2> HIDE DEF u
  <2>4. \A x \in Users : views'[x].state = views[x].state /\ views'[x].last = views[x].last
    BY <1>1, <2>1, <2>3, MessageKeepsState
  <2>5. SeenByMembers'
    BY <2>1, <2>4 DEF Healed, SeenByMembers, Visible
  <2>6. ShownLatest(members)'
    BY <1>1, <2>1, <2>2, <2>4 DEF Healed, ShownLatest
  <2> QED BY <2>2, <2>5, <2>6 DEF Healed
<1>10. CASE StopRepair
  <2>1. repair'.pc = "stopped"
    BY <1>1, <1>10 DEF StopRepair, RepairType
  <2> QED BY <2>1 DEF Healed
<1> QED BY <1>3, <1>4, <1>5, <1>6, <1>7, <1>8, <1>9, <1>10 DEF RepairChat

LEMMA HealStep ==
  ASSUME BaseInv, HealInv, [RepairNext]_<<vars, repairVars>>
  PROVE  HealInv'
<1> SUFFICES ASSUME calm' PROVE AtRest' /\ Healed'
  BY DEF HealInv
<1>1. CASE BeginRepair
  <2>1. AtRest /\ UNCHANGED <<outbox, workers>> /\ repair' = [NoRepair EXCEPT !.pc = "members"]
    BY <1>1 DEF BeginRepair, outboxVars
  <2>2. AtRest'
    BY <2>1 DEF AtRest, Claimed
  <2>3. repair'.pc = "members" /\ repair'.seq = 0
    BY <2>1 DEF NoRepair
  <2> QED BY <2>2, <2>3 DEF Healed
<1>2. CASE UNCHANGED <<vars, repairVars>>
  <2>1. UNCHANGED <<outbox, workers, members, repair, calm>>
    BY <1>2 DEF vars, repairVars, outboxVars, groupVars
  <2>2. AtRest /\ Healed /\ [Next]_vars
    BY <1>2, <2>1 DEF HealInv
  <2>3. AtRest'
    BY <2>1, <2>2 DEF AtRest, Claimed
  <2> QED BY <2>1, <2>2, <2>3, OthersKeepHealed
<1>3. CASE /\ RepairChat \/ (Next /\ UNCHANGED <<repair, repairs>>)
           /\ calm' = (calm /\ AtRest' /\ UNCHANGED <<active, members>>)
  <2>1. calm /\ AtRest' /\ members' = members /\ AtRest /\ Healed
    BY <1>3 DEF HealInv
  <2> QED BY <1>3, <2>1, CommandHeals, OthersKeepHealed
<1> QED BY <1>1, <1>2, <1>3 DEF RepairNext

\* Every reachable state satisfies the inductive invariant of the repair.
THEOREM RepairProgress == RepairSpec => []HealInv
<1>1. RepairInit => HealInv
  BY DEF RepairInit, HealInv
<1>2. BaseInv /\ HealInv /\ [RepairNext]_<<vars, repairVars>> => HealInv'
  BY HealStep
<1> QED BY <1>1, <1>2, RepairKeepsInvariant, PTL DEF RepairSpec

\* From the end of a repair that no change of membership overlapped, and as
\* long as membership rests, every member and nobody else sees the chat, with
\* the message the repair found or a later one, for any number of workers and
\* whatever crashed or failed before.
THEOREM RepairHeals == RepairSpec => []RepairedConverges
<1>1. BaseInv /\ HealInv => RepairedConverges
  BY DEF BaseInv, IInv, TypeOK, HealInv, Healed, SeenByMembers, ShownLatest, RepairedConverges
<1> QED BY <1>1, RepairKeepsInvariant, RepairProgress, PTL

\* The command is refused only where a change of membership overlapped it.
THEOREM RefusalMeansChange == RepairSpec => []RefusedOnlyByChange
<1>1. HealInv => RefusedOnlyByChange
  BY DEF HealInv, Healed, RefusedOnlyByChange
<1> QED BY <1>1, RepairProgress, PTL

---------------------------------------------------------------------------
(* What holds without a fault *)

\* The events of membership, and what they say about a user.
Moves(es) == {i \in DOMAIN es : es[i].kind # "message_sent"}
HasJoined(u, i, es) == es[i].kind = "user_joined" /\ u \in es[i].parts
HasLeft(u, i, es) == es[i].kind = "user_left" /\ u \in es[i].parts

\* By the events at the positions A, the latest of them last, u is a member.
Belongs(u, A, es) ==
  \/ u \in Founders /\ \A j \in A : ~HasLeft(u, j, es)
  \/ \E i \in A : HasJoined(u, i, es) /\ \A j \in A : HasLeft(u, j, es) => j < i

\* Before position n, u has been a member.
Known(u, n, es) == u \in Founders \/ \E j \in DOMAIN es : j < n /\ HasJoined(u, j, es)

\* A participant of the event at i has left, at some time.
LeftBy(i, es) == \E j \in DOMAIN es : es[j].kind = "user_left" /\ es[j].parts \subseteq es[i].parts

\* The events of fs begin with those of es.
Continues(es, fs) == \A i \in DOMAIN es : i \in DOMAIN fs /\ SamePayload(es[i], fs[i])

\* The events of membership whose write is in the views.
Applied ==
  {i \in Moves(outbox) :
     \/ outbox[i].status = "completed"
     \/ \E w \in Workers : workers[w].pc = "applied" /\ workers[w].ev = i}

CompletedBefore(n) == \A j \in Moves(outbox) : j < n => outbox[j].status = "completed"

\* An event of membership waits for nothing but its turn: it is never put back
\* or given up, and who processes it is at work on it.
TakesItsTurn(i) ==
  /\ outbox[i].status # "failed"
  /\ outbox[i].status = "pending" => outbox[i].timer = "off"
  /\ outbox[i].status = "processing" =>
       \E w \in Workers : workers[w].pc \in {"apply", "applied"} /\ workers[w].ev = i
  /\ outbox[i].status = "completed" => CompletedBefore(i)

\* A worker is at an event of membership only after all earlier ones, and fails
\* at a message only because a participant has left.
WorksInTurn(w) ==
  workers[w].pc # "idle" =>
    /\ CompletedBefore(workers[w].ev)
    /\ workers[w].ev \in Moves(outbox) =>
         workers[w].pc # "error" /\ outbox[workers[w].ev].status = "processing"
    /\ workers[w].pc = "error" => LeftBy(workers[w].ev, outbox)

Orderly ==
  /\ \A i \in Moves(outbox) : TakesItsTurn(i)
  /\ \A w \in Workers : WorksInTurn(w)
  /\ \A i \in DOMAIN outbox : outbox[i].status = "failed" => LeftBy(i, outbox)

\* Whom a message is sent to has been a member before it.
PeopleKnown ==
  /\ \A i \in Moves(outbox) : \E u \in Users : outbox[i].parts = {u}
  /\ \A i \in DOMAIN outbox \ Moves(outbox) : \A u \in outbox[i].parts : Known(u, i, outbox)
  /\ \A u \in members \union notices : Known(u, Len(outbox) + 1, outbox)
  /\ \A m \in Messages : sends[m].stage # "new" =>
       \A u \in Participants(m) : Known(u, Len(outbox) + 1, outbox)

\* The views follow from the events applied, the membership from all events.
ViewsFollow == \A u \in Users : Visible(views[u]) <=> Belongs(u, Applied, outbox)
MembersFollow == \A u \in Users : (active /\ u \in members) <=> Belongs(u, Moves(outbox), outbox)

InOrder ==
  /\ repair.pc = "off" /\ TodoWithin
  /\ Orderly /\ PeopleKnown /\ ViewsFollow /\ MembersFollow

UnfaultedInv == repairs \in Nat /\ (SingleWorker /\ NoFault => InOrder)

\* What the events say stays when others are published or their bookkeeping
\* is rewritten.
LEMMA Lasting ==
  ASSUME NEW es, NEW fs, Continues(es, fs)
  PROVE  /\ \A u, n : Known(u, n, es) => Known(u, n, fs)
         /\ \A i \in DOMAIN es : LeftBy(i, es) => LeftBy(i, fs)
         /\ \A u, A : A \subseteq DOMAIN es => (Belongs(u, A, es) <=> Belongs(u, A, fs))
         /\ Moves(es) \subseteq Moves(fs) /\ Moves(fs) \intersect DOMAIN es = Moves(es)
<1>1. \A i \in DOMAIN es : /\ i \in DOMAIN fs
                           /\ fs[i].kind = es[i].kind /\ fs[i].parts = es[i].parts
  BY DEF Continues, SamePayload
<1>2. \A i \in DOMAIN es : \A u : /\ HasJoined(u, i, fs) <=> HasJoined(u, i, es)
                                  /\ HasLeft(u, i, fs) <=> HasLeft(u, i, es)
  BY <1>1 DEF HasJoined, HasLeft
<1>3. \A u, n : Known(u, n, es) => Known(u, n, fs)
  BY <1>1, <1>2 DEF Known
<1>4. \A i \in DOMAIN es : LeftBy(i, es) => LeftBy(i, fs)
  BY <1>1 DEF LeftBy
<1>5. \A u, A : A \subseteq DOMAIN es => (Belongs(u, A, es) <=> Belongs(u, A, fs))
  BY <1>2 DEF Belongs
<1>6. Moves(es) \subseteq Moves(fs) /\ Moves(fs) \intersect DOMAIN es = Moves(es)
  BY <1>1 DEF Moves
<1> QED BY <1>3, <1>4, <1>5, <1>6

\* One more event of membership, later than all before.
LEMMA OneMoreMove ==
  ASSUME NEW es, NEW A \in SUBSET Nat, NEW k \in Nat, \A j \in A : j < k,
         NEW p, es[k].parts = {p}
  PROVE  /\ es[k].kind = "user_joined" =>
              \A u : Belongs(u, A \union {k}, es) <=> u = p \/ Belongs(u, A, es)
         /\ es[k].kind = "user_left" =>
              \A u : Belongs(u, A \union {k}, es) <=> u # p /\ Belongs(u, A, es)
<1>1. ASSUME es[k].kind = "user_joined", NEW u
      PROVE  Belongs(u, A \union {k}, es) <=> u = p \/ Belongs(u, A, es)
  <2>1. ~HasLeft(u, k, es) /\ (HasJoined(u, k, es) <=> u = p)
    BY <1>1 DEF HasLeft, HasJoined
  <2>2. \A j \in A \union {k} : HasLeft(u, j, es) => j < k
    BY <2>1
  <2>3. ASSUME u # p PROVE Belongs(u, A \union {k}, es) <=> Belongs(u, A, es)
    BY <2>1, <2>3 DEF Belongs
  <2>4. ASSUME u = p PROVE Belongs(u, A \union {k}, es)
    BY <2>1, <2>2, <2>4, Zenon DEF Belongs
  <2> QED BY <2>3, <2>4
<1>2. ASSUME es[k].kind = "user_left", NEW u
      PROVE  Belongs(u, A \union {k}, es) <=> u # p /\ Belongs(u, A, es)
  <2>1. ~HasJoined(u, k, es) /\ (HasLeft(u, k, es) <=> u = p)
    BY <1>2 DEF HasLeft, HasJoined
  <2>2. ASSUME u = p PROVE ~Belongs(u, A \union {k}, es)
    <3>1. ASSUME NEW i \in A, k < i PROVE FALSE
      <4>1. i \in Nat /\ i < k
        OBVIOUS
      <4> QED BY <3>1, <4>1
    <3> QED BY <2>1, <2>2, <3>1 DEF Belongs
  <2>3. ASSUME u # p PROVE Belongs(u, A \union {k}, es) <=> Belongs(u, A, es)
    BY <2>1, <2>3 DEF Belongs
  <2> QED BY <2>2, <2>3
<1> QED BY <1>1, <1>2

\* Positions in the outbox of a step, old and new.
LEMMA Positions ==
  ASSUME IInv, IInv'
  PROVE  /\ \A i \in DOMAIN outbox : i \in Nat /\ i > 0 /\ i < Len(outbox) + 1
         /\ \A i \in DOMAIN outbox' : i \in Nat /\ i > 0 /\ i < Len(outbox') + 1
         /\ \A i \in DOMAIN outbox, j \in DOMAIN outbox' \ DOMAIN outbox : i < j
         /\ Len(outbox) \in Nat /\ Len(outbox') \in Nat
         /\ DOMAIN outbox' = DOMAIN outbox => Len(outbox') = Len(outbox)
         /\ DOMAIN outbox \subseteq DOMAIN outbox' => Len(outbox) <= Len(outbox')
<1>1. outbox \in Seq(Event) /\ outbox' \in Seq(Event)
  BY DEF IInv, TypeOK, OutboxTypeOK
<1>2. /\ DOMAIN outbox = 1..Len(outbox) /\ DOMAIN outbox' = 1..Len(outbox')
      /\ Len(outbox) \in Nat /\ Len(outbox') \in Nat
  BY <1>1
<1>3. ASSUME DOMAIN outbox \subseteq DOMAIN outbox' PROVE Len(outbox) <= Len(outbox')
  <2>1. Len(outbox) > 0 => Len(outbox) \in DOMAIN outbox'
    BY <1>2, <1>3
  <2> QED BY <1>2, <2>1
<1>4. ASSUME DOMAIN outbox' = DOMAIN outbox PROVE Len(outbox') = Len(outbox)
  <2>1. Len(outbox') > 0 => Len(outbox') \in DOMAIN outbox
    BY <1>2, <1>4
  <2>2. Len(outbox) <= Len(outbox')
    BY <1>3, <1>4
  <2>3. Len(outbox') <= Len(outbox)
    BY <1>2, <2>1
  <2>4. Len(outbox) \in Nat /\ Len(outbox') \in Nat
    BY <1>2
  <2> HIDE <1>4
  <2> QED BY <2>2, <2>3, <2>4
<1>5. /\ \A i \in DOMAIN outbox : i \in Nat /\ i > 0 /\ i < Len(outbox) + 1
      /\ \A i \in DOMAIN outbox' : i \in Nat /\ i > 0 /\ i < Len(outbox') + 1
  BY <1>2
<1>6. \A i \in DOMAIN outbox, j \in DOMAIN outbox' \ DOMAIN outbox : i < j
  BY <1>2
<1> QED BY <1>2, <1>3, <1>4, <1>5, <1>6

LEMMA ViewsLast ==
  ASSUME ViewsFollow, Continues(outbox, outbox'), Applied' = Applied, StatesKept
  PROVE  ViewsFollow'
<1>1. Applied \subseteq DOMAIN outbox
  BY DEF Applied, Moves
<1>2. \A u \in Users : Belongs(u, Applied, outbox) <=> Belongs(u, Applied', outbox')
  BY <1>1, Lasting
<1>3. \A u \in Users : Visible(views'[u]) <=> Visible(views[u])
  BY DEF StatesKept, Visible
<1> QED BY <1>2, <1>3 DEF ViewsFollow

\* Events published, and timers that end, leave the order as it is.
OutboxRests ==
  /\ Continues(outbox, outbox')
  /\ \A i \in DOMAIN outbox : /\ outbox'[i].status = outbox[i].status
                              /\ outbox'[i].timer \in {outbox[i].timer, "off"}
  /\ \A i \in DOMAIN outbox' \ DOMAIN outbox :
       outbox'[i].status = "pending" /\ outbox'[i].timer = "off"

LEMMA OthersKeepOrder ==
  ASSUME IInv, IInv', Orderly, ViewsFollow, OutboxRests, UNCHANGED workers, StatesKept
  PROVE  Orderly' /\ ViewsFollow'
<1>1. /\ Continues(outbox, outbox') /\ Moves(outbox) \subseteq Moves(outbox')
      /\ \A i \in Moves(outbox') : i \in DOMAIN outbox => i \in Moves(outbox)
      /\ \A i \in DOMAIN outbox : LeftBy(i, outbox) => LeftBy(i, outbox')
  BY Lasting DEF OutboxRests
<1>2. ASSUME NEW n \in DOMAIN outbox, CompletedBefore(n) PROVE CompletedBefore(n)'
  <2> SUFFICES ASSUME NEW j \in Moves(outbox'), j < n PROVE outbox'[j].status = "completed"
    BY DEF CompletedBefore
  <2>1. j \in DOMAIN outbox
    <3>1. j \in DOMAIN outbox' /\ (j \notin DOMAIN outbox => n < j) /\ j \in Nat /\ n \in Nat
      BY Positions DEF Moves
    <3> QED BY <3>1
  <2> QED BY <1>1, <1>2, <2>1 DEF CompletedBefore, OutboxRests
<1>3. ASSUME NEW i \in Moves(outbox') PROVE TakesItsTurn(i)'
  <2>1. CASE i \in DOMAIN outbox
    <3>1. TakesItsTurn(i) /\ i \in Moves(outbox)
      BY <1>1, <2>1 DEF Orderly
    <3>2. outbox'[i].status = outbox[i].status /\ outbox'[i].timer \in {outbox[i].timer, "off"}
      BY <2>1 DEF OutboxRests
    <3> QED BY <1>2, <2>1, <3>1, <3>2 DEF TakesItsTurn
  <2>2. CASE i \notin DOMAIN outbox
    <3>1. outbox'[i].status = "pending" /\ outbox'[i].timer = "off"
      BY <2>2 DEF OutboxRests, Moves
    <3> QED BY <3>1 DEF TakesItsTurn
  <2> QED BY <2>1, <2>2
<1>4. ASSUME NEW w \in Workers PROVE WorksInTurn(w)'
  <2> SUFFICES ASSUME workers[w].pc # "idle" PROVE WorksInTurn(w)'
    BY DEF WorksInTurn
  <2>1. WorksInTurn(w) /\ workers[w].ev \in DOMAIN outbox
    BY DEF Orderly, IInv, TypeOK, OutboxTypeOK
  <2>2. outbox'[workers[w].ev].status = outbox[workers[w].ev].status
    BY <2>1 DEF OutboxRests
  <2> QED BY <1>1, <1>2, <2>1, <2>2 DEF WorksInTurn
<1>5. ASSUME NEW i \in DOMAIN outbox', outbox'[i].status = "failed" PROVE LeftBy(i, outbox')
  BY <1>1, <1>5 DEF OutboxRests, Orderly
<1>6. Applied' = Applied
  <2>1. Applied' = {i \in Moves(outbox') :
                      \/ outbox'[i].status = "completed"
                      \/ \E w \in Workers : workers[w].pc = "applied" /\ workers[w].ev = i}
    BY DEF Applied
  <2>2. \A w \in Workers : workers[w].pc = "applied" => workers[w].ev \in DOMAIN outbox
    BY DEF IInv, TypeOK, OutboxTypeOK
  <2>3. \A i \in Moves(outbox') : i \notin DOMAIN outbox => outbox'[i].status = "pending"
    BY DEF OutboxRests, Moves
  <2>4. \A i \in DOMAIN outbox : outbox'[i].status = outbox[i].status
    BY DEF OutboxRests
  <2>5. Applied' \subseteq Applied
    BY <1>1, <2>1, <2>2, <2>3, <2>4 DEF Applied
  <2>6. Applied \subseteq Applied'
    BY <1>1, <2>1, <2>4 DEF Applied, Moves
  <2> QED BY <2>5, <2>6
<1> QED BY <1>1, <1>3, <1>4, <1>5, <1>6, ViewsLast DEF Orderly

---------------------------------------------------------------------------
\* What a worker does, while nobody else works.

\* Its claim is of the earliest event of membership that is left.
LEMMA ClaimInOrder ==
  ASSUME IInv, IInv', SingleWorker, Orderly, ViewsFollow, NEW w \in Workers, Claim(w),
         Continues(outbox, outbox')
  PROVE  Orderly' /\ ViewsFollow'
<1>1. PICK i \in Claimable :
        /\ \A j \in Claimable : i <= j
        /\ outbox' = Rewrite(outbox, i, "processing", "running", outbox[i].attempts + 1)
        /\ workers' = [workers EXCEPT ![w] = [pc |-> "apply", ev |-> i, todo |-> outbox[i].parts,
                                             tries |-> outbox[i].attempts + 1]]
  BY DEF Claim, Rewrite
<1>2. /\ i \in DOMAIN outbox /\ outbox[i].status \in Unsettled /\ workers[w].pc = "idle"
      /\ OutboxTypeOK /\ workers \in [Workers -> Worker] /\ views' = views
  BY DEF Claim, Claimable, IInv, TypeOK, OutboxTypeOK
<1>3. /\ outbox'[i].status = "processing"
      /\ \A j \in DOMAIN outbox : j # i => outbox'[j] = outbox[j]
      /\ DOMAIN outbox' = DOMAIN outbox
  <2>1. outbox[i].attempts + 1 \in Nat /\ outbox \in Seq(Event) /\ "processing" \in Unsettled \union Settled
    BY <1>2, EventAt DEF Unsettled
  <2>2. /\ Rewritten(outbox, outbox') /\ outbox'[i].status = "processing"
        /\ \A j \in DOMAIN outbox : j # i => outbox'[j] = outbox[j]
    BY <1>1, <1>2, <2>1, RewriteOne
  <2> QED BY <2>2 DEF Rewritten
<1>4. \A x \in Workers : x = w /\ workers'[x].pc = "apply" /\ workers'[x].ev = i
  BY <1>1, <1>2 DEF SingleWorker
<1>5. /\ Moves(outbox') = Moves(outbox)
      /\ \A j \in DOMAIN outbox : LeftBy(j, outbox) => LeftBy(j, outbox')
  BY <1>3, Lasting DEF Moves
<1>6. \A j \in Moves(outbox) : TakesItsTurn(j) /\ outbox[j].status # "processing"
  BY <1>2, <1>4 DEF Orderly, TakesItsTurn
<1>7. CompletedBefore(i)
  <2> SUFFICES ASSUME NEW j \in Moves(outbox), j < i PROVE outbox[j].status = "completed"
    BY DEF CompletedBefore
  <2>1. j \in DOMAIN outbox /\ j \in Nat /\ i \in Nat
    BY <1>2, Positions DEF Moves
  <2>2. j \notin Claimable
    BY <1>1, <2>1
  <2>3. outbox[j].status \in Unsettled \union Settled
    BY <1>2, <2>1, EventAt
  <2> QED BY <1>6, <2>1, <2>2, <2>3 DEF TakesItsTurn, Claimable, Unsettled, Settled
<1>8. \A j \in Moves(outbox) : j # i => outbox'[j] = outbox[j]
  BY <1>3 DEF Moves
<1>9. ASSUME NEW n \in DOMAIN outbox, CompletedBefore(n), i \in Moves(outbox) => ~(i < n)
      PROVE  CompletedBefore(n)'
  BY <1>5, <1>8, <1>9 DEF CompletedBefore
<1>10. ASSUME NEW j \in Moves(outbox') PROVE TakesItsTurn(j)'
  <2>1. CASE j = i
    BY <1>3, <1>4, <2>1 DEF TakesItsTurn
  <2>2. CASE j # i
    <3>1. j \in Moves(outbox) /\ outbox'[j] = outbox[j] /\ TakesItsTurn(j)
          /\ outbox[j].status # "processing" /\ j \in DOMAIN outbox
      BY <1>5, <1>6, <1>8, <2>2 DEF Moves
    <3>2. outbox[j].status = "completed" => CompletedBefore(j)'
      <4> SUFFICES ASSUME outbox[j].status = "completed" PROVE CompletedBefore(j)'
        OBVIOUS
      <4>1. CompletedBefore(j)
        BY <3>1 DEF TakesItsTurn
      <4>2. i \in Moves(outbox) => ~(i < j)
        BY <1>2, <4>1 DEF CompletedBefore, Unsettled
      <4> QED BY <1>9, <3>1, <4>1, <4>2
    <3> QED BY <3>1, <3>2 DEF TakesItsTurn
  <2> QED BY <2>1, <2>2
<1>11. ASSUME NEW x \in Workers PROVE WorksInTurn(x)'
  <2>1. i \in Nat
    BY <1>2, Positions
  <2>2. CompletedBefore(i)'
    BY <1>2, <1>7, <1>9, <2>1
  <2> QED BY <1>3, <1>4, <2>2 DEF WorksInTurn
<1>12. ASSUME NEW j \in DOMAIN outbox', outbox'[j].status = "failed" PROVE LeftBy(j, outbox')
  BY <1>3, <1>5, <1>12 DEF Orderly
<1>13. Applied' = Applied
  <2>1. Applied' = {j \in Moves(outbox) : outbox'[j].status = "completed"}
    BY <1>4, <1>5 DEF Applied
  <2>2. Applied = {j \in Moves(outbox) : outbox[j].status = "completed"}
    BY <1>2, <1>4 DEF Applied
  <2>3. outbox[i].status # "completed" /\ outbox'[i].status # "completed"
    BY <1>2, <1>3 DEF Unsettled
  <2> QED BY <1>8, <2>1, <2>2, <2>3
<1>14. StatesKept
  BY <1>2 DEF StatesKept
<1> QED BY <1>10, <1>11, <1>12, <1>13, <1>14, ViewsLast DEF Orderly

\* Work on a claimed event does not touch the outbox.
LEMMA WorkInOrder ==
  ASSUME IInv, IInv', SingleWorker, Orderly, UNCHANGED outbox,
         NEW w \in Workers, workers[w].pc = "apply",
         NEW k, workers' = [workers EXCEPT ![w] = k], k.ev = workers[w].ev,
         k.pc \in {"apply", "applied", "error"},
         k.pc = "error" => k.ev \notin Moves(outbox) /\ LeftBy(k.ev, outbox)
  PROVE  /\ Orderly'
         /\ k.pc = "applied" /\ k.ev \in Moves(outbox) => Applied' = Applied \union {k.ev}
         /\ k.pc # "applied" \/ k.ev \notin Moves(outbox) => Applied' = Applied
<1>1. workers \in [Workers -> Worker] /\ workers'[w] = k
  BY DEF IInv, TypeOK, OutboxTypeOK
<1>2. \A x \in Workers : x = w /\ workers'[x] = k
  BY <1>1 DEF SingleWorker
<1>3. WorksInTurn(w)
  BY DEF Orderly
<1>4. Moves(outbox') = Moves(outbox) /\ \A n : CompletedBefore(n)' <=> CompletedBefore(n)
  BY DEF CompletedBefore
<1>5. ASSUME NEW i \in Moves(outbox) PROVE TakesItsTurn(i)'
  <2>1. TakesItsTurn(i)
    BY DEF Orderly
  <2>2. ASSUME outbox[i].status = "processing"
        PROVE  \E x \in Workers : workers'[x].pc \in {"apply", "applied"} /\ workers'[x].ev = i
    <3>1. workers[w].ev = i
      BY <1>2, <2>1, <2>2 DEF TakesItsTurn
    <3>2. k.pc # "error"
      BY <3>1
    <3> QED BY <1>2, <3>1, <3>2
  <2> QED BY <1>4, <2>1, <2>2 DEF TakesItsTurn
<1>6. ASSUME NEW x \in Workers PROVE WorksInTurn(x)'
  <2>1. WorksInTurn(w) /\ x = w /\ workers'[x] = k
    BY <1>2, <1>3
  <2>2. CompletedBefore(k.ev)'
    BY <1>4, <2>1 DEF WorksInTurn
  <2> QED BY <1>4, <2>1, <2>2 DEF WorksInTurn
<1>7. Orderly'
  BY <1>4, <1>5, <1>6 DEF Orderly
<1>8. Applied = {i \in Moves(outbox) : outbox[i].status = "completed"}
  BY <1>2 DEF Applied
<1>9. Applied' = {i \in Moves(outbox) :
                    outbox[i].status = "completed" \/ (k.pc = "applied" /\ k.ev = i)}
  <2>1. \A i : (\E x \in Workers : workers'[x].pc = "applied" /\ workers'[x].ev = i)
                 <=> (k.pc = "applied" /\ k.ev = i)
    BY <1>2
  <2>2. Applied' = {i \in Moves(outbox) :
          \/ outbox[i].status = "completed"
          \/ \E x \in Workers : workers'[x].pc = "applied" /\ workers'[x].ev = i}
    BY DEF Applied
  <2> QED BY <2>1, <2>2
<1>10. k.pc = "applied" /\ k.ev \in Moves(outbox) => Applied' = Applied \union {k.ev}
  BY <1>8, <1>9
<1>11. k.pc # "applied" \/ k.ev \notin Moves(outbox) => Applied' = Applied
  BY <1>8, <1>9
<1> QED BY <1>7, <1>10, <1>11

\* An event of membership is applied after all that are already in the views,
\* so it has the last word on its user.
LEMMA MoveInOrder ==
  ASSUME IInv, IInv', SingleWorker, Orderly, PeopleKnown, ViewsFollow,
         NEW w \in Workers, ApplyUserJoined(w) \/ ApplyUserLeft(w)
  PROVE  Orderly' /\ ViewsFollow'
<1> DEFINE i == workers[w].ev
           k == [workers[w] EXCEPT !.pc = "applied"]
<1>1. /\ workers[w].pc = "apply" /\ workers' = [workers EXCEPT ![w] = k] /\ outbox' = outbox
      /\ Claimed(w) = outbox[i] /\ i \in DOMAIN outbox
      /\ workers \in [Workers -> Worker] /\ views \in [Users -> View]
      /\ outbox[i].kind \in {"user_joined", "user_left"}
  BY ClaimedEvent DEF ApplyUserJoined, ApplyUserLeft, Applying, IInv, TypeOK, OutboxTypeOK
<1>2. k.pc = "applied" /\ k.ev = i
  BY <1>1 DEF Worker
<1>3. i \in Moves(outbox)
  BY <1>1 DEF Moves
<1>4. PICK p \in Users : outbox[i].parts = {p}
  BY <1>3 DEF PeopleKnown
<1>5. Orderly' /\ Applied' = Applied \union {i}
  <2> HIDE DEF k
  <2> QED BY <1>1, <1>2, <1>3, WorkInOrder
<1>6. \A j \in Applied : j < i
  <2> SUFFICES ASSUME NEW j \in Applied PROVE j < i
    OBVIOUS
  <2>1. outbox[i].status = "processing"
    BY <1>1, <1>3 DEF Orderly, WorksInTurn
  <2>2. \A x \in Workers : x = w
    BY DEF SingleWorker
  <2>3. j \in Moves(outbox) /\ outbox[j].status = "completed" /\ TakesItsTurn(j)
    BY <1>1, <2>2 DEF Applied, Orderly
  <2>4. j \in Nat /\ i \in Nat
    BY <1>1, <2>3, Positions DEF Moves
  <2>5. ~(i < j) /\ i # j
    BY <1>3, <2>1, <2>3 DEF TakesItsTurn, CompletedBefore
  <2> QED BY <2>4, <2>5
<1>7. Applied \in SUBSET Nat /\ i \in Nat
  BY <1>1, Positions DEF Applied, Moves
<1>8. CASE ApplyUserJoined(w)
  <2>1. outbox[i].kind = "user_joined"
    BY <1>1, <1>8 DEF ApplyUserJoined, Applying
  <2>2. \A u : Belongs(u, Applied \union {i}, outbox) <=> u = p \/ Belongs(u, Applied, outbox)
    BY <1>4, <1>6, <1>7, <2>1, OneMoreMove
  <2>3. \A u \in Users : views'[u] = IF u = p THEN Upsert(views[u], outbox[i].seq) ELSE views[u]
    BY <1>1, <1>4, <1>8 DEF ApplyUserJoined
  <2>4. \A v, seq : Visible(Upsert(v, seq))
    BY DEF Visible, Upsert
  <2>5. \A u \in Users : Visible(views'[u]) <=> u = p \/ Visible(views[u])
    BY <2>3, <2>4
  <2> QED BY <1>1, <1>5, <2>2, <2>5 DEF ViewsFollow
<1>9. CASE ApplyUserLeft(w)
  <2>1. outbox[i].kind = "user_left"
    BY <1>1, <1>9 DEF ApplyUserLeft, Applying
  <2>2. \A u : Belongs(u, Applied \union {i}, outbox) <=> u # p /\ Belongs(u, Applied, outbox)
    BY <1>4, <1>6, <1>7, <2>1, OneMoreMove
  <2>3. \A u \in Users : views'[u] = IF u = p THEN MarkLeft(views[u]) ELSE views[u]
    BY <1>1, <1>4, <1>9 DEF ApplyUserLeft
  <2>4. \A v \in View : ~Visible(MarkLeft(v))
    BY DEF Visible, MarkLeft, View
  <2>5. \A u \in Users : Visible(views'[u]) <=> u # p /\ Visible(views[u])
    BY <1>1, <2>3, <2>4
  <2> QED BY <1>1, <1>5, <2>2, <2>5 DEF ViewsFollow
<1> QED BY <1>8, <1>9

\* A message is refused only by the view of a participant who has left: all
\* events about their joining are in the views by then.
LEMMA RefusedByLeaver ==
  ASSUME IInv, IInv', SingleWorker, Orderly, PeopleKnown, ViewsFollow, TodoWithin,
         NEW w \in Workers, Applying(w, "message_sent"), NEW u \in workers[w].todo,
         ~MessageAccepted(views[u], Claimed(w).seq)
  PROVE  LeftBy(workers[w].ev, outbox)
<1> DEFINE i == workers[w].ev
<1>1. /\ i \in DOMAIN outbox /\ Claimed(w) = outbox[i] /\ outbox[i].kind = "message_sent"
      /\ Claimed(w).seq \in Nat /\ workers[w].pc = "apply" /\ outbox[i].parts \subseteq Users
  BY ClaimedEvent DEF Applying
<1>2. u \in outbox[i].parts /\ u \in Users /\ views[u] \in View
  BY <1>1 DEF TodoWithin, TodoOf, IInv, TypeOK, OutboxTypeOK
<1>3. ~Visible(views[u])
  BY <1>1, <1>2 DEF MessageAccepted, AcceptsMessage, Visible, View
<1>4. ~Belongs(u, Applied, outbox)
  BY <1>2, <1>3 DEF ViewsFollow
<1>5. Known(u, i, outbox)
  BY <1>1, <1>2 DEF PeopleKnown, Moves
<1>6. \A j \in DOMAIN outbox : j < i /\ HasJoined(u, j, outbox) => j \in Applied
  <2> SUFFICES ASSUME NEW j \in DOMAIN outbox, j < i, HasJoined(u, j, outbox)
               PROVE  j \in Applied
    OBVIOUS
  <2>1. j \in Moves(outbox) /\ CompletedBefore(i)
    BY <1>1 DEF Moves, HasJoined, Orderly, WorksInTurn
  <2> QED BY <2>1 DEF CompletedBefore, Applied
<1>7. PICK j \in Applied : HasLeft(u, j, outbox)
  BY <1>4, <1>5, <1>6 DEF Belongs, Known
<1>8. j \in Moves(outbox) /\ j \in DOMAIN outbox
  BY DEF Applied, Moves
<1>9. PICK p \in Users : outbox[j].parts = {p}
  BY <1>8 DEF PeopleKnown
<1>10. outbox[j].kind = "user_left" /\ outbox[j].parts \subseteq outbox[i].parts
  BY <1>2, <1>7, <1>9 DEF HasLeft
<1> QED BY <1>8, <1>10 DEF LeftBy

\* A message leaves alone who sees the chat.
LEMMA MessageInOrder ==
  ASSUME IInv, IInv', SingleWorker, Orderly, PeopleKnown, ViewsFollow, TodoWithin,
         NEW w \in Workers, ApplyMessageToUser(w) \/ ApplySenderRead(w), StatesKept
  PROVE  Orderly' /\ ViewsFollow'
<1>1. /\ Applying(w, "message_sent") /\ workers[w].pc = "apply" /\ outbox' = outbox
      /\ workers \in [Workers -> Worker] /\ workers[w] \in Worker
  BY DEF ApplyMessageToUser, ApplySenderRead, Applying, IInv, TypeOK, OutboxTypeOK
<1>2. workers[w].ev \notin Moves(outbox) /\ workers[w].ev \in DOMAIN outbox
  BY <1>1, ClaimedEvent DEF Applying, Moves
<1>3. PICK k : /\ workers' = [workers EXCEPT ![w] = k] /\ k.ev = workers[w].ev
               /\ k.pc \in {"apply", "applied", "error"}
               /\ k.pc = "error" => LeftBy(k.ev, outbox)
  <2>1. CASE ApplyMessageToUser(w)
    <3>1. PICK u \in workers[w].todo :
            IF MessageAccepted(views[u], Claimed(w).seq)
            THEN workers' = [workers EXCEPT ![w].todo = workers[w].todo \ {u}]
            ELSE workers' = [workers EXCEPT ![w].pc = "error"]
      BY <2>1 DEF ApplyMessageToUser
    <3>2. CASE MessageAccepted(views[u], Claimed(w).seq)
      <4> DEFINE k == [workers[w] EXCEPT !.todo = workers[w].todo \ {u}]
      <4>1. k.ev = workers[w].ev /\ k.pc = "apply"
        BY <1>1 DEF Worker
      <4>2. workers' = [workers EXCEPT ![w] = k]
        BY <3>1, <3>2
      <4> HIDE DEF k
      <4> QED BY <4>1, <4>2
    <3>3. CASE ~MessageAccepted(views[u], Claimed(w).seq)
      <4> DEFINE k == [workers[w] EXCEPT !.pc = "error"]
      <4>1. k.ev = workers[w].ev /\ k.pc = "error"
        BY <1>1 DEF Worker
      <4>2. workers' = [workers EXCEPT ![w] = k]
        BY <3>1, <3>3
      <4>3. LeftBy(workers[w].ev, outbox)
        BY <1>1, <3>3, RefusedByLeaver
      <4> HIDE DEF k
      <4> QED BY <4>1, <4>2, <4>3
    <3> QED BY <3>2, <3>3
  <2>2. CASE ApplySenderRead(w)
    <3> DEFINE k == [workers[w] EXCEPT !.pc = "applied"]
    <3>1. k.ev = workers[w].ev /\ k.pc = "applied"
      BY <1>1 DEF Worker
    <3>2. workers' = [workers EXCEPT ![w] = k]
      BY <2>2 DEF ApplySenderRead
    <3> HIDE DEF k
    <3> QED BY <3>1, <3>2
  <2> QED BY <2>1, <2>2
<1>4. Orderly' /\ Applied' = Applied
  BY <1>1, <1>2, <1>3, WorkInOrder
<1>5. Continues(outbox, outbox')
  BY <1>1 DEF Continues, SamePayload
<1> QED BY <1>4, <1>5, ViewsLast

\* Its end completes an event of membership in its turn, or gives up a message
\* only where a participant has left.
LEMMA EndInOrder ==
  ASSUME IInv, IInv', SingleWorker, Orderly, ViewsFollow, Continues(outbox, outbox'),
         NEW w \in Workers, Complete(w) \/ Retry(w)
  PROVE  Orderly' /\ ViewsFollow'
<1> DEFINE i == workers[w].ev
<1>1. /\ OutboxTypeOK /\ workers \in [Workers -> Worker] /\ i \in DOMAIN outbox
      /\ workers[w].pc \in {"applied", "error"} /\ views' = views
      /\ workers' = [workers EXCEPT ![w] = Idle]
  BY DEF Complete, Retry, IInv, TypeOK, OutboxTypeOK
<1>2. /\ DOMAIN outbox' = DOMAIN outbox
      /\ \A j \in DOMAIN outbox : j # i => outbox'[j] = outbox[j]
      /\ Complete(w) /\ outbox[i].status = "processing" => outbox'[i].status = "completed"
      /\ Complete(w) /\ outbox[i].status # "processing" => outbox'[i] = outbox[i]
  <2>1. outbox \in Seq(Event) /\ outbox[i].attempts \in Nat
    BY <1>1, EventAt
  <2>2. PICK st \in {"completed", "failed", "pending"}, t \in {"running", "off"} :
          /\ outbox' = UpdateProcessing(i, st, t)
          /\ Complete(w) => st = "completed"
    <3>1. CASE Complete(w)
      BY <3>1 DEF Complete
    <3>2. CASE Retry(w)
      <4>1. ~Complete(w)
        BY <3>2 DEF Complete, Retry
      <4> QED BY <3>2, <4>1 DEF Retry
    <3> QED BY <3>1, <3>2
  <2>3. st \in Unsettled \union Settled
    BY DEF Unsettled, Settled
  <2>4. CASE outbox[i].status = "processing"
    <3>1. outbox' = Rewrite(outbox, i, st, t, outbox[i].attempts)
      BY <2>2, <2>4 DEF UpdateProcessing, Rewrite
    <3>2. /\ Rewritten(outbox, outbox') /\ outbox'[i].status = st
          /\ \A j \in DOMAIN outbox : j # i => outbox'[j] = outbox[j]
      BY <1>1, <2>1, <2>3, <3>1, RewriteOne
    <3> QED BY <2>2, <2>4, <3>2 DEF Rewritten
  <2>5. CASE outbox[i].status # "processing"
    BY <2>2, <2>5 DEF UpdateProcessing
  <2> QED BY <2>4, <2>5
<1>3. \A x \in Workers : x = w /\ workers'[x].pc = "idle"
  BY <1>1 DEF SingleWorker, Idle
<1>4. /\ Moves(outbox') = Moves(outbox) /\ Moves(outbox) \subseteq DOMAIN outbox
      /\ \A j \in DOMAIN outbox : LeftBy(j, outbox) => LeftBy(j, outbox')
  BY <1>2, Lasting DEF Moves
<1>5. WorksInTurn(w) /\ CompletedBefore(i)
  BY <1>1 DEF Orderly, WorksInTurn
<1>6. i \in Moves(outbox) => outbox'[i].status = "completed" /\ outbox[i].status = "processing"
                             /\ workers[w].pc = "applied"
  <2> SUFFICES ASSUME i \in Moves(outbox)
               PROVE  outbox'[i].status = "completed" /\ outbox[i].status = "processing"
                      /\ workers[w].pc = "applied"
    OBVIOUS
  <2>1. workers[w].pc = "applied" /\ outbox[i].status = "processing"
    BY <1>1, <1>5 DEF WorksInTurn
  <2>2. Complete(w)
    BY <2>1 DEF Retry
  <2> QED BY <1>2, <2>1, <2>2
<1>7. ASSUME NEW n, CompletedBefore(n) PROVE CompletedBefore(n)'
  BY <1>2, <1>4, <1>6, <1>7 DEF CompletedBefore
<1>8. ASSUME NEW j \in Moves(outbox') PROVE TakesItsTurn(j)'
  <2>1. CASE j = i
    BY <1>4, <1>5, <1>6, <1>7, <2>1 DEF TakesItsTurn
  <2>2. CASE j # i
    <3>1. /\ j \in Moves(outbox) /\ outbox'[j] = outbox[j] /\ TakesItsTurn(j)
          /\ outbox[j].status # "processing"
      BY <1>2, <1>3, <1>4, <2>2 DEF Orderly, TakesItsTurn
    <3> QED BY <1>7, <3>1 DEF TakesItsTurn
  <2> QED BY <2>1, <2>2
<1>9. ASSUME NEW x \in Workers PROVE WorksInTurn(x)'
  BY <1>3 DEF WorksInTurn
<1>10. ASSUME NEW j \in DOMAIN outbox', outbox'[j].status = "failed" PROVE LeftBy(j, outbox')
  <2>1. j \in DOMAIN outbox
    BY <1>2
  <2>2. outbox[j].status = "failed" => LeftBy(j, outbox)
    BY <2>1 DEF Orderly
  <2>3. CASE workers[w].pc = "error" /\ j = i
    BY <1>4, <1>5, <2>1, <2>3 DEF WorksInTurn
  <2>4. CASE workers[w].pc = "error" /\ j # i
    BY <1>2, <1>4, <1>10, <2>1, <2>2, <2>4
  <2>5. CASE workers[w].pc = "applied"
    <3>1. Complete(w)
      BY <2>5 DEF Retry
    <3> QED BY <1>2, <1>4, <1>10, <2>1, <2>2, <3>1
  <2> QED BY <1>1, <2>3, <2>4, <2>5
<1>11. Applied' = Applied
  <2>1. Applied' = {j \in Moves(outbox) : outbox'[j].status = "completed"}
    BY <1>3, <1>4 DEF Applied
  <2>2. Applied = {j \in Moves(outbox) : \/ outbox[j].status = "completed"
                                         \/ workers[w].pc = "applied" /\ j = i}
    BY <1>3 DEF Applied
  <2>3. \A j \in Moves(outbox) :
          outbox'[j].status = "completed"
            <=> outbox[j].status = "completed" \/ (workers[w].pc = "applied" /\ j = i)
    BY <1>2, <1>4, <1>6
  <2> QED BY <2>1, <2>2, <2>3
<1>12. StatesKept
  BY <1>1 DEF StatesKept
<1> QED BY <1>8, <1>9, <1>10, <1>11, <1>12, ViewsLast DEF Orderly

\* Steps that publish nothing and leave the group and the sends alone.
LEMMA PeopleLast ==
  ASSUME IInv, IInv', PeopleKnown, MembersFollow, Continues(outbox, outbox'),
         DOMAIN outbox' = DOMAIN outbox, UNCHANGED <<groupVars, sendVars>>
  PROVE  PeopleKnown' /\ MembersFollow'
<1>1. /\ Moves(outbox') = Moves(outbox) /\ Len(outbox') = Len(outbox)
      /\ Moves(outbox) \subseteq DOMAIN outbox
      /\ \A i \in DOMAIN outbox : outbox'[i].parts = outbox[i].parts
      /\ \A u, n : Known(u, n, outbox) => Known(u, n, outbox')
  <2>1. \A i \in DOMAIN outbox : outbox'[i].parts = outbox[i].parts
    BY DEF Continues, SamePayload
  <2>2. Moves(outbox') \subseteq DOMAIN outbox' /\ Moves(outbox) \subseteq DOMAIN outbox
    BY DEF Moves
  <2>3. /\ Moves(outbox') \intersect DOMAIN outbox = Moves(outbox)
        /\ \A u, n : Known(u, n, outbox) => Known(u, n, outbox')
    BY Lasting
  <2>4. Moves(outbox') = Moves(outbox)
    BY <2>2, <2>3
  <2>5. Len(outbox') = Len(outbox)
    BY Positions
  <2> QED BY <2>1, <2>2, <2>3, <2>4, <2>5
<1>2. UNCHANGED <<active, members, notices, sends>>
  BY DEF groupVars, sendVars
<1>3. PeopleKnown'
  <2>1. \A i \in Moves(outbox) : \E u \in Users : outbox'[i].parts = {u}
    BY <1>1 DEF PeopleKnown
  <2>2. \A i \in DOMAIN outbox \ Moves(outbox) : \A u \in outbox'[i].parts : Known(u, i, outbox')
    BY <1>1 DEF PeopleKnown
  <2>3. \A u \in members \union notices : Known(u, Len(outbox) + 1, outbox')
    BY <1>1 DEF PeopleKnown
  <2>4. \A m \in Messages : sends[m].stage # "new" =>
          \A u \in Participants(m) : Known(u, Len(outbox) + 1, outbox')
    BY <1>1 DEF PeopleKnown
  <2> QED BY <1>1, <1>2, <2>1, <2>2, <2>3, <2>4 DEF PeopleKnown, Participants
<1>4. \A u \in Users : Belongs(u, Moves(outbox), outbox) <=> Belongs(u, Moves(outbox), outbox')
  BY <1>1, Lasting
<1> QED BY <1>1, <1>2, <1>3, <1>4 DEF MembersFollow

---------------------------------------------------------------------------
\* What the services publish.

\* An outbox that goes on with new events, which wait for a worker.
LEMMA PublishRests ==
  ASSUME IInv, IInv', NEW kind \in Kinds, NEW parts \in SUBSET Users,
         NEW sender \in Users, NEW seq \in Nat, Publish(NewEvent(kind, parts, sender, seq))
  PROVE  /\ OutboxRests
         /\ Len(outbox') = Len(outbox) + 1 /\ DOMAIN outbox' = DOMAIN outbox \union {Len(outbox) + 1}
         /\ outbox'[Len(outbox) + 1].kind = kind /\ outbox'[Len(outbox) + 1].parts = parts
<1> DEFINE e == NewEvent(kind, parts, sender, seq)
           n == Len(outbox) + 1
<1>1. /\ e \in Event /\ e.kind = kind /\ e.parts = parts
      /\ e.status = "pending" /\ e.timer = "off"
  BY NewEventType DEF NewEvent
<1>2. outbox \in Seq(Event) /\ outbox' = Append(outbox, e)
  BY DEF IInv, TypeOK, OutboxTypeOK, Publish
<1> HIDE DEF e
<1>3. /\ outbox' \in Seq(Event) /\ Len(outbox') = n /\ outbox'[n] = e
      /\ \A i \in 1..Len(outbox) : outbox'[i] = outbox[i]
  BY <1>1, <1>2, AppendProperties
<1>4. /\ DOMAIN outbox = 1..Len(outbox) /\ Len(outbox) \in Nat
      /\ DOMAIN outbox' = 1..n
  BY <1>2, <1>3
<1>5. DOMAIN outbox' = DOMAIN outbox \union {n}
  BY <1>4
<1>6. \A i \in DOMAIN outbox : i \in DOMAIN outbox' /\ outbox'[i] = outbox[i]
  BY <1>3, <1>4, <1>5
<1>7. \A i \in DOMAIN outbox' \ DOMAIN outbox : outbox'[i] = e
  BY <1>3, <1>5
<1> HIDE DEF n
<1> QED BY <1>1, <1>3, <1>5, <1>6, <1>7 DEF OutboxRests, Continues, SamePayload, n

\* The people of the old events, when one is published.
LEMMA OldPeople ==
  ASSUME IInv, IInv', PeopleKnown, Continues(outbox, outbox')
  PROVE  /\ \A i \in Moves(outbox') : i \in DOMAIN outbox => \E u \in Users : outbox'[i].parts = {u}
         /\ \A i \in DOMAIN outbox' \ Moves(outbox') : i \in DOMAIN outbox =>
              \A u \in outbox'[i].parts : Known(u, i, outbox')
         /\ \A u \in members \union notices : Known(u, Len(outbox') + 1, outbox')
         /\ \A m \in Messages : sends[m].stage # "new" =>
              \A u \in Participants(m) : Known(u, Len(outbox') + 1, outbox')
         /\ \A u : Known(u, Len(outbox) + 1, outbox) => Known(u, Len(outbox') + 1, outbox')
<1>1. /\ Moves(outbox) \subseteq Moves(outbox')
      /\ \A i \in Moves(outbox') : i \in DOMAIN outbox => i \in Moves(outbox)
      /\ \A u, n : Known(u, n, outbox) => Known(u, n, outbox')
      /\ \A i \in DOMAIN outbox : outbox'[i].parts = outbox[i].parts
  BY Lasting DEF Continues, SamePayload
<1>2. Len(outbox) <= Len(outbox') /\ Len(outbox) \in Nat /\ Len(outbox') \in Nat
  BY Positions DEF Continues
<1>3. \A u : Known(u, Len(outbox) + 1, outbox) => Known(u, Len(outbox') + 1, outbox')
  <2>1. \A j \in DOMAIN outbox' : j < Len(outbox') + 1
    BY Positions
  <2> QED BY <1>1, <2>1 DEF Known
<1>4. \A i \in Moves(outbox') : i \in DOMAIN outbox => \E u \in Users : outbox'[i].parts = {u}
  BY <1>1 DEF PeopleKnown
<1>5. \A i \in DOMAIN outbox' \ Moves(outbox') : i \in DOMAIN outbox =>
        \A u \in outbox'[i].parts : Known(u, i, outbox')
  BY <1>1 DEF PeopleKnown
<1> QED BY <1>3, <1>4, <1>5 DEF PeopleKnown

\* One move more is all that changes when a member joins or leaves.
LEMMA OneMovePublished ==
  ASSUME IInv, IInv', PeopleKnown, NEW p \in Users, NEW kind \in {"user_joined", "user_left"},
         NEW seq \in Nat, Publish(NewEvent(kind, {p}, p, seq))
  PROVE  /\ OutboxRests
         /\ \A i \in Moves(outbox') : \E u \in Users : outbox'[i].parts = {u}
         /\ \A i \in DOMAIN outbox' \ Moves(outbox') :
              \A u \in outbox'[i].parts : Known(u, i, outbox')
         /\ kind = "user_joined" => Known(p, Len(outbox') + 1, outbox')
         /\ \A u : Belongs(u, Moves(outbox'), outbox') <=>
                   IF kind = "user_joined" THEN u = p \/ Belongs(u, Moves(outbox), outbox)
                                           ELSE u # p /\ Belongs(u, Moves(outbox), outbox)
<1> DEFINE n == Len(outbox) + 1
<1>1. /\ OutboxRests /\ Continues(outbox, outbox') /\ DOMAIN outbox' = DOMAIN outbox \union {n}
      /\ outbox'[n].kind = kind /\ outbox'[n].parts = {p} /\ Len(outbox') = n
  BY PublishRests DEF Kinds, OutboxRests
<1>2. n \in Nat /\ n < Len(outbox') + 1 /\ n \notin DOMAIN outbox /\ \A i \in DOMAIN outbox : i < n
  BY <1>1, Positions
<1> HIDE DEF n
<1>3. n \in Moves(outbox') /\ Moves(outbox') = Moves(outbox) \union {n}
  <2>1. Moves(outbox') \intersect DOMAIN outbox = Moves(outbox) /\ Moves(outbox') \subseteq DOMAIN outbox'
    BY <1>1, Lasting DEF Moves
  <2>2. n \in Moves(outbox')
    BY <1>1 DEF Moves
  <2> QED BY <1>1, <2>1, <2>2
<1>4. \A i \in Moves(outbox') : \E u \in Users : outbox'[i].parts = {u}
  <2> SUFFICES ASSUME NEW i \in Moves(outbox') PROVE \E u \in Users : outbox'[i].parts = {u}
    OBVIOUS
  <2>1. i \in DOMAIN outbox \/ i = n
    BY <1>1 DEF Moves
  <2> QED BY <1>1, <2>1, OldPeople
<1>5. \A i \in DOMAIN outbox' \ Moves(outbox') :
        \A u \in outbox'[i].parts : Known(u, i, outbox')
  BY <1>1, <1>3, OldPeople
<1>6. kind = "user_joined" => Known(p, Len(outbox') + 1, outbox')
  BY <1>1, <1>2 DEF Known, HasJoined
<1>7. \A u : Belongs(u, Moves(outbox), outbox) <=> Belongs(u, Moves(outbox), outbox')
  BY <1>1, Lasting DEF Moves
<1>8. Moves(outbox) \in SUBSET Nat /\ \A j \in Moves(outbox) : j < n
  BY <1>2, Positions DEF Moves
<1>9. /\ kind = "user_joined" =>
           \A u : Belongs(u, Moves(outbox'), outbox') <=> u = p \/ Belongs(u, Moves(outbox), outbox')
      /\ kind = "user_left" =>
           \A u : Belongs(u, Moves(outbox'), outbox') <=> u # p /\ Belongs(u, Moves(outbox), outbox')
  <2> DEFINE A == Moves(outbox)
             fs == outbox'
  <2>1. A \in SUBSET Nat /\ n \in Nat /\ (\A j \in A : j < n) /\ fs[n].parts = {p}
    BY <1>1, <1>2, <1>8
  <2>2. fs[n].kind = kind /\ Moves(outbox') = A \union {n}
    BY <1>1, <1>3
  <2> HIDE DEF A, fs
  <2>3. /\ fs[n].kind = "user_joined" =>
             \A u : Belongs(u, A \union {n}, fs) <=> u = p \/ Belongs(u, A, fs)
        /\ fs[n].kind = "user_left" =>
             \A u : Belongs(u, A \union {n}, fs) <=> u # p /\ Belongs(u, A, fs)
    BY <2>1, OneMoreMove
  <2> QED BY <2>2, <2>3 DEF A, fs
<1> QED BY <1>1, <1>4, <1>5, <1>6, <1>7, <1>9

\* A dismissal is the departure of each member.
LEMMA DismissEvents ==
  ASSUME IInv, IInv', Dismiss
  PROVE  /\ OutboxRests
         /\ \A i \in DOMAIN outbox' \ DOMAIN outbox :
              outbox'[i].kind = "user_left" /\ \E p \in Users : outbox'[i].parts = {p}
         /\ \A u \in members : \E i \in DOMAIN outbox' : HasLeft(u, i, outbox') /\ i \notin DOMAIN outbox
<1>1. PICK q \in Orders(members) :
        outbox' = outbox \o [k \in DOMAIN q |-> NewEvent("user_left", {q[k]}, q[k], 0)]
  BY DEF Dismiss
<1> DEFINE n == Cardinality(members)
           e(k) == NewEvent("user_left", {q[k]}, q[k], 0)
           t == [k \in 1..n |-> e(k)]
<1>2. n \in Nat /\ IsFiniteSet(members) /\ members \subseteq Users
  BY ProjectionAssumption, FS_Subset, FS_CardinalityType DEF IInv, TypeOK
<1>3. q \in [1..n -> members] /\ outbox \in Seq(Event) /\ outbox' = outbox \o t
  BY <1>1 DEF Orders, IInv, TypeOK, OutboxTypeOK
<1>4. \A u \in members : \E k \in 1..n : q[k] = u
  <2>1. q \in Injection(1..n, members)
    BY <1>1, <1>3 DEF Orders, Injection, IsInjective
  <2>2. Cardinality(1..n) = n
    BY <1>2, FS_Interval
  <2>3. q \in Surjection(1..n, members)
    BY <1>2, <2>1, <2>2, FS_Injection
  <2> QED BY <2>3 DEF Surjection
<1>5. \A k \in 1..n : /\ e(k) \in Event /\ e(k).kind = "user_left" /\ e(k).parts = {q[k]}
                      /\ e(k).status = "pending" /\ e(k).timer = "off" /\ q[k] \in Users
  <2> TAKE k \in 1..n
  <2>1. q[k] \in Users
    BY <1>2, <1>3
  <2> QED BY <2>1, NewEventType DEF Kinds, NewEvent
<1> HIDE DEF e, n
<1>6. t \in Seq(Event) /\ Len(t) = n
  BY <1>2, <1>5, IsASeq
<1> HIDE DEF t
<1>7. /\ outbox' \in Seq(Event) /\ Len(outbox') = Len(outbox) + n
      /\ \A k \in 1..(Len(outbox) + n) :
           outbox'[k] = IF k <= Len(outbox) THEN outbox[k] ELSE t[k - Len(outbox)]
  BY <1>3, <1>6, ConcatProperties
<1>8. DOMAIN outbox = 1..Len(outbox) /\ Len(outbox) \in Nat /\ DOMAIN outbox' = 1..Len(outbox')
  BY <1>3, <1>7
<1>9. ASSUME NEW i \in DOMAIN outbox' \ DOMAIN outbox
      PROVE  i - Len(outbox) \in 1..n /\ outbox'[i] = e(i - Len(outbox))
  <2>1. /\ i \in 1..(Len(outbox) + n) /\ ~(i <= Len(outbox))
        /\ i - Len(outbox) \in 1..n
    BY <1>2, <1>7, <1>8
  <2>2. outbox'[i] = t[i - Len(outbox)]
    BY <1>7, <2>1
  <2>3. t[i - Len(outbox)] = e(i - Len(outbox))
    BY <2>1 DEF t
  <2> QED BY <2>1, <2>2, <2>3
<1>10. \A i \in DOMAIN outbox : i \in DOMAIN outbox' /\ outbox'[i] = outbox[i]
  BY <1>2, <1>7, <1>8
<1>11. OutboxRests
  <2>1. \A i \in DOMAIN outbox' \ DOMAIN outbox :
          outbox'[i].status = "pending" /\ outbox'[i].timer = "off"
    BY <1>5, <1>9
  <2> QED BY <1>10, <2>1 DEF OutboxRests, Continues, SamePayload
<1>12. \A i \in DOMAIN outbox' \ DOMAIN outbox :
         outbox'[i].kind = "user_left" /\ \E p \in Users : outbox'[i].parts = {p}
  BY <1>5, <1>9
<1>13. ASSUME NEW u \in members
       PROVE  \E i \in DOMAIN outbox' : HasLeft(u, i, outbox') /\ i \notin DOMAIN outbox
  <2>1. PICK k \in 1..n : q[k] = u
    BY <1>4
  <2>2. /\ Len(outbox) + k \in DOMAIN outbox' /\ Len(outbox) + k \notin DOMAIN outbox
        /\ (Len(outbox) + k) - Len(outbox) = k
    BY <1>2, <1>7, <1>8
  <2>3. outbox'[Len(outbox) + k] = e(k)
    BY <1>9, <2>2
  <2> QED BY <1>5, <2>1, <2>2, <2>3 DEF HasLeft
<1> QED BY <1>11, <1>12, <1>13

LEMMA DismissKeepsPeople ==
  ASSUME IInv, IInv', PeopleKnown, MembersFollow, Dismiss
  PROVE  OutboxRests /\ PeopleKnown' /\ MembersFollow'
<1>1. /\ OutboxRests /\ Continues(outbox, outbox')
      /\ \A i \in DOMAIN outbox' \ DOMAIN outbox :
           outbox'[i].kind = "user_left" /\ \E p \in Users : outbox'[i].parts = {p}
      /\ \A u \in members : \E i \in DOMAIN outbox' : HasLeft(u, i, outbox') /\ i \notin DOMAIN outbox
  BY DismissEvents DEF OutboxRests
<1>2. active /\ ~active' /\ UNCHANGED <<members, notices, sends>>
  BY DEF Dismiss, sendVars, IInv, TypeOK
<1>3. PeopleKnown'
  <2>1. \A i \in Moves(outbox') : \E u \in Users : outbox'[i].parts = {u}
    BY <1>1, OldPeople DEF Moves
  <2>2. \A i \in DOMAIN outbox' \ Moves(outbox') :
          \A u \in outbox'[i].parts : Known(u, i, outbox')
    <3>1. \A i \in DOMAIN outbox' \ Moves(outbox') : i \in DOMAIN outbox
      BY <1>1 DEF Moves
    <3> QED BY <1>1, <3>1, OldPeople
  <2>3. /\ \A u \in members \union notices : Known(u, Len(outbox') + 1, outbox')
        /\ \A m \in Messages : sends[m].stage # "new" =>
             \A u \in Participants(m) : Known(u, Len(outbox') + 1, outbox')
    BY <1>1, OldPeople
  <2> QED BY <1>2, <2>1, <2>2, <2>3 DEF PeopleKnown, Participants
<1>4. ASSUME NEW u \in Users PROVE ~Belongs(u, Moves(outbox'), outbox')
  <2>1. CASE u \in members
    <3>1. PICK j \in DOMAIN outbox' : HasLeft(u, j, outbox') /\ j \notin DOMAIN outbox
      BY <1>1, <2>1
    <3>2. j \in Moves(outbox')
      BY <3>1 DEF Moves, HasLeft
    <3>3. ASSUME NEW i \in Moves(outbox'), HasJoined(u, i, outbox') PROVE ~(j < i)
      <4>1. i \in DOMAIN outbox
        BY <1>1, <3>3 DEF Moves, HasJoined
      <4>2. i < j /\ i \in Nat /\ j \in Nat
        BY <3>1, <4>1, Positions
      <4> QED BY <4>2
    <3> QED BY <3>1, <3>2, <3>3 DEF Belongs
  <2>2. CASE u \notin members
    <3>1. ~Belongs(u, Moves(outbox), outbox)
      BY <2>2 DEF MembersFollow
    <3>2. ~Belongs(u, Moves(outbox), outbox')
      BY <1>1, <3>1, Lasting DEF Moves
    <3>3. /\ Moves(outbox) \subseteq Moves(outbox')
          /\ \A i \in Moves(outbox') : HasJoined(u, i, outbox') => i \in Moves(outbox)
      <4>1. /\ Moves(outbox) \subseteq Moves(outbox')
            /\ Moves(outbox') \intersect DOMAIN outbox = Moves(outbox)
        BY <1>1, Lasting
      <4>2. \A i \in Moves(outbox') : HasJoined(u, i, outbox') => i \in DOMAIN outbox
        BY <1>1 DEF Moves, HasJoined
      <4> QED BY <4>1, <4>2
    <3> QED BY <3>2, <3>3 DEF Belongs
  <2> QED BY <2>1, <2>2
<1> QED BY <1>1, <1>2, <1>3, <1>4 DEF MembersFollow

LEMMA RosterKeepsPeople ==
  ASSUME IInv, IInv', PeopleKnown, MembersFollow, NEW u \in Users, Join(u) \/ Leave(u)
  PROVE  OutboxRests /\ PeopleKnown' /\ MembersFollow'
<1>1. lastSeq \in Nat /\ members \subseteq Users /\ active
  BY DEF IInv, TypeOK, Join, Leave
<1>2. PICK kind \in {"user_joined", "user_left"}, seq \in Nat :
        /\ Publish(NewEvent(kind, {u}, u, seq))
        /\ members' = IF kind = "user_joined" THEN members \union {u} ELSE members \ {u}
        /\ \E operator \in members \union members' : Notify(operator)
        /\ active' = active /\ sends' = sends
  <2>1. CASE Join(u)
    BY <1>1, <2>1 DEF Join, sendVars
  <2>2. CASE Leave(u)
    <3>1. 0 \in Nat
      OBVIOUS
    <3> QED BY <2>2, <3>1 DEF Leave, sendVars
  <2> QED BY <2>1, <2>2
<1>3. /\ OutboxRests /\ Continues(outbox, outbox')
      /\ \A i \in Moves(outbox') : \E x \in Users : outbox'[i].parts = {x}
      /\ \A i \in DOMAIN outbox' \ Moves(outbox') :
           \A x \in outbox'[i].parts : Known(x, i, outbox')
      /\ kind = "user_joined" => Known(u, Len(outbox') + 1, outbox')
      /\ \A x : Belongs(x, Moves(outbox'), outbox') <=>
                IF kind = "user_joined" THEN x = u \/ Belongs(x, Moves(outbox), outbox)
                                        ELSE x # u /\ Belongs(x, Moves(outbox), outbox)
  BY <1>2, OneMovePublished DEF OutboxRests
<1>4. /\ \A x \in members \union notices : Known(x, Len(outbox') + 1, outbox')
      /\ \A m \in Messages : sends[m].stage # "new" =>
           \A x \in Participants(m) : Known(x, Len(outbox') + 1, outbox')
  BY <1>3, OldPeople
<1>5. \A x \in members' : x \in members \/ (x = u /\ kind = "user_joined")
  BY <1>2
<1>6. \A x \in notices' : x \in notices \union members \union members'
  BY <1>2 DEF Notify
<1>7. \A x \in members' \union notices' : Known(x, Len(outbox') + 1, outbox')
  BY <1>3, <1>4, <1>5, <1>6
<1>8. PeopleKnown'
  BY <1>2, <1>3, <1>4, <1>7 DEF PeopleKnown, Participants
<1>9. MembersFollow'
  BY <1>1, <1>2, <1>3 DEF MembersFollow
<1> QED BY <1>3, <1>8, <1>9

\* Steps that publish nothing: whom they name has been a member.
LEMMA NamedKnown ==
  ASSUME PeopleKnown, MembersFollow, UNCHANGED <<outbox, members, active>>,
         notices' \subseteq notices \union members,
         \A m \in Messages : sends'[m].stage # "new" =>
           \A u \in {sends'[m].sender} \union sends'[m].to : Known(u, Len(outbox) + 1, outbox)
  PROVE  OutboxRests /\ PeopleKnown' /\ MembersFollow'
<1>1. OutboxRests
  BY DEF OutboxRests, Continues, SamePayload
<1>2. PeopleKnown'
  BY DEF PeopleKnown, Participants
<1>3. MembersFollow'
  BY DEF MembersFollow
<1> QED BY <1>1, <1>2, <1>3

LEMMA StoreKeepsPeople ==
  ASSUME IInv, IInv', PeopleKnown, MembersFollow, NEW m \in Messages, Store(m)
  PROVE  OutboxRests /\ PeopleKnown' /\ MembersFollow'
<1> DEFINE n == Len(outbox) + 1
<1>1. /\ sends \in [Messages -> Send] /\ sends[m].stage = "numbered"
      /\ sends' = [sends EXCEPT ![m].stage = "stored"]
      /\ UNCHANGED <<active, members, notices>>
      /\ Publish(NewEvent("message_sent", Participants(m), sends[m].sender, sends[m].seq))
  BY DEF Store, groupVars, IInv, TypeOK
<1>2. sends[m].sender \in Users /\ sends[m].seq \in Nat /\ Participants(m) \subseteq Users
  BY <1>1 DEF IInv, TypeOK, Send, Participants
<1>3. /\ OutboxRests /\ Continues(outbox, outbox') /\ DOMAIN outbox' = DOMAIN outbox \union {n}
      /\ outbox'[n].kind = "message_sent" /\ outbox'[n].parts = Participants(m)
      /\ Len(outbox') = n
  BY <1>1, <1>2, PublishRests DEF Kinds, OutboxRests
<1>4. \A u \in Participants(m) : Known(u, n, outbox) /\ Known(u, n, outbox')
  BY <1>1, <1>3, Lasting DEF PeopleKnown
<1> HIDE DEF n
<1>5. n \notin Moves(outbox')
  BY <1>3 DEF Moves
<1>6. Moves(outbox') = Moves(outbox)
  <2>1. /\ Moves(outbox') \intersect DOMAIN outbox = Moves(outbox)
        /\ Moves(outbox') \subseteq DOMAIN outbox'
    BY <1>3, Lasting DEF Moves
  <2> QED BY <1>3, <1>5, <2>1
<1>7. \A i \in Moves(outbox') : \E u \in Users : outbox'[i].parts = {u}
  <2>1. \A i \in Moves(outbox') : i \in DOMAIN outbox
    BY <1>6 DEF Moves
  <2> QED BY <1>3, <2>1, OldPeople
<1>8. \A i \in DOMAIN outbox' \ Moves(outbox') :
        \A u \in outbox'[i].parts : Known(u, i, outbox')
  BY <1>3, <1>4, OldPeople
<1>9. /\ \A u \in members \union notices : Known(u, Len(outbox') + 1, outbox')
      /\ \A k \in Messages : sends[k].stage # "new" =>
           \A u \in Participants(k) : Known(u, Len(outbox') + 1, outbox')
  BY <1>3, OldPeople
<1>10. \A k \in Messages : /\ sends'[k].sender = sends[k].sender /\ sends'[k].to = sends[k].to
                           /\ sends'[k].stage # "new" => sends[k].stage # "new"
  BY <1>1 DEF Send
<1>11. PeopleKnown'
  BY <1>1, <1>7, <1>8, <1>9, <1>10 DEF PeopleKnown, Participants
<1>12. \A u : Belongs(u, Moves(outbox), outbox) <=> Belongs(u, Moves(outbox), outbox')
  BY <1>3, Lasting DEF Moves
<1> QED BY <1>1, <1>3, <1>6, <1>11, <1>12 DEF MembersFollow

LEMMA SendsKeepPeople ==
  ASSUME IInv, IInv', PeopleKnown, MembersFollow, NEW m \in Messages,
         (\E u \in Users : SendUserMessage(m, u) \/ SendSystemEvent(m, u)) \/ TakeSeq(m)
  PROVE  OutboxRests /\ PeopleKnown' /\ MembersFollow'
<1>1. sends \in [Messages -> Send]
  BY DEF IInv, TypeOK
<1>2. \A k \in Messages : sends[k].stage # "new" =>
        \A x \in {sends[k].sender} \union sends[k].to : Known(x, Len(outbox) + 1, outbox)
  BY DEF PeopleKnown, Participants
<1>3. ASSUME NEW u \in Users, SendUserMessage(m, u) \/ SendSystemEvent(m, u)
      PROVE  OutboxRests /\ PeopleKnown' /\ MembersFollow'
  <2> DEFINE s == [stage |-> "resolved", sender |-> u, to |-> members \ {u}, seq |-> 0]
  <2>1. /\ sends' = [sends EXCEPT ![m] = s] /\ UNCHANGED <<outbox, members, active>>
        /\ u \in members \union notices /\ notices' \subseteq notices
    BY <1>3 DEF SendUserMessage, SendSystemEvent, Resolve, outboxVars
  <2>2. \A x \in {s.sender} \union s.to : Known(x, Len(outbox) + 1, outbox)
    BY <2>1 DEF PeopleKnown
  <2> HIDE DEF s
  <2>3. \A k \in Messages : sends'[k] = IF k = m THEN s ELSE sends[k]
    BY <1>1, <2>1
  <2>4. \A k \in Messages : sends'[k].stage # "new" =>
          \A x \in {sends'[k].sender} \union sends'[k].to : Known(x, Len(outbox) + 1, outbox)
    BY <1>2, <2>2, <2>3
  <2>5. notices' \subseteq notices \union members
    BY <2>1
  <2> QED BY <2>1, <2>4, <2>5, NamedKnown
<1>4. CASE TakeSeq(m)
  <2>1. /\ sends' = [sends EXCEPT ![m].stage = "numbered", ![m].seq = lastSeq + 1]
        /\ sends[m].stage = "resolved" /\ UNCHANGED <<outbox, members, active, notices>>
    BY <1>4 DEF TakeSeq, outboxVars, groupVars
  <2>2. \A k \in Messages : /\ sends'[k].sender = sends[k].sender /\ sends'[k].to = sends[k].to
                            /\ sends'[k].stage # "new" => sends[k].stage # "new"
    BY <1>1, <2>1 DEF Send
  <2>3. \A k \in Messages : sends'[k].stage # "new" =>
          \A x \in {sends'[k].sender} \union sends'[k].to : Known(x, Len(outbox) + 1, outbox)
    BY <1>2, <2>2
  <2>4. notices' \subseteq notices \union members
    BY <2>1
  <2> QED BY <2>1, <2>3, <2>4, NamedKnown
<1> QED BY <1>3, <1>4

\* A step that counts no fault is a worker's, a timer's, or nobody's of the outbox.
LEMMA NoFaultSteps ==
  ASSUME IInv, [Next]_vars, crashes' = 0, errors' = 0, replays' = 0
  PROVE  /\ crashes = 0 /\ errors = 0 /\ replays = 0
         /\ \/ \E w \in Workers : ProcessOne(w) /\ UNCHANGED <<groupVars, sendVars>>
            \/ \E i \in DOMAIN outbox : TimePasses(i) /\ UNCHANGED <<groupVars, sendVars>>
            \/ GroupNext
            \/ SendNext
            \/ (\E u \in Users : ReadConversation(u))
            \/ UNCHANGED vars
<1>1. crashes \in Nat /\ errors \in Nat /\ replays \in Nat
  BY OutboxAssumption DEF IInv, TypeOK, OutboxTypeOK
<1>2. \A n \in Nat : n + 1 # 0
  OBVIOUS
<1>3. ASSUME UNCHANGED <<crashes, errors, replays>> PROVE crashes = 0 /\ errors = 0 /\ replays = 0
  BY <1>3
<1>4. CASE OutboxNext /\ UNCHANGED <<groupVars, sendVars>>
  <2>1. ASSUME NEW w \in Workers PROVE ~DatabaseError(w) /\ ~Crash(w)
    BY <1>1, <1>2 DEF DatabaseError, Crash
  <2>2. ~Replay
    BY <1>1, <1>2 DEF Replay
  <2>3. ASSUME NEW w \in Workers, ProcessOne(w) PROVE UNCHANGED <<crashes, errors, replays>>
    BY <2>3 DEF ProcessOne, Claim, ApplyUserJoined, ApplyUserLeft, ApplyMessageToUser,
                ApplySenderRead, Complete, Retry
  <2>4. ASSUME NEW i \in DOMAIN outbox, TimePasses(i) PROVE UNCHANGED <<crashes, errors, replays>>
    BY <2>4 DEF TimePasses
  <2> QED BY <1>3, <1>4, <2>1, <2>2, <2>3, <2>4 DEF OutboxNext
<1>5. CASE GroupNext
  BY <1>3, <1>5 DEF GroupNext, Join, Leave, Announce, Dismiss, outboxVars
<1>6. CASE SendNext
  BY <1>3, <1>6 DEF SendNext, SendUserMessage, SendSystemEvent, Resolve, TakeSeq, Store,
                    SendAgain, outboxVars
<1>7. CASE \E u \in Users : ReadConversation(u)
  BY <1>3, <1>7 DEF ReadConversation
<1>8. CASE UNCHANGED vars
  BY <1>3, <1>8 DEF vars, outboxVars
<1> QED BY <1>4, <1>5, <1>6, <1>7, <1>8 DEF Next

---------------------------------------------------------------------------
LEMMA WorkerKeepsInOrder ==
  ASSUME IInv, IInv', [Next]_vars, SingleWorker, Orderly, PeopleKnown, ViewsFollow, MembersFollow,
         TodoWithin, NEW w \in Workers, ProcessOne(w), UNCHANGED <<groupVars, sendVars>>
  PROVE  Orderly' /\ PeopleKnown' /\ ViewsFollow' /\ MembersFollow'
<1>1. Continues(outbox, outbox')
  BY Stable DEF Continues
<1>2. DOMAIN outbox' = DOMAIN outbox
  <2>1. OutboxNext
    BY DEF OutboxNext
  <2> QED BY <2>1, OutboxNextAddsNone
<1>3. PeopleKnown' /\ MembersFollow'
  BY <1>1, <1>2, PeopleLast
<1>4. CASE Claim(w)
  BY <1>1, <1>3, <1>4, ClaimInOrder
<1>5. CASE ApplyUserJoined(w) \/ ApplyUserLeft(w)
  BY <1>3, <1>5, MoveInOrder
<1>6. CASE ApplyMessageToUser(w) \/ ApplySenderRead(w)
  <2>1. Applying(w, "message_sent")
    BY <1>6 DEF ApplyMessageToUser, ApplySenderRead
  <2>2. \A x \in Workers : ~ApplyUserJoined(x) /\ ~ApplyUserLeft(x)
    BY <2>1 DEF SingleWorker, ApplyUserJoined, ApplyUserLeft, Applying
  <2>3. StatesKept
    BY <2>2, StateMovers
  <2> QED BY <1>3, <1>6, <2>3, MessageInOrder
<1>7. CASE Complete(w) \/ Retry(w)
  BY <1>1, <1>3, <1>7, EndInOrder
<1> QED BY <1>4, <1>5, <1>6, <1>7 DEF ProcessOne

\* A timer of an event that ends changes nothing else.
LEMMA TimeKeepsInOrder ==
  ASSUME IInv, IInv', [Next]_vars, Orderly, PeopleKnown, ViewsFollow, MembersFollow,
         NEW i \in DOMAIN outbox, TimePasses(i), UNCHANGED <<groupVars, sendVars>>
  PROVE  Orderly' /\ PeopleKnown' /\ ViewsFollow' /\ MembersFollow'
<1>1. Continues(outbox, outbox')
  BY Stable DEF Continues
<1>2. /\ outbox[i] \in Event
      /\ outbox' = [outbox EXCEPT ![i] = Marked(outbox[i], outbox[i].status, "off", outbox[i].attempts)]
      /\ UNCHANGED <<workers, views>>
  BY EventAt DEF TimePasses, IInv, TypeOK
<1> DEFINE e == Marked(outbox[i], outbox[i].status, "off", outbox[i].attempts)
<1>3. e.status = outbox[i].status /\ e.timer = "off"
  BY <1>2 DEF Marked, Event
<1> HIDE DEF e
<1>4. DOMAIN outbox' = DOMAIN outbox /\ \A j \in DOMAIN outbox : outbox'[j] = IF j = i THEN e ELSE outbox[j]
  BY <1>2 DEF e
<1>5. OutboxRests
  BY <1>1, <1>3, <1>4 DEF OutboxRests
<1>6. StatesKept
  BY <1>2 DEF StatesKept
<1>7. Orderly' /\ ViewsFollow'
  BY <1>2, <1>5, <1>6, OthersKeepOrder
<1> QED BY <1>1, <1>4, <1>7, PeopleLast

LEMMA InOrderStep ==
  ASSUME IInv, InOrder, [Next]_vars, SingleWorker, crashes' = 0, errors' = 0, replays' = 0,
         repair' = repair
  PROVE  InOrder'
<1>1. IInv' /\ TodoWithin' /\ TodoWithin /\ Orderly /\ PeopleKnown /\ ViewsFollow /\ MembersFollow
  BY NextInvariant, TodoStep DEF InOrder
<1> DEFINE Follows == Orderly' /\ PeopleKnown' /\ ViewsFollow' /\ MembersFollow'
<1>2. SUFFICES Follows
  BY <1>1 DEF InOrder
<1>3. ASSUME UNCHANGED workers, NEW w \in Workers PROVE ~ApplyUserJoined(w) /\ ~ApplyUserLeft(w)
  <2>1. workers \in [Workers -> Worker]
    BY DEF IInv, TypeOK, OutboxTypeOK
  <2>2. ASSUME workers[w].pc = "apply", workers' = [workers EXCEPT ![w].pc = "applied"]
        PROVE  FALSE
    <3> DEFINE k == [workers[w] EXCEPT !.pc = "applied"]
    <3>1. k.pc = "applied"
      BY <2>1 DEF Worker
    <3>2. workers'[w] = k
      BY <2>1, <2>2
    <3> HIDE DEF k
    <3> QED BY <1>3, <2>2, <3>1, <3>2
  <2> QED BY <2>2 DEF ApplyUserJoined, ApplyUserLeft, Applying
<1>4. ASSUME OutboxRests, UNCHANGED workers, PeopleKnown', MembersFollow' PROVE Follows
  <2>1. StatesKept
    BY <1>3, <1>4, StateMovers
  <2> QED BY <1>1, <1>4, <2>1, OthersKeepOrder
<1>5. ASSUME UNCHANGED <<outbox, workers, groupVars, sendVars>> PROVE Follows
  <2>1. Continues(outbox, outbox') /\ OutboxRests
    BY <1>5 DEF OutboxRests, Continues, SamePayload
  <2>2. PeopleKnown' /\ MembersFollow'
    BY <1>1, <1>5, <2>1, PeopleLast
  <2> QED BY <1>4, <1>5, <2>1, <2>2
<1>6. ASSUME GroupNext PROVE Follows
  <2>1. UNCHANGED workers
    BY <1>6 DEF GroupNext, Dismiss, Join, Leave, Announce, outboxVars
  <2>2. ASSUME NEW u \in Users, Announce(u) PROVE Follows
    <3>1. /\ UNCHANGED <<outbox, members, active>> /\ sends' = sends
          /\ notices' \subseteq notices \union members
      BY <2>2 DEF Announce, Notify, outboxVars, sendVars
    <3>2. \A m \in Messages : sends'[m].stage # "new" =>
            \A x \in {sends'[m].sender} \union sends'[m].to : Known(x, Len(outbox) + 1, outbox)
      BY <1>1, <3>1 DEF PeopleKnown, Participants
    <3>3. OutboxRests /\ PeopleKnown' /\ MembersFollow'
      BY <1>1, <3>1, <3>2, NamedKnown
    <3> QED BY <1>4, <2>1, <3>3
  <2>3. ASSUME NEW u \in Users, Join(u) \/ Leave(u) PROVE Follows
    BY <1>1, <1>4, <2>1, <2>3, RosterKeepsPeople
  <2>4. ASSUME Dismiss PROVE Follows
    BY <1>1, <1>4, <2>1, <2>4, DismissKeepsPeople
  <2> QED BY <1>6, <2>2, <2>3, <2>4 DEF GroupNext
<1>7. ASSUME SendNext PROVE Follows
  <2>1. UNCHANGED workers
    BY <1>7 DEF SendNext, SendUserMessage, SendSystemEvent, Resolve, TakeSeq, Store,
                SendAgain, outboxVars
  <2>2. PICK m \in Messages : \/ \E u \in Users : SendUserMessage(m, u) \/ SendSystemEvent(m, u)
                              \/ TakeSeq(m) \/ Store(m) \/ SendAgain(m)
    BY <1>7 DEF SendNext
  <2>3. CASE (\E u \in Users : SendUserMessage(m, u) \/ SendSystemEvent(m, u)) \/ TakeSeq(m)
    BY <1>1, <1>4, <2>1, <2>3, SendsKeepPeople
  <2>4. CASE Store(m)
    BY <1>1, <1>4, <2>1, <2>4, StoreKeepsPeople
  <2>5. CASE SendAgain(m)
    BY <1>5, <2>5 DEF SendAgain
  <2> QED BY <2>2, <2>3, <2>4, <2>5
<1>8. ASSUME NEW u \in Users, ReadConversation(u) PROVE Follows
  BY <1>5, <1>8 DEF ReadConversation
<1>9. ASSUME UNCHANGED vars PROVE Follows
  BY <1>5, <1>9 DEF vars, outboxVars
<1>10. ASSUME NEW w \in Workers, ProcessOne(w), UNCHANGED <<groupVars, sendVars>> PROVE Follows
  BY <1>1, <1>10, WorkerKeepsInOrder
<1>11. ASSUME NEW i \in DOMAIN outbox, TimePasses(i), UNCHANGED <<groupVars, sendVars>>
       PROVE  Follows
  BY <1>1, <1>11, TimeKeepsInOrder
<1> QED BY <1>6, <1>7, <1>8, <1>9, <1>10, <1>11, NoFaultSteps

LEMMA UnfaultedStart == RepairInit => UnfaultedInv
<1> SUFFICES ASSUME RepairInit PROVE UnfaultedInv
  OBVIOUS
<1>1. /\ outbox = <<>> /\ workers = [w \in Workers |-> Idle]
      /\ views = [u \in Users |-> IF u \in Founders THEN EnsureUser(NoView) ELSE NoView]
      /\ active = TRUE /\ members = Founders /\ notices = {}
      /\ sends = [m \in Messages |-> [stage |-> "new", sender |-> Nobody, to |-> {}, seq |-> 0]]
      /\ repair = NoRepair /\ repairs = 0
  BY DEF RepairInit, Init, OutboxInit
<1>2. DOMAIN outbox = {} /\ Moves(outbox) = {} /\ Applied = {}
  BY <1>1 DEF Moves, Applied
<1>3. \A w \in Workers : workers[w].pc = "idle"
  BY <1>1 DEF Idle
<1>4. \A m \in Messages : sends[m].stage = "new"
  BY <1>1
<1>5. \A u \in Users : Visible(views[u]) <=> u \in Founders
  BY <1>1 DEF Visible, EnsureUser, NoView
<1>6. \A u : Belongs(u, {}, outbox) <=> u \in Founders
  BY DEF Belongs
<1>7. repair.pc = "off" /\ TodoWithin
  BY <1>1, <1>3 DEF NoRepair, TodoWithin, TodoOf
<1>8. Orderly
  BY <1>2, <1>3 DEF Orderly, WorksInTurn
<1>9. PeopleKnown
  BY <1>1, <1>2, <1>4 DEF PeopleKnown, Known
<1>10. ViewsFollow /\ MembersFollow
  BY <1>1, <1>2, <1>5, <1>6 DEF ViewsFollow, MembersFollow
<1> QED BY <1>1, <1>7, <1>8, <1>9, <1>10 DEF UnfaultedInv, InOrder

LEMMA UnfaultedStep ==
  ASSUME BaseInv, UnfaultedInv, [RepairNext]_<<vars, repairVars>>
  PROVE  UnfaultedInv'
<1>1. IInv /\ repairs \in Nat
  BY DEF BaseInv, UnfaultedInv
<1>2. repairs' \in Nat /\ (repairs' = 0 => repairs = 0 /\ ~BeginRepair)
  <2>1. CASE BeginRepair
    <3>1. repairs' = repairs + 1 /\ repairs + 1 \in Nat /\ repairs + 1 # 0
      BY <1>1, <2>1 DEF BeginRepair
    <3> QED BY <3>1
  <2>2. CASE ~BeginRepair
    <3>1. repairs' = repairs
      BY <2>2 DEF RepairNext, RepairChat, ReadMembers, EnsureUsers, ReadViews, MarkStaleUserLeft,
             ReadLastMessage, ProjectLastMessage, ProjectSenderRead, StopRepair, WriteView, repairVars
    <3> QED BY <1>1, <2>2, <3>1
  <2> QED BY <2>1, <2>2
<1>3. ASSUME SingleWorker, NoFault' PROVE InOrder'
  <2>1. crashes' = 0 /\ errors' = 0 /\ replays' = 0 /\ repairs' = 0 /\ repairs = 0 /\ ~BeginRepair
    BY <1>2, <1>3 DEF NoFault
  <2>2. CASE [Next]_vars /\ repair' = repair
    <3>1. crashes = 0 /\ errors = 0 /\ replays = 0
      BY <1>1, <2>1, <2>2, NoFaultSteps
    <3>2. InOrder
      BY <1>3, <2>1, <3>1 DEF NoFault, UnfaultedInv
    <3> QED BY <1>1, <1>3, <2>1, <2>2, <3>2, InOrderStep
  <2>3. CASE RepairChat
    <3>1. UNCHANGED <<crashes, errors, replays>>
      BY <2>3 DEF RepairChat, ReadMembers, EnsureUsers, ReadViews, MarkStaleUserLeft,
             ReadLastMessage, ProjectLastMessage, ProjectSenderRead, StopRepair, WriteView,
             vars, outboxVars
    <3>2. InOrder
      BY <1>3, <2>1, <3>1 DEF NoFault, UnfaultedInv
    <3>3. repair.pc # "off"
      BY <2>3 DEF RepairChat, ReadMembers, EnsureUsers, ReadViews, MarkStaleUserLeft,
             ReadLastMessage, ProjectLastMessage, ProjectSenderRead, StopRepair, Ready
    <3> QED BY <3>2, <3>3 DEF InOrder
  <2> QED BY <2>1, <2>2, <2>3 DEF RepairNext, repairVars
<1>4. SingleWorker' => SingleWorker
  BY DEF SingleWorker
<1> QED BY <1>2, <1>3, <1>4 DEF UnfaultedInv

\* Without a fault, a repair or a second worker, the views follow the events of
\* membership in their order: what each event has still to do, and whom it
\* concerns, is in the state.
THEOREM UnfaultedInvariant == RepairSpec => []UnfaultedInv
<1>1. BaseInv /\ UnfaultedInv /\ [RepairNext]_<<vars, repairVars>> => UnfaultedInv'
  BY UnfaultedStep
<1> QED BY <1>1, UnfaultedStart, RepairKeepsInvariant, PTL DEF RepairSpec

\* As long as nothing fails and nobody repairs, a single worker brings the views
\* to the membership and gives up only messages of which a participant has left,
\* for any number of users, messages and events.
THEOREM ConvergesUnfaulted == RepairSpec => []UnfaultedConverges
<1>1. UnfaultedInv => UnfaultedConverges
  <2> SUFFICES ASSUME InOrder PROVE MembershipConverges /\ FailedOnlyByLeaver
    BY DEF UnfaultedInv, UnfaultedConverges
  <2>1. ASSUME MembershipSettled PROVE Applied = Moves(outbox)
    BY <2>1 DEF MembershipSettled, Applied, Moves
  <2>2. MembershipConverges
    BY <2>1 DEF MembershipConverges, InOrder, ViewsFollow, MembersFollow
  <2>3. FailedOnlyByLeaver
    BY DEF FailedOnlyByLeaver, InOrder, Orderly, LeftBy
  <2> QED BY <2>2, <2>3
<1> QED BY <1>1, UnfaultedInvariant, PTL
=============================================================================
