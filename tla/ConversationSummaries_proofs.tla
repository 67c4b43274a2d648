-------------------- MODULE ConversationSummaries_proofs --------------------
(***************************************************************************)
(* That a conversation never shows a message its user was not sent, for    *)
(* every set of users, messages and workers and for every bound.  A view   *)
(* is written from the copy in an event, so the argument follows a message *)
(* from the transaction that stores it to its event, from there to what a  *)
(* worker has left to do, and on to the view.                              *)
(***************************************************************************)
EXTENDS ConversationProjection_proofs

\* By the sends s, a message was stored under number n and u takes part in it.
Backed(s, u, n) ==
  \E m \in Messages : /\ s[m].stage = "stored"
                      /\ s[m].seq = n
                      /\ u \in {s[m].sender} \union s[m].to

EventsBacked ==
  \A i \in DOMAIN outbox : outbox[i].kind = "message_sent" =>
    \A u \in outbox[i].parts : Backed(sends, u, outbox[i].seq)

\* A worker goes on with participants of its event, whoever else claims it.
TodoOf(k, es) == k.pc # "idle" => k.todo \subseteq es[k.ev].parts

TodoWithin == \A w \in Workers : TodoOf(workers[w], outbox)

SummaryInv == EventsBacked /\ TodoWithin /\ SummaryAddressed

---------------------------------------------------------------------------
\* What is stored is never taken back: a Send that has stored its message
\* takes no further step that changes it.
LEMMA BackedStays ==
  ASSUME IInv, [Next]_vars, NEW u, NEW n, Backed(sends, u, n)
  PROVE  Backed(sends', u, n)
<1>1. PICK m \in Messages : sends[m].stage = "stored" /\ sends[m].seq = n
                             /\ u \in {sends[m].sender} \union sends[m].to
  BY DEF Backed
<1>2. ASSUME sends'[m] = sends[m] PROVE Backed(sends', u, n)
  BY <1>1, <1>2 DEF Backed
<1>3. CASE UNCHANGED sends
  BY <1>2, <1>3
<1>4. CASE SendNext
  <2>1. ASSUME NEW k \in Messages, k # m,
               \E s : sends' = [sends EXCEPT ![k] = s]
        PROVE  sends'[m] = sends[m]
    BY <2>1
  <2>2. PICK k \in Messages : \/ \E x \in Users : SendUserMessage(k, x) \/ SendSystemEvent(k, x)
                              \/ TakeSeq(k) \/ Store(k) \/ SendAgain(k)
    BY <1>4 DEF SendNext
  <2>3. CASE \E x \in Users : SendUserMessage(k, x) \/ SendSystemEvent(k, x)
    <3>1. sends[k].stage = "new" /\ \E s : sends' = [sends EXCEPT ![k] = s]
      BY <2>3 DEF SendUserMessage, SendSystemEvent, Resolve
    <3> QED BY <1>1, <1>2, <2>1, <3>1
  <2>4. CASE TakeSeq(k)
    <3>1. sends[k].stage = "resolved" /\ \E s : sends' = [sends EXCEPT ![k] = s]
      BY <2>4 DEF TakeSeq
    <3> QED BY <1>1, <1>2, <2>1, <3>1
  <2>5. CASE Store(k)
    <3>1. sends[k].stage = "numbered" /\ \E s : sends' = [sends EXCEPT ![k] = s]
      BY <2>5 DEF Store
    <3> QED BY <1>1, <1>2, <2>1, <3>1
  <2>6. CASE SendAgain(k)
    BY <1>3, <2>6 DEF SendAgain, sendVars
  <2> QED BY <2>2, <2>3, <2>4, <2>5, <2>6
<1>5. CASE OutboxNext /\ UNCHANGED <<groupVars, sendVars>>
  BY <1>3, <1>5 DEF sendVars
<1>6. CASE GroupNext
  BY <1>3, <1>6 DEF GroupNext, Join, Leave, Announce, Dismiss, sendVars
<1>7. CASE (\E x \in Users : ReadConversation(x)) \/ UNCHANGED vars
  BY <1>3, <1>7 DEF ReadConversation, vars, sendVars
<1> QED BY <1>4, <1>5, <1>6, <1>7 DEF Next

\* The event a publication adds to the outbox.
LEMMA Published1 ==
  ASSUME OutboxTypeOK, NEW kind \in Kinds, NEW parts \in SUBSET Users,
         NEW sender \in Users, NEW seq \in Nat, Publish(NewEvent(kind, parts, sender, seq)),
         NEW i \in DOMAIN outbox' \ DOMAIN outbox
  PROVE  outbox'[i].kind = kind /\ outbox'[i].parts = parts /\ outbox'[i].seq = seq
<1> DEFINE e == NewEvent(kind, parts, sender, seq)
<1>1. e \in Event /\ e.kind = kind /\ e.parts = parts /\ e.seq = seq
  BY NewEventType
<1>2. outbox \in Seq(Event) /\ outbox' = Append(outbox, e)
  BY DEF OutboxTypeOK, Publish
<1> HIDE DEF e
<1>3. /\ outbox' \in Seq(Event) /\ Len(outbox') = Len(outbox) + 1
      /\ outbox'[Len(outbox) + 1] = e
  BY <1>1, <1>2, AppendProperties
<1>4. DOMAIN outbox = 1..Len(outbox) /\ Len(outbox) \in Nat /\ DOMAIN outbox' = 1..Len(outbox')
  BY <1>2, <1>3
<1>5. i = Len(outbox) + 1
  BY <1>3, <1>4
<1> QED BY <1>1, <1>3, <1>5

\* The events of a dismissal are departures.
LEMMA DismissKinds ==
  ASSUME IInv, [Next]_vars, Dismiss, NEW i \in DOMAIN outbox' \ DOMAIN outbox
  PROVE  outbox'[i].kind = "user_left"
<1>1. PICK q \in Orders(members) :
        outbox' = outbox \o [k \in DOMAIN q |-> NewEvent("user_left", {q[k]}, q[k], 0)]
  BY DEF Dismiss
<1> DEFINE n == Cardinality(members)
           e(k) == NewEvent("user_left", {q[k]}, q[k], 0)
           t == [k \in 1..n |-> e(k)]
<1>2. n \in Nat
  BY ProjectionAssumption, FS_Subset, FS_CardinalityType DEF IInv, TypeOK
<1>3. q \in [1..n -> members] /\ outbox \in Seq(Event) /\ outbox' = outbox \o t
  BY <1>1 DEF Orders, IInv, TypeOK, OutboxTypeOK
<1>4. \A k \in 1..n : e(k) \in Event /\ e(k).kind = "user_left"
  <2> TAKE k \in 1..n
  <2>1. q[k] \in Users
    BY <1>3 DEF IInv, TypeOK
  <2> QED BY <2>1, NewEventType DEF Kinds
<1> HIDE DEF e, n
<1>5. t \in Seq(Event) /\ Len(t) = n
  BY <1>2, <1>4, IsASeq
<1> HIDE DEF t
<1>6. /\ outbox' \in Seq(Event) /\ Len(outbox') = Len(outbox) + n
      /\ \A k \in 1..(Len(outbox) + n) :
           outbox'[k] = IF k <= Len(outbox) THEN outbox[k] ELSE t[k - Len(outbox)]
  BY <1>3, <1>5, ConcatProperties
<1>7. DOMAIN outbox = 1..Len(outbox) /\ Len(outbox) \in Nat /\ DOMAIN outbox' = 1..Len(outbox')
  BY <1>3, <1>6
<1>8. /\ i \in 1..(Len(outbox) + n) /\ ~(i <= Len(outbox))
      /\ i - Len(outbox) \in 1..n
  BY <1>2, <1>6, <1>7
<1>9. outbox'[i] = e(i - Len(outbox))
  BY <1>6, <1>8 DEF t
<1> QED BY <1>4, <1>8, <1>9

\* A worker writes in the events of the outbox and adds none.
LEMMA OutboxNextAddsNone ==
  ASSUME OutboxNext PROVE DOMAIN outbox' = DOMAIN outbox
<1>1. ASSUME NEW w \in Workers, ProcessOne(w) PROVE DOMAIN outbox' = DOMAIN outbox
  BY <1>1 DEF ProcessOne, Claim, ApplyUserJoined, ApplyUserLeft, ApplyMessageToUser,
              ApplySenderRead, Complete, Retry, UpdateProcessing
<1>2. ASSUME NEW w \in Workers, DatabaseError(w) \/ Crash(w)
      PROVE  DOMAIN outbox' = DOMAIN outbox
  BY <1>2 DEF DatabaseError, Crash
<1>3. (\E i \in DOMAIN outbox : TimePasses(i)) \/ Replay => DOMAIN outbox' = DOMAIN outbox
  BY DEF TimePasses, Replay
<1> QED BY <1>1, <1>2, <1>3 DEF OutboxNext

\* A message event is published by the transaction that stores its message.
LEMMA NewEventsBacked ==
  ASSUME IInv, [Next]_vars, NEW i \in DOMAIN outbox' \ DOMAIN outbox,
         outbox'[i].kind = "message_sent", NEW u \in outbox'[i].parts
  PROVE  Backed(sends', u, outbox'[i].seq)
<1>1. OutboxTypeOK /\ lastSeq \in Nat
  BY DEF IInv, TypeOK
<1>2. CASE OutboxNext \/ UNCHANGED outbox
  BY <1>2, OutboxNextAddsNone
<1>3. CASE GroupNext
  <2>1. ASSUME NEW x \in Users, Join(x) PROVE outbox'[i].kind = "user_joined"
    <3>1. Publish(NewEvent("user_joined", {x}, x, lastSeq))
      BY <2>1 DEF Join
    <3> QED BY <1>1, <3>1, Published1 DEF Kinds
  <2>2. ASSUME NEW x \in Users, Leave(x) PROVE outbox'[i].kind = "user_left"
    <3>1. Publish(NewEvent("user_left", {x}, x, 0))
      BY <2>2 DEF Leave
    <3> QED BY <1>1, <3>1, Published1 DEF Kinds
  <2>3. ASSUME NEW x \in Users, Announce(x) PROVE UNCHANGED outbox
    BY <2>3 DEF Announce, outboxVars
  <2> QED BY <1>2, <1>3, <2>1, <2>2, <2>3, DismissKinds DEF GroupNext
<1>4. ASSUME NEW m \in Messages, Store(m) PROVE Backed(sends', u, outbox'[i].seq)
  <2>1. /\ sends[m].stage = "numbered" /\ sends \in [Messages -> Send]
        /\ sends' = [sends EXCEPT ![m].stage = "stored"]
        /\ Publish(NewEvent("message_sent", Participants(m), sends[m].sender, sends[m].seq))
    BY <1>4 DEF Store, IInv, TypeOK
  <2>2. sends[m].sender \in Users /\ sends[m].seq \in Nat /\ Participants(m) \subseteq Users
    BY <2>1 DEF IInv, TypeOK, Send, Participants
  <2>3. outbox'[i].parts = Participants(m) /\ outbox'[i].seq = sends[m].seq
    BY <1>1, <2>1, <2>2, Published1 DEF Kinds
  <2>4. /\ sends'[m].stage = "stored" /\ sends'[m].seq = sends[m].seq
        /\ sends'[m].sender = sends[m].sender /\ sends'[m].to = sends[m].to
    BY <2>1 DEF Send
  <2> QED BY <2>3, <2>4 DEF Backed, Participants
<1>5. CASE SendNext
  <2>1. ASSUME NEW m \in Messages, NEW x \in Users,
               SendUserMessage(m, x) \/ SendSystemEvent(m, x)
        PROVE  UNCHANGED outbox
    BY <2>1 DEF SendUserMessage, SendSystemEvent, Resolve, outboxVars
  <2>2. ASSUME NEW m \in Messages, TakeSeq(m) \/ SendAgain(m) PROVE UNCHANGED outbox
    BY <2>2 DEF TakeSeq, SendAgain, outboxVars
  <2> QED BY <1>2, <1>4, <1>5, <2>1, <2>2 DEF SendNext
<1>6. CASE (\E x \in Users : ReadConversation(x)) \/ UNCHANGED vars
  BY <1>2, <1>6 DEF ReadConversation, vars, outboxVars
<1> QED BY <1>2, <1>3, <1>5, <1>6 DEF Next

LEMMA EventsBackedStep ==
  ASSUME IInv, EventsBacked, [Next]_vars
  PROVE  EventsBacked'
<1> SUFFICES ASSUME NEW i \in DOMAIN outbox', outbox'[i].kind = "message_sent",
                    NEW u \in outbox'[i].parts
             PROVE  Backed(sends', u, outbox'[i].seq)
  BY DEF EventsBacked
<1>1. CASE i \in DOMAIN outbox
  <2>1. SamePayload(outbox[i], outbox'[i])
    BY <1>1, Stable
  <2>2. Backed(sends, u, outbox[i].seq)
    BY <1>1, <2>1 DEF EventsBacked, SamePayload
  <2>3. \A n : Backed(sends, u, n) => Backed(sends', u, n)
    BY BackedStays
  <2> QED BY <2>1, <2>2, <2>3 DEF SamePayload
<1>2. CASE i \notin DOMAIN outbox
  BY <1>2, NewEventsBacked
<1> QED BY <1>1, <1>2

---------------------------------------------------------------------------
\* A claim takes all participants, and a turn of the loop leaves one out.
LEMMA TodoStep ==
  ASSUME IInv, TodoWithin, [Next]_vars
  PROVE  TodoWithin'
<1>1. workers \in [Workers -> Worker]
  BY DEF IInv, TypeOK, OutboxTypeOK
<1>2. ASSUME NEW w \in Workers, NEW k, k.pc # "idle" => k.ev \in DOMAIN outbox,
             TodoOf(k, outbox)
      PROVE  TodoOf(k, outbox')
  BY <1>2, Stable DEF TodoOf, SamePayload
<1>3. ASSUME NEW w \in Workers PROVE TodoOf(workers[w], outbox')
  <2>1. workers[w].pc # "idle" => workers[w].ev \in DOMAIN outbox
    BY DEF IInv, TypeOK, OutboxTypeOK
  <2> QED BY <1>2, <2>1 DEF TodoWithin
<1>4. ASSUME UNCHANGED workers PROVE TodoWithin'
  BY <1>3, <1>4 DEF TodoWithin
<1>5. ASSUME NEW w \in Workers, NEW k, workers' = [workers EXCEPT ![w] = k],
             TodoOf(k, outbox')
      PROVE  TodoWithin'
  BY <1>1, <1>3, <1>5 DEF TodoWithin
<1>6. ASSUME NEW w \in Workers, workers' = [workers EXCEPT ![w] = Idle] PROVE TodoWithin'
  <2>1. TodoOf(Idle, outbox')
    BY DEF TodoOf, Idle
  <2> QED BY <1>5, <1>6, <2>1
<1>7. ASSUME NEW w \in Workers, NEW p, workers[w].pc # "idle",
             workers' = [workers EXCEPT ![w] = [workers[w] EXCEPT !.pc = p]]
      PROVE  TodoWithin'
  <2> DEFINE k == [workers[w] EXCEPT !.pc = p]
  <2>1. k.ev = workers[w].ev /\ k.todo = workers[w].todo
    BY <1>1 DEF Worker
  <2>2. TodoOf(k, outbox')
    BY <1>3, <1>7, <2>1 DEF TodoOf
  <2> HIDE DEF k
  <2>3. workers' = [workers EXCEPT ![w] = k]
    BY <1>7 DEF k
  <2> QED BY <1>5, <2>2, <2>3
<1>8. ASSUME NEW w \in Workers, Claim(w) PROVE TodoWithin'
  <2>1. PICK i \in DOMAIN outbox : workers' = [workers EXCEPT ![w] =
          [pc |-> "apply", ev |-> i, todo |-> outbox[i].parts, tries |-> outbox[i].attempts + 1]]
    BY <1>8 DEF Claim, Claimable
  <2> DEFINE k == [pc |-> "apply", ev |-> i, todo |-> outbox[i].parts,
                   tries |-> outbox[i].attempts + 1]
  <2>2. TodoOf(k, outbox')
    BY Stable DEF TodoOf, SamePayload
  <2> HIDE DEF k
  <2>3. workers' = [workers EXCEPT ![w] = k]
    BY <2>1 DEF k
  <2> QED BY <1>5, <2>2, <2>3
<1>9. ASSUME NEW w \in Workers, ApplyMessageToUser(w) PROVE TodoWithin'
  <2>1. workers[w].pc = "apply"
    BY <1>9 DEF ApplyMessageToUser, Applying
  <2>2. PICK u \in workers[w].todo :
          \/ workers' = [workers EXCEPT ![w].todo = workers[w].todo \ {u}]
          \/ workers' = [workers EXCEPT ![w].pc = "error"]
    BY <1>9 DEF ApplyMessageToUser
  <2>3. CASE workers' = [workers EXCEPT ![w].todo = workers[w].todo \ {u}]
    <3> DEFINE k == [workers[w] EXCEPT !.todo = workers[w].todo \ {u}]
    <3>1. k.pc = workers[w].pc /\ k.ev = workers[w].ev /\ k.todo = workers[w].todo \ {u}
      BY <1>1 DEF Worker
    <3>2. TodoOf(k, outbox')
      BY <1>3, <2>1, <3>1 DEF TodoOf
    <3>3. workers' = [workers EXCEPT ![w] = k]
      BY <2>3
    <3> HIDE DEF k
    <3> QED BY <1>5, <3>2, <3>3
  <2>4. CASE workers' = [workers EXCEPT ![w].pc = "error"]
    BY <1>7, <2>1, <2>4
  <2> QED BY <2>2, <2>3, <2>4
<1>10. ASSUME NEW w \in Workers, ProcessOne(w) PROVE TodoWithin'
  <2>1. CASE ApplyUserJoined(w) \/ ApplyUserLeft(w) \/ ApplySenderRead(w)
    <3>1. workers[w].pc = "apply" /\ workers' = [workers EXCEPT ![w].pc = "applied"]
      BY <2>1 DEF ApplyUserJoined, ApplyUserLeft, ApplySenderRead, Applying
    <3> QED BY <1>7, <3>1
  <2>2. CASE Complete(w) \/ Retry(w)
    BY <1>6, <2>2 DEF Complete, Retry
  <2> QED BY <1>8, <1>9, <1>10, <2>1, <2>2 DEF ProcessOne
<1>11. ASSUME NEW w \in Workers, DatabaseError(w) \/ Crash(w) PROVE TodoWithin'
  <2>1. CASE DatabaseError(w)
    <3>1. workers[w].pc = "apply" /\ workers' = [workers EXCEPT ![w].pc = "error"]
      BY <2>1 DEF DatabaseError
    <3> QED BY <1>7, <3>1
  <2>2. CASE Crash(w)
    BY <1>6, <2>2 DEF Crash
  <2> QED BY <1>11, <2>1, <2>2
<1>12. CASE OutboxNext
  BY <1>4, <1>10, <1>11, <1>12 DEF OutboxNext, TimePasses, Replay
<1>13. CASE GroupNext
  BY <1>4, <1>13 DEF GroupNext, Dismiss, Join, Leave, Announce, outboxVars
<1>14. CASE SendNext
  BY <1>4, <1>14 DEF SendNext, SendUserMessage, SendSystemEvent, Resolve, TakeSeq,
                     Store, SendAgain, outboxVars
<1>15. CASE (\E u \in Users : ReadConversation(u)) \/ UNCHANGED vars
  BY <1>4, <1>15 DEF ReadConversation, vars, outboxVars
<1> QED BY <1>12, <1>13, <1>14, <1>15 DEF Next

---------------------------------------------------------------------------
\* u's summary is as it was, or shows a message u was sent.
Kept(u) == views'[u].last = views[u].last \/ Backed(sends, u, views'[u].last)

\* A write leaves the summary as it is or shows a message the user was sent.
LEMMA SummaryStep ==
  ASSUME IInv, SummaryInv, [Next]_vars, NEW u \in Users
  PROVE  Kept(u)
<1>1. views \in [Users -> View]
  BY DEF IInv, TypeOK, OutboxTypeOK
<1>2. ASSUME NEW v \in View, NEW seq
      PROVE  /\ Upsert(v, seq).last = v.last /\ MarkLeft(v).last = v.last
             /\ MarkRead(v, seq).last = v.last
             /\ UpdateLastMessage(v, seq).last \in {v.last, seq}
  BY <1>2 DEF Upsert, MarkLeft, MarkRead, UpdateLastMessage, View
<1>3. ASSUME UNCHANGED views PROVE Kept(u)
  BY <1>3 DEF Kept
<1>4. ASSUME NEW x, NEW seq, views' = [views EXCEPT ![x] = MarkRead(views[x], seq)]
      PROVE  Kept(u)
  BY <1>1, <1>2, <1>4 DEF Kept
<1>5. ASSUME NEW w \in Workers, ProcessOne(w) PROVE Kept(u)
  <2>1. CASE ApplyUserJoined(w)
    BY <1>1, <1>2, <2>1 DEF ApplyUserJoined, Kept
  <2>2. CASE ApplyUserLeft(w)
    BY <1>1, <1>2, <2>2 DEF ApplyUserLeft, Kept
  <2>3. CASE ApplyMessageToUser(w)
    <3>1. PICK x \in workers[w].todo :
            views' = [views EXCEPT ![x] = UpdateLastMessage(views[x], Claimed(w).seq)]
      BY <2>3 DEF ApplyMessageToUser
    <3>2. /\ workers[w].pc # "idle" /\ Claimed(w).kind = "message_sent"
          /\ Claimed(w) = outbox[workers[w].ev] /\ workers[w].ev \in DOMAIN outbox
      BY <2>3, ClaimedEvent DEF ApplyMessageToUser, Applying
    <3>3. Backed(sends, x, Claimed(w).seq)
      BY <3>1, <3>2 DEF SummaryInv, TodoWithin, TodoOf, EventsBacked
    <3>4. CASE x = u
      BY <1>1, <1>2, <3>1, <3>3, <3>4 DEF Kept
    <3>5. CASE x # u
      BY <1>1, <3>1, <3>5 DEF Kept
    <3> QED BY <3>4, <3>5
  <2>4. CASE ApplySenderRead(w)
    BY <1>4, <2>4 DEF ApplySenderRead
  <2>5. CASE Claim(w) \/ Complete(w) \/ Retry(w)
    BY <1>3, <2>5 DEF Claim, Complete, Retry
  <2> QED BY <1>5, <2>1, <2>2, <2>3, <2>4, <2>5 DEF ProcessOne
<1>6. CASE OutboxNext
  <2>1. ASSUME NEW w \in Workers, DatabaseError(w) \/ Crash(w) PROVE Kept(u)
    BY <1>3, <2>1 DEF DatabaseError, Crash
  <2> QED BY <1>3, <1>5, <1>6, <2>1 DEF OutboxNext, TimePasses, Replay
<1>7. CASE GroupNext
  BY <1>3, <1>7 DEF GroupNext, Dismiss, Join, Leave, Announce, outboxVars
<1>8. ASSUME NEW m \in Messages, SendAgain(m) PROVE Kept(u)
  BY <1>4, <1>8 DEF SendAgain
<1>9. CASE SendNext
  BY <1>3, <1>8, <1>9
     DEF SendNext, SendUserMessage, SendSystemEvent, Resolve, TakeSeq, Store, outboxVars
<1>10. ASSUME NEW x \in Users, ReadConversation(x) PROVE Kept(u)
  BY <1>4, <1>10 DEF ReadConversation
<1>11. CASE UNCHANGED vars
  BY <1>3, <1>11 DEF vars, outboxVars
<1> QED BY <1>6, <1>7, <1>9, <1>10, <1>11 DEF Next

LEMMA SummaryInvStep ==
  ASSUME IInv, SummaryInv, [Next]_vars
  PROVE  SummaryInv'
<1>1. EventsBacked' /\ TodoWithin'
  BY EventsBackedStep, TodoStep DEF SummaryInv
<1>2. SummaryAddressed'
  <2> SUFFICES ASSUME NEW u \in Users, views'[u].last > 0
               PROVE  Backed(sends', u, views'[u].last)
    BY DEF SummaryAddressed, Backed, Participants
  <2>1. Backed(sends, u, views'[u].last)
    BY SummaryStep DEF Kept, SummaryInv, SummaryAddressed, Backed, Participants
  <2>2. \A n : Backed(sends, u, n) => Backed(sends', u, n)
    BY BackedStays
  <2> QED BY <2>1, <2>2
<1> QED BY <1>1, <1>2 DEF SummaryInv

LEMMA SummaryInvStart == Init => SummaryInv
<1> SUFFICES ASSUME Init PROVE SummaryInv
  OBVIOUS
<1>1. DOMAIN outbox = {}
  BY DEF Init, OutboxInit
<1>2. \A w \in Workers : workers[w].pc = "idle"
  BY DEF Init, OutboxInit, Idle
<1>3. \A u \in Users : views[u].last = 0
  BY DEF Init, EnsureUser, NoView
<1> QED BY <1>1, <1>2, <1>3
        DEF SummaryInv, EventsBacked, TodoWithin, TodoOf, SummaryAddressed

\* A conversation never shows a message that was not stored under the number it
\* shows, or that was not sent to its user, whatever expires, crashes, fails or
\* is replayed (Send, projector MessageSent, UpdateLastMessage).
THEOREM SummariesAreAddressed == Spec => []SummaryAddressed
<1>1. IInv /\ SummaryInv /\ [Next]_vars => SummaryInv'
  BY SummaryInvStep
<1>2. SummaryInv => SummaryAddressed
  BY DEF SummaryInv
<1> QED BY <1>1, <1>2, SummaryInvStart, Invariant, PTL DEF Spec
=============================================================================
