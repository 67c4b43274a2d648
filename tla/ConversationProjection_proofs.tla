------------------- MODULE ConversationProjection_proofs -------------------
(***************************************************************************)
(* What holds of ConversationProjection for every set of users, messages   *)
(* and workers and for every bound: type correctness, views that never     *)
(* regress, read positions within the chat, and completed events whose     *)
(* effect is in the views.                                                 *)
(***************************************************************************)
EXTENDS ConversationProjection, SequenceTheorems, FiniteSetTheorems, TLAPS

---------------------------------------------------------------------------
(* The updates of one conversation document *)

\* Advancing is a preorder, so a chain of updates advances when each does.
LEMMA AdvancesPreorder ==
  ASSUME NEW v1 \in View, NEW v2 \in View, NEW v3 \in View
  PROVE  /\ Advances(v1, v1)
         /\ Advances(v1, v2) /\ Advances(v2, v3) => Advances(v1, v3)
BY DEF View, Advances

\* Every update of the conversation repository yields a view and moves it
\* forward (Upsert, BatchUpsert, UpdateLastMessage, MarkRead, MarkLeft).
THEOREM UpdatesAdvance ==
  ASSUME NEW v \in View, NEW seq \in Nat
  PROVE  /\ Upsert(v, seq) \in View /\ Advances(v, Upsert(v, seq))
         /\ EnsureUser(v) \in View /\ Advances(v, EnsureUser(v))
         /\ UpdateLastMessage(v, seq) \in View
         /\ Advances(v, UpdateLastMessage(v, seq))
         /\ MarkRead(v, seq) \in View /\ Advances(v, MarkRead(v, seq))
         /\ MarkLeft(v) \in View /\ Advances(v, MarkLeft(v))
<1> USE DEF View, Advances
<1>1. Upsert(v, seq) \in View /\ Advances(v, Upsert(v, seq))
  BY DEF Upsert, Later
<1>2. EnsureUser(v) \in View /\ Advances(v, EnsureUser(v))
  BY DEF EnsureUser
<1>3. UpdateLastMessage(v, seq) \in View /\ Advances(v, UpdateLastMessage(v, seq))
  BY DEF UpdateLastMessage, AcceptsMessage
<1>4. MarkRead(v, seq) \in View /\ Advances(v, MarkRead(v, seq))
  BY DEF MarkRead, Later
<1>5. MarkLeft(v) \in View /\ Advances(v, MarkLeft(v))
  BY DEF MarkLeft
<1> QED BY <1>1, <1>2, <1>3, <1>4, <1>5

\* Applying any one update twice is applying it once: the sense in which the
\* projection mutations are idempotent (docs/conversation-projection.md:31).
THEOREM UpdatesIdempotent ==
  ASSUME NEW v \in View, NEW seq \in Nat
  PROVE  /\ Upsert(Upsert(v, seq), seq) = Upsert(v, seq)
         /\ EnsureUser(EnsureUser(v)) = EnsureUser(v)
         /\ UpdateLastMessage(UpdateLastMessage(v, seq), seq) = UpdateLastMessage(v, seq)
         /\ MarkRead(MarkRead(v, seq), seq) = MarkRead(v, seq)
         /\ MarkLeft(MarkLeft(v)) = MarkLeft(v)
<1>1. Upsert(Upsert(v, seq), seq) = Upsert(v, seq)
  BY DEF View, Upsert, Later
<1>2. EnsureUser(EnsureUser(v)) = EnsureUser(v)
  BY DEF View, EnsureUser
<1>3. UpdateLastMessage(UpdateLastMessage(v, seq), seq) = UpdateLastMessage(v, seq)
  BY DEF View, UpdateLastMessage, AcceptsMessage
<1>4. MarkRead(MarkRead(v, seq), seq) = MarkRead(v, seq)
  BY DEF View, MarkRead, Later
<1>5. MarkLeft(MarkLeft(v)) = MarkLeft(v)
  BY DEF View, MarkLeft
<1> QED BY <1>1, <1>2, <1>3, <1>4, <1>5

\* Two message summaries may be applied in either order: the later one stays
\* (docs/conversation-projection.md:18).
THEOREM MessagesCommute ==
  ASSUME NEW v \in View, NEW s \in Nat, NEW t \in Nat
  PROVE  UpdateLastMessage(UpdateLastMessage(v, s), t)
           = UpdateLastMessage(UpdateLastMessage(v, t), s)
BY DEF View, UpdateLastMessage, AcceptsMessage, Visible

\* A message that is accepted is shown afterwards, it or a later one.
LEMMA AcceptedIsShown ==
  ASSUME NEW v \in View, NEW seq \in Nat, MessageAccepted(v, seq)
  PROVE  /\ UpdateLastMessage(v, seq).state # "absent"
         /\ UpdateLastMessage(v, seq).last >= seq
BY DEF View, UpdateLastMessage, MessageAccepted, AcceptsMessage, Visible

\* No update but that of a message changes the summary, and that one shows
\* nothing but the message; no update reads beyond its own sequence number.
LEMMA UpdateOrigins ==
  ASSUME NEW v \in View, NEW seq \in Nat
  PROVE  /\ UpdateLastMessage(v, seq).last \in {v.last, seq}
         /\ UpdateLastMessage(v, seq).read = v.read
         /\ Upsert(v, seq).last = v.last /\ Upsert(v, seq).read \in {v.read, seq}
         /\ MarkRead(v, seq).last = v.last /\ MarkRead(v, seq).read \in {v.read, seq}
         /\ MarkLeft(v).last = v.last /\ MarkLeft(v).read = v.read
BY DEF View, UpdateLastMessage, AcceptsMessage, Visible, Upsert, MarkRead,
       MarkLeft, Later

---------------------------------------------------------------------------
(* Events and sequences of events *)

SamePayload(e, f) ==
  /\ f.kind = e.kind /\ f.parts = e.parts
  /\ f.sender = e.sender /\ f.seq = e.seq

\* Writing one bookkeeping field of an event leaves an event.
LEMMA OneField ==
  ASSUME NEW e \in Event
  PROVE  /\ \A s \in Unsettled \union Settled : [e EXCEPT !.status = s] \in Event
         /\ \A t \in {"running", "off"} : [e EXCEPT !.timer = t] \in Event
         /\ \A n \in Nat : [e EXCEPT !.attempts = n] \in Event
BY DEF Event

\* What the workers write leaves an event with the same payload.
LEMMA MarkedEvent ==
  ASSUME NEW e \in Event, NEW s \in Unsettled \union Settled,
         NEW t \in {"running", "off"}, NEW n \in Nat
  PROVE  /\ Marked(e, s, t, n) \in Event
         /\ SamePayload(e, Marked(e, s, t, n))
         /\ Marked(e, s, t, n).status = s
<1> DEFINE e1 == [e EXCEPT !.status = s]
           e2 == [e1 EXCEPT !.timer = t]
<1>1. e1 \in Event
  BY OneField
<1> HIDE DEF e1
<1>2. e2 \in Event
  BY <1>1, OneField
<1> HIDE DEF e2
<1>3. [e2 EXCEPT !.attempts = n] \in Event
  BY <1>2, OneField
<1>4. Marked(e, s, t, n) \in Event
  BY <1>3, Zenon DEF e1, e2, Marked
<1>5. SamePayload(e, Marked(e, s, t, n)) /\ Marked(e, s, t, n).status = s
  BY DEF SamePayload, Marked, Event
<1> QED BY <1>4, <1>5

\* An event that is published is an event, pending.
LEMMA NewEventType ==
  ASSUME NEW kind \in Kinds, NEW parts \in SUBSET Users,
         NEW sender \in Users, NEW seq \in Nat
  PROVE  /\ NewEvent(kind, parts, sender, seq) \in Event
         /\ NewEvent(kind, parts, sender, seq).status = "pending"
         /\ NewEvent(kind, parts, sender, seq).kind = kind
         /\ NewEvent(kind, parts, sender, seq).parts = parts
         /\ NewEvent(kind, parts, sender, seq).sender = sender
         /\ NewEvent(kind, parts, sender, seq).seq = seq
BY DEF NewEvent, Event, Unsettled, Settled

\* t is the outbox s with the bookkeeping of some events rewritten.
Rewritten(s, t) ==
  /\ t \in Seq(Event)
  /\ DOMAIN t = DOMAIN s
  /\ \A i \in DOMAIN s : SamePayload(s[i], t[i])

Rewrite(s, i, st, t, n) == [s EXCEPT ![i] = Marked(s[i], st, t, n)]

\* Rewriting one event of the outbox.
LEMMA RewriteOne ==
  ASSUME NEW s \in Seq(Event), NEW i \in DOMAIN s,
         NEW st \in Unsettled \union Settled, NEW t \in {"running", "off"}, NEW n \in Nat
  PROVE  /\ Rewritten(s, Rewrite(s, i, st, t, n))
         /\ Rewrite(s, i, st, t, n)[i].status = st
         /\ \A j \in DOMAIN s : j # i => Rewrite(s, i, st, t, n)[j] = s[j]
<1> DEFINE e == Marked(s[i], st, t, n)
           r == [s EXCEPT ![i] = e]
<1>1. s[i] \in Event /\ DOMAIN s = 1..Len(s)
  BY ElementOfSeq
<1>2. e \in Event /\ SamePayload(s[i], e) /\ e.status = st
  BY <1>1, MarkedEvent
<1> HIDE DEF e
<1>3. /\ r \in Seq(Event) /\ Len(r) = Len(s)
      /\ \A j \in 1..Len(s) : r[j] = IF j = i THEN e ELSE s[j]
  BY <1>1, <1>2, ExceptSeq
<1>4. DOMAIN r = DOMAIN s
  OBVIOUS
<1>5. \A j \in DOMAIN s : SamePayload(s[j], r[j])
  BY <1>1, <1>2, <1>3 DEF SamePayload
<1> QED BY <1>1, <1>2, <1>3, <1>4, <1>5 DEF Rewritten, Rewrite, e

---------------------------------------------------------------------------
(* What the steps do to the outbox *)

\* Of the events completed by a step to t, none but n was open in s.
CompletesOnly(s, t, n) ==
  \A i \in DOMAIN s : t[i].status = "completed" =>
    s[i].status = "completed" \/ i = n

LEMMA EventAt ==
  ASSUME OutboxTypeOK, NEW i \in DOMAIN outbox
  PROVE  /\ outbox \in Seq(Event) /\ outbox[i] \in Event
         /\ outbox[i].attempts \in Nat /\ outbox[i].seq \in Nat
         /\ outbox[i].status \in Unsettled \union Settled
         /\ outbox[i].parts \subseteq Users /\ outbox[i].sender \in Users
<1>1. outbox \in Seq(Event) /\ DOMAIN outbox = 1..Len(outbox)
  BY DEF OutboxTypeOK
<1>2. outbox[i] \in Event
  BY <1>1, ElementOfSeq
<1> QED BY <1>1, <1>2 DEF Event

LEMMA ClaimRewrites ==
  ASSUME OutboxTypeOK, NEW w \in Workers, Claim(w)
  PROVE  Rewritten(outbox, outbox') /\ CompletesOnly(outbox, outbox', 0)
<1>1. PICK i \in Claimable :
        outbox' = Rewrite(outbox, i, "processing", "running", outbox[i].attempts + 1)
  BY DEF Claim, Rewrite
<1>2. i \in DOMAIN outbox /\ outbox \in Seq(Event)
  BY DEF Claimable, OutboxTypeOK
<1>3. outbox[i].attempts + 1 \in Nat
  BY <1>2, EventAt
<1>4. "processing" \in Unsettled \union Settled
  BY DEF Unsettled
<1>5. /\ Rewritten(outbox, outbox') /\ outbox'[i].status = "processing"
      /\ \A j \in DOMAIN outbox : j # i => outbox'[j] = outbox[j]
  BY <1>1, <1>2, <1>3, <1>4, RewriteOne
<1> QED BY <1>5 DEF CompletesOnly

LEMMA UpdateRewrites ==
  ASSUME OutboxTypeOK, NEW i \in DOMAIN outbox,
         NEW st \in Unsettled \union Settled, NEW t \in {"running", "off"}
  PROVE  /\ Rewritten(outbox, UpdateProcessing(i, st, t))
         /\ CompletesOnly(outbox, UpdateProcessing(i, st, t),
                          IF st = "completed" THEN i ELSE 0)
<1>1. outbox \in Seq(Event) /\ outbox[i].attempts \in Nat
  BY EventAt
<1>2. CASE outbox[i].status = "processing"
  <2>1. UpdateProcessing(i, st, t)
          = Rewrite(outbox, i, st, t, outbox[i].attempts)
    BY <1>2 DEF UpdateProcessing, Rewrite
  <2>2. /\ Rewritten(outbox, UpdateProcessing(i, st, t))
        /\ UpdateProcessing(i, st, t)[i].status = st
        /\ \A j \in DOMAIN outbox : j # i => UpdateProcessing(i, st, t)[j] = outbox[j]
    BY <1>1, <2>1, RewriteOne
  <2> QED BY <2>2 DEF CompletesOnly
<1>3. CASE outbox[i].status # "processing"
  <2>1. UpdateProcessing(i, st, t) = outbox
    BY <1>3 DEF UpdateProcessing
  <2> QED BY <1>1, <2>1 DEF Rewritten, SamePayload, CompletesOnly
<1> QED BY <1>2, <1>3

LEMMA CompleteRewrites ==
  ASSUME OutboxTypeOK, NEW w \in Workers, Complete(w)
  PROVE  Rewritten(outbox, outbox') /\ CompletesOnly(outbox, outbox', workers[w].ev)
<1>1. workers[w].ev \in DOMAIN outbox
  BY DEF OutboxTypeOK, Complete
<1>2. outbox' = UpdateProcessing(workers[w].ev, "completed", "off")
  BY DEF Complete
<1>3. "completed" \in Unsettled \union Settled
  BY DEF Settled
<1> QED BY <1>1, <1>2, <1>3, UpdateRewrites

LEMMA RetryRewrites ==
  ASSUME OutboxTypeOK, NEW w \in Workers, Retry(w)
  PROVE  Rewritten(outbox, outbox') /\ CompletesOnly(outbox, outbox', 0)
<1>1. workers[w].ev \in DOMAIN outbox
  BY DEF OutboxTypeOK, Retry
<1>2. \/ outbox' = UpdateProcessing(workers[w].ev, "failed", "off")
      \/ outbox' = UpdateProcessing(workers[w].ev, "pending", "running")
  BY DEF Retry
<1>3. "failed" \in Unsettled \union Settled /\ "pending" \in Unsettled \union Settled
  BY DEF Settled, Unsettled
<1> QED BY <1>1, <1>2, <1>3, UpdateRewrites

LEMMA TimePassesRewrites ==
  ASSUME OutboxTypeOK, NEW i \in DOMAIN outbox, TimePasses(i)
  PROVE  Rewritten(outbox, outbox') /\ CompletesOnly(outbox, outbox', 0)
<1>1. /\ outbox \in Seq(Event) /\ outbox[i].attempts \in Nat
      /\ outbox[i].status \in Unsettled \union Settled
  BY EventAt
<1>2. outbox' = Rewrite(outbox, i, outbox[i].status, "off", outbox[i].attempts)
  BY DEF TimePasses, Rewrite
<1>3. /\ Rewritten(outbox, outbox') /\ outbox'[i].status = outbox[i].status
      /\ \A j \in DOMAIN outbox : j # i => outbox'[j] = outbox[j]
  BY <1>1, <1>2, RewriteOne
<1> QED BY <1>3 DEF CompletesOnly

LEMMA ReplayRewrites ==
  ASSUME OutboxTypeOK, Replay
  PROVE  Rewritten(outbox, outbox') /\ CompletesOnly(outbox, outbox', 0)
<1> DEFINE e(i) == IF outbox[i].status \in Settled
                   THEN Marked(outbox[i], "pending", "off", outbox[i].attempts)
                   ELSE outbox[i]
<1>1. outbox \in Seq(Event) /\ outbox' = [i \in DOMAIN outbox |-> e(i)]
  BY DEF OutboxTypeOK, Replay
<1>2. "pending" \in Unsettled \union Settled
  BY DEF Unsettled
<1>3. ASSUME NEW i \in DOMAIN outbox
      PROVE  /\ e(i) \in Event /\ SamePayload(outbox[i], e(i))
             /\ e(i).status = "completed" => outbox[i].status = "completed"
  <2>1. outbox[i] \in Event /\ outbox[i].attempts \in Nat
    BY EventAt
  <2>2. /\ Marked(outbox[i], "pending", "off", outbox[i].attempts) \in Event
        /\ SamePayload(outbox[i], Marked(outbox[i], "pending", "off", outbox[i].attempts))
        /\ Marked(outbox[i], "pending", "off", outbox[i].attempts).status = "pending"
    BY <1>2, <2>1, MarkedEvent
  <2> QED BY <2>1, <2>2 DEF SamePayload
<1> HIDE DEF e
<1>4. DOMAIN outbox = 1..Len(outbox) /\ Len(outbox) \in Nat
  BY <1>1
<1>5. outbox' \in Seq(Event)
  BY <1>1, <1>3, <1>4, IsASeq
<1> QED BY <1>1, <1>3, <1>5 DEF Rewritten, CompletesOnly

\* The events that the services publish when the chat is at sequence n: a
\* message is projected to its sender too, no event is ahead of the chat.
WellFormed(e, n) ==
  /\ e.seq <= n
  /\ e.kind = "message_sent" => e.sender \in e.parts

\* t is the outbox followed by such events, all pending.
Published(t) ==
  /\ t \in Seq(Event)
  /\ DOMAIN outbox \subseteq DOMAIN t
  /\ \A i \in DOMAIN outbox : t[i] = outbox[i]
  /\ \A i \in DOMAIN t \ DOMAIN outbox : t[i].status = "pending" /\ WellFormed(t[i], lastSeq)

LEMMA PublishOne ==
  ASSUME TypeOK, NEW kind \in Kinds, NEW parts \in SUBSET Users,
         NEW sender \in Users, NEW seq \in Nat, seq <= lastSeq,
         kind = "message_sent" => sender \in parts,
         Publish(NewEvent(kind, parts, sender, seq))
  PROVE  Published(outbox')
<1> DEFINE e == NewEvent(kind, parts, sender, seq)
<1>1. e \in Event /\ e.status = "pending" /\ WellFormed(e, lastSeq)
  BY NewEventType DEF WellFormed
<1>2. outbox \in Seq(Event) /\ outbox' = Append(outbox, e)
  BY DEF TypeOK, OutboxTypeOK, Publish
<1> HIDE DEF e
<1>3. /\ outbox' \in Seq(Event) /\ Len(outbox') = Len(outbox) + 1
      /\ \A i \in 1..Len(outbox) : outbox'[i] = outbox[i]
      /\ outbox'[Len(outbox) + 1] = e
  BY <1>1, <1>2, AppendProperties
<1>4. DOMAIN outbox = 1..Len(outbox) /\ Len(outbox) \in Nat /\ DOMAIN outbox' = 1..Len(outbox')
  BY <1>2, <1>3
<1>5. DOMAIN outbox' = DOMAIN outbox \union {Len(outbox) + 1}
  BY <1>3, <1>4
<1> QED BY <1>1, <1>3, <1>4, <1>5 DEF Published

LEMMA DismissPublishes ==
  ASSUME TypeOK, Dismiss
  PROVE  Published(outbox')
<1>1. PICK q \in Orders(members) :
        outbox' = outbox \o [i \in DOMAIN q |-> NewEvent("user_left", {q[i]}, q[i], 0)]
  BY DEF Dismiss
<1> DEFINE n == Cardinality(members)
           e(i) == NewEvent("user_left", {q[i]}, q[i], 0)
           t == [i \in 1..n |-> e(i)]
<1>2. n \in Nat
  BY ProjectionAssumption, FS_Subset, FS_CardinalityType DEF TypeOK
<1>3. q \in [1..n -> members] /\ outbox \in Seq(Event) /\ outbox' = outbox \o t
  BY <1>1 DEF Orders, TypeOK, OutboxTypeOK
<1>4. \A i \in 1..n : e(i) \in Event /\ e(i).status = "pending" /\ WellFormed(e(i), lastSeq)
  <2> TAKE i \in 1..n
  <2>1. q[i] \in Users /\ lastSeq \in Nat
    BY <1>3 DEF TypeOK
  <2> QED BY <2>1, NewEventType DEF WellFormed, Kinds
<1> HIDE DEF e, n
<1>5. t \in Seq(Event) /\ Len(t) = n
  BY <1>2, <1>4, IsASeq
<1> HIDE DEF t
<1>6. /\ outbox' \in Seq(Event) /\ Len(outbox') = Len(outbox) + n
      /\ \A i \in 1..(Len(outbox) + n) :
           outbox'[i] = IF i <= Len(outbox) THEN outbox[i] ELSE t[i - Len(outbox)]
  BY <1>3, <1>5, ConcatProperties
<1>7. DOMAIN outbox = 1..Len(outbox) /\ Len(outbox) \in Nat /\ DOMAIN outbox' = 1..Len(outbox')
  BY <1>3, <1>6
<1>8. ASSUME NEW i \in DOMAIN outbox' \ DOMAIN outbox
      PROVE  i - Len(outbox) \in 1..n /\ outbox'[i] = e(i - Len(outbox))
  <2>1. /\ i \in 1..(Len(outbox) + n) /\ ~(i <= Len(outbox))
        /\ i - Len(outbox) \in 1..n
    BY <1>2, <1>6, <1>7
  <2>2. outbox'[i] = t[i - Len(outbox)]
    BY <1>6, <2>1
  <2>3. t[i - Len(outbox)] = e(i - Len(outbox))
    BY <2>1 DEF t
  <2> QED BY <2>1, <2>2, <2>3
<1>9. DOMAIN outbox \subseteq DOMAIN outbox' /\ \A i \in DOMAIN outbox : outbox'[i] = outbox[i]
  BY <1>2, <1>6, <1>7
<1> QED BY <1>4, <1>6, <1>8, <1>9 DEF Published

---------------------------------------------------------------------------
(* The inductive invariant *)

\* Reflected, of any views.
Shown(e, V) ==
  /\ e.kind = "message_sent" =>
       /\ \A u \in e.parts : V[u].last >= e.seq
       /\ V[e.sender].read >= e.seq
  /\ e.kind = "user_joined" =>
       \A u \in e.parts : V[u].state # "absent" /\ V[u].read >= e.seq

\* What a worker k that is projecting e has achieved in the views: every
\* participant it is done with shows the message, and in the end all of e.
Progress(k, e, V) ==
  /\ k.pc = "apply" /\ e.kind = "message_sent" =>
       \A u \in e.parts \ k.todo : V[u].state # "absent" /\ V[u].last >= e.seq
  /\ k.pc = "applied" => Shown(e, V)

EventsWellFormed == \A i \in DOMAIN outbox : WellFormed(outbox[i], lastSeq)

SendsWithinChat == \A m \in Messages : sends[m].seq <= lastSeq

WorkersProgress ==
  \A w \in Workers : workers[w].pc # "idle" =>
    Progress(workers[w], outbox[workers[w].ev], views)

\* The views are right only because the events and the workers' progress are:
\* a completed event was applied by a worker that held its place in the fan-out.
IInv ==
  /\ TypeOK
  /\ EventsWellFormed
  /\ SendsWithinChat
  /\ ReadWithinChat
  /\ WorkersProgress
  /\ CompletedReflected

---------------------------------------------------------------------------
(* What every step does to the outbox *)

\* A step rewrites bookkeeping, and completes at most the event of a worker
\* that has applied it, or it publishes events.
OutboxShape ==
  \/ /\ Rewritten(outbox, outbox')
     /\ \/ CompletesOnly(outbox, outbox', 0)
        \/ \E w \in Workers : /\ workers[w].pc = "applied"
                              /\ CompletesOnly(outbox, outbox', workers[w].ev)
  \/ Published(outbox')

\* The requests of users publish events and leave the published ones alone.
LEMMA RequestPublishes ==
  ASSUME IInv, GroupNext \/ SendNext
  PROVE  Published(outbox')
<1>1. TypeOK /\ outbox \in Seq(Event)
  BY DEF IInv, TypeOK, OutboxTypeOK
<1>2. ASSUME UNCHANGED outbox PROVE Published(outbox')
  BY <1>1, <1>2 DEF Published
<1>3. ASSUME NEW u \in Users, Join(u) \/ Leave(u) PROVE Published(outbox')
  <2>1. /\ {u} \in SUBSET Users /\ lastSeq \in Nat /\ 0 \in Nat /\ 0 <= lastSeq
        /\ "user_joined" \in Kinds /\ "user_left" \in Kinds
    BY <1>1 DEF TypeOK, Kinds
  <2>2. CASE Join(u)
    <3>1. Publish(NewEvent("user_joined", {u}, u, lastSeq))
      BY <2>2 DEF Join
    <3> QED BY <1>1, <2>1, <3>1, PublishOne
  <2>3. CASE Leave(u)
    <3>1. Publish(NewEvent("user_left", {u}, u, 0))
      BY <2>3 DEF Leave
    <3> QED BY <1>1, <2>1, <3>1, PublishOne
  <2> QED BY <1>3, <2>2, <2>3
<1>4. ASSUME NEW m \in Messages, Store(m) PROVE Published(outbox')
  <2>1. /\ sends[m].stage = "numbered" /\ sends[m] \in Send
        /\ Publish(NewEvent("message_sent", Participants(m), sends[m].sender, sends[m].seq))
    BY <1>1, <1>4 DEF Store, TypeOK
  <2>2. sends[m].sender \in Users /\ sends[m].seq \in Nat /\ sends[m].to \subseteq Users
    BY <1>1, <2>1 DEF TypeOK, Send
  <2>3. sends[m].seq <= lastSeq
    BY DEF IInv, SendsWithinChat
  <2>4. Participants(m) \in SUBSET Users /\ sends[m].sender \in Participants(m)
    BY <2>2 DEF Participants
  <2>5. "message_sent" \in Kinds
    BY DEF Kinds
  <2> QED BY <1>1, <2>1, <2>2, <2>3, <2>4, <2>5, PublishOne
<1>5. CASE GroupNext
  BY <1>1, <1>2, <1>3, <1>5, DismissPublishes DEF GroupNext, Announce, outboxVars
<1>6. CASE SendNext
  <2>1. PICK m \in Messages : \/ \E u \in Users : SendUserMessage(m, u) \/ SendSystemEvent(m, u)
                              \/ TakeSeq(m) \/ Store(m) \/ SendAgain(m)
    BY <1>6 DEF SendNext
  <2>2. ASSUME NEW u \in Users, SendUserMessage(m, u) \/ SendSystemEvent(m, u)
        PROVE  Published(outbox')
    BY <1>2, <2>2 DEF SendUserMessage, SendSystemEvent, Resolve, outboxVars
  <2>3. CASE TakeSeq(m) \/ SendAgain(m)
    BY <1>2, <2>3 DEF TakeSeq, SendAgain, outboxVars
  <2> QED BY <1>4, <2>1, <2>2, <2>3
<1> QED BY <1>5, <1>6

LEMMA OutboxStep ==
  ASSUME IInv, [Next]_vars
  PROVE  OutboxShape
<1>1. TypeOK /\ OutboxTypeOK
  BY DEF IInv, TypeOK
<1>2. ASSUME UNCHANGED outbox PROVE OutboxShape
  BY <1>1, <1>2 DEF OutboxTypeOK, OutboxShape, Rewritten, SamePayload, CompletesOnly
<1>3. ASSUME NEW w \in Workers, ProcessOne(w) PROVE OutboxShape
  <2>1. CASE Claim(w)
    BY <1>1, <2>1, ClaimRewrites DEF OutboxShape
  <2>2. CASE Complete(w)
    <3>1. workers[w].pc = "applied"
      BY <2>2 DEF Complete
    <3> QED BY <1>1, <2>2, <3>1, CompleteRewrites DEF OutboxShape
  <2>3. CASE Retry(w)
    BY <1>1, <2>3, RetryRewrites DEF OutboxShape
  <2>4. CASE \/ ApplyUserJoined(w) \/ ApplyUserLeft(w)
             \/ ApplyMessageToUser(w) \/ ApplySenderRead(w)
    BY <1>2, <2>4
       DEF ApplyUserJoined, ApplyUserLeft, ApplyMessageToUser, ApplySenderRead
  <2> QED BY <1>3, <2>1, <2>2, <2>3, <2>4 DEF ProcessOne
<1>4. ASSUME NEW i \in DOMAIN outbox, TimePasses(i) PROVE OutboxShape
  BY <1>1, <1>4, TimePassesRewrites DEF OutboxShape
<1>5. CASE Replay
  BY <1>1, <1>5, ReplayRewrites DEF OutboxShape
<1>6. ASSUME NEW w \in Workers, DatabaseError(w) \/ Crash(w) PROVE OutboxShape
  BY <1>2, <1>6 DEF DatabaseError, Crash
<1>7. CASE OutboxNext
  BY <1>3, <1>4, <1>5, <1>6, <1>7 DEF OutboxNext
<1>8. CASE GroupNext \/ SendNext
  BY <1>8, RequestPublishes DEF OutboxShape
<1>9. CASE (\E u \in Users : ReadConversation(u)) \/ UNCHANGED vars
  BY <1>2, <1>9 DEF ReadConversation, vars, outboxVars
<1> QED BY <1>7, <1>8, <1>9 DEF Next

---------------------------------------------------------------------------
(* What every step does to the views *)

\* v2 is v1, or what one write of the repository makes of it, with a sequence
\* number that the chat has reached.
Written(v1, v2, n) ==
  \E seq \in 0..n : v2 \in {v1, Upsert(v1, seq), MarkLeft(v1),
                            UpdateLastMessage(v1, seq), MarkRead(v1, seq)}

LEMMA WrittenAdvances ==
  ASSUME NEW v1 \in View, NEW n \in Nat, NEW v2, Written(v1, v2, n), v1.read <= n
  PROVE  v2 \in View /\ Advances(v1, v2) /\ v2.read <= n
<1>1. PICK seq \in 0..n : v2 \in {v1, Upsert(v1, seq), MarkLeft(v1),
                                  UpdateLastMessage(v1, seq), MarkRead(v1, seq)}
  BY DEF Written
<1>2. seq \in Nat /\ seq <= n
  OBVIOUS
<1>3. v2 \in View /\ Advances(v1, v2)
  BY <1>1, <1>2, UpdatesAdvance, AdvancesPreorder
<1>4. v2.read \in {v1.read, seq}
  BY <1>1, <1>2, UpdateOrigins
<1> QED BY <1>2, <1>3, <1>4

ViewsWritten ==
  /\ views' = [u \in Users |-> views'[u]]
  /\ \A u \in Users : Written(views[u], views'[u], lastSeq)

\* The event of a busy worker, and its sequence number within the chat.
LEMMA ClaimedEvent ==
  ASSUME IInv, NEW w \in Workers, workers[w].pc # "idle"
  PROVE  /\ workers[w].ev \in DOMAIN outbox
         /\ Claimed(w) = outbox[workers[w].ev] /\ Claimed(w) \in Event
         /\ Claimed(w).seq \in 0..lastSeq /\ Claimed(w).seq \in Nat
         /\ Claimed(w).parts \subseteq Users /\ Claimed(w).sender \in Users
         /\ Claimed(w).kind = "message_sent" => Claimed(w).sender \in Claimed(w).parts
         /\ Progress(workers[w], Claimed(w), views)
<1>1. workers[w].ev \in DOMAIN outbox /\ OutboxTypeOK /\ lastSeq \in Nat
  BY DEF IInv, TypeOK, OutboxTypeOK
<1>2. Claimed(w) = outbox[workers[w].ev]
  BY DEF Claimed
<1>3. WellFormed(outbox[workers[w].ev], lastSeq)
  BY <1>1 DEF IInv, EventsWellFormed
<1>4. Progress(workers[w], Claimed(w), views)
  BY <1>2 DEF IInv, WorkersProgress
<1> QED BY <1>1, <1>2, <1>3, <1>4, EventAt DEF WellFormed

LEMMA ViewsStep ==
  ASSUME IInv, [Next]_vars
  PROVE  ViewsWritten
<1>1. views \in [Users -> View] /\ lastSeq \in Nat /\ workers \in [Workers -> Worker]
  BY DEF IInv, TypeOK, OutboxTypeOK
<1>2. 0 \in 0..lastSeq
  BY <1>1
<1>3. ASSUME UNCHANGED views PROVE ViewsWritten
  BY <1>1, <1>2, <1>3 DEF ViewsWritten, Written
<1>4. ASSUME NEW w \in Workers, ProcessOne(w) PROVE ViewsWritten
  <2>1. CASE ApplyUserJoined(w)
    <3>1. Claimed(w).seq \in 0..lastSeq
      BY <2>1, ClaimedEvent DEF ApplyUserJoined, Applying
    <3> DEFINE v(u) == IF u \in Claimed(w).parts
                       THEN Upsert(views[u], Claimed(w).seq) ELSE views[u]
    <3>2. views' = [u \in Users |-> v(u)]
      BY <2>1 DEF ApplyUserJoined
    <3>3. \A u \in Users : Written(views[u], v(u), lastSeq)
      BY <3>1 DEF Written
    <3> HIDE DEF v
    <3> QED BY <3>2, <3>3 DEF ViewsWritten
  <2>2. CASE ApplyUserLeft(w)
    <3> DEFINE v(u) == IF u \in Claimed(w).parts THEN MarkLeft(views[u]) ELSE views[u]
    <3>1. views' = [u \in Users |-> v(u)]
      BY <2>2 DEF ApplyUserLeft
    <3>2. \A u \in Users : Written(views[u], v(u), lastSeq)
      BY <1>2 DEF Written
    <3> HIDE DEF v
    <3> QED BY <3>1, <3>2 DEF ViewsWritten
  <2>3. CASE ApplyMessageToUser(w)
    <3>1. Claimed(w).seq \in 0..lastSeq /\ workers[w].todo \subseteq Users
      BY <1>1, <2>3, ClaimedEvent DEF ApplyMessageToUser, Applying, Worker
    <3>2. PICK u \in workers[w].todo :
            views' = [views EXCEPT ![u] = UpdateLastMessage(views[u], Claimed(w).seq)]
      BY <2>3 DEF ApplyMessageToUser
    <3> DEFINE v == UpdateLastMessage(views[u], Claimed(w).seq)
    <3>3. Written(views[u], v, lastSeq) /\ \A x \in Users : Written(views[x], views[x], lastSeq)
      BY <1>2, <3>1 DEF Written
    <3> HIDE DEF v
    <3>4. views' = [views EXCEPT ![u] = v] /\ u \in Users
      BY <3>1, <3>2 DEF v
    <3> QED BY <1>1, <3>3, <3>4 DEF ViewsWritten
  <2>4. CASE ApplySenderRead(w)
    <3>1. Claimed(w).seq \in 0..lastSeq /\ Claimed(w).sender \in Users
      BY <1>1, <2>4, ClaimedEvent DEF ApplySenderRead, Applying
    <3> DEFINE u == Claimed(w).sender
               v == MarkRead(views[u], Claimed(w).seq)
    <3>2. Written(views[u], v, lastSeq) /\ \A x \in Users : Written(views[x], views[x], lastSeq)
      BY <1>2, <3>1 DEF Written
    <3>3. views' = [views EXCEPT ![u] = v] /\ u \in Users
      BY <2>4, <3>1 DEF ApplySenderRead
    <3> HIDE DEF u, v
    <3> QED BY <1>1, <3>2, <3>3 DEF ViewsWritten
  <2>5. CASE Claim(w) \/ Complete(w) \/ Retry(w)
    BY <1>3, <2>5 DEF Claim, Complete, Retry
  <2> QED BY <1>4, <2>1, <2>2, <2>3, <2>4, <2>5 DEF ProcessOne
<1>5. ASSUME NEW u \in Users, ReadConversation(u) PROVE ViewsWritten
  <2>1. PICK seq \in 0..lastSeq : views' = [views EXCEPT ![u] = MarkRead(views[u], seq)]
    BY <1>5 DEF ReadConversation
  <2> DEFINE v == MarkRead(views[u], seq)
  <2>2. Written(views[u], v, lastSeq) /\ \A x \in Users : Written(views[x], views[x], lastSeq)
    BY <1>2, <2>1 DEF Written
  <2> HIDE DEF v
  <2>3. views' = [views EXCEPT ![u] = v]
    BY <2>1 DEF v
  <2> QED BY <1>1, <2>2, <2>3 DEF ViewsWritten
<1>6. CASE OutboxNext
  <2>1. ASSUME NEW w \in Workers, DatabaseError(w) \/ Crash(w) PROVE ViewsWritten
    BY <1>3, <2>1 DEF DatabaseError, Crash
  <2>2. ASSUME NEW i \in DOMAIN outbox, TimePasses(i) PROVE ViewsWritten
    BY <1>3, <2>2 DEF TimePasses
  <2>3. CASE Replay
    BY <1>3, <2>3 DEF Replay
  <2> QED BY <1>4, <1>6, <2>1, <2>2, <2>3 DEF OutboxNext
<1>7. CASE GroupNext
  BY <1>3, <1>7 DEF GroupNext, Dismiss, Join, Leave, Announce, outboxVars
<1>8. ASSUME NEW m \in Messages, SendAgain(m) PROVE ViewsWritten
  <2> DEFINE u == sends[m].sender
             v == MarkRead(views[u], sends[m].seq)
  <2>1. sends[m].stage = "stored" /\ sends[m] \in Send /\ views' = [views EXCEPT ![u] = v]
    BY <1>8 DEF SendAgain, IInv, TypeOK
  <2>2. u \in Users
    BY <2>1 DEF IInv, TypeOK
  <2>3. sends[m].seq \in 0..lastSeq
    BY <1>1, <2>1 DEF Send, IInv, SendsWithinChat
  <2>4. Written(views[u], v, lastSeq) /\ \A x \in Users : Written(views[x], views[x], lastSeq)
    BY <1>2, <2>3 DEF Written
  <2> HIDE DEF u, v
  <2> QED BY <1>1, <2>1, <2>2, <2>4 DEF ViewsWritten
<1>9. CASE SendNext
  BY <1>3, <1>9, <1>8
     DEF SendNext, SendUserMessage, SendSystemEvent, Resolve, TakeSeq, Store, outboxVars
<1>10. CASE UNCHANGED vars
  BY <1>3, <1>10 DEF vars, outboxVars
<1> QED BY <1>5, <1>6, <1>7, <1>9, <1>10 DEF Next

LEMMA ViewsAdvance ==
  ASSUME IInv, [Next]_vars
  PROVE  /\ views' \in [Users -> View]
         /\ \A u \in Users : Advances(views[u], views'[u]) /\ views'[u].read <= lastSeq
<1>1. views \in [Users -> View] /\ lastSeq \in Nat
  BY DEF IInv, TypeOK, OutboxTypeOK
<1>2. ASSUME NEW u \in Users
      PROVE  /\ views'[u] \in View
             /\ Advances(views[u], views'[u]) /\ views'[u].read <= lastSeq
  <2>1. views[u] \in View /\ views[u].read <= lastSeq
    BY <1>1 DEF IInv, ReadWithinChat
  <2>2. Written(views[u], views'[u], lastSeq)
    BY ViewsStep DEF ViewsWritten
  <2> QED BY <1>1, <2>1, <2>2, WrittenAdvances
<1>3. views' = [u \in Users |-> views'[u]]
  BY ViewsStep DEF ViewsWritten
<1> QED BY <1>2, <1>3

---------------------------------------------------------------------------
(* What every step does to the workers *)

\* Events stay where they are with their payload, and since views only
\* advance, what has been achieved for an event stays.
LEMMA Stable ==
  ASSUME IInv, [Next]_vars, NEW i \in DOMAIN outbox
  PROVE  /\ i \in DOMAIN outbox' /\ SamePayload(outbox[i], outbox'[i])
         /\ \A k \in Worker : Progress(k, outbox[i], views) => Progress(k, outbox'[i], views')
         /\ Shown(outbox[i], views) => Shown(outbox'[i], views')
<1>1. i \in DOMAIN outbox' /\ SamePayload(outbox[i], outbox'[i])
  BY OutboxStep DEF OutboxShape, Rewritten, Published, SamePayload
<1>2. /\ outbox[i].parts \subseteq Users /\ outbox[i].sender \in Users
      /\ outbox[i].seq \in Nat
  BY EventAt DEF IInv, TypeOK
<1>3. ASSUME NEW u \in Users
      PROVE  /\ views[u] \in View /\ views'[u] \in View
             /\ Advances(views[u], views'[u])
  BY ViewsAdvance DEF IInv, TypeOK, OutboxTypeOK
<1>4. ASSUME NEW u \in Users
      PROVE  /\ views[u].last >= outbox[i].seq => views'[u].last >= outbox'[i].seq
             /\ views[u].read >= outbox[i].seq => views'[u].read >= outbox'[i].seq
             /\ views[u].state # "absent" => views'[u].state # "absent"
  BY <1>1, <1>2, <1>3 DEF SamePayload, Advances, View
<1>5. Shown(outbox[i], views) => Shown(outbox'[i], views')
  BY <1>1, <1>2, <1>4 DEF Shown, SamePayload
<1>6. ASSUME NEW k \in Worker, Progress(k, outbox[i], views)
      PROVE  Progress(k, outbox'[i], views')
  BY <1>1, <1>2, <1>4, <1>5, <1>6 DEF Progress, SamePayload
<1> QED BY <1>1, <1>5, <1>6

\* A worker k whose claim is in the outbox and whose progress is in the views.
Sound(k) ==
  /\ k \in Worker
  /\ k.pc # "idle" => /\ k.ev \in DOMAIN outbox'
                      /\ Progress(k, outbox'[k.ev], views')

LEMMA IdleSound == Sound(Idle)
BY DEF Sound, Idle, Worker

LEMMA ErrorSound ==
  ASSUME IInv, [Next]_vars, NEW w \in Workers, workers[w].pc # "idle"
  PROVE  Sound([workers[w] EXCEPT !.pc = "error"])
<1> DEFINE k == [workers[w] EXCEPT !.pc = "error"]
<1>1. workers[w] \in Worker /\ workers[w].ev \in DOMAIN outbox
  BY DEF IInv, TypeOK, OutboxTypeOK
<1>2. k \in Worker /\ k.pc = "error" /\ k.ev = workers[w].ev
  BY <1>1 DEF Worker
<1>3. Progress(k, outbox'[k.ev], views')
  BY <1>2 DEF Progress
<1> QED BY <1>1, <1>2, <1>3, Stable DEF Sound

\* A worker that has finished projecting its event.
LEMMA AppliedSound ==
  ASSUME IInv, [Next]_vars, NEW w \in Workers, workers[w].pc # "idle",
         Shown(outbox[workers[w].ev], views')
  PROVE  Sound([workers[w] EXCEPT !.pc = "applied"])
<1> DEFINE k == [workers[w] EXCEPT !.pc = "applied"]
           i == workers[w].ev
<1>1. workers[w] \in Worker /\ i \in DOMAIN outbox
  BY DEF IInv, TypeOK, OutboxTypeOK
<1>2. k \in Worker /\ k.pc = "applied" /\ k.ev = i
  BY <1>1 DEF Worker
<1>3. i \in DOMAIN outbox' /\ SamePayload(outbox[i], outbox'[i])
  BY <1>1, Stable
<1>4. Progress(k, outbox'[i], views')
  BY <1>2, <1>3 DEF Progress, Shown, SamePayload
<1> QED BY <1>2, <1>3, <1>4 DEF Sound

\* A worker that has got past one participant of its message.
LEMMA TodoSound ==
  ASSUME IInv, [Next]_vars, NEW w \in Workers, workers[w].pc = "apply",
         NEW u \in Users,
         views'[u].state # "absent" /\ views'[u].last >= outbox[workers[w].ev].seq
  PROVE  Sound([workers[w] EXCEPT !.todo = workers[w].todo \ {u}])
<1> DEFINE k == [workers[w] EXCEPT !.todo = workers[w].todo \ {u}]
           i == workers[w].ev
<1>1. workers[w] \in Worker /\ i \in DOMAIN outbox
  BY DEF IInv, TypeOK, OutboxTypeOK
<1>2. k \in Worker /\ k.pc = "apply" /\ k.ev = i /\ k.todo = workers[w].todo \ {u}
  BY <1>1 DEF Worker
<1>3. i \in DOMAIN outbox' /\ SamePayload(outbox[i], outbox'[i])
  BY <1>1, Stable
<1>4. Progress(workers[w], outbox'[i], views')
  BY <1>1, Stable DEF IInv, WorkersProgress
<1>5. Progress(k, outbox'[i], views')
  BY <1>2, <1>3, <1>4 DEF Progress, SamePayload
<1> QED BY <1>2, <1>3, <1>5 DEF Sound

WorkerMoves ==
  \E w \in Workers, k \in Worker : /\ Sound(k)
                                   /\ workers' = [workers EXCEPT ![w] = k]

LEMMA ClaimMoves ==
  ASSUME IInv, [Next]_vars, NEW w \in Workers, Claim(w)
  PROVE  WorkerMoves
<1>1. PICK i \in DOMAIN outbox :
        workers' = [workers EXCEPT ![w] =
          [pc |-> "apply", ev |-> i, todo |-> outbox[i].parts,
           tries |-> outbox[i].attempts + 1]]
  BY DEF Claim, Claimable
<1> DEFINE k == [pc |-> "apply", ev |-> i, todo |-> outbox[i].parts,
                 tries |-> outbox[i].attempts + 1]
<1>2. /\ outbox \in Seq(Event) /\ outbox[i].parts \subseteq Users
      /\ outbox[i].attempts \in Nat
  BY EventAt DEF IInv, TypeOK
<1>3. k \in Worker
  BY <1>1, <1>2 DEF Worker
<1>4. i \in DOMAIN outbox' /\ SamePayload(outbox[i], outbox'[i])
  BY Stable
<1>5. Progress(k, outbox'[i], views')
  BY <1>4 DEF Progress, SamePayload
<1> QED BY <1>1, <1>3, <1>4, <1>5 DEF Sound, WorkerMoves

LEMMA ApplyMoves ==
  ASSUME IInv, [Next]_vars, NEW w \in Workers,
         \/ ApplyUserJoined(w) \/ ApplyUserLeft(w)
         \/ ApplyMessageToUser(w) \/ ApplySenderRead(w)
  PROVE  WorkerMoves
<1> DEFINE e == Claimed(w)
           applied == [workers[w] EXCEPT !.pc = "applied"]
<1>1. workers[w].pc = "apply"
  BY DEF ApplyUserJoined, ApplyUserLeft, ApplyMessageToUser, ApplySenderRead, Applying
<1>2. /\ e = outbox[workers[w].ev] /\ e.seq \in Nat
      /\ e.parts \subseteq Users /\ e.sender \in Users
      /\ e.kind = "message_sent" => e.sender \in e.parts
      /\ Progress(workers[w], e, views)
  BY <1>1, ClaimedEvent
<1>3. /\ workers \in [Workers -> Worker] /\ views \in [Users -> View]
      /\ views' \in [Users -> View]
      /\ \A u \in Users : Advances(views[u], views'[u])
  BY ViewsAdvance DEF IInv, TypeOK, OutboxTypeOK
<1> HIDE DEF e
<1>4. ASSUME Shown(e, views'), workers' = [workers EXCEPT ![w].pc = "applied"]
      PROVE  WorkerMoves
  <2>1. Sound(applied)
    BY <1>1, <1>2, <1>4, AppliedSound
  <2>2. workers' = [workers EXCEPT ![w] = applied]
    BY <1>4
  <2> HIDE DEF applied
  <2> QED BY <2>1, <2>2 DEF WorkerMoves, Sound
<1>5. CASE ApplyUserJoined(w)
  <2>1. /\ e.kind = "user_joined" /\ workers' = [workers EXCEPT ![w].pc = "applied"]
        /\ \A u \in e.parts : views'[u] = Upsert(views[u], e.seq)
    BY <1>2, <1>5 DEF ApplyUserJoined, Applying, e
  <2>2. \A u \in e.parts : views'[u].state # "absent" /\ views'[u].read >= e.seq
    <3> TAKE u \in e.parts
    <3>1. views[u].read \in Nat /\ views'[u] = Upsert(views[u], e.seq)
      BY <1>2, <1>3, <2>1 DEF View
    <3>2. views'[u].state = "current" /\ views'[u].read = Later(views[u].read, e.seq)
      BY <3>1 DEF Upsert
    <3> QED BY <1>2, <3>1, <3>2 DEF Later
  <2> QED BY <1>4, <2>1, <2>2 DEF Shown
<1>6. CASE ApplyUserLeft(w)
  <2>1. e.kind = "user_left" /\ workers' = [workers EXCEPT ![w].pc = "applied"]
    BY <1>6 DEF ApplyUserLeft, Applying, e
  <2> QED BY <1>4, <2>1 DEF Shown
<1>7. CASE ApplyMessageToUser(w)
  <2>1. PICK u \in workers[w].todo :
          /\ views' = [views EXCEPT ![u] = UpdateLastMessage(views[u], e.seq)]
          /\ IF MessageAccepted(views[u], e.seq)
             THEN workers' = [workers EXCEPT ![w].todo = workers[w].todo \ {u}]
             ELSE workers' = [workers EXCEPT ![w].pc = "error"]
    BY <1>7 DEF ApplyMessageToUser, e
  <2>2. u \in Users /\ views[u] \in View
    BY <1>3 DEF Worker
  <2>3. CASE MessageAccepted(views[u], e.seq)
    <3> DEFINE k == [workers[w] EXCEPT !.todo = workers[w].todo \ {u}]
    <3>1. views'[u].state # "absent" /\ views'[u].last >= e.seq
      BY <1>2, <1>3, <2>1, <2>2, <2>3, AcceptedIsShown
    <3>2. Sound(k)
      BY <1>1, <1>2, <2>2, <3>1, TodoSound
    <3>3. workers' = [workers EXCEPT ![w] = k]
      BY <2>1, <2>3
    <3> HIDE DEF k
    <3> QED BY <3>2, <3>3 DEF WorkerMoves, Sound
  <2>4. CASE ~MessageAccepted(views[u], e.seq)
    <3> DEFINE k == [workers[w] EXCEPT !.pc = "error"]
    <3>1. Sound(k)
      BY <1>1, ErrorSound
    <3>2. workers' = [workers EXCEPT ![w] = k]
      BY <2>1, <2>4
    <3> HIDE DEF k
    <3> QED BY <3>1, <3>2 DEF WorkerMoves, Sound
  <2> QED BY <2>3, <2>4
<1>8. CASE ApplySenderRead(w)
  <2>1. /\ e.kind = "message_sent" /\ workers[w].todo = {}
        /\ workers' = [workers EXCEPT ![w].pc = "applied"]
        /\ views'[e.sender] = MarkRead(views[e.sender], e.seq)
    BY <1>2, <1>3, <1>8 DEF ApplySenderRead, Applying, e
  <2>2. \A u \in e.parts : views[u].state # "absent" /\ views[u].last >= e.seq
    BY <1>1, <1>2, <2>1 DEF Progress
  <2>3. \A u \in e.parts : views'[u].last >= e.seq
    <3> TAKE u \in e.parts
    <3>1. views[u] \in View /\ views'[u] \in View /\ Advances(views[u], views'[u])
      BY <1>2, <1>3
    <3> QED BY <1>2, <2>2, <3>1 DEF Advances, View
  <2>4. views'[e.sender].read >= e.seq
    BY <1>2, <1>3, <2>1, <2>2 DEF MarkRead, Later, View
  <2> QED BY <1>4, <2>1, <2>3, <2>4 DEF Shown
<1> QED BY <1>5, <1>6, <1>7, <1>8

LEMMA OneWorker ==
  ASSUME IInv, [Next]_vars
  PROVE  UNCHANGED workers \/ WorkerMoves
<1>1. ASSUME NEW w \in Workers, ProcessOne(w) PROVE WorkerMoves
  <2>1. CASE Complete(w) \/ Retry(w)
    <3>1. workers' = [workers EXCEPT ![w] = Idle]
      BY <2>1 DEF Complete, Retry
    <3> QED BY <3>1, IdleSound DEF WorkerMoves, Sound
  <2> QED BY <1>1, <2>1, ClaimMoves, ApplyMoves DEF ProcessOne
<1>2. ASSUME NEW w \in Workers, DatabaseError(w) PROVE WorkerMoves
  <2> DEFINE k == [workers[w] EXCEPT !.pc = "error"]
  <2>1. Sound(k)
    BY <1>2, ErrorSound DEF DatabaseError
  <2>2. workers' = [workers EXCEPT ![w] = k]
    BY <1>2 DEF DatabaseError
  <2> HIDE DEF k
  <2> QED BY <2>1, <2>2 DEF WorkerMoves, Sound
<1>3. ASSUME NEW w \in Workers, Crash(w) PROVE WorkerMoves
  <2>1. workers' = [workers EXCEPT ![w] = Idle]
    BY <1>3 DEF Crash
  <2> QED BY <2>1, IdleSound DEF WorkerMoves, Sound
<1>4. CASE OutboxNext
  BY <1>1, <1>2, <1>3, <1>4 DEF OutboxNext, TimePasses, Replay
<1>5. CASE GroupNext
  BY <1>5 DEF GroupNext, Dismiss, Join, Leave, Announce, outboxVars
<1>6. CASE SendNext
  BY <1>6 DEF SendNext, SendUserMessage, SendSystemEvent, Resolve, TakeSeq,
              Store, SendAgain, outboxVars
<1>7. CASE (\E u \in Users : ReadConversation(u)) \/ UNCHANGED vars
  BY <1>7 DEF ReadConversation, vars, outboxVars
<1> QED BY <1>4, <1>5, <1>6, <1>7 DEF Next

LEMMA WorkersStep ==
  ASSUME IInv, [Next]_vars
  PROVE  workers' \in [Workers -> Worker] /\ \A w \in Workers : Sound(workers'[w])
<1>1. workers \in [Workers -> Worker]
  BY DEF IInv, TypeOK, OutboxTypeOK
<1>2. ASSUME NEW w \in Workers PROVE Sound(workers[w])
  <2>1. workers[w] \in Worker
    BY <1>1
  <2>2. workers[w].pc # "idle" =>
          /\ workers[w].ev \in DOMAIN outbox
          /\ Progress(workers[w], outbox[workers[w].ev], views)
    BY DEF IInv, WorkersProgress, TypeOK, OutboxTypeOK
  <2> QED BY <2>1, <2>2, Stable DEF Sound
<1>3. CASE UNCHANGED workers
  BY <1>1, <1>2, <1>3
<1>4. CASE WorkerMoves
  <2>1. PICK w \in Workers, k \in Worker : Sound(k) /\ workers' = [workers EXCEPT ![w] = k]
    BY <1>4 DEF WorkerMoves
  <2>2. \A x \in Workers : workers'[x] = IF x = w THEN k ELSE workers[x]
    BY <1>1, <2>1
  <2> QED BY <1>1, <1>2, <2>1, <2>2
<1> QED BY <1>3, <1>4, OneWorker

---------------------------------------------------------------------------
(* What every step does to the group and the sends *)

LEMMA GroupStep ==
  ASSUME TypeOK, [Next]_vars
  PROVE  active' \in BOOLEAN /\ members' \subseteq Users /\ notices' \subseteq Users
<1> USE DEF TypeOK
<1>1. CASE OutboxNext /\ UNCHANGED <<groupVars, sendVars>>
  BY <1>1 DEF groupVars
<1>2. CASE GroupNext
  <2>1. ASSUME NEW u \in Users, Join(u)
        PROVE  active' \in BOOLEAN /\ members' \subseteq Users /\ notices' \subseteq Users
    BY <2>1 DEF Join, Notify
  <2>2. ASSUME NEW u \in Users, Leave(u)
        PROVE  active' \in BOOLEAN /\ members' \subseteq Users /\ notices' \subseteq Users
    BY <2>2 DEF Leave, Notify
  <2> QED BY <1>2, <2>1, <2>2 DEF GroupNext, Dismiss, Announce, Notify
<1>3. CASE SendNext
  BY <1>3 DEF SendNext, SendUserMessage, SendSystemEvent, Resolve, TakeSeq, Store,
              SendAgain, groupVars
<1>4. CASE (\E u \in Users : ReadConversation(u)) \/ UNCHANGED vars
  BY <1>4 DEF ReadConversation, vars, groupVars
<1> QED BY <1>1, <1>2, <1>3, <1>4 DEF Next

\* A send moves on with its number within the chat, and the chat only grows.
Numbered(s) == /\ s \in Send /\ s.seq <= lastSeq'
               /\ s.stage # "new" => s.sender \in Users

LEMMA SendsStep ==
  ASSUME TypeOK, SendsWithinChat, [Next]_vars
  PROVE  /\ lastSeq' \in Nat /\ lastSeq' >= lastSeq
         /\ sends' \in [Messages -> Send] /\ \A m \in Messages : Numbered(sends'[m])
<1>1. /\ lastSeq \in Nat /\ sends \in [Messages -> Send] /\ members \subseteq Users
      /\ \A m \in Messages : /\ sends[m] \in Send /\ sends[m].seq <= lastSeq
                             /\ sends[m].seq \in Nat
                             /\ sends[m].stage # "new" => sends[m].sender \in Users
  BY DEF TypeOK, SendsWithinChat, Send
<1>2. ASSUME UNCHANGED sendVars
      PROVE  /\ lastSeq' \in Nat /\ lastSeq' >= lastSeq
             /\ sends' \in [Messages -> Send] /\ \A m \in Messages : Numbered(sends'[m])
  BY <1>1, <1>2 DEF sendVars, Numbered
<1>3. ASSUME NEW m \in Messages, NEW s \in Send, sends' = [sends EXCEPT ![m] = s],
             lastSeq' \in Nat, lastSeq' >= lastSeq, Numbered(s)
      PROVE  /\ sends' \in [Messages -> Send] /\ \A x \in Messages : Numbered(sends'[x])
  <2>1. \A x \in Messages : sends'[x] = IF x = m THEN s ELSE sends[x]
    BY <1>1, <1>3
  <2>2. \A x \in Messages : Numbered(sends[x])
    BY <1>1, <1>3 DEF Numbered
  <2> QED BY <1>1, <1>3, <2>1, <2>2
<1>4. ASSUME NEW m \in Messages, NEW u \in Users, Resolve(m, u)
      PROVE  /\ lastSeq' \in Nat /\ lastSeq' >= lastSeq
             /\ sends' \in [Messages -> Send] /\ \A x \in Messages : Numbered(sends'[x])
  <2> DEFINE s == [stage |-> "resolved", sender |-> u, to |-> members \ {u}, seq |-> 0]
  <2>1. lastSeq' = lastSeq /\ sends' = [sends EXCEPT ![m] = s]
    BY <1>4 DEF Resolve
  <2>2. s \in Send /\ Numbered(s)
    BY <1>1, <2>1 DEF Send, Numbered
  <2> HIDE DEF s
  <2>3. lastSeq' \in Nat /\ lastSeq' >= lastSeq
    BY <1>1, <2>1
  <2> QED BY <1>3, <2>1, <2>2, <2>3
<1>5. ASSUME NEW m \in Messages, TakeSeq(m)
      PROVE  /\ lastSeq' \in Nat /\ lastSeq' >= lastSeq
             /\ sends' \in [Messages -> Send] /\ \A x \in Messages : Numbered(sends'[x])
  <2> DEFINE t == [sends[m] EXCEPT !.stage = "numbered"]
             s == [t EXCEPT !.seq = lastSeq + 1]
  <2>1. lastSeq' = lastSeq + 1 /\ sends' = [sends EXCEPT ![m] = s]
    BY <1>1, <1>5, Zenon DEF TakeSeq
  <2>2. t \in Send /\ t.sender = sends[m].sender
    BY <1>1 DEF Send
  <2> HIDE DEF t
  <2>3. s \in Send /\ s.seq = lastSeq + 1 /\ s.sender = sends[m].sender
    BY <1>1, <2>2 DEF Send
  <2>4. sends[m].sender \in Users
    BY <1>1, <1>5 DEF TakeSeq
  <2> HIDE DEF s
  <2>5. Numbered(s)
    BY <1>1, <2>1, <2>3, <2>4 DEF Numbered
  <2>6. lastSeq' \in Nat /\ lastSeq' >= lastSeq
    BY <1>1, <2>1
  <2> QED BY <1>3, <2>1, <2>5, <2>3, <2>6
<1>6. ASSUME NEW m \in Messages, Store(m)
      PROVE  /\ lastSeq' \in Nat /\ lastSeq' >= lastSeq
             /\ sends' \in [Messages -> Send] /\ \A x \in Messages : Numbered(sends'[x])
  <2> DEFINE s == [sends[m] EXCEPT !.stage = "stored"]
  <2>1. lastSeq' = lastSeq /\ sends' = [sends EXCEPT ![m] = s] /\ sends[m].stage # "new"
    BY <1>6 DEF Store
  <2>2. /\ s \in Send /\ s.seq = sends[m].seq /\ s.sender = sends[m].sender
    BY <1>1 DEF Send
  <2> HIDE DEF s
  <2>3. Numbered(s)
    BY <1>1, <2>1, <2>2 DEF Numbered
  <2>4. lastSeq' \in Nat /\ lastSeq' >= lastSeq
    BY <1>1, <2>1
  <2> QED BY <1>3, <2>1, <2>2, <2>3, <2>4
<1>7. CASE SendNext
  BY <1>2, <1>4, <1>5, <1>6, <1>7 DEF SendNext, SendUserMessage, SendSystemEvent, SendAgain
<1>8. CASE OutboxNext /\ UNCHANGED <<groupVars, sendVars>>
  BY <1>2, <1>8
<1>9. CASE GroupNext
  BY <1>2, <1>9 DEF GroupNext, Dismiss, Join, Leave, Announce, outboxVars
<1>10. CASE (\E u \in Users : ReadConversation(u)) \/ UNCHANGED vars
  BY <1>2, <1>10 DEF ReadConversation, vars
<1> QED BY <1>7, <1>8, <1>9, <1>10 DEF Next

LEMMA BoundsStep ==
  ASSUME OutboxTypeOK, [Next]_vars
  PROVE  crashes' \in 0..MaxCrashes /\ errors' \in 0..MaxErrors /\ replays' \in 0..MaxReplays
<1> USE OutboxAssumption DEF OutboxTypeOK
<1>1. CASE OutboxNext
  <2>1. ASSUME NEW w \in Workers, ProcessOne(w)
        PROVE  UNCHANGED <<crashes, errors, replays>>
    BY <2>1 DEF ProcessOne, Claim, ApplyUserJoined, ApplyUserLeft, ApplyMessageToUser,
                ApplySenderRead, Complete, Retry
  <2> QED BY <1>1, <2>1 DEF OutboxNext, DatabaseError, Crash, TimePasses, Replay
<1>2. CASE GroupNext
  BY <1>2 DEF GroupNext, Dismiss, Join, Leave, Announce, outboxVars
<1>3. CASE SendNext
  BY <1>3 DEF SendNext, SendUserMessage, SendSystemEvent, Resolve, TakeSeq, Store,
              SendAgain, outboxVars
<1>4. CASE (\E u \in Users : ReadConversation(u)) \/ UNCHANGED vars
  BY <1>4 DEF ReadConversation, vars, outboxVars
<1> QED BY <1>1, <1>2, <1>3, <1>4 DEF Next

---------------------------------------------------------------------------
(* The invariant is inductive *)

LEMMA InitInvariant == Init => IInv
<1> SUFFICES ASSUME Init PROVE IInv
  OBVIOUS
<1>1. \A u \in Users : views[u] \in View /\ views[u].read = 0
  <2>1. NoView \in View
    BY DEF NoView, View
  <2>2. EnsureUser(NoView) \in View /\ EnsureUser(NoView).read = 0
    BY DEF NoView, View, EnsureUser
  <2> QED BY <2>1, <2>2 DEF Init, NoView
<1>2. views \in [Users -> View]
  BY <1>1 DEF Init
<1>3. outbox = << >> /\ outbox \in Seq(Event) /\ DOMAIN outbox = {}
  BY DEF Init, OutboxInit
<1>4. workers \in [Workers -> Worker] /\ \A w \in Workers : workers[w].pc = "idle"
  BY DEF Init, OutboxInit, Idle, Worker
<1>5. OutboxTypeOK
  BY <1>2, <1>3, <1>4, OutboxAssumption DEF OutboxTypeOK, Init, OutboxInit
<1>6. /\ sends \in [Messages -> Send] /\ lastSeq = 0
      /\ \A m \in Messages : sends[m].stage = "new" /\ sends[m].seq = 0
  BY DEF Init, Send
<1>7. active \in BOOLEAN /\ members \subseteq Users /\ notices \subseteq Users
  BY ProjectionAssumption DEF Init
<1>8. TypeOK
  BY <1>5, <1>6, <1>7 DEF TypeOK
<1> QED BY <1>1, <1>3, <1>4, <1>6, <1>8
        DEF IInv, EventsWellFormed, SendsWithinChat, ReadWithinChat, WorkersProgress,
            CompletedReflected

LEMMA NextInvariant == IInv /\ [Next]_vars => IInv'
<1> SUFFICES ASSUME IInv, [Next]_vars PROVE IInv'
  OBVIOUS
<1>1. /\ TypeOK /\ OutboxTypeOK /\ SendsWithinChat /\ EventsWellFormed
      /\ outbox \in Seq(Event) /\ lastSeq \in Nat
  BY DEF IInv, TypeOK, OutboxTypeOK
<1>2. /\ lastSeq' \in Nat /\ lastSeq' >= lastSeq
      /\ sends' \in [Messages -> Send] /\ \A m \in Messages : Numbered(sends'[m])
  BY <1>1, SendsStep
<1>3. outbox' \in Seq(Event)
  BY OutboxStep DEF OutboxShape, Rewritten, Published
<1>4. /\ workers' \in [Workers -> Worker]
      /\ \A w \in Workers : workers'[w].pc # "idle" =>
           /\ workers'[w].ev \in DOMAIN outbox'
           /\ Progress(workers'[w], outbox'[workers'[w].ev], views')
  BY WorkersStep DEF Sound
<1>5. TypeOK'
  <2>1. views' \in [Users -> View]
    BY ViewsAdvance
  <2>2. OutboxTypeOK'
    BY <1>1, <1>3, <1>4, <2>1, BoundsStep DEF OutboxTypeOK
  <2> QED BY <1>1, <1>2, <2>2, GroupStep DEF TypeOK, Numbered
<1>6. EventsWellFormed'
  <2> SUFFICES ASSUME NEW i \in DOMAIN outbox' PROVE WellFormed(outbox'[i], lastSeq')
    BY DEF EventsWellFormed
  <2>1. outbox'[i].seq \in Nat
    <3>1. outbox'[i] \in Event
      BY <1>3, ElementOfSeq
    <3> QED BY <3>1 DEF Event
  <2>2. WellFormed(outbox'[i], lastSeq)
    <3>1. CASE i \in DOMAIN outbox
      <4>1. WellFormed(outbox[i], lastSeq) /\ SamePayload(outbox[i], outbox'[i])
        BY <1>1, <3>1, Stable DEF EventsWellFormed
      <4> QED BY <4>1 DEF WellFormed, SamePayload
    <3>2. CASE i \notin DOMAIN outbox
      BY <3>2, OutboxStep DEF OutboxShape, Rewritten, Published
    <3> QED BY <3>1, <3>2
  <2> QED BY <1>1, <1>2, <2>1, <2>2 DEF WellFormed
<1>7. SendsWithinChat'
  BY <1>2 DEF SendsWithinChat, Numbered
<1>8. ReadWithinChat'
  <2> SUFFICES ASSUME NEW u \in Users PROVE views'[u].read <= lastSeq'
    BY DEF ReadWithinChat
  <2>1. views'[u].read <= lastSeq /\ views'[u].read \in Nat
    BY ViewsAdvance DEF View
  <2> QED BY <1>1, <1>2, <2>1
<1>9. WorkersProgress'
  BY <1>4 DEF WorkersProgress
<1>10. CompletedReflected'
  <2> SUFFICES ASSUME NEW i \in DOMAIN outbox', outbox'[i].status = "completed"
               PROVE  Shown(outbox'[i], views')
    BY DEF CompletedReflected, Reflected, Shown
  <2>1. i \in DOMAIN outbox
    BY OutboxStep DEF OutboxShape, Rewritten, Published
  <2>2. CASE outbox[i].status = "completed"
    <3>1. Shown(outbox[i], views)
      BY <2>1, <2>2 DEF IInv, CompletedReflected, Reflected, Shown
    <3> QED BY <2>1, <3>1, Stable
  <2>3. CASE outbox[i].status # "completed"
    <3>1. PICK w \in Workers : workers[w].pc = "applied" /\ i = workers[w].ev
      <4>1. i # 0
        BY <1>1, <2>1
      <4>2. Published(outbox') => outbox'[i] = outbox[i]
        BY <2>1 DEF Published
      <4> QED BY <2>1, <2>3, <4>1, <4>2, OutboxStep DEF OutboxShape, CompletesOnly
    <3>2. Shown(outbox[i], views)
      BY <3>1 DEF IInv, WorkersProgress, Progress
    <3> QED BY <2>1, <3>2, Stable
  <2> QED BY <2>2, <2>3
<1> QED BY <1>5, <1>6, <1>7, <1>8, <1>9, <1>10 DEF IInv

\* The strengthened invariant holds in every reachable state.
THEOREM Invariant == Spec => []IInv
BY InitInvariant, NextInvariant, PTL DEF Spec

\* Every reachable state is of the declared types, for any users, messages,
\* workers and bounds.
THEOREM TypeCorrect == Spec => []TypeOK
<1>1. IInv => TypeOK
  BY DEF IInv
<1> QED BY <1>1, Invariant, PTL

\* No read position is ahead of the chat (MarkRead and Upsert of the conversation
\* repository, the clamp of ReadConversation, Send, JoinGroup).
THEOREM ReadStaysWithinChat == Spec => []ReadWithinChat
<1>1. IInv => ReadWithinChat
  BY DEF IInv
<1> QED BY <1>1, Invariant, PTL

\* Whatever expires, crashes, fails or is replayed, an event that the outbox
\* calls completed has had its effect on every view (outbox.go Complete).
THEOREM CompletedIsReflected == Spec => []CompletedReflected
<1>1. IInv => CompletedReflected
  BY DEF IInv
<1> QED BY <1>1, Invariant, PTL

\* In every behaviour the summaries and read positions of all users only move
\* forward (the filters and $max of the conversation repository).
THEOREM ViewsOnlyAdvance == Spec => ViewsNeverRegress
<1>1. IInv /\ [Next]_vars => [\A u \in Users : Advances(views[u], views'[u])]_views
  BY ViewsAdvance
<1> QED BY <1>1, Invariant, PTL DEF Spec, ViewsNeverRegress

---------------------------------------------------------------------------
(* The outbox implements EventDelivery *)

\* Neither of two versions of an event is settled otherwise than the other.
SameResult(e, f) ==
  \A st \in Settled : f.status = st <=> e.status = st

\* A worker ends the claim of event n, which is not settled: it completes the
\* event when it has applied it, or gives it up.  The other events stay.
EndsClaim(n) ==
  /\ n \in DOMAIN outbox /\ outbox[n].status \notin Settled
  /\ \/ outbox'[n].status = "completed" /\ Reflected(outbox[n])
     \/ outbox'[n].status = "failed"
  /\ \A i \in DOMAIN outbox : i # n => outbox'[i] = outbox[i]

\* A step publishes events or writes views, or else it marks events: all stay
\* as settled as they are, one is settled, or none stays settled.
ResultShape ==
  \/ Published(outbox')
  \/ /\ Rewritten(outbox, outbox') /\ UNCHANGED views
     /\ \/ \A i \in DOMAIN outbox : SameResult(outbox[i], outbox'[i])
        \/ \E n \in DOMAIN outbox : EndsClaim(n)
        \/ \A i \in DOMAIN outbox : outbox'[i].status \notin Settled

LEMMA ClaimResult ==
  ASSUME OutboxTypeOK, NEW w \in Workers, Claim(w)
  PROVE  ResultShape
<1>1. PICK i \in Claimable :
        outbox' = Rewrite(outbox, i, "processing", "running", outbox[i].attempts + 1)
  BY DEF Claim, Rewrite
<1>2. i \in DOMAIN outbox /\ outbox \in Seq(Event) /\ outbox[i].status \in Unsettled
  BY DEF Claimable, OutboxTypeOK
<1>3. outbox[i].attempts + 1 \in Nat
  BY <1>2, EventAt
<1>4. "processing" \in Unsettled \union Settled
  BY DEF Unsettled
<1>5. /\ Rewritten(outbox, outbox') /\ outbox'[i].status = "processing"
      /\ \A j \in DOMAIN outbox : j # i => outbox'[j] = outbox[j]
  BY <1>1, <1>2, <1>3, <1>4, RewriteOne
<1>6. \A j \in DOMAIN outbox : SameResult(outbox[j], outbox'[j])
  BY <1>2, <1>5 DEF SameResult, Unsettled, Settled
<1> QED BY <1>5, <1>6 DEF ResultShape, Claim

LEMMA TimePassesResult ==
  ASSUME OutboxTypeOK, NEW i \in DOMAIN outbox, TimePasses(i)
  PROVE  ResultShape
<1>1. /\ outbox \in Seq(Event) /\ outbox[i].attempts \in Nat
      /\ outbox[i].status \in Unsettled \union Settled
  BY EventAt
<1>2. outbox' = Rewrite(outbox, i, outbox[i].status, "off", outbox[i].attempts)
  BY DEF TimePasses, Rewrite
<1>3. /\ Rewritten(outbox, outbox') /\ outbox'[i].status = outbox[i].status
      /\ \A j \in DOMAIN outbox : j # i => outbox'[j] = outbox[j]
  BY <1>1, <1>2, RewriteOne
<1>4. \A j \in DOMAIN outbox : SameResult(outbox[j], outbox'[j])
  BY <1>3 DEF SameResult
<1> QED BY <1>3, <1>4 DEF ResultShape, TimePasses

LEMMA ReplayResult ==
  ASSUME OutboxTypeOK, Replay
  PROVE  ResultShape
<1>1. Rewritten(outbox, outbox')
  BY ReplayRewrites
<1>2. ASSUME NEW i \in DOMAIN outbox PROVE outbox'[i].status \notin Settled
  <2>1. outbox'[i] = IF outbox[i].status \in Settled
                     THEN Marked(outbox[i], "pending", "off", outbox[i].attempts)
                     ELSE outbox[i]
    BY DEF Replay
  <2>2. outbox[i] \in Event /\ outbox[i].attempts \in Nat
    BY EventAt
  <2>3. Marked(outbox[i], "pending", "off", outbox[i].attempts).status = "pending"
    BY <2>2, MarkedEvent DEF Unsettled
  <2> QED BY <2>1, <2>3 DEF Settled
<1> QED BY <1>1, <1>2 DEF ResultShape, Replay

\* Complete and Retry mark the event of the worker's claim if nobody has
\* settled it, and nothing otherwise.
LEMMA EndResult ==
  ASSUME IInv, NEW w \in Workers, Complete(w) \/ Retry(w)
  PROVE  ResultShape
<1> DEFINE n == workers[w].ev
<1>1. /\ n \in DOMAIN outbox /\ OutboxTypeOK /\ outbox \in Seq(Event)
      /\ outbox[n].attempts \in Nat /\ UNCHANGED views
      /\ workers[w].pc = "applied" => Reflected(outbox[n])
  <2>1. n \in DOMAIN outbox /\ OutboxTypeOK /\ workers[w].pc # "idle" /\ UNCHANGED views
    BY DEF IInv, TypeOK, OutboxTypeOK, Complete, Retry
  <2>2. workers[w].pc = "applied" => Shown(outbox[n], views)
    BY DEF IInv, WorkersProgress, Progress
  <2> QED BY <2>1, <2>2, EventAt DEF Shown, Reflected
<1>2. \/ workers[w].pc = "applied" /\ outbox' = UpdateProcessing(n, "completed", "off")
      \/ outbox' = UpdateProcessing(n, "failed", "off")
      \/ outbox' = UpdateProcessing(n, "pending", "running")
  BY DEF Complete, Retry
<1> HIDE DEF n
<1>3. CASE outbox[n].status # "processing"
  <2>1. outbox' = outbox
    BY <1>2, <1>3 DEF UpdateProcessing
  <2> QED BY <1>1, <2>1 DEF ResultShape, Published
<1>4. CASE outbox[n].status = "processing"
  <2>1. PICK st \in {"completed", "failed", "pending"}, t \in {"off", "running"} :
          /\ outbox' = Rewrite(outbox, n, st, t, outbox[n].attempts)
          /\ st = "completed" => Reflected(outbox[n])
    <3>1. ASSUME NEW st \in {"completed", "failed", "pending"}, NEW t \in {"off", "running"}
          PROVE  UpdateProcessing(n, st, t) = Rewrite(outbox, n, st, t, outbox[n].attempts)
      BY <1>4 DEF UpdateProcessing, Rewrite
    <3> QED BY <1>1, <1>2, <3>1
  <2>2. st \in Unsettled \union Settled
    BY DEF Unsettled, Settled
  <2>3. /\ Rewritten(outbox, outbox') /\ outbox'[n].status = st
        /\ \A j \in DOMAIN outbox : j # n => outbox'[j] = outbox[j]
    BY <1>1, <2>1, <2>2, RewriteOne
  <2>4. CASE st = "pending"
    <3>1. \A j \in DOMAIN outbox : SameResult(outbox[j], outbox'[j])
      BY <1>4, <2>3, <2>4 DEF SameResult, Settled
    <3> QED BY <1>1, <2>3, <3>1 DEF ResultShape
  <2>5. CASE st # "pending"
    <3>1. EndsClaim(n)
      BY <1>1, <1>4, <2>1, <2>3, <2>5 DEF EndsClaim, Settled
    <3> QED BY <1>1, <2>3, <3>1 DEF ResultShape
  <2> QED BY <2>4, <2>5
<1> QED BY <1>3, <1>4

LEMMA ResultStep ==
  ASSUME IInv, [Next]_vars
  PROVE  ResultShape
<1>1. TypeOK /\ OutboxTypeOK /\ outbox \in Seq(Event)
  BY DEF IInv, TypeOK, OutboxTypeOK
<1>2. ASSUME UNCHANGED outbox PROVE ResultShape
  BY <1>1, <1>2 DEF ResultShape, Published
<1>3. CASE OutboxNext
  <2>1. ASSUME NEW w \in Workers,
               \/ ApplyUserJoined(w) \/ ApplyUserLeft(w) \/ ApplyMessageToUser(w)
               \/ ApplySenderRead(w) \/ DatabaseError(w) \/ Crash(w)
        PROVE  ResultShape
    BY <1>2, <2>1 DEF ApplyUserJoined, ApplyUserLeft, ApplyMessageToUser,
                      ApplySenderRead, DatabaseError, Crash
  <2> QED BY <1>1, <1>3, <2>1, ClaimResult, EndResult, TimePassesResult, ReplayResult
          DEF OutboxNext, ProcessOne
<1>4. CASE GroupNext \/ SendNext
  BY <1>4, RequestPublishes DEF ResultShape
<1>5. CASE (\E u \in Users : ReadConversation(u)) \/ UNCHANGED vars
  BY <1>2, <1>5 DEF ReadConversation, vars, outboxVars
<1> QED BY <1>3, <1>4, <1>5 DEF Next

\* Marking an event leaves its effect as it is.
LEMMA MarkingKeepsEffects ==
  ASSUME Rewritten(outbox, outbox'), UNCHANGED views, outbox \in Seq(Event)
  PROVE  /\ Len(outbox') = Len(outbox)
         /\ \A i \in DOMAIN outbox : Reflected(outbox[i])' <=> Reflected(outbox[i])
<1>1. DOMAIN outbox' = DOMAIN outbox /\ outbox' \in Seq(Event)
  BY DEF Rewritten
<1>2. Len(outbox') = Len(outbox)
  BY <1>1
<1>3. ASSUME NEW i \in DOMAIN outbox
      PROVE  Reflected(outbox[i])' <=> Reflected(outbox[i])
  <2>1. SamePayload(outbox[i], outbox'[i])
    BY DEF Rewritten
  <2> QED BY <2>1 DEF SamePayload, Reflected
<1> QED BY <1>2, <1>3

\* Steps that publish events or write views, and take no effect away.
LEMMA GrowthDelivers ==
  ASSUME outbox \in Seq(Event), Published(outbox'),
         \A i \in DOMAIN outbox : Reflected(outbox[i]) => Reflected(outbox[i])'
  PROVE  Delivery!Next
<1> DEFINE Shows == {i \in DOMAIN outbox : Reflected(outbox[i])}
<1>0. DOMAIN outbox = 1..Len(outbox) /\ Len(outbox) \in Nat
  OBVIOUS
<1>1. /\ outbox' \in Seq(Event) /\ DOMAIN outbox' = 1..Len(outbox')
      /\ Len(outbox') \in Nat /\ DOMAIN outbox \subseteq DOMAIN outbox'
  BY DEF Published
<1>2. Len(outbox') > Len(outbox) \/ Len(outbox') = Len(outbox)
  <2>1. ASSUME NEW k \in Nat, NEW n \in Nat, 1..k \subseteq 1..n
        PROVE  n > k \/ n = k
    <3>1. k = 0 \/ k \in 1..n
      BY <2>1
    <3> QED BY <3>1
  <2>2. 1..Len(outbox) \subseteq 1..Len(outbox')
    BY <1>0, <1>1, Zenon
  <2> QED BY <1>0, <1>1, <2>1, <2>2, Zenon
<1>3. Shows \subseteq Shows' /\ Shows' \subseteq 1..Len(outbox')
  BY <1>1
<1>4. ASSUME NEW st \in Settled
      PROVE  PositionsWith(st)' = PositionsWith(st)
  BY <1>1 DEF PositionsWith, Published, Settled
<1>5. PositionsWith("completed")' = PositionsWith("completed")
  BY <1>4 DEF Settled
<1>6. PositionsWith("failed")' = PositionsWith("failed")
  BY <1>4 DEF Settled
<1> HIDE DEF Shows
<1>7. CASE Len(outbox') > Len(outbox)
  <2>1. Delivery!PublishEvents
    BY <1>1, <1>3, <1>5, <1>6, <1>7 DEF Delivery!PublishEvents, Shows
  <2> QED BY <2>1 DEF Delivery!Next
<1>8. CASE Len(outbox') = Len(outbox)
  <2>1. Delivery!Project
    BY <1>3, <1>5, <1>6, <1>8 DEF Delivery!Project, Shows
  <2> QED BY <2>1 DEF Delivery!Next
<1> QED BY <1>2, <1>7, <1>8

\* Steps that mark events.
LEMMA MarkingDelivers ==
  ASSUME outbox \in Seq(Event), Rewritten(outbox, outbox'), UNCHANGED views,
         \/ \A i \in DOMAIN outbox : SameResult(outbox[i], outbox'[i])
         \/ \E n \in DOMAIN outbox : EndsClaim(n)
         \/ \A i \in DOMAIN outbox : outbox'[i].status \notin Settled
  PROVE  [Delivery!Next]_(Delivery!vars)
<1> DEFINE Shows == {i \in DOMAIN outbox : Reflected(outbox[i])}
<1>0. DOMAIN outbox = 1..Len(outbox) /\ Len(outbox) \in Nat
  OBVIOUS
<1>1. /\ Len(outbox') = Len(outbox) /\ DOMAIN outbox' = DOMAIN outbox
      /\ \A i \in DOMAIN outbox : Reflected(outbox[i])' <=> Reflected(outbox[i])
  BY MarkingKeepsEffects DEF Rewritten
<1>2. Shows' = Shows
  BY <1>1
<1>3. ASSUME \A i \in DOMAIN outbox : SameResult(outbox[i], outbox'[i])
      PROVE  UNCHANGED Delivery!vars
  <2>1. ASSUME NEW st \in Settled
        PROVE  PositionsWith(st)' = PositionsWith(st)
    BY <1>1, <1>3 DEF PositionsWith, SameResult
  <2>2. PositionsWith("completed")' = PositionsWith("completed")
    BY <2>1 DEF Settled
  <2>3. PositionsWith("failed")' = PositionsWith("failed")
    BY <2>1 DEF Settled
  <2> QED BY <1>1, <1>2, <2>2, <2>3 DEF Delivery!vars
<1>4. ASSUME NEW n \in DOMAIN outbox, EndsClaim(n)
      PROVE  Delivery!Next
  <2>1. n \in Delivery!Open
    BY <1>0, <1>4 DEF EndsClaim, Delivery!Open, PositionsWith, Settled
  <2>2. CASE outbox'[n].status = "completed" /\ Reflected(outbox[n])
    <3>1. PositionsWith("completed")' = PositionsWith("completed") \union {n}
      BY <1>1, <1>4, <2>2 DEF EndsClaim, PositionsWith
    <3>2. PositionsWith("failed")' = PositionsWith("failed")
      BY <1>1, <1>4, <2>2 DEF EndsClaim, PositionsWith, Settled
    <3>3. n \in Shows
      BY <2>2
    <3>4. Delivery!Finish(n)
      BY <1>1, <1>2, <2>1, <3>1, <3>2, <3>3 DEF Delivery!Finish
    <3> QED BY <1>0, <3>4 DEF Delivery!Next
  <2>3. CASE outbox'[n].status = "failed"
    <3>1. PositionsWith("failed")' = PositionsWith("failed") \union {n}
      BY <1>1, <1>4, <2>3 DEF EndsClaim, PositionsWith
    <3>2. PositionsWith("completed")' = PositionsWith("completed")
      BY <1>1, <1>4, <2>3 DEF EndsClaim, PositionsWith, Settled
    <3>3. Delivery!GiveUp(n)
      BY <1>1, <1>2, <2>1, <3>1, <3>2 DEF Delivery!GiveUp
    <3> QED BY <1>0, <3>3 DEF Delivery!Next
  <2> QED BY <1>4, <2>2, <2>3 DEF EndsClaim
<1>5. ASSUME \A i \in DOMAIN outbox : outbox'[i].status \notin Settled
      PROVE  Delivery!Next
  <2>1. PositionsWith("completed")' = {} /\ PositionsWith("failed")' = {}
    BY <1>1, <1>5 DEF PositionsWith, Settled
  <2>2. Delivery!Reopen
    BY <1>1, <1>2, <2>1 DEF Delivery!Reopen
  <2> QED BY <2>2 DEF Delivery!Next
<1> QED BY <1>3, <1>4, <1>5

LEMMA DeliveryStart == Init => Delivery!Init
<1> SUFFICES ASSUME Init PROVE Delivery!Init
  OBVIOUS
<1>1. outbox = << >>
  BY DEF Init, OutboxInit
<1> QED BY <1>1 DEF Delivery!Init, PositionsWith

LEMMA DeliveryStep ==
  ASSUME IInv, [Next]_vars
  PROVE  [Delivery!Next]_(Delivery!vars)
<1>1. outbox \in Seq(Event)
  BY DEF IInv, TypeOK, OutboxTypeOK
<1>2. ASSUME NEW i \in DOMAIN outbox, Reflected(outbox[i])
      PROVE  Reflected(outbox[i])'
  BY <1>2, Stable DEF Shown, Reflected
<1> QED BY <1>1, <1>2, ResultStep, GrowthDelivers, MarkingDelivers DEF ResultShape

\* In every behaviour of the workers, with claims that expire, crashes, errors
\* and replays, no event is lost, none is completed before its effect is in the
\* views and no effect goes away: the outbox implements EventDelivery, apart
\* from its liveness (outbox.go, worker.go).
THEOREM OutboxDelivers == Spec => Delivery!SafeSpec
BY DeliveryStart, DeliveryStep, Invariant, PTL DEF Spec, Delivery!SafeSpec
===========================================================================
