------------------------- MODULE MessageDelivery -------------------------
(***************************************************************************)
(* One chat's messages, from the request of a client to the mailboxes and  *)
(* the push events.  SendMessage only publishes the request on core NATS:  *)
(* every gateway that is up receives it in the queue of its subscription   *)
(* and calls MessageService.Send, one request at a time.  ForwardMessage   *)
(* calls Send in the goroutine of its HTTP request.  A gateway may stop    *)
(* between any two steps, and its queue goes with it.  Ninety days after a *)
(* message was sent the database removes it.                               *)
(***************************************************************************)
EXTENDS Naturals, Sequences, FiniteSets

CONSTANTS Users,
          Gateways,
          Requests,    \* the requests clients and the group service make
          NoClient,    \* the client_message_id that is left out
          MaxSends,    \* bound: sends, forwards, dismissals and changes of
                       \* muted_members
          MaxFaults    \* bound: gateways that stop, database errors, lost
                       \* publications, messages that expire, departures

VARIABLES members,     \* the group's members
          muted,       \* members the group's settings forbid to send
          active,      \* whether the group has not been dismissed
          up,          \* the gateways that run
          inbox,       \* the queue of each gateway's subscription
          jobs,        \* the progress of each Send
          lastSeq,     \* chats.last_seq
          messages,    \* the collection messages
          mailbox,     \* the collection user_mailbox, as pairs of user and number
          pushed,      \* what was published on im.push.message.<uid>
          expired,     \* the messages the database has removed, for the properties
          accepted,    \* the requests answered with "accepted"
          lost,        \* those of them that no gateway has received
          broken,      \* numbers whose distribution was interrupted
          spent        \* how much of each bound is used

vars == <<members, muted, active, up, inbox, jobs, lastSeq, messages, mailbox,
          pushed, expired, accepted, lost, broken, spent>>
group == <<members, muted, active>>
collections == <<lastSeq, messages, mailbox, pushed, expired>>
answered == <<accepted, lost>>

\* parseContent of the gateway's handler
HandlerTypes == {"text", "system_event", "image", "video", "voice", "card",
                 "link", "template", "file", "location"}

\* ParseContent of the message service, on what the handler has published
ServiceTypes == {"text", "system_event", "image", "video", "voice", "card",
                 "link", "template", "file", "location"}

\* NormalizeMessageContent: the types a stored content is read back with
StoredTypes == {"text", "system_event", "image", "video", "voice", "card",
                "link", "template", "file", "location"}

\* A content is known by its type and by whether it has the fields and keeps
\* the limits that the Validate method of its type asks for.
Content == [type : HandlerTypes, valid : BOOLEAN]

\* Each gateway runs the callback of its subscription and one forward.
Procs == Gateways \X {"callback", "forward"}
Host(p) == p[1]

Idle == [pc |-> "idle"]

Clients == {r.client : r \in Requests} \union {NoClient}

Request == [sender : Users, client : Clients, content : Content]

ASSUME DeliveryAssumption == Requests \subseteq Request

Message == [seq : Nat \ {0}, sender : Users, client : Clients, content : Content,
            participants : SUBSET Users, state : {"sent", "recalled"}]

Init ==
  /\ members = Users /\ muted = {} /\ active = TRUE
  /\ up = Gateways
  /\ inbox = [g \in Gateways |-> <<>>]
  /\ jobs = [p \in Procs |-> Idle]
  /\ lastSeq = 0
  /\ messages = {} /\ mailbox = {} /\ pushed = {} /\ expired = {}
  /\ accepted = {} /\ lost = {} /\ broken = {}
  /\ spent = [sends |-> 0, faults |-> 0]

Spend(what, max) == spent[what] < max /\ spent' = [spent EXCEPT ![what] = @ + 1]

---------------------------------------------------------------------------
\* Mutant: the gateways share a queue group, so one of them gets the request.
EnqueueOne(r, at) ==
  IF at = {} THEN UNCHANGED inbox ELSE \E g \in at : inbox' = [inbox EXCEPT ![g] = Append(@, r)]

\* conn.Subscribe("im.message.send"), without a queue group
Enqueue(r, at) ==
  inbox' = [g \in Gateways |-> IF g \in at THEN Append(inbox[g], r) ELSE inbox[g]]

\* A publication on core NATS reaches each subscriber at most once, and
\* whoever publishes is not told of one that was lost.
ReachesAll(at) == at = up /\ spent' = [spent EXCEPT !.sends = @ + 1]
ReachesSome(at) ==
  /\ at # up /\ spent.faults < MaxFaults
  /\ spent' = [sends |-> spent.sends + 1, faults |-> spent.faults + 1]

\* The POST of a client, again if it has had no answer: the handler parses
\* the content but validates nothing else, and refuses system events.
SendMessage(r, at) ==
  /\ up # {} /\ spent.sends < MaxSends
  /\ r.content.type \in HandlerTypes \ {"system_event"}
  /\ ReachesAll(at) \/ ReachesSome(at)
  /\ Enqueue(r, at)
  /\ accepted' = accepted \union {r}
  /\ lost' = IF at # {} THEN lost \ {r} ELSE lost \union ({r} \ accepted)
  /\ UNCHANGED <<group, up, jobs, collections, broken>>

\* publishMessageSend of the group service: no client_message_id
PublishSystemEvent(r, at) ==
  /\ up # {} /\ spent.sends < MaxSends
  /\ r.content.type = "system_event" /\ r.client = NoClient
  /\ ReachesAll(at) \/ ReachesSome(at)
  /\ Enqueue(r, at)
  /\ UNCHANGED <<group, up, jobs, collections, answered, broken>>

\* A member leaves or is kicked (see GroupMembership).
Leave(u) ==
  /\ active /\ u \in members /\ members # {u}
  /\ Spend("faults", MaxFaults)
  /\ members' = members \ {u}
  /\ UNCHANGED <<muted, active, up, inbox, jobs, collections, answered, broken>>

\* DismissGroup, by a member who is the owner, keeps the members' rows, and
\* is announced once it has committed.
Dismiss(r, at) ==
  /\ active /\ up # {} /\ spent.sends < MaxSends
  /\ r.content.type = "system_event" /\ r.client = NoClient /\ r.sender \in members
  /\ ReachesAll(at) \/ ReachesSome(at)
  /\ active' = FALSE
  /\ Enqueue(r, at)
  /\ UNCHANGED <<members, muted, up, jobs, collections, answered, broken>>

\* UpdateSettings: a user is added to settings.muted_members, or taken out.
Mute(u) ==
  /\ active
  /\ Spend("sends", MaxSends)
  /\ muted' = IF u \in muted THEN muted \ {u} ELSE muted \union {u}
  /\ UNCHANGED <<members, active, up, inbox, jobs, collections, answered, broken>>

---------------------------------------------------------------------------
\* FindByClientMsgID finds what the unique index holds.
Existing(r) ==
  {m \in messages : r.client # NoClient /\ m.client = r.client /\ m.sender = r.sender}

Advance(p, job) == jobs' = [jobs EXCEPT ![p] = job]

\* The first part of Send: parse, validate, look for the client_message_id.
\* An earlier message is answered with as it is (existingSendResponse).
Begin(p, r) ==
  Advance(p, IF /\ r.content.type \in ServiceTypes
                /\ r.content.valid
                /\ Existing(r) = {}
             THEN [pc |-> "resolve", req |-> r]
             ELSE Idle)

\* The subscription's callback takes the next request.
Receive(g) ==
  /\ g \in up /\ inbox[g] # <<>>
  /\ jobs[<<g, "callback">>] = Idle
  /\ Begin(<<g, "callback">>, Head(inbox[g]))
  /\ inbox' = [inbox EXCEPT ![g] = Tail(@)]
  /\ UNCHANGED <<group, up, collections, answered, broken, spent>>

\* Forward reads the source, refuses a recalled one and sends its content as
\* a message of the forwarder, without client_message_id.
Forward(g, u, m) ==
  /\ g \in up /\ jobs[<<g, "forward">>] = Idle
  /\ m \in messages /\ m.state # "recalled"
  /\ m.content.type \in StoredTypes
  /\ Spend("sends", MaxSends)
  /\ Begin(<<g, "forward">>, [sender |-> u, client |-> NoClient, content |-> m.content])
  /\ UNCHANGED <<group, up, inbox, collections, answered, broken>>

\* checkSendPermission and resolveRecipients: a user's message needs a
\* member as its sender, and one who is not muted; a system event does not.
\* Both need the group to be active still, as the members are asked for.
Resolve(p) ==
  LET r == jobs[p].req IN
  /\ jobs[p].pc = "resolve"
  /\ Advance(p, IF /\ active
                   /\ r.content.type = "system_event" \/ r.sender \in members \ muted
                THEN [pc |-> "number", req |-> r, to |-> members \ {r.sender}]
                ELSE Idle)
  /\ UNCHANGED <<group, up, inbox, collections, answered, broken, spent>>

\* Mutant: the number is the one after the chat's, which is left as it is.
NumberGap(p) ==
  /\ jobs[p].pc = "number"
  /\ Advance(p, [pc |-> "store", req |-> jobs[p].req, to |-> jobs[p].to, seq |-> lastSeq + 1])
  /\ UNCHANGED <<group, up, inbox, collections, answered, broken, spent>>

\* Mutant: the messages that are stored are counted.
NumberCounted(p) ==
  /\ jobs[p].pc = "number"
  /\ lastSeq' = Cardinality(messages) + 1
  /\ Advance(p, [pc |-> "store", req |-> jobs[p].req, to |-> jobs[p].to, seq |-> lastSeq'])
  /\ UNCHANGED <<group, up, inbox, messages, mailbox, pushed, expired, answered, broken, spent>>

\* NextMessageSeq
Number(p) ==
  /\ jobs[p].pc = "number"
  /\ lastSeq' = lastSeq + 1
  /\ Advance(p, [pc |-> "store", req |-> jobs[p].req, to |-> jobs[p].to, seq |-> lastSeq + 1])
  /\ UNCHANGED <<group, up, inbox, messages, mailbox, pushed, expired, answered, broken, spent>>

Participants(job) == {job.req.sender} \union job.to

NewMessage(job) ==
  [seq |-> job.seq, sender |-> job.req.sender, client |-> job.req.client,
   content |-> job.req.content, participants |-> Participants(job), state |-> "sent"]

\* Mutant: what is there under the same client_message_id is replaced.
StoreReplacing(p) ==
  /\ jobs[p].pc = "store"
  /\ messages' = (messages \ Existing(jobs[p].req)) \union {NewMessage(jobs[p])}
  /\ Advance(p, [jobs[p] EXCEPT !.pc = "distribute"])
  /\ UNCHANGED <<group, up, inbox, lastSeq, mailbox, pushed, expired, answered, broken, spent>>

\* Mutant: there is no unique index on the client_message_id.
StoreUnindexed(p) ==
  /\ jobs[p].pc = "store"
  /\ messages' = messages \union {NewMessage(jobs[p])}
  /\ Advance(p, [jobs[p] EXCEPT !.pc = "distribute"])
  /\ UNCHANGED <<group, up, inbox, lastSeq, mailbox, pushed, expired, answered, broken, spent>>

\* The transaction of Send: the message and the event that names its
\* participants.  A duplicate of the client_message_id ends the Send with
\* the earlier message.
Store(p) ==
  /\ jobs[p].pc = "store"
  /\ IF Existing(jobs[p].req) = {}
     THEN /\ messages' = messages \union {NewMessage(jobs[p])}
          /\ Advance(p, [jobs[p] EXCEPT !.pc = "distribute"])
     ELSE Advance(p, Idle) /\ UNCHANGED messages
  /\ UNCHANGED <<group, up, inbox, lastSeq, mailbox, pushed, expired, answered, broken, spent>>

\* Mutant: the recipients are the members as they are by now.
DistributeToMembers(p) ==
  /\ jobs[p].pc = "distribute"
  /\ mailbox' = mailbox \union (({jobs[p].req.sender} \union members) \X {jobs[p].seq})
  /\ Advance(p, [pc |-> "push", req |-> jobs[p].req, seq |-> jobs[p].seq,
                 to |-> {jobs[p].req.sender} \union members])
  /\ UNCHANGED <<group, up, inbox, lastSeq, messages, pushed, expired, answered, broken, spent>>

\* distributeToMailbox
Distribute(p) ==
  /\ jobs[p].pc = "distribute"
  /\ mailbox' = mailbox \union (Participants(jobs[p]) \X {jobs[p].seq})
  /\ Advance(p, [pc |-> "push", req |-> jobs[p].req, seq |-> jobs[p].seq,
                 to |-> Participants(jobs[p])])
  /\ UNCHANGED <<group, up, inbox, lastSeq, messages, pushed, expired, answered, broken, spent>>

\* publishPushEvent: one publication for each user, and one that fails is
\* only logged.
Push(p) ==
  /\ jobs[p].pc = "push"
  /\ \/ pushed' = pushed \union (jobs[p].to \X {jobs[p].seq}) /\ UNCHANGED spent
     \/ /\ Spend("faults", MaxFaults)
        /\ \E u \in jobs[p].to : pushed' = pushed \union ((jobs[p].to \ {u}) \X {jobs[p].seq})
  /\ Advance(p, Idle)
  /\ UNCHANGED <<group, up, inbox, lastSeq, messages, mailbox, expired, answered, broken>>

---------------------------------------------------------------------------
\* Mutant: an error of the mailbox collection is logged and Send goes on.
DatabaseErrorIgnored(p) ==
  /\ jobs[p].pc \in {"resolve", "number", "store", "distribute"}
  /\ Spend("faults", MaxFaults)
  /\ IF jobs[p].pc = "distribute"
     THEN /\ broken' = broken \union {jobs[p].seq}
          /\ Advance(p, [pc |-> "push", req |-> jobs[p].req, seq |-> jobs[p].seq,
                         to |-> Participants(jobs[p])])
     ELSE Advance(p, Idle) /\ UNCHANGED broken
  /\ UNCHANGED <<group, up, inbox, collections, answered>>

\* A read or a write of Send fails and Send returns its error; InsertMany may
\* have inserted some of the mailbox rows.
DatabaseError(p) ==
  /\ jobs[p].pc \in {"resolve", "number", "store", "distribute"}
  /\ Spend("faults", MaxFaults)
  /\ IF jobs[p].pc = "distribute"
     THEN /\ \E some \in SUBSET Participants(jobs[p]) :
               mailbox' = mailbox \union (some \X {jobs[p].seq})
          /\ broken' = broken \union {jobs[p].seq}
     ELSE UNCHANGED <<mailbox, broken>>
  /\ Advance(p, Idle)
  /\ UNCHANGED <<group, up, inbox, lastSeq, messages, pushed, expired, answered>>

\* A gateway stops: its queue and whatever it was sending are gone.
Crash(g) ==
  /\ g \in up
  /\ Spend("faults", MaxFaults)
  /\ up' = up \ {g}
  /\ inbox' = [inbox EXCEPT ![g] = <<>>]
  /\ jobs' = [p \in Procs |-> IF Host(p) = g THEN Idle ELSE jobs[p]]
  /\ broken' = broken \union
       {jobs[p].seq : p \in {q \in Procs : Host(q) = g /\ jobs[q].pc = "distribute"}}
  /\ UNCHANGED <<group, collections, answered>>

Restart(g) ==
  /\ g \notin up
  /\ up' = up \union {g}
  /\ UNCHANGED <<group, inbox, jobs, collections, answered, broken, spent>>

\* Recall, by the sender; again it changes nothing.  Nothing tells the
\* others, and a push under way still carries the message as sent.
Recall(m, u) ==
  /\ m.sender = u /\ m.state = "sent"
  /\ messages' = (messages \ {m}) \union {[m EXCEPT !.state = "recalled"]}
  /\ UNCHANGED <<group, up, inbox, jobs, lastSeq, mailbox, pushed, expired, answered, broken, spent>>

\* The index on created_at removes a message ninety days after it was sent,
\* which is longer than its Send takes.  Its mailbox rows stay.
Expire(m) ==
  /\ \A p \in Procs : jobs[p].pc \in {"distribute", "push"} => jobs[p].seq # m.seq
  /\ Spend("faults", MaxFaults)
  /\ messages' = messages \ {m}
  /\ expired' = expired \union {m}
  /\ UNCHANGED <<group, up, inbox, jobs, lastSeq, mailbox, pushed, answered, broken>>

Step(p) ==
  \/ Resolve(p) \/ Number(p) \/ Store(p) \/ Distribute(p) \/ Push(p)

Next ==
  \/ \E r \in Requests, at \in SUBSET up :
       SendMessage(r, at) \/ PublishSystemEvent(r, at) \/ Dismiss(r, at)
  \/ \E u \in Users : Leave(u) \/ Mute(u)
  \/ \E g \in Gateways : Receive(g) \/ Crash(g) \/ Restart(g)
  \/ \E g \in Gateways, u \in Users, m \in messages : Forward(g, u, m)
  \/ \E p \in Procs : Step(p) \/ DatabaseError(p)
  \/ \E m \in messages, u \in Users : Recall(m, u)
  \/ \E m \in messages : Expire(m)

\* A gateway that stays up keeps serving its subscription; nothing makes
\* clients send, members leave or a gateway stop or come back.
Fairness ==
  /\ \A g \in Gateways : WF_vars(Receive(g))
  /\ \A p \in Procs : WF_vars(Step(p))

Spec == Init /\ [][Next]_vars /\ Fairness

---------------------------------------------------------------------------
Job ==
  {Idle}
    \union [pc : {"resolve"}, req : Request]
    \union [pc : {"number"}, req : Request, to : SUBSET Users]
    \union [pc : {"store", "distribute", "push"}, req : Request,
            to : SUBSET Users, seq : 1..lastSeq]

\* What was stored, whether it has expired since or not.
EverStored == messages \union expired

\* The collections and the progress of every Send have the shape the program
\* gives them, and no number is used that NextMessageSeq has not handed out.
TypeOK ==
  /\ members \subseteq Users /\ muted \subseteq Users /\ active \in BOOLEAN
  /\ up \subseteq Gateways
  /\ inbox \in [Gateways -> Seq(Requests)]
  /\ lastSeq \in Nat
  /\ DOMAIN jobs = Procs /\ \A p \in Procs : jobs[p] \in Job
  /\ \A m \in EverStored : m \in Message /\ m.seq \in 1..lastSeq
  /\ mailbox \subseteq Users \X (1..lastSeq) /\ pushed \subseteq Users \X (1..lastSeq)
  /\ accepted \subseteq Requests /\ lost \subseteq accepted /\ broken \subseteq 1..lastSeq

\* However often a client repeats a request, and however many gateways serve
\* it at once, its client_message_id names one message (FindByClientMsgID and
\* the unique index behind it).
StoredOnce ==
  \A m, n \in messages :
    m.client # NoClient /\ m.client = n.client /\ m.sender = n.sender => m = n

\* A number belongs to one message, although it is taken before the message
\* is stored and Sends overtake one another in between.  The number of a
\* message that expired is not used again.
NumbersDistinct == \A m, n \in EverStored : m.seq = n.seq => m = n

\* The mailboxes and the conversation events are written one after the other
\* from the same list: unless the distribution was interrupted, the users who
\* have a message in their mailbox are those whose views its event updates.
MailboxAgreesWithEvent ==
  \A m \in EverStored :
    \/ {u \in Users : <<u, m.seq>> \in mailbox} = m.participants
    \/ m.seq \in broken
    \/ \E p \in Procs : jobs[p].pc = "distribute" /\ jobs[p].seq = m.seq

\* Nobody is shown a message in real time that they could not find again:
\* what is pushed to a user is in that user's mailbox, and stored until it
\* expires.
PushedIsKept ==
  \A u \in Users : \A s \in 1..lastSeq : <<u, s>> \in pushed =>
    /\ <<u, s>> \in mailbox
    /\ \E m \in EverStored : m.seq = s /\ u \in m.participants

\* Until it expires, a stored message keeps its number, content and
\* participants whatever is sent again, and a recall is never undone; once
\* expired it does not come back.
StoredStays ==
  [][/\ \A m \in messages :
          \/ m \in EverStored'
          \/ m.state = "sent" /\ [m EXCEPT !.state = "recalled"] \in messages'
     /\ \A m \in expired : \A n \in messages' : n.seq # m.seq]_vars

\* A request that was answered with "accepted" and carries a
\* client_message_id becomes a message, if its content is valid, the group is
\* not dismissed and the sender still a member who is not muted, as long as no
\* more than one gateway stops, one write fails or one gateway misses the
\* publication: another gateway has received it too.  A publication that
\* reaches no gateway is lost, although it was answered with "accepted".
AcceptedIsStored ==
  \A r \in {q \in Requests : q.client # NoClient /\ q.content.valid} :
    r \in accepted
      ~> \/ \E m \in EverStored : m.sender = r.sender /\ m.client = r.client
         \/ r.sender \notin members \ muted
         \/ ~active
         \/ r \in lost
=============================================================================
