----------------------- MODULE MessageDelivery_proofs -----------------------
(***************************************************************************)
(* Proofs about MessageDelivery, for any number of gateways, users and     *)
(* requests, and any number of gateways that stop and calls that fail.     *)
(***************************************************************************)
EXTENDS MessageDelivery, TLAPS

Pcs == {"idle", "resolve", "number", "store", "distribute", "push"}

\* The fields a Send holds at each of its steps.
LEMMA JobShape ==
  ASSUME NEW j \in Job
  PROVE  /\ j.pc \in Pcs
         /\ j.pc # "idle" => j.req \in Request
         /\ j.pc \in {"number", "store", "distribute", "push"} => j.to \subseteq Users
         /\ j.pc \in {"store", "distribute", "push"} => j.seq \in 1..lastSeq
  BY DEF Job, Idle, Pcs

LEMMA RequestShape ==
  ASSUME NEW r \in Request
  PROVE  r.sender \in Users /\ r.client \in Clients /\ r.content \in Content
  BY DEF Request

\* The records a Send may become.
LEMMA JobsOf ==
  ASSUME NEW r \in Request, NEW t \in SUBSET Users
  PROVE  /\ [pc |-> "resolve", req |-> r] \in Job
         /\ [pc |-> "number", req |-> r, to |-> t] \in Job
  BY DEF Job

LEMMA NumberedJobs ==
  ASSUME NEW r \in Request, NEW t \in SUBSET Users, NEW n \in 1..lastSeq,
         NEW at \in {"store", "distribute", "push"}
  PROVE  [pc |-> at, req |-> r, to |-> t, seq |-> n] \in Job
  BY DEF Job

LEMMA IdleJob == Idle \in Job
  BY DEF Job

\* What a Send that has its number stores is a message.
LEMMA NewMessageShape ==
  ASSUME lastSeq \in Nat, NEW j \in Job, j.pc = "store"
  PROVE  /\ NewMessage(j) \in Message
         /\ NewMessage(j).seq = j.seq
         /\ NewMessage(j).sender = j.req.sender
         /\ NewMessage(j).client = j.req.client
         /\ NewMessage(j).participants = Participants(j)
         /\ Participants(j) \subseteq Users
<1>1. j.req \in Request /\ j.to \subseteq Users /\ j.seq \in Nat \ {0}
  BY JobShape
<1>2. j.req.sender \in Users /\ j.req.client \in Clients /\ j.req.content \in Content
  BY <1>1, RequestShape
<1>3. Participants(j) \subseteq Users
  BY <1>1, <1>2 DEF Participants
<1> QED BY <1>1, <1>2, <1>3 DEF NewMessage, Message

---------------------------------------------------------------------------
\* Type correctness

LEMMA TypesStart == Init => TypeOK
  BY DEF Init, TypeOK, Job, Idle, EverStored

\* A Send that moves on within what its type allows keeps the types.
LEMMA TypesMove ==
  ASSUME TypeOK, Job' = Job, NEW p \in Procs, NEW j \in Job,
         jobs' = [jobs EXCEPT ![p] = j]
  PROVE  DOMAIN jobs' = Procs /\ \A q \in Procs : jobs'[q] \in Job'
  BY DEF TypeOK

\* Begin either ends the Send or keeps its request.
LEMMA BeginMoves ==
  ASSUME NEW p \in Procs, NEW r \in Request, Begin(p, r)
  PROVE  \E j \in Job : jobs' = [jobs EXCEPT ![p] = j]
  BY JobsOf, IdleJob DEF Begin, Advance

LEMMA TypesStep ==
  ASSUME TypeOK, [Next]_vars
  PROVE  TypeOK'
<1> USE DEF collections, group, answered, EverStored
<1>1. CASE UNCHANGED vars
  BY <1>1 DEF TypeOK, vars, Job
<1>2. ASSUME NEW r \in Requests, NEW at, SendMessage(r, at) PROVE TypeOK'
  BY <1>2 DEF TypeOK, SendMessage, Enqueue, Job
<1>3. ASSUME NEW r \in Requests, NEW at, PublishSystemEvent(r, at) PROVE TypeOK'
  BY <1>3 DEF TypeOK, PublishSystemEvent, Enqueue, Job
<1>17. ASSUME NEW r \in Requests, NEW at, Dismiss(r, at) PROVE TypeOK'
  <2>1. inbox' \in [Gateways -> Seq(Requests)]
    BY <1>17 DEF TypeOK, Dismiss, Enqueue
  <2>2. UNCHANGED <<members, muted, up, jobs, lastSeq, messages, mailbox, pushed, expired,
                    accepted, lost, broken>> /\ active' = FALSE
    BY <1>17 DEF Dismiss
  <2> QED BY <2>1, <2>2 DEF TypeOK, Job
<1>18. ASSUME NEW m \in messages, Expire(m) PROVE TypeOK'
  <2>1. EverStored' = EverStored
    BY <1>18 DEF Expire, EverStored
  <2> QED BY <1>18, <2>1 DEF TypeOK, Expire, Job
<1>4. ASSUME NEW u \in Users, Leave(u) PROVE TypeOK'
  BY <1>4 DEF TypeOK, Leave, Spend, Job
<1>16. ASSUME NEW u \in Users, Mute(u) PROVE TypeOK'
  BY <1>16 DEF TypeOK, Mute, Spend, Job
<1>5. ASSUME NEW g \in Gateways, Receive(g) PROVE TypeOK'
  <2> DEFINE p == <<g, "callback">>
             r == Head(inbox[g])
  <2>1. p \in Procs /\ r \in Request /\ Tail(inbox[g]) \in Seq(Requests)
    BY <1>5, DeliveryAssumption DEF Receive, TypeOK, Procs
  <2>2. \E j \in Job : jobs' = [jobs EXCEPT ![p] = j]
    BY <1>5, <2>1, BeginMoves DEF Receive
  <2>3. DOMAIN jobs' = Procs /\ \A q \in Procs : jobs'[q] \in Job'
    BY <1>5, <2>1, <2>2, TypesMove DEF Receive, Job
  <2> QED BY <1>5, <2>1, <2>3 DEF Receive, TypeOK
<1>6. ASSUME NEW g \in Gateways, Crash(g) PROVE TypeOK'
  <2>1. \A p \in Procs : jobs'[p] \in Job'
    BY <1>6 DEF Crash, TypeOK, Job, Idle
  <2>2. broken' \subseteq 1..lastSeq
    BY <1>6, JobShape DEF Crash, TypeOK
  <2> QED BY <1>6, <2>1, <2>2 DEF Crash, TypeOK, Spend
<1>7. ASSUME NEW g \in Gateways, Restart(g) PROVE TypeOK'
  BY <1>7 DEF TypeOK, Restart, Job
<1>8. ASSUME NEW g \in Gateways, NEW u \in Users, NEW m \in messages, Forward(g, u, m)
      PROVE  TypeOK'
  <2> DEFINE p == <<g, "forward">>
             r == [sender |-> u, client |-> NoClient, content |-> m.content]
  <2>1. p \in Procs /\ r \in Request
    BY DEF TypeOK, Procs, Message, Request, Clients
  <2>2. \E j \in Job : jobs' = [jobs EXCEPT ![p] = j]
    BY <1>8, <2>1, BeginMoves DEF Forward
  <2>3. DOMAIN jobs' = Procs /\ \A q \in Procs : jobs'[q] \in Job'
    BY <1>8, <2>1, <2>2, TypesMove DEF Forward, Job
  <2> QED BY <1>8, <2>3 DEF Forward, TypeOK
<1>9. ASSUME NEW p \in Procs, Resolve(p) PROVE TypeOK'
  <2>1. jobs[p].req \in Request
    BY <1>9, JobShape DEF Resolve, TypeOK
  <2>2. members \ {jobs[p].req.sender} \in SUBSET Users
    BY DEF TypeOK
  <2>3. \E j \in Job : jobs' = [jobs EXCEPT ![p] = j]
    BY <1>9, <2>1, <2>2, JobsOf, IdleJob DEF Resolve, Advance
  <2>4. DOMAIN jobs' = Procs /\ \A q \in Procs : jobs'[q] \in Job'
    BY <1>9, <2>3, TypesMove DEF Resolve, Job
  <2> QED BY <1>9, <2>4 DEF Resolve, TypeOK
<1>10. ASSUME NEW p \in Procs, Number(p) PROVE TypeOK'
  <2>1. jobs[p].req \in Request /\ jobs[p].to \subseteq Users
    BY <1>10, JobShape DEF Number, TypeOK
  <2>2. lastSeq' \in Nat /\ lastSeq' >= lastSeq /\ lastSeq + 1 \in 1..lastSeq'
        /\ 1..lastSeq \subseteq 1..lastSeq'
    BY <1>10 DEF Number, TypeOK
  <2>3. Job \subseteq Job'
    <3> HIDE <1>10
    <3> SUFFICES ASSUME NEW j \in Job PROVE j \in Job'
      OBVIOUS
    <3>1. CASE j.pc \in {"store", "distribute", "push"}
      BY <2>2, <3>1 DEF Job, Idle
    <3>2. CASE j.pc \notin {"store", "distribute", "push"}
      BY <3>2 DEF Job, Idle
    <3> QED BY <3>1, <3>2
  <2>4. DOMAIN jobs' = Procs /\ \A q \in Procs : jobs'[q] \in Job'
    <3> DEFINE j == [pc |-> "store", req |-> jobs[p].req, to |-> jobs[p].to,
                     seq |-> lastSeq + 1]
    <3>1. j \in Job'
      BY <2>1, <2>2 DEF Job
    <3>2. jobs' = [jobs EXCEPT ![p] = j]
      BY <1>10 DEF Number, Advance
    <3> HIDE DEF j
    <3> QED BY <2>3, <3>1, <3>2 DEF TypeOK
  <2> QED BY <1>10, <2>2, <2>4 DEF Number, TypeOK
<1>11. ASSUME NEW p \in Procs, Store(p) PROVE TypeOK'
  <2>1. jobs[p] \in Job /\ jobs[p].pc = "store"
    BY <1>11 DEF Store, TypeOK
  <2>2. NewMessage(jobs[p]) \in Message /\ NewMessage(jobs[p]).seq \in 1..lastSeq
    BY <2>1, NewMessageShape, JobShape DEF TypeOK
  <2>3. [jobs[p] EXCEPT !.pc = "distribute"] \in Job
    BY <2>1 DEF Job, Idle
  <2>4. \E j \in Job : jobs' = [jobs EXCEPT ![p] = j]
    BY <1>11, <2>3, IdleJob DEF Store, Advance
  <2>5. DOMAIN jobs' = Procs /\ \A q \in Procs : jobs'[q] \in Job'
    BY <1>11, <2>4, TypesMove DEF Store, Job
  <2> QED BY <1>11, <2>2, <2>5 DEF Store, TypeOK
<1>12. ASSUME NEW p \in Procs, Distribute(p) PROVE TypeOK'
  <2>1. jobs[p].req \in Request /\ jobs[p].to \subseteq Users /\ jobs[p].seq \in 1..lastSeq
    BY <1>12, JobShape DEF Distribute, TypeOK
  <2>2. Participants(jobs[p]) \subseteq Users
    BY <2>1, RequestShape DEF Participants
  <2>3. [pc |-> "push", req |-> jobs[p].req, to |-> Participants(jobs[p]),
         seq |-> jobs[p].seq] \in Job
    BY <2>1, <2>2, NumberedJobs
  <2>4. DOMAIN jobs' = Procs /\ \A q \in Procs : jobs'[q] \in Job'
    BY <1>12, <2>3, TypesMove DEF Distribute, Advance, Job
  <2> QED BY <1>12, <2>1, <2>2, <2>4 DEF Distribute, TypeOK
<1>13. ASSUME NEW p \in Procs, Push(p) PROVE TypeOK'
  <2>1. jobs[p].to \subseteq Users /\ jobs[p].seq \in 1..lastSeq
    BY <1>13, JobShape DEF Push, TypeOK
  <2>2. pushed' \subseteq Users \X (1..lastSeq)
    BY <1>13, <2>1 DEF Push, TypeOK
  <2>3. Job' = Job  BY <1>13 DEF Push, Job
  <2>4. DOMAIN jobs' = Procs /\ \A q \in Procs : jobs'[q] \in Job'
    BY <1>13, <2>3, IdleJob, TypesMove DEF Push, Advance
  <2> QED BY <1>13, <2>2, <2>4 DEF Push, TypeOK
<1>14. ASSUME NEW p \in Procs, DatabaseError(p) PROVE TypeOK'
  <2>1. jobs[p].pc = "distribute" =>
          Participants(jobs[p]) \subseteq Users /\ jobs[p].seq \in 1..lastSeq
    BY JobShape, RequestShape DEF Participants, TypeOK
  <2>2. mailbox' \subseteq Users \X (1..lastSeq) /\ broken' \subseteq 1..lastSeq
    <3>1. CASE jobs[p].pc = "distribute"
      <4>1. PICK some \in SUBSET Participants(jobs[p]) :
              mailbox' = mailbox \union (some \X {jobs[p].seq})
        BY <1>14, <3>1 DEF DatabaseError
      <4>2. some \X {jobs[p].seq} \subseteq Users \X (1..lastSeq)
        BY <2>1, <3>1
      <4>3. broken' = broken \union {jobs[p].seq}
        BY <1>14, <3>1 DEF DatabaseError
      <4> QED BY <2>1, <3>1, <4>1, <4>2, <4>3 DEF TypeOK
    <3>2. CASE jobs[p].pc # "distribute"
      BY <1>14, <3>2 DEF DatabaseError, TypeOK
    <3> QED BY <3>1, <3>2
  <2>3. Job' = Job  BY <1>14 DEF DatabaseError, Job
  <2>4. DOMAIN jobs' = Procs /\ \A q \in Procs : jobs'[q] \in Job'
    BY <1>14, <2>3, IdleJob, TypesMove DEF DatabaseError, Advance
  <2> QED BY <1>14, <2>2, <2>4 DEF DatabaseError, TypeOK
<1>15. ASSUME NEW m \in messages, NEW u \in Users, Recall(m, u) PROVE TypeOK'
  <2>1. [m EXCEPT !.state = "recalled"] \in Message
        /\ [m EXCEPT !.state = "recalled"].seq = m.seq
    BY DEF TypeOK, Message
  <2> QED BY <1>15, <2>1 DEF Recall, TypeOK, Job
<1> QED
  BY <1>1, <1>2, <1>3, <1>4, <1>5, <1>6, <1>7, <1>8, <1>9, <1>10, <1>11, <1>12,
     <1>13, <1>14, <1>15, <1>16, <1>17, <1>18 DEF Next, Step

\* Every reachable state has the declared types, and no number is used that
\* was not handed out.
THEOREM DeliveryTypeCorrect == Spec => []TypeOK
<1>1. TypeOK /\ [Next]_vars => TypeOK'  BY TypesStep
<1> QED BY <1>1, TypesStart, PTL DEF Spec

---------------------------------------------------------------------------
\* What makes the safety properties inductive: what a Send may rely on
\* between the steps that take the number, store the message, write the
\* mailboxes and publish.

Numbered(p) == jobs[p].pc \in {"store", "distribute"}

\* Nothing is stored under a number before its Send stores it.
Unstored ==
  \A p \in Procs : jobs[p].pc = "store" => \A m \in EverStored : m.seq # jobs[p].seq

\* Nothing is in a mailbox under a number before its Send distributes it.
Undistributed ==
  \A p \in Procs : Numbered(p) => \A u \in Users : <<u, jobs[p].seq>> \notin mailbox

\* No two Sends hold the same number.
OwnNumber ==
  \A p, q \in Procs : Numbered(p) /\ Numbered(q) /\ p # q => jobs[p].seq # jobs[q].seq

\* A Send that distributes has stored the message, with the participants it
\* distributes to.
Stored ==
  \A p \in Procs : jobs[p].pc = "distribute" =>
    \E m \in EverStored : m.seq = jobs[p].seq /\ m.participants = Participants(jobs[p])

\* A Send that publishes has written the mailboxes of those it publishes to.
Distributed ==
  \A p \in Procs : jobs[p].pc = "push" =>
    \A u \in jobs[p].to :
      <<u, jobs[p].seq>> \in mailbox
      /\ \E m \in EverStored : m.seq = jobs[p].seq /\ u \in m.participants

\* What has expired is not stored.
Gone == messages \intersect expired = {}

Flow ==
  /\ StoredOnce /\ NumbersDistinct /\ Gone
  /\ Unstored /\ Undistributed /\ OwnNumber /\ Stored /\ Distributed
  /\ MailboxAgreesWithEvent /\ PushedIsKept

DeliveryInv == TypeOK /\ Flow

LEMMA FlowStart == Init => Flow
  BY DEF Init, Flow, StoredOnce, NumbersDistinct, Unstored, Undistributed, OwnNumber,
         Stored, Distributed, MailboxAgreesWithEvent, PushedIsKept, Idle, Numbered,
         EverStored, Gone

\* A step that stores nothing, writes to no mailbox, publishes to nobody and
\* only ends or begins Sends that have no message to distribute keeps all of
\* it, even if it lets a message expire.
LEMMA FlowQuiet ==
  ASSUME DeliveryInv, UNCHANGED <<lastSeq, mailbox, pushed, broken>>,
         messages' \subseteq messages, EverStored' = EverStored, Gone',
         \A q \in Procs : \/ jobs'[q] = jobs[q]
                          \/ /\ jobs'[q].pc \notin {"store", "distribute", "push"}
                             /\ jobs[q].pc # "distribute"
  PROVE  Flow'
<1> USE DEF DeliveryInv, Flow
<1>1. StoredOnce' /\ NumbersDistinct'
  BY DEF StoredOnce, NumbersDistinct
<1>2. Unstored' /\ Undistributed'
  BY DEF Unstored, Undistributed, Numbered
<1>3. OwnNumber'
  BY DEF OwnNumber, Numbered
<1>4. Stored'
  BY DEF Stored, Participants
<1>5. Distributed'
  BY DEF Distributed
<1>6. MailboxAgreesWithEvent'
  BY DEF MailboxAgreesWithEvent
<1>7. PushedIsKept'
  BY DEF PushedIsKept
<1> QED BY <1>1, <1>2, <1>3, <1>4, <1>5, <1>6, <1>7

\* The number taken from the chat is new to the messages, the mailboxes and
\* the Sends under way.
LEMMA FlowNumber ==
  ASSUME DeliveryInv, NEW p \in Procs, Number(p)
  PROVE  Flow'
<1> USE DEF DeliveryInv, Flow
<1>1. /\ messages' = messages /\ EverStored' = EverStored /\ Gone'
      /\ mailbox' = mailbox /\ pushed' = pushed
      /\ broken' = broken /\ lastSeq' = lastSeq + 1 /\ lastSeq \in Nat
  BY DEF EverStored, Gone, Number, TypeOK
<1>2. jobs'[p].pc = "store" /\ jobs'[p].seq = lastSeq + 1
  BY DEF Number, Advance, TypeOK
<1>3. \A q \in Procs : q # p => jobs'[q] = jobs[q]
  BY DEF Number, Advance, TypeOK
<1>4. \A q \in Procs : Numbered(q) => jobs[q].seq \in 1..lastSeq
  BY JobShape DEF TypeOK, Numbered
<1>5. \A m \in EverStored : m.seq \in 1..lastSeq
  BY DEF TypeOK
<1>6. jobs[p].pc = "number"
  BY DEF Number
<1>7. lastSeq + 1 \notin 1..lastSeq
  BY <1>1
<1>8. StoredOnce' /\ NumbersDistinct'
  BY <1>1 DEF StoredOnce, NumbersDistinct
<1>9. Unstored'
  BY <1>1, <1>2, <1>3, <1>5, <1>7 DEF Unstored
<1>10. Undistributed'
  <2>1. \A u \in Users : <<u, lastSeq + 1>> \notin mailbox
    BY <1>7 DEF TypeOK
  <2> QED BY <1>1, <1>2, <1>3, <2>1 DEF Undistributed, Numbered
<1>11. OwnNumber'
  BY <1>2, <1>3, <1>4, <1>7 DEF OwnNumber, Numbered
<1>12. Stored'
  BY <1>1, <1>2, <1>3 DEF Stored, Participants
<1>13. Distributed'
  BY <1>1, <1>2, <1>3 DEF Distributed
<1>14. MailboxAgreesWithEvent'
  BY <1>1, <1>3, <1>6 DEF MailboxAgreesWithEvent
<1>15. PushedIsKept'
  <2>1. pushed \subseteq Users \X (1..lastSeq)
    BY DEF TypeOK
  <2>2. \A u \in Users : \A s : <<u, s>> \in pushed => s \in 1..lastSeq
    BY <2>1
  <2> QED BY <1>1, <2>2 DEF PushedIsKept
<1> QED BY <1>1, <1>8, <1>9, <1>10, <1>11, <1>12, <1>13, <1>14, <1>15

\* The message that is stored carries a number nothing else carries.
LEMMA FlowStore ==
  ASSUME DeliveryInv, NEW p \in Procs, Store(p), Existing(jobs[p].req) = {}
  PROVE  Flow'
<1> USE DEF DeliveryInv, Flow
<1> DEFINE n == NewMessage(jobs[p])
<1>1. /\ messages' = messages \union {n} /\ EverStored' = EverStored \union {n}
      /\ mailbox' = mailbox /\ pushed' = pushed
      /\ broken' = broken /\ lastSeq' = lastSeq
      /\ jobs[p].pc = "store" /\ jobs[p] \in Job
  BY DEF Store, TypeOK, EverStored
<1>2. /\ n.seq = jobs[p].seq /\ n.sender = jobs[p].req.sender
      /\ n.client = jobs[p].req.client /\ n.participants = Participants(jobs[p])
  BY <1>1, NewMessageShape DEF TypeOK
<1>3. /\ jobs'[p].pc = "distribute" /\ jobs'[p].seq = jobs[p].seq
      /\ jobs'[p].req = jobs[p].req /\ jobs'[p].to = jobs[p].to
  BY <1>1 DEF Store, Advance, TypeOK, Job, Idle
<1>4. \A q \in Procs : q # p => jobs'[q] = jobs[q]
  BY DEF Store, Advance, TypeOK
<1> HIDE DEF n
<1>5. StoredOnce'
  <2>1. \A m \in messages : n.client # NoClient => ~(m.client = n.client /\ m.sender = n.sender)
    BY <1>2 DEF Existing
  <2> QED BY <1>1, <2>1 DEF StoredOnce
<1>6. \A m \in EverStored : m.seq # n.seq
  BY <1>1, <1>2 DEF Unstored
<1>7. NumbersDistinct'
  BY <1>1, <1>6 DEF NumbersDistinct
<1>15. Gone'
  <2>1. n \notin expired
    BY <1>6 DEF EverStored
  <2>2. expired' = expired
    BY DEF Store
  <2> QED BY <1>1, <2>1, <2>2 DEF Gone
<1>8. Unstored'
  <2>1. \A q \in Procs : q # p /\ jobs[q].pc = "store" => jobs[q].seq # n.seq
    BY <1>1, <1>2 DEF OwnNumber, Numbered
  <2> QED BY <1>1, <1>3, <1>4, <2>1 DEF Unstored
<1>9. Undistributed'
  BY <1>1, <1>3, <1>4 DEF Undistributed, Numbered
<1>10. OwnNumber'
  BY <1>1, <1>3, <1>4 DEF OwnNumber, Numbered
<1>11. Stored'
  <2>1. n \in EverStored' /\ n.seq = jobs'[p].seq /\ n.participants = Participants(jobs'[p])
    BY <1>1, <1>2, <1>3 DEF Participants
  <2>2. \A q \in Procs : q # p => Participants(jobs'[q]) = Participants(jobs[q])
    BY <1>4 DEF Participants
  <2> QED BY <1>1, <1>4, <2>1, <2>2 DEF Stored
<1>12. Distributed'
  BY <1>1, <1>3, <1>4 DEF Distributed
<1>13. MailboxAgreesWithEvent'
  BY <1>1, <1>2, <1>3, <1>4 DEF MailboxAgreesWithEvent
<1>14. PushedIsKept'
  BY <1>1 DEF PushedIsKept
<1> QED BY <1>5, <1>7, <1>8, <1>9, <1>10, <1>11, <1>12, <1>13, <1>14, <1>15

\* The mailboxes of the participants are written where there was nothing
\* under the number.
LEMMA FlowDistribute ==
  ASSUME DeliveryInv, NEW p \in Procs, Distribute(p)
  PROVE  Flow'
<1> USE DEF DeliveryInv, Flow
<1> DEFINE to == Participants(jobs[p])
           n == jobs[p].seq
<1>1. /\ messages' = messages /\ EverStored' = EverStored /\ Gone'
      /\ mailbox' = mailbox \union (to \X {n})
      /\ pushed' = pushed /\ broken' = broken /\ lastSeq' = lastSeq
      /\ jobs[p].pc = "distribute"
  BY DEF EverStored, Gone, Distribute
<1>2. jobs'[p].pc = "push" /\ jobs'[p].seq = n /\ jobs'[p].to = to
  BY DEF Distribute, Advance, TypeOK
<1>3. \A q \in Procs : q # p => jobs'[q] = jobs[q]
  BY DEF Distribute, Advance, TypeOK
<1>4. PICK m \in EverStored : m.seq = n /\ m.participants = to
  BY <1>1 DEF Stored
<1>5. to \subseteq Users
  BY <1>1, JobShape, RequestShape DEF TypeOK, Participants
<1>6. \A u \in Users : <<u, n>> \notin mailbox
  BY <1>1 DEF Undistributed, Numbered
<1>7. \A q \in Procs : q # p /\ Numbered(q) => jobs[q].seq # n
  BY <1>1 DEF OwnNumber, Numbered
<1> HIDE DEF to, n
<1>8. \A u, s : <<u, s>> \in mailbox' <=> <<u, s>> \in mailbox \/ (u \in to /\ s = n)
  BY <1>1
<1>9. StoredOnce' /\ NumbersDistinct'
  BY <1>1 DEF StoredOnce, NumbersDistinct
<1>10. Unstored' /\ OwnNumber'
  BY <1>1, <1>2, <1>3 DEF Unstored, OwnNumber, Numbered
<1>11. Undistributed'
  BY <1>2, <1>3, <1>7, <1>8 DEF Undistributed, Numbered
<1>12. Stored'
  <2>1. \A q \in Procs : q # p => Participants(jobs'[q]) = Participants(jobs[q])
    BY <1>3 DEF Participants
  <2> QED BY <1>1, <1>2, <1>3, <2>1 DEF Stored
<1>13. Distributed'
  <2>1. \A u \in to : <<u, n>> \in mailbox' /\ m \in EverStored' /\ u \in m.participants
    BY <1>1, <1>4, <1>8
  <2> QED BY <1>1, <1>2, <1>3, <1>4, <1>8, <2>1 DEF Distributed
<1>14. MailboxAgreesWithEvent'
  <2> SUFFICES ASSUME NEW k \in EverStored
               PROVE  \/ {u \in Users : <<u, k.seq>> \in mailbox'} = k.participants
                      \/ k.seq \in broken'
                      \/ \E q \in Procs : jobs'[q].pc = "distribute" /\ jobs'[q].seq = k.seq
    BY <1>1 DEF MailboxAgreesWithEvent
  <2>1. CASE k.seq = n
    <3>1. k = m
      BY <1>4, <2>1 DEF NumbersDistinct
    <3>2. {u \in Users : <<u, n>> \in mailbox'} = to
      BY <1>5, <1>6, <1>8
    <3> QED BY <1>4, <3>1, <3>2
  <2>2. CASE k.seq # n
    <3>1. {u \in Users : <<u, k.seq>> \in mailbox'} = {u \in Users : <<u, k.seq>> \in mailbox}
      BY <1>8, <2>2
    <3>2. jobs[p].seq # k.seq
      BY <2>2 DEF n
    <3> QED BY <1>1, <1>3, <3>1, <3>2 DEF MailboxAgreesWithEvent
  <2> QED BY <2>1, <2>2
<1>15. PushedIsKept'
  BY <1>1, <1>8 DEF PushedIsKept
<1> QED BY <1>1, <1>9, <1>10, <1>11, <1>12, <1>13, <1>14, <1>15

\* Only users whose mailbox has the message are published to.
LEMMA FlowPush ==
  ASSUME DeliveryInv, NEW p \in Procs, Push(p)
  PROVE  Flow'
<1> USE DEF DeliveryInv, Flow
<1>1. /\ messages' = messages /\ EverStored' = EverStored /\ Gone'
      /\ mailbox' = mailbox /\ broken' = broken
      /\ lastSeq' = lastSeq /\ jobs[p].pc = "push"
  BY DEF EverStored, Gone, Push
<1>2. jobs'[p].pc = "idle"
  BY DEF Push, Advance, TypeOK, Idle
<1>3. \A q \in Procs : q # p => jobs'[q] = jobs[q]
  BY DEF Push, Advance, TypeOK
<1>4. \A u, s : <<u, s>> \in pushed' => <<u, s>> \in pushed \/ (u \in jobs[p].to /\ s = jobs[p].seq)
  BY DEF Push
<1>5. StoredOnce' /\ NumbersDistinct'
  BY <1>1 DEF StoredOnce, NumbersDistinct
<1>6. Unstored' /\ OwnNumber' /\ Undistributed'
  BY <1>1, <1>2, <1>3 DEF Unstored, OwnNumber, Undistributed, Numbered
<1>7. Stored'
  BY <1>1, <1>2, <1>3 DEF Stored, Participants
<1>8. Distributed'
  BY <1>1, <1>2, <1>3 DEF Distributed
<1>9. MailboxAgreesWithEvent'
  BY <1>1, <1>3 DEF MailboxAgreesWithEvent
<1>10. PushedIsKept'
  BY <1>1, <1>4 DEF PushedIsKept, Distributed
<1> QED BY <1>1, <1>5, <1>6, <1>7, <1>8, <1>9, <1>10

\* A distribution that fails marks its number as broken.
LEMMA FlowDatabaseError ==
  ASSUME DeliveryInv, NEW p \in Procs, DatabaseError(p), jobs[p].pc = "distribute"
  PROVE  Flow'
<1> USE DEF DeliveryInv, Flow
<1> DEFINE n == jobs[p].seq
<1>1. /\ messages' = messages /\ EverStored' = EverStored /\ Gone'
      /\ pushed' = pushed /\ lastSeq' = lastSeq
      /\ broken' = broken \union {n}
  BY DEF EverStored, Gone, DatabaseError
<1>2. PICK some \in SUBSET Participants(jobs[p]) : mailbox' = mailbox \union (some \X {n})
  BY DEF DatabaseError
<1>3. jobs'[p].pc = "idle"
  BY DEF DatabaseError, Advance, TypeOK, Idle
<1>4. \A q \in Procs : q # p => jobs'[q] = jobs[q]
  BY DEF DatabaseError, Advance, TypeOK
<1>5. \A q \in Procs : q # p /\ Numbered(q) => jobs[q].seq # n
  BY DEF OwnNumber, Numbered
<1> HIDE DEF n
<1>6. \A u, s : <<u, s>> \in mailbox' <=> <<u, s>> \in mailbox \/ (u \in some /\ s = n)
  BY <1>2
<1>7. StoredOnce' /\ NumbersDistinct'
  BY <1>1 DEF StoredOnce, NumbersDistinct
<1>8. Unstored' /\ OwnNumber'
  BY <1>1, <1>3, <1>4 DEF Unstored, OwnNumber, Numbered
<1>9. Undistributed'
  BY <1>3, <1>4, <1>5, <1>6 DEF Undistributed, Numbered
<1>10. Stored'
  <2>1. \A q \in Procs : q # p => Participants(jobs'[q]) = Participants(jobs[q])
    BY <1>4 DEF Participants
  <2> QED BY <1>1, <1>3, <1>4, <2>1 DEF Stored
<1>11. Distributed'
  BY <1>1, <1>3, <1>4, <1>6 DEF Distributed
<1>12. MailboxAgreesWithEvent'
  <2> SUFFICES ASSUME NEW k \in EverStored, k.seq # n
               PROVE  \/ {u \in Users : <<u, k.seq>> \in mailbox'} = k.participants
                      \/ k.seq \in broken'
                      \/ \E q \in Procs : jobs'[q].pc = "distribute" /\ jobs'[q].seq = k.seq
    BY <1>1 DEF MailboxAgreesWithEvent
  <2>1. {u \in Users : <<u, k.seq>> \in mailbox'} = {u \in Users : <<u, k.seq>> \in mailbox}
    BY <1>6
  <2>2. jobs[p].seq # k.seq
    BY DEF n
  <2> QED BY <1>1, <1>4, <2>1, <2>2 DEF MailboxAgreesWithEvent
<1>13. PushedIsKept'
  BY <1>1, <1>6 DEF PushedIsKept
<1> QED BY <1>1, <1>7, <1>8, <1>9, <1>10, <1>11, <1>12, <1>13

\* A gateway that stops marks what it was distributing as broken.
LEMMA FlowCrash ==
  ASSUME DeliveryInv, NEW g \in Gateways, Crash(g)
  PROVE  Flow'
<1> USE DEF DeliveryInv, Flow
<1>1. /\ messages' = messages /\ EverStored' = EverStored /\ Gone'
      /\ mailbox' = mailbox /\ pushed' = pushed
      /\ lastSeq' = lastSeq /\ broken \subseteq broken'
  BY DEF EverStored, Gone, Crash, collections
<1>2. \A q \in Procs : jobs'[q] = jobs[q] \/ jobs'[q].pc = "idle"
  BY DEF Crash, Idle
<1>3. \A q \in Procs : jobs[q].pc = "distribute" =>
        jobs'[q] = jobs[q] \/ jobs[q].seq \in broken'
  BY DEF Crash
<1>4. StoredOnce' /\ NumbersDistinct'
  BY <1>1 DEF StoredOnce, NumbersDistinct
<1>5. Unstored' /\ OwnNumber' /\ Undistributed'
  BY <1>1, <1>2 DEF Unstored, OwnNumber, Undistributed, Numbered
<1>6. Stored'
  BY <1>1, <1>2 DEF Stored, Participants
<1>7. Distributed'
  BY <1>1, <1>2 DEF Distributed
<1>8. MailboxAgreesWithEvent'
  BY <1>1, <1>3 DEF MailboxAgreesWithEvent
<1>9. PushedIsKept'
  BY <1>1 DEF PushedIsKept
<1> QED BY <1>1, <1>4, <1>5, <1>6, <1>7, <1>8, <1>9

\* A recall changes neither the number nor the participants of a message.
LEMMA FlowRecall ==
  ASSUME DeliveryInv, NEW m \in messages, NEW u \in Users, Recall(m, u)
  PROVE  Flow'
<1> USE DEF DeliveryInv, Flow
<1> DEFINE r == [m EXCEPT !.state = "recalled"]
<1>1. r.seq = m.seq /\ r.sender = m.sender /\ r.client = m.client
      /\ r.participants = m.participants
  BY DEF TypeOK, Message, EverStored
<1>2. /\ messages' = (messages \ {m}) \union {r} /\ mailbox' = mailbox /\ pushed' = pushed
      /\ broken' = broken /\ lastSeq' = lastSeq /\ jobs' = jobs
  BY DEF Recall
<1> HIDE DEF r
<1>12. m.state = "sent" /\ r.state = "recalled" /\ expired' = expired
  BY DEF Recall, r, TypeOK, Message, EverStored
<1>13. m \in EverStored /\ m \notin expired /\ r \notin expired
  BY <1>1, <1>12 DEF EverStored, Gone, NumbersDistinct
<1>14. EverStored' = (EverStored \ {m}) \union {r}
  BY <1>2, <1>12, <1>13 DEF EverStored
<1>15. Gone'
  BY <1>2, <1>12, <1>13 DEF Gone
<1>16. \A k \in messages' : \E o \in messages :
        /\ k.sender = o.sender /\ k.client = o.client
        /\ (o = m /\ k = r) \/ (o # m /\ k = o)
  BY <1>1, <1>2
<1>3. \A k \in EverStored' : \E o \in EverStored :
        /\ k.seq = o.seq /\ k.sender = o.sender /\ k.client = o.client
        /\ k.participants = o.participants
        /\ (o = m /\ k = r) \/ (o # m /\ k = o)
  BY <1>1, <1>13, <1>14
<1>4. \A o \in EverStored : \E k \in EverStored' :
        k.seq = o.seq /\ k.participants = o.participants
  BY <1>1, <1>14
<1>5. StoredOnce'
  BY <1>16 DEF StoredOnce
<1>6. NumbersDistinct'
  BY <1>3 DEF NumbersDistinct
<1>7. Unstored' /\ OwnNumber' /\ Undistributed'
  BY <1>2, <1>3 DEF Unstored, OwnNumber, Undistributed, Numbered
<1>8. Stored'
  BY <1>2, <1>4 DEF Stored, Participants
<1>9. Distributed'
  BY <1>2, <1>4 DEF Distributed
<1>10. MailboxAgreesWithEvent'
  BY <1>2, <1>3 DEF MailboxAgreesWithEvent
<1>11. PushedIsKept'
  BY <1>2, <1>4 DEF PushedIsKept
<1> QED BY <1>5, <1>6, <1>7, <1>8, <1>9, <1>10, <1>11, <1>15

LEMMA DeliveryStep ==
  ASSUME DeliveryInv, [Next]_vars
  PROVE  DeliveryInv'
<1> DEFINE Quiet == \A q \in Procs : \/ jobs'[q] = jobs[q]
                                     \/ /\ jobs'[q].pc \notin {"store", "distribute", "push"}
                                        /\ jobs[q].pc # "distribute"
           Still == UNCHANGED <<collections, broken>>
           Calm == /\ UNCHANGED <<lastSeq, mailbox, pushed, broken>>
                   /\ messages' \subseteq messages /\ EverStored' = EverStored /\ Gone'
<1>1. TypeOK'
  BY TypesStep DEF DeliveryInv
<1>22. ASSUME Calm, Quiet PROVE Flow'
  BY <1>22, FlowQuiet
<1>2. ASSUME Still, Quiet PROVE Flow'
  <2>1. Calm
    BY <1>2 DEF collections, EverStored, Gone, DeliveryInv, Flow
  <2> HIDE DEF Calm, Quiet
  <2> QED BY <1>2, <1>22, <2>1
<1> HIDE DEF Quiet, Still, Calm
<1>3. ASSUME UNCHANGED vars PROVE Flow'
  <2>1. Quiet  BY <1>3 DEF vars, Quiet
  <2>2. Still  BY <1>3 DEF vars, collections, Still
  <2> QED BY <1>2, <2>1, <2>2
<1>4. ASSUME NEW r \in Requests, NEW at,
             SendMessage(r, at) \/ PublishSystemEvent(r, at) \/ Dismiss(r, at)
      PROVE  Flow'
  BY <1>2, <1>4 DEF SendMessage, PublishSystemEvent, Dismiss, Quiet, Still
<1>23. ASSUME NEW m \in messages, Expire(m) PROVE Flow'
  <2>1. Quiet
    BY <1>23 DEF Expire, Quiet
  <2>2. Calm
    BY <1>23 DEF Expire, Calm, EverStored, Gone, DeliveryInv, Flow
  <2> QED BY <1>22, <2>1, <2>2
<1>5. ASSUME NEW u \in Users, Leave(u) PROVE Flow'
  BY <1>2, <1>5 DEF Leave, Quiet, Still
<1>21. ASSUME NEW u \in Users, Mute(u) PROVE Flow'
  BY <1>2, <1>21 DEF Mute, Quiet, Still
<1>6. ASSUME NEW p \in Procs, NEW r, jobs[p] = Idle, Begin(p, r) PROVE Quiet
  BY <1>6 DEF Begin, Advance, Idle, Quiet, DeliveryInv, TypeOK
<1>7. ASSUME NEW g \in Gateways, Receive(g) PROVE Flow'
  <2>1. <<g, "callback">> \in Procs
    BY DEF Procs
  <2>2. Quiet
    BY <1>6, <1>7, <2>1 DEF Receive
  <2> QED BY <1>2, <1>7, <2>2 DEF Receive, Still
<1>8. ASSUME NEW g \in Gateways, NEW u \in Users, NEW m \in messages, Forward(g, u, m)
      PROVE  Flow'
  <2>1. <<g, "forward">> \in Procs
    BY DEF Procs
  <2>2. Quiet
    BY <1>6, <1>8, <2>1 DEF Forward
  <2> QED BY <1>2, <1>8, <2>2 DEF Forward, Still
<1>9. ASSUME NEW g \in Gateways, Crash(g) PROVE Flow'
  BY <1>9, FlowCrash
<1>10. ASSUME NEW g \in Gateways, Restart(g) PROVE Flow'
  BY <1>2, <1>10 DEF Restart, Quiet, Still
<1>11. ASSUME NEW p \in Procs, Resolve(p) PROVE Flow'
  <2>1. Quiet
    BY <1>11 DEF Resolve, Advance, Idle, Quiet, DeliveryInv, TypeOK
  <2> QED BY <1>2, <1>11, <2>1 DEF Resolve, Still
<1>12. ASSUME NEW p \in Procs, Number(p) PROVE Flow'
  BY <1>12, FlowNumber
<1>13. ASSUME NEW p \in Procs, Store(p) PROVE Flow'
  <2>1. CASE Existing(jobs[p].req) = {}
    BY <1>13, <2>1, FlowStore
  <2>2. CASE Existing(jobs[p].req) # {}
    <3>1. Quiet
      BY <1>13, <2>2 DEF Store, Advance, Idle, Quiet, DeliveryInv, TypeOK
    <3> QED BY <1>2, <1>13, <2>2, <3>1 DEF Store, Still, collections
  <2> QED BY <2>1, <2>2
<1>14. ASSUME NEW p \in Procs, Distribute(p) PROVE Flow'
  BY <1>14, FlowDistribute
<1>15. ASSUME NEW p \in Procs, Push(p) PROVE Flow'
  BY <1>15, FlowPush
<1>16. ASSUME NEW p \in Procs, DatabaseError(p) PROVE Flow'
  <2>1. CASE jobs[p].pc = "distribute"
    BY <1>16, <2>1, FlowDatabaseError
  <2>2. CASE jobs[p].pc # "distribute"
    <3>1. Quiet
      BY <1>16, <2>2 DEF DatabaseError, Advance, Idle, Quiet, DeliveryInv, TypeOK
    <3> QED BY <1>2, <1>16, <2>2, <3>1 DEF DatabaseError, Still, collections
  <2> QED BY <2>1, <2>2
<1>17. ASSUME NEW m \in messages, NEW u \in Users, Recall(m, u) PROVE Flow'
  BY <1>17, FlowRecall
<1>18. ASSUME NEW p \in Procs, Step(p) PROVE Flow'
  BY <1>11, <1>12, <1>13, <1>14, <1>15, <1>18 DEF Step
<1>19. ASSUME Next PROVE Flow'
  BY <1>4, <1>5, <1>7, <1>8, <1>9, <1>10, <1>16, <1>17, <1>18, <1>19, <1>21, <1>23 DEF Next
<1>20. Flow'
  BY <1>3, <1>19
<1> QED BY <1>1, <1>20 DEF DeliveryInv

\* Every reachable state satisfies the inductive invariant.
THEOREM DeliveryInvariant == Spec => []DeliveryInv
<1>1. Init => DeliveryInv
  BY TypesStart, FlowStart DEF DeliveryInv
<1>2. DeliveryInv /\ [Next]_vars => DeliveryInv'
  BY DeliveryStep
<1> QED BY <1>1, <1>2, PTL DEF Spec

---------------------------------------------------------------------------
\* A client_message_id of a sender names one message, however many gateways
\* serve the request at once and however often it is repeated.
THEOREM OneMessagePerClientId == Spec => []StoredOnce
<1>1. DeliveryInv => StoredOnce  BY DEF DeliveryInv, Flow
<1> QED BY <1>1, DeliveryInvariant, PTL

\* No two messages of a chat have the same number.
THEOREM OneMessagePerNumber == Spec => []NumbersDistinct
<1>1. DeliveryInv => NumbersDistinct  BY DEF DeliveryInv, Flow
<1> QED BY <1>1, DeliveryInvariant, PTL

\* The mailboxes a message is in are those of the participants its event
\* names, unless the distribution was interrupted.
THEOREM MailboxesMatchEvents == Spec => []MailboxAgreesWithEvent
<1>1. DeliveryInv => MailboxAgreesWithEvent  BY DEF DeliveryInv, Flow
<1> QED BY <1>1, DeliveryInvariant, PTL

\* Whoever is pushed a message finds it again in the mailbox.
THEOREM PushesAreKept == Spec => []PushedIsKept
<1>1. DeliveryInv => PushedIsKept  BY DEF DeliveryInv, Flow
<1> QED BY <1>1, DeliveryInvariant, PTL

\* No step takes a stored message away before it expires, changes it other
\* than by a recall, undoes a recall, or stores anything under the number of
\* a message that has expired.
THEOREM MessagesStay == Spec => StoredStays
<1> DEFINE Kept == \A m \in messages :
             \/ m \in EverStored'
             \/ m.state = "sent" /\ [m EXCEPT !.state = "recalled"] \in messages'
           Ended == \A m \in expired : \A n \in messages' : n.seq # m.seq
<1>1. ASSUME Next PROVE Kept
  <2>1. ASSUME EverStored \subseteq EverStored' PROVE Kept
    BY <2>1 DEF EverStored
  <2>2. ASSUME NEW m \in messages, NEW u \in Users, Recall(m, u) PROVE Kept
    BY <2>2 DEF Recall, EverStored
  <2> HIDE DEF Kept
  <2> USE DEF EverStored, collections
  <2>3. ASSUME NEW p \in Procs, Store(p) PROVE Kept
    BY <2>1, <2>3 DEF Store
  <2>4. ASSUME NEW r \in Requests, NEW at,
               SendMessage(r, at) \/ PublishSystemEvent(r, at) \/ Dismiss(r, at)
        PROVE  Kept
    BY <2>1, <2>4 DEF SendMessage, PublishSystemEvent, Dismiss
  <2>5. ASSUME NEW u \in Users, Leave(u) \/ Mute(u) PROVE Kept
    BY <2>1, <2>5 DEF Leave, Mute
  <2>6. ASSUME NEW g \in Gateways, Receive(g) \/ Crash(g) \/ Restart(g) PROVE Kept
    BY <2>1, <2>6 DEF Receive, Crash, Restart
  <2>7. ASSUME NEW g \in Gateways, NEW u \in Users, NEW m \in messages, Forward(g, u, m)
        PROVE  Kept
    BY <2>1, <2>7 DEF Forward
  <2>8. ASSUME NEW p \in Procs,
               Resolve(p) \/ Number(p) \/ Distribute(p) \/ Push(p) \/ DatabaseError(p)
        PROVE  Kept
    BY <2>1, <2>8 DEF Resolve, Number, Distribute, Push, DatabaseError
  <2>9. ASSUME NEW m \in messages, Expire(m) PROVE Kept
    BY <2>1, <2>9 DEF Expire
  <2> QED
    BY <1>1, <2>2, <2>3, <2>4, <2>5, <2>6, <2>7, <2>8, <2>9 DEF Next, Step
<1>2. ASSUME DeliveryInv, DeliveryInv', Next PROVE Ended
  <2>1. expired \subseteq expired'
    BY <1>2 DEF Next, Step, SendMessage, PublishSystemEvent, Dismiss, Leave, Mute, Receive,
         Crash, Restart, Forward, Resolve, Number, Store, Distribute, Push, DatabaseError,
         Recall, Expire, collections
  <2>2. NumbersDistinct' /\ Gone'
    BY <1>2 DEF DeliveryInv, Flow
  <2> QED BY <2>1, <2>2 DEF NumbersDistinct, Gone, EverStored
<1>3. DeliveryInv /\ DeliveryInv' /\ [Next]_vars => [Kept /\ Ended]_vars
  BY <1>1, <1>2
<1> QED BY <1>3, DeliveryInvariant, PTL DEF Spec, StoredStays
=============================================================================
