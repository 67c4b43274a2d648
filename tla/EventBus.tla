------------------------------ MODULE EventBus ------------------------------
(***************************************************************************)
(* One subject of the event bus and its consumer, over JetStream ("nats")  *)
(* or over RabbitMQ ("rabbit"): a failed event is tried again until it has *)
(* had MaxDeliver tries, and is then put aside as a dead letter.           *)
(***************************************************************************)
EXTENDS Naturals, Bags

CONSTANTS Buses, Events,
          MaxDeliver,  \* RetryPolicy.MaxDeliver, 5 by default
          MaxFaults    \* bound: crashes, lost acks and lost publications

ASSUME BusAssumption == MaxDeliver \in Nat \ {0} /\ MaxFaults \in Nat

VARIABLES bus,
          queue,    \* copies with their tries: nats counts deliveries, rabbit
                    \* carries the failures in a header
          hand,     \* the copy the consumer works on
          published, handled, dead,
          tries,    \* history: how often each event was delivered
          faults,   \* the bound used
          lost,     \* history: events of which a copy reached no queue
          cut       \* history: events whose last try nats got no answer for

busVars == <<bus, queue, hand, published, handled, dead, tries, faults, lost, cut>>

Copy(e, n) == [event |-> e, count |-> n]
Empty == [pc |-> "idle"]

BusInit ==
  /\ bus \in Buses
  /\ queue = EmptyBag /\ hand = Empty
  /\ published = {} /\ handled = {} /\ dead = {}
  /\ tries = [e \in Events |-> 0]
  /\ faults = 0 /\ lost = {} /\ cut = {}

Fault == faults < MaxFaults /\ faults' = faults + 1

\* JetStream stores an event before Publish returns.  RabbitMQ confirms nothing
\* and drops what no queue is bound for: Publish returns, and there is no copy.
PublishEvent(e) ==
  /\ e \notin published
  /\ published' = published \union {e}
  /\ \/ queue' = queue (+) SetToBag({Copy(e, 0)}) /\ UNCHANGED <<faults, lost>>
     \/ bus = "rabbit" /\ Fault /\ lost' = lost \union {e} /\ UNCHANGED queue
  /\ UNCHANGED <<bus, hand, handled, dead, tries, cut>>

\* JetStream stops delivering after MaxDeliver deliveries.
Deliver(c) ==
  /\ hand = Empty
  /\ bus = "nats" => c.count < MaxDeliver
  /\ queue' = queue (-) SetToBag({c})
  /\ hand' = [pc |-> "handling", event |-> c.event,
              count |-> IF bus = "nats" THEN c.count + 1 ELSE c.count]
  /\ tries' = [tries EXCEPT ![c.event] = @ + 1]
  /\ UNCHANGED <<bus, published, handled, dead, faults, lost, cut>>

Handle ==
  /\ hand.pc = "handling"
  /\ \/ handled' = handled \union {hand.event} /\ hand' = [hand EXCEPT !.pc = "ack"]
     \/ hand' = [hand EXCEPT !.pc = "failed"] /\ UNCHANGED handled
  /\ UNCHANGED <<bus, queue, published, dead, tries, faults, lost, cut>>

\* Mutant: one try too few.
LastTryEarly == hand.count + 2 >= MaxDeliver

LastTry == IF bus = "nats" THEN hand.count >= MaxDeliver ELSE hand.count + 1 >= MaxDeliver

\* Nak: the copy is delivered again.
Nak ==
  /\ hand.pc = "failed" /\ bus = "nats" /\ ~LastTry
  /\ queue' = queue (+) SetToBag({Copy(hand.event, hand.count)})
  /\ hand' = Empty
  /\ UNCHANGED <<bus, published, handled, dead, tries, faults, lost, cut>>

\* requeueForRetry: a copy with one more failure goes to the retry queue, which
\* passes it on after the backoff; then the copy in hand is acknowledged.
RequeueForRetry ==
  /\ hand.pc = "failed" /\ bus = "rabbit" /\ ~LastTry
  /\ hand' = [hand EXCEPT !.pc = "ack"]
  /\ \/ /\ queue' = queue (+) SetToBag({Copy(hand.event, hand.count + 1)})
        /\ UNCHANGED <<faults, lost>>
     \/ /\ Fault /\ lost' = lost \union {hand.event}
        /\ UNCHANGED queue
  /\ UNCHANGED <<bus, published, handled, dead, tries, cut>>

\* A dead letter is published, and the copy is given up whether or not that
\* worked (Term, or Ack).
SendToDeadLetter ==
  /\ hand.pc = "failed" /\ LastTry
  /\ hand' = [hand EXCEPT !.pc = "ack"]
  /\ \/ dead' = dead \union {hand.event} /\ UNCHANGED <<faults, lost>>
     \/ /\ Fault /\ lost' = lost \union {hand.event}
        /\ UNCHANGED dead
  /\ UNCHANGED <<bus, queue, published, handled, tries, cut>>

Ack ==
  /\ hand.pc = "ack"
  /\ hand' = Empty
  /\ UNCHANGED <<bus, queue, published, handled, dead, tries, faults, lost, cut>>

\* Mutant: the broker forgets what it has delivered.
CrashForgets ==
  /\ hand # Empty /\ Fault
  /\ hand' = Empty
  /\ UNCHANGED <<bus, queue, published, handled, dead, tries, lost, cut>>

\* The consumer stops, its connection breaks or its ack is lost: the broker
\* delivers the copy again, JetStream only if it has deliveries left.
Crash ==
  /\ hand # Empty /\ Fault
  /\ hand' = Empty
  /\ queue' = queue (+) SetToBag({Copy(hand.event, hand.count)})
  /\ cut' = IF bus = "nats" /\ hand.count = MaxDeliver
            THEN cut \union {hand.event} ELSE cut
  /\ UNCHANGED <<bus, published, handled, dead, tries, lost>>

BusNext ==
  \/ \E e \in Events : PublishEvent(e)
  \/ \E c \in BagToSet(queue) : Deliver(c)
  \/ Handle \/ Nak \/ RequeueForRetry \/ SendToDeadLetter \/ Ack \/ Crash

BusSpec == BusInit /\ [][BusNext]_busVars

---------------------------------------------------------------------------
Deliverable(e) ==
  \/ \E c \in BagToSet(queue) : c.event = e /\ (bus = "nats" => c.count < MaxDeliver)
  \/ hand # Empty /\ hand.event = e

\* JetStream gives up an event only after its last try, whose dead letter it
\* refused or of which it heard nothing.  RabbitMQ may lose a copy whenever one is
\* published: the event itself, its next try or its dead letter.
GivenUp(e) ==
  e \in lost \union cut /\ (bus = "nats" => tries[e] = MaxDeliver)

\* A published event is waiting, under way, handled or a dead letter, unless it
\* was given up: a crash of the consumer, a lost ack and a failed try make no
\* event vanish that has tries left, on either bus.
NothingVanishes ==
  \A e \in published : Deliverable(e) \/ e \in handled \/ e \in dead \/ GivenUp(e)

\* A dead letter was tried as often as the policy says; and JetStream, which
\* counts deliveries itself, never tries an event more often.
DeadAfterAllTries ==
  \A e \in Events : /\ e \in dead => tries[e] >= MaxDeliver
                    /\ bus = "nats" => tries[e] <= MaxDeliver
=============================================================================
