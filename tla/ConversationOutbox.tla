------------------------ MODULE ConversationOutbox ------------------------
(***************************************************************************)
(* The `conversation_outbox` collection of one chat, the workers of the    *)
(* gateway processes that claim its events, and the conversation views the *)
(* projector writes.  Events are ordered by created_at, which is their     *)
(* position in outbox.  Time is one timer of an event: running until its   *)
(* next_attempt_at (pending), or until its claimed_at is a minute old      *)
(* (processing).  A worker has no heartbeat, so its claim may expire while *)
(* it is still at work.  This module says what may happen to an event once *)
(* it is published; the modules that extend it say who publishes what.     *)
(***************************************************************************)
EXTENDS ConversationView, Sequences

CONSTANTS Users,        \* user ids
          Workers,      \* one outbox worker per gateway process
          MaxAttempts,  \* 20 in the code: the attempt that may not fail again
          MaxCrashes,   \* bound: claims lost by a worker
          MaxErrors,    \* bound: database errors seen by the projector
          MaxReplays    \* bound: calls of the replay command

ASSUME OutboxAssumption ==
  /\ MaxAttempts \in Nat \ {0}
  /\ MaxCrashes \in Nat /\ MaxErrors \in Nat /\ MaxReplays \in Nat

VARIABLES outbox,    \* sequence of events, in the order of created_at
          workers,   \* what each worker holds between two database calls
          views,     \* the conversation document of each user
          crashes, errors, replays   \* what the bounds have used up

outboxVars == <<outbox, workers, views, crashes, errors, replays>>

Kinds == {"user_joined", "user_left", "message_sent"}
Unsettled == {"pending", "processing"}
Settled == {"completed", "failed"}

Event == [kind     : Kinds,
          parts    : SUBSET Users,   \* user_ids of a message, user_id of the others
          sender   : Users,
          seq      : Nat,            \* of the message, or the joiner's last_read_seq
          status   : Unsettled \union Settled,
          timer    : {"running", "off"},
          attempts : Nat]

Worker == [pc    : {"idle", "apply", "applied", "error"},
           ev    : Nat,              \* position of the claimed event, 0 for none
           todo  : SUBSET Users,     \* users still to be projected
           tries : Nat]              \* attempts of the event as read by the claim

Idle == [pc |-> "idle", ev |-> 0, todo |-> {}, tries |-> 0]

OutboxInit ==
  /\ outbox = << >>
  /\ workers = [w \in Workers |-> Idle]
  /\ crashes = 0 /\ errors = 0 /\ replays = 0

NewEvent(kind, parts, sender, seq) ==
  [kind |-> kind, parts |-> parts, sender |-> sender, seq |-> seq,
   status |-> "pending", timer |-> "off", attempts |-> 0]

\* What the workers write in an event; its payload never changes.
Marked(e, status, timer, attempts) ==
  [e EXCEPT !.status = status, !.timer = timer, !.attempts = attempts]

\* Repository.Add, inside the transaction of the business write.
Publish(e) == outbox' = Append(outbox, e)

---------------------------------------------------------------------------
\* Mutant: stale claims are not reclaimed.
ClaimablePending ==
  {i \in DOMAIN outbox : outbox[i].status = "pending" /\ outbox[i].timer = "off"}

Claimable ==
  {i \in DOMAIN outbox : outbox[i].status \in Unsettled /\ outbox[i].timer = "off"}

\* Mutant: the claim does not count the attempt.
ClaimUncounted(w) ==
  /\ workers[w].pc = "idle"
  /\ \E i \in Claimable :
       /\ \A j \in Claimable : i <= j
       /\ outbox' = [outbox EXCEPT
            ![i] = Marked(@, "processing", "running", @.attempts)]
       /\ workers' = [workers EXCEPT ![w] =
            [pc |-> "apply", ev |-> i, todo |-> outbox[i].parts,
             tries |-> outbox[i].attempts]]
  /\ UNCHANGED <<views, crashes, errors, replays>>

\* Mutant: the claim does not sort by created_at.
ClaimAny(w) ==
  /\ workers[w].pc = "idle"
  /\ \E i \in Claimable :
       /\ outbox' = [outbox EXCEPT
            ![i] = Marked(@, "processing", "running", @.attempts + 1)]
       /\ workers' = [workers EXCEPT ![w] =
            [pc |-> "apply", ev |-> i, todo |-> outbox[i].parts,
             tries |-> outbox[i].attempts + 1]]
  /\ UNCHANGED <<views, crashes, errors, replays>>

Claim(w) ==
  /\ workers[w].pc = "idle"
  /\ \E i \in Claimable :
       /\ \A j \in Claimable : i <= j
       /\ outbox' = [outbox EXCEPT
            ![i] = Marked(@, "processing", "running", @.attempts + 1)]
       /\ workers' = [workers EXCEPT ![w] =
            [pc |-> "apply", ev |-> i, todo |-> outbox[i].parts,
             tries |-> outbox[i].attempts + 1]]
  /\ UNCHANGED <<views, crashes, errors, replays>>

\* The event the worker is applying; its payload never changes.
Claimed(w) == outbox[workers[w].ev]

Applying(w, kind) == workers[w].pc = "apply" /\ Claimed(w).kind = kind

ApplyUserJoined(w) ==
  /\ Applying(w, "user_joined")
  /\ views' = [u \in Users |-> IF u \in Claimed(w).parts
                               THEN Upsert(views[u], Claimed(w).seq) ELSE views[u]]
  /\ workers' = [workers EXCEPT ![w].pc = "applied"]
  /\ UNCHANGED <<outbox, crashes, errors, replays>>

ApplyUserLeft(w) ==
  /\ Applying(w, "user_left")
  /\ views' = [u \in Users |-> IF u \in Claimed(w).parts
                               THEN MarkLeft(views[u]) ELSE views[u]]
  /\ workers' = [workers EXCEPT ![w].pc = "applied"]
  /\ UNCHANGED <<outbox, crashes, errors, replays>>

\* One turn of the loop over participantIDs: the sender comes first.  The
\* first participant that is refused ends the loop with an error.
ApplyMessageToUser(w) ==
  /\ Applying(w, "message_sent")
  /\ \E u \in workers[w].todo :
       /\ Claimed(w).sender \in workers[w].todo => u = Claimed(w).sender
       /\ views' = [views EXCEPT ![u] = UpdateLastMessage(@, Claimed(w).seq)]
       /\ IF MessageAccepted(views[u], Claimed(w).seq)
          THEN workers' = [workers EXCEPT ![w].todo = @ \ {u}]
          ELSE workers' = [workers EXCEPT ![w].pc = "error"]
  /\ UNCHANGED <<outbox, crashes, errors, replays>>

\* After the loop: the sender has read its own message.
ApplySenderRead(w) ==
  /\ Applying(w, "message_sent")
  /\ workers[w].todo = {}
  /\ views' = [views EXCEPT ![Claimed(w).sender] = MarkRead(@, Claimed(w).seq)]
  /\ workers' = [workers EXCEPT ![w].pc = "applied"]
  /\ UNCHANGED <<outbox, crashes, errors, replays>>

\* A write of the projector fails; what it wrote before stays.
DatabaseError(w) ==
  /\ workers[w].pc = "apply"
  /\ errors < MaxErrors
  /\ errors' = errors + 1
  /\ workers' = [workers EXCEPT ![w].pc = "error"]
  /\ UNCHANGED <<outbox, views, crashes, replays>>

---------------------------------------------------------------------------
\* Complete and Retry look the event up by its id and the status processing
\* only: nothing tells whether it is still this worker's claim.
UpdateProcessing(i, status, timer) ==
  IF outbox[i].status = "processing"
  THEN [outbox EXCEPT ![i] = Marked(@, status, timer, @.attempts)]
  ELSE outbox

Complete(w) ==
  /\ workers[w].pc = "applied"
  /\ outbox' = UpdateProcessing(workers[w].ev, "completed", "off")
  /\ workers' = [workers EXCEPT ![w] = Idle]
  /\ UNCHANGED <<views, crashes, errors, replays>>

Retry(w) ==
  /\ workers[w].pc = "error"
  /\ outbox' = IF workers[w].tries >= MaxAttempts
               THEN UpdateProcessing(workers[w].ev, "failed", "off")
               ELSE UpdateProcessing(workers[w].ev, "pending", "running")
  /\ workers' = [workers EXCEPT ![w] = Idle]
  /\ UNCHANGED <<views, crashes, errors, replays>>

\* The worker's process stops, or the call of Complete or Retry fails: the
\* claim stays in the database and nobody holds it.
Crash(w) ==
  /\ workers[w].pc # "idle"
  /\ crashes < MaxCrashes
  /\ crashes' = crashes + 1
  /\ workers' = [workers EXCEPT ![w] = Idle]
  /\ UNCHANGED <<outbox, views, errors, replays>>

\* The back-off of a pending event ends, or a claim becomes a minute old.
TimePasses(i) ==
  /\ i \in DOMAIN outbox
  /\ outbox[i].status \in Unsettled /\ outbox[i].timer = "running"
  /\ outbox' = [outbox EXCEPT ![i] = Marked(@, @.status, "off", @.attempts)]
  /\ UNCHANGED <<workers, views, crashes, errors, replays>>

\* The replay command, one UpdateMany over the chat's settled events.  The
\* attempts are not reset.
Replay ==
  /\ replays < MaxReplays
  /\ \E i \in DOMAIN outbox : outbox[i].status \in Settled
  /\ replays' = replays + 1
  /\ outbox' = [i \in DOMAIN outbox |->
                  IF outbox[i].status \in Settled
                  THEN Marked(outbox[i], "pending", "off", outbox[i].attempts)
                  ELSE outbox[i]]
  /\ UNCHANGED <<workers, views, crashes, errors>>

ProcessOne(w) ==
  \/ Claim(w)
  \/ ApplyUserJoined(w)
  \/ ApplyUserLeft(w)
  \/ ApplyMessageToUser(w)
  \/ ApplySenderRead(w)
  \/ Complete(w)
  \/ Retry(w)

OutboxNext ==
  \/ \E w \in Workers : ProcessOne(w)
  \/ \E w \in Workers : DatabaseError(w)
  \/ \E w \in Workers : Crash(w)
  \/ \E i \in DOMAIN outbox : TimePasses(i)
  \/ Replay

OutboxTypeOK ==
  /\ outbox \in Seq(Event)
  /\ workers \in [Workers -> Worker]
  /\ \A w \in Workers : workers[w].pc # "idle" => workers[w].ev \in DOMAIN outbox
  /\ views \in [Users -> View]
  /\ crashes \in 0..MaxCrashes
  /\ errors \in 0..MaxErrors
  /\ replays \in 0..MaxReplays

---------------------------------------------------------------------------
\* The part of an event's effect that no later write takes back.
Reflected(e) ==
  /\ e.kind = "message_sent" =>
       /\ \A u \in e.parts : views[u].last >= e.seq
       /\ views[e.sender].read >= e.seq
  /\ e.kind = "user_joined" =>
       \A u \in e.parts : views[u].state # "absent" /\ views[u].read >= e.seq

\* An event the worker completes has had its whole effect: every participant
\* of a completed message shows it or a later one, the sender has read it, and
\* every completed join left a view that starts no earlier than the join.  It
\* has to survive claims that expire under a slow worker, two workers applying
\* one event at once, crashes in the middle of the fan-out, and replay, since
\* Complete asks only for the status processing (outbox.go Complete).
CompletedReflected ==
  \A i \in DOMAIN outbox : outbox[i].status = "completed" => Reflected(outbox[i])

\* No write of the projector or of the read API moves a view's summary or read
\* position back, whatever the order, repetition or interleaving of the events
\* (UpdateLastMessage, MarkRead and Upsert of the conversation repository).
ViewsNeverRegress ==
  [][\A u \in Users : Advances(views[u], views'[u])]_views
===========================================================================
