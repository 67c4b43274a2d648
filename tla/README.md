# Verification of d-im

d-im is an instant messaging backend in Go with a web client.  A *gateway* process
serves HTTP, consumes requests from NATS and works off an outbox; a *connector*
process holds the users' WebSockets; a *repair* command rebuilds the conversation
lists; MongoDB (a replica set) holds the state; NATS core carries requests and
pushes, at most once.  This directory models the parts whose correctness depends on
the order of steps of several actors.

## The system

Paths are under `src/backend`.

| part | state | operations | what makes it correct |
|---|---|---|---|
| conversation views (`internal/conversation/repository`) | one document per user and chat: left or not, last message, read position | Upsert, BatchUpsert, UpdateLastMessage, MarkRead, MarkLeft, SetTop, SetMuted | positions never move back, in any order of updates |
| outbox and worker (`internal/conversation/outbox`, `projector`) | events with status, attempts, next attempt, claim time | Add (in the business transaction), Claim, Complete, Retry, Replay; the worker's loop | every event takes effect at least once and settles; membership events in order |
| repair (`internal/conversation/repair`) | – | rebuild the views of a chat from its group, members and last message | heals what faults left behind, and does no harm beside the running system |
| group membership (`internal/group/service`) | group (status, owner, count), members with roles | create, join, invite, leave, kick, set role, transfer, dismiss | one owner; count = rows; views follow membership |
| group profile (`internal/group/service`, `adapter`, `avatar`) | name, announcement, settings, avatar of a group | update info, announcement, settings, avatar; drawing an avatar; pushing the document to members | members see what was announced unless an event or push is lost; settings and a chosen avatar are not lost |
| message sending (`internal/message/service`) | chat sequence number, messages, mailboxes | Send (resolve, number, store + event, mailboxes, push), repeated send, forward, recall | one message per client id, unique numbers, what is pushed is kept until it expires |
| message content (`pkg/types/content.go` and two parsers) | – | parse, validate, preview | what one parser accepts the next one knows (a type and a flag in `MessageDelivery`) |
| lists (message, conversation and group handlers) | – | history, search, conversations, members, groups, page after page | pages neither repeat nor leave out |
| single chats (`internal/chat`) | chat documents with a key for each pair | ensure single chat | one chat for each pair |
| connector (`internal/connector/ws`, `cmd/connector`) | map of clients, two channels, send buffers | register, unregister, pumps, push, close | the newest connection is reachable; a lost one is released |
| offline push (`internal/push`) | records | push when no connection took the message | not both online and offline |
| user snapshots (`internal/user`) | user document with a version | put a version | the newest version wins |
| rate limiter (gateway middleware, around authentication) | a token bucket for each remote address with its port | allow, clean up | no more than the rate |
| event bus (`pkg/eventbus`) | queues of JetStream or RabbitMQ | publish, deliver, ack, retry, dead letter | no event vanishes while it has tries left, but for what a bus loses as it is published |
| web client (`web/src`) | stores in one browser | – | – |

The parts meet in the database and on NATS.  A group or message service writes its
own collections and an outbox event in one transaction; the worker of any gateway
claims the event and writes the views; the group service also publishes, after its
commit, a request to send a system message, which every gateway that is up turns into
an ordinary send, and an event from which a consumer pushes the group's document to
the members.  The read API and the repair command write the views directly.  A send
publishes a push for each recipient, which one connector takes and hands to the
connections it has, or passes on for an offline push.

Hard behaviours: workers of several gateways on one outbox, claims that expire under
a working worker, crashes between two writes, retries with back-off, replay by an
operator, a repair beside all of it; requests lost, repeated or handled twice; state
read before a transaction or between two calls and used in it; two channels read in
either order; buffers and buckets at their limit; lists that change while they are
paged.  `PROJECT.json` lists each with its line and the properties that are for it.

## Modules

| module | models |
|---|---|
| `ConversationView` | one view document and its updates, as functions on a record |
| `ConversationOutbox` | the outbox of a chat, its workers, the views they write |
| `ConversationProjection` | a group chat that publishes to that outbox: membership, sends, the read API; the properties |
| `ConversationRepair` | the repair command on that chat, beside the workers, members and senders |
| `EventDelivery` | what an outbox promises: at-least-once delivery, stated without workers, claims or time |
| `GroupMembership` | one group: roles, owner, member count, capacity and settings, under concurrent transactions and requests without one; the properties |
| `GroupRegistry` | what a group's membership promises, with every request served alone |
| `GroupProfile` | the document of one group, the requests and drawing goroutines that write it, the consumers that push it |
| `MessageDelivery` | one chat's sends in several gateways: request, number, message and event, mailboxes, pushes; recall, forward, dismissal, expiry |
| `Connector` | the connectors of one user's devices: registration, pumps, buffers, pushes, offline push |
| `Paging`, `RateLimiter`, `UserSnapshots`, `EventBus`, `SingleChat` | five small parts that share no state |
| `MCConversationProjection`, `MCConversationRepair`, `MCGroupMembership`, `MCGroupProfile`, `MCMessageDelivery`, `MCConnector`, `MCGatewayParts` | instances for TLC |
| `ConversationProjection_proofs`, `ConversationSummaries_proofs`, `ConversationRepair_proofs`, `GroupMembership_proofs`, `GroupProfile_proofs`, `MessageDelivery_proofs`, `Connector_proofs`, `GatewayParts_proofs` | theorems |

`ConversationRepair` extends `ConversationProjection`, which extends
`ConversationOutbox`, which extends `ConversationView`, and the proofs build on one
another in the same order; `EventDelivery` and `GroupRegistry` are instantiated with a
refinement mapping.

Some operations appear in two modules, each time with the detail its properties need.
`ConversationProjection` takes a membership transaction as one step and follows the
events it writes; `GroupMembership` opens the transaction and follows the group
document and the rows; `ServesOneByOne` is why the first may take it as one step.
`ConversationProjection` follows the conversation event of a Send, and
`MessageDelivery` its client id, mailboxes and pushes; `PushedIsKept` and
`MailboxAgreesWithEvent` relate the two.

### How the model corresponds to the code

*Views.*  `last` is `last_msg.seq` and `total_msg_count`, which one update sets from
the same number; `read` is `last_read_seq`.  Sequence numbers start at 1, so 0 is an
absent field, as in the repository's filters.  Each update is one MongoDB operation
on one document and one function here.  `UpdateLastMessage` makes a second read when
its filter matches nothing; what can come between the two reads can only turn the
answer into an error, and `DatabaseError` gives that too.

*Outbox.*  The position of an event in `outbox` is its `created_at`.  Membership
events are created after their transaction has taken the write on the group document,
so they are created in the order of their commits.  The event of a message may be
created shortly before another transaction commits and become visible after it; the
model places it at its commit.  It can then be applied later than the code might,
never earlier than the code could, and summaries commute (`MessagesCommute`).
One `timer` per event stands for `next_attempt_at` (pending) and `claimed_at` plus a
minute (processing): `TimePasses` ends it at any moment, so back-off times and the
speed of workers are arbitrary, and a claim may expire while its worker is at work.
The worker's `Claim`, each of the projector's writes, and `Complete` or `Retry` are
separate steps, since each is one call of the database.  `Crash` stands for a process
that stops and for a failing `Complete` or `Retry`: either way the claim is left.

*Group and sends in the projection.*  A transaction is one step.  `Join` stands for
JoinGroup and for each user AddMembers adds, `Leave` for LeaveGroup and KickMember,
`Dismiss` for DismissGroup and the last member's LeaveGroup.  `Announce` is any other
operation that asks for a system message.  `Send` is four steps, `SendUserMessage` or
`SendSystemEvent` (permission and recipients), `TakeSeq`, `Store`, `SendAgain` for
a repeated `client_message_id`; it may stop after any of them.  A request on
`im.message.send` may be lost (`Notify`) or handled by several gateways.

*Repair.*  The command reads the group, then its members, writes their views one by
one, reads the views and marks those of others left, reads the latest message and
projects it user by user: each read and write is a step, and a failing call ends it
(`StopRepair`).  A group that is not active is never repaired.  `RepairAll` is the same
for one chat after the other and stops at the first error.

*Group membership.*  `status`, `owner`, `count`, `joining` and `inviting` are the
fields of the one `groups` document; `roles` is `group_members`, with "none" for a user
without a row.  A MongoDB transaction reads one snapshot and is aborted when a document
it writes has been written since, so it is two steps: a request (`JoinGroup`,
`AddMembers`, `LeaveGroup`, `KickMember`, `TransferOwner`, `DismissGroup`) reads, checks
and decides all its writes, and `Commit` applies them.  Whoever writes a document first
wins, and the driver runs the loser again from a new snapshot; `Unconflicted` closes
the losers, and a closed transaction may begin again.  What a transaction reads and does
not write can change unnoticed, as it can under MongoDB: a kick may commit after its
operator has lost the role.  `SetMemberRole` and `UpdateSettings` use no transaction:
`ReadGroup`, `CheckOwner` or `CheckPrivileged`, and `SetRole` or `WriteSettings` are
their database calls, and `GiveUp` is an error between them.  `UpdateInfo`,
`SetAnnouncement` and the avatar's writes touch fields no one there reads: they appear
as the transactions they abort (`Abort`).  `FirstJoinedExcept` orders by `joined_at`,
which each gateway takes from its own clock, so the model lets any other member be next.
`joining` is "free" when the group is public and its method is free, the only
combination that admits.  `Init` has any number of founders, since `CreateGroup` does
not compare it with `max_members`.

*Group profile.*  `doc.rev` counts the writes of the group document.  A request is its
database calls: the permission and the settings it read (`base`), the check of the
service, the write, the publication; it may stop after any of them.  A settings PATCH
reads all settings, changes those it names and writes all of them, and publishes
nothing.  `roster` is in the order of `joined_at`, which the avatar follows; `jobs` are
the goroutines that draw it, started after a creation or a change of members, at any
speed.  A `consumer` of `dim.group.*` lists the members, then reads the group and publishes one
push after the other with the document as it was read; it serves one event at a time
and the events of several consumers overlap.  Every loss of the code is there: the
publication of an event (`Publish`), a list or a group that cannot be read (`ListFails`,
`HandlingFails`), a gateway that stops among the pushes (`HandlingFails`), a push that
cannot be published (`PushFails`); nothing is tried again.  `seen` is the revision pushed
to a member last, which may be older than the one before.

*Message delivery.*  `SendMessage` only checks and publishes; every gateway that is up
gets the request in the queue of its subscription (`inbox`) and serves one at a time,
while a forward calls `Send` in its own goroutine.  Each `Send` is its calls: the
lookup of the client id, permission and recipients (`Resolve`), the number, the
transaction that stores the message and its event (where the unique index may refuse
it), the mailboxes, the pushes.  A gateway may stop between any two, and its queue goes
with it; a call may fail; a publication reaches some of the gateways (`ReachesSome`) and
whoever published it is not told.  `Resolve` asks once more whether the group is active,
as `FindActiveByChatID` does in every check of the sender and in the list of members, so
a `Dismiss` between acceptance and processing loses the request.  `Expire` is the index
on `created_at`, which removes a message after ninety days, and with it what the unique
index knows of its client id; its mailbox rows, which no index removes, stay.  Ninety
days are longer than a Send: that is the one condition on `Expire`.  `muted` stands for all three ways of muting (the settings'
`muted_members` and `is_muted_all`, a member's `is_muted`), which a `Send` treats alike.

*Connector.*  A connection is its two pumps, its buffer and the flag `closed`;
`register` and `unregister` are the channels of the manager, whose one goroutine takes
from either.  A registration replaces the device's entry in the map and leaves the
replaced connection open; an unregistration removes the entry only if it is its own.
`HandlePush` takes a push from the connector's subscription and fills the buffers it
can; a full one drops the push and counts as sent; if the map has no client of the user
the push goes to the offline subject, unless that fails, which is only logged.  A push may
reach no connector.  The mutexes are held within single steps.

*Small parts.*  `Paging`: a cursor holds what the code encodes in it; a page is the
rows the query's filter finds whose places in its sort lie between skip and skip +
limit (the order within a page, which a client keeps, is left out); and rows come, go
and move between two requests;
`RateLimiter`: `allow` and `cleanup` each under the mutex, time in whole units;
`UserSnapshots`: up to three database calls (update an older version, find, insert) for
each PUT; `EventBus`: JetStream counts deliveries and RabbitMQ carries the failures in
a header, with crashes, lost acks and lost publications: NATS stores an event before
`Publish` returns, RabbitMQ is asked for no confirmation and drops what it cannot route; `SingleChat`: each call is a
transaction on a snapshot with a unique key.

*Content* is a type and whether `Validate` accepts it; the types are listed three times
in the code and three times in `MessageDelivery`.

## Runs

| run | instance | shows |
|---|---|---|
| `projection_faults` | 2 users, both founders, 2 messages and a system message, 1 worker, 2 events, a crash, a replay | a completed event has had its effect; every summary is a message stored for that user; nothing is read before it exists; views never move back |
| `projection_recovery` | 2 users, 1 message, 2 workers, 2 events, a crash, fair workers | the outbox implements `EventDelivery`, its liveness included; every event settles |
| `projection_repair` | 2 users, 1 message and a system message, 1 worker that gives up at the first error, 3 events, an error, a repair | a repair that no change of membership overlapped leaves every view true; it is refused only by such a change; with one worker and without faults no repair is needed; it moves no view back |
| `group_membership` | 4 users, room for 3, 2 transactions, 1 other request | the count is exact; only the named owner has the role; owners leave by handing over; the effect is that of requests served one by one (`GroupRegistry`) |
| `message_delivery` | 2 users, 2 gateways, 3 requests (one repeatable, one with an empty text, one system event), 2 repeats, forwards, changes of muting or dismissals, a fault (stop, error, lost publication, departure or expiry) | one message for a client id; one number for a message, also after it expired; mailboxes and event agree; what is pushed is kept, and a stored message stays, until it expires; an accepted request becomes a message unless the group is dismissed, its sender may no longer send or no gateway got it |
| `connector_push` | 2 connectors, 2 connections of a device, buffers of 1, 2 pushes, 2 lost connections | the newest connection is reachable; only an overtaken end leaves a ghost; pushes arrive in order and once; online or offline, not both; a lost connection is released |
| `group_profile` | 2 users, avatars of 1 member; either 2 requests, 3 drawing goroutines, 4 revisions and no consumer, or 1 request, 2 goroutines, 2 consumers, 3 revisions and any loss | unnamed settings are kept; a drawn avatar shows the members; a chosen avatar gives way only to a goroutine that had looked before; members see what was announced unless a loss or a late push left them behind |
| `gateway_parts` | lists of 3 rows with pages of 1 and 2 (a limit of 3 is cut to 2), 2 changes; a bucket of 2 over 6 units; 3 writers, versions to 3; 2 events with 2 tries and 2 faults; 3 people, 3 calls | the properties of the five small parts |
| `crash_reorders` | 2 users, 1 worker, a crash | **violated**: a reclaimed membership event is applied after a later one |
| `leaver_blocks` | 3 users, a system message | **violated**: the message that announces a departure never reaches the conversations |
| `owner_demoted` | 3 users, 2 transactions, 1 other request | **violated**: `SetMemberRole` takes the role from a user who became owner after it read the group |
| `conversation_pages` | conversations that nobody writes | **violated**: a conversation never pinned is missing from every page but the first |

The four violated properties are statements of the repository's documents and
comments, quoted in `PROJECT.json`.

*Why the bounds are enough.*  `MaxAttempts` is 2 in the first two runs instead of the
code's 20: one retry and the last attempt; 1 in the third, so that an event is given up
and the repair has something to heal.  Two events of one user suffice to put membership
events out of order, two messages to put summaries out of order, and one crash, error
and replay each to interrupt any step of an event.  `projection_faults` has one worker,
so that both messages, the crash and the replay fit in one instance; that a second
worker, or an expired claim under a working one, changes nothing is in
`projection_recovery` for the delivery and in the proofs for all its properties.  Four
users let two admissions compete for one place in a group that also has an owner and
an admin.  Two gateways are enough for a request served twice at once, and three
requests for a repeat, a refusal and a request without a client id; one fault is one more
than none at any step, and `AcceptedIsStored` holds for one only, since two may take the
request from both gateways.  A device that
reconnects has two connections, and a buffer of one is full at once.  An avatar of one
member is left alone by a change of the second.  What is pushed does not depend on
settings, nor settings and avatars on what is pushed: a behaviour of `group_profile` is of
one of two parts, each with the actors its properties are about.  Three revisions let
one consumer push an older document over a newer one.  Pages of one row put a page boundary
between any two of three rows.  `MaxDeliver` 2 is one retry and the last try.  In the
first three runs messages and workers are symmetric, in `group_membership` and
`group_profile` users or slots; runs with a liveness property use no symmetry.

Deadlock is not checked: with its bounds used up a model may stop, and so may a chat
that nobody writes in or a group that is dismissed.

*Fairness.*  `Worker.Run` loops in every gateway until its context ends, so each
worker's next step is weakly fair; time passes, so each timer is.  A gateway that is up
goes on with its subscription and with each Send it has begun.  The goroutines of a
connector run, and Go's `select` is fair, so a channel that stays ready is chosen.
Nothing obliges a user to send, join or connect, an operator to replay or repair, or a
stopped gateway to come back; crashes and errors are bounded.

## Proofs

Each holds for every set of users, messages, workers, gateways, connections and so on,
and for every bound, from the named assumptions on constants only.

*Projection* (the set of users is finite, `ProjectionAssumption`, since `DismissGroup`
lists the members; the bounds are numbers, `OutboxAssumption`).
`ConversationProjection_proofs` begins with the updates of one view: each yields a
view and moves it forward (`UpdatesAdvance`), is idempotent (`UpdatesIdempotent`), and
summaries commute (`MessagesCommute`).  Then `TypeCorrect`, `ReadStaysWithinChat`,
`CompletedIsReflected`, `ViewsOnlyAdvance`, and the refinement `OutboxDelivers`.

They follow from one inductive invariant, `IInv`.  That a completed event has had its
effect is not inductive: the step that completes it looks only at the status.  `IInv`
adds what each worker has achieved (`WorkersProgress`): the participants it is done
with show the message, and once it is `applied` the whole effect is there.  This stays
true under any step of anyone because views only advance (`UpdatesAdvance`) and the
payload of an event never changes (`Rewritten`), so an expired claim, a second worker
on the same event or a replay cannot take it away.  `EventsWellFormed` (the sender of
a message is among its participants, no event is ahead of the chat) gives the sender's
read position and `ReadWithinChat`.  The proof goes by shapes of steps: what a step
does to the outbox (`OutboxStep`), to the views (`ViewsStep`) and to the workers
(`OneWorker`), each by cases on the actions, then the invariant from the shapes
(`NextInvariant`).
`OutboxDelivers` adds what a step does to the results (`ResultStep`): it publishes or
writes views and settles nothing, or it marks events in one of three ways, which are a
stutter, `Finish` or `GiveUp` of one event, or `Reopen` of `EventDelivery`.  That an
event is in the views before it is completed comes from `IInv`; that a second `Complete`
settles nothing twice, from the status the code asks for.

`ConversationSummaries_proofs`: `SummariesAreAddressed`.  A view is written from the
copy of a message in an event, by a worker that read the event earlier, so the
invariant (`SummaryInv`) follows a message along that way: what an event names is
backed by a stored message sent to each of its participants (`EventsBacked`), what a
worker has left to do are participants of its event (`TodoWithin`), and so what a view
shows is backed.  It lasts because what is stored is never taken back (`BackedStays`).

*Repair.*  `ConversationRepair_proofs`: the invariant of the projection holds with the
command at work too (`RepairKeepsInvariant`), because each of its writes is one the
repository has and so only advances a view (`EnsureIsUpsert`, `WriteKeepsInvariant`);
hence `RepairsOnlyAdvance`, `CompletedSurvivesRepair` and `RepairDelivers`.

`RepairHeals` and `RefusalMeansChange` follow from `HealInv`.  As long as no change of
membership overlaps the repair (`calm`), it says what the command has achieved at each
of its steps (`Healed`): the users it read are the members; those it is done with see
the conversation; after `ReadViews` the others who see it are still in its list; in
the end those it is done with show the message.  Others write views meanwhile, but
only a worker that applies an event of membership changes who sees the chat
(`StateMovers`), and none is at work (`AtRest`).

`ConvergesUnfaulted` rests on the order of all events (`UnfaultedInv`).  With one worker
and no fault, an event of membership is claimed only when all before it are completed,
since the claim takes the first that is claimable, and none of them ever waits for a
retry (`TakesItsTurn`, `WorksInTurn`, `Orderly`).  So the views follow the events applied
so far, and the members all events published (`ViewsFollow`, `MembersFollow`): for each
user the last of them says whether the user is in.  That a message is given up only
because of a leaver needs that everybody a message is sent to joined before it
(`PeopleKnown`): then the view is there when the message's turn comes, unless its user
has left.

*Membership* (the set of users is finite and neither the group document nor `Nobody` is
one of them, `MembershipAssumption`).  `GroupMembership_proofs` proves
`MembershipTypeCorrect`, `CountIsExact`, `OwnerIsUnique`, `OwnerHandsOver` and the
refinement `RefinesRegistry`.  None is inductive: a commit applies writes decided in an
earlier state.  The strengthening (`IInv` there, with `Sound` and `Legal`) says that the
writes of an open transaction, applied to the group as it is now, give the right count,
one owner and a step `GroupRegistry` allows.  It survives because of two facts about the
code: every transaction that writes at all writes the group document, so a commit leaves
no other one open (`NothingStaysOpen`); and the only write to rows outside transactions,
`SetRole`, keeps the row's user a member, never makes an owner and aborts the
transactions that write the same row (`SetRoleKeeps`).  Each request then needs one
lemma, that what it decides is sound (`AdmitSound`, `RemoveSound`, `LeaveOwnerSound`,
`TransferSound`, `DismissSound`).

*Delivery* (requests are well-formed, `DeliveryAssumption`).  `MessageDelivery_proofs`:
`DeliveryTypeCorrect`, `OneMessagePerClientId`, `OneMessagePerNumber`,
`MailboxesMatchEvents`, `PushesAreKept`, `MessagesStay`.  The invariant behind them,
`DeliveryInv`, adds to the types what each Send between its calls may rely on (`Flow`):
the number it took is no other Send's and no message's until it stores, after the store
the message is there with the recipients it holds, and until the mailboxes are written
nothing is in them or pushed under that number.  Its statements are about every message
ever stored (`EverStored`): one that expires leaves `messages`, and nothing that was said
of its number, mailboxes and pushes changes; a number comes from the chat, which never
goes back, so what expired does not come back under the same one.

*Connector* (`ConnectorAssumption`).  `Connector_proofs`: `ConnectorTypeCorrect`,
`NewestStaysReachable`, `GhostsAreOvertaken`.  `MapInv` ties the map to the two
channels: who waits in `register` was opened at this connector and is not closed unless
its end overtook its beginning (`Registering`), who is in the map was opened here for
this device (`Held`), and who waits in `unregister` has stopped reading (`Ending`).
`ReceivedStaysInOrder` and `OnlineXorOffline` follow from `PushInv`: a push is in one
place, waiting, handed to clients or passed on (`PlacesInv`), the topic is ascending
(`QueuesInv`), and what waits in a buffer follows, in the topic's order, what its
connection has received (`OrderInv`).

*Group profile* (`ProfileAssumption`).  `GroupProfile_proofs`: `MembersAreTold`,
`SettingsAreKept`, `ChosenAvatarsStay`.  `ProfileInv` says of each member who has not
seen the last announced revision who still owes it to them (`Told`): an event that waits,
a consumer that has listed them and has read, or is about to read, a recent document
(`Carries`), a change of the members that is about to be announced; or a loss or a late
push has left them behind (`missed`).  Each loss enters `missed` whoever it was for, and
a push of the last announced document takes a member out again, so the exception lasts
only as long as the harm.  For the avatar, no goroutine that
found a chosen one goes on to draw (`ChosenWhileDrawing`).

`AvatarsShowMembers` and `ProfileTypeCorrect` follow from `AvatarInv` and `TypesInv`:
unless the avatar was drawn last from a list out of date or could not be drawn
(`outdated`), it shows the members that come first now or a goroutine still owes it
(`Owes`).  The roster is a sequence, so that it repeats nobody is part of the types;
it rests on the founders being distinct and not empty (`uniqueNonEmpty`,
`group_service.go:101`) and on the values a settings request may carry (`OpsAssumption`).

*Small parts* (`SnapshotsAssumption`, `LimiterAssumption`, `BusAssumption`,
`PagingAssumption`).
`GatewayParts_proofs`, each for its part alone.  Snapshots: `AcknowledgedStays`,
`StaleIsOlder`, `VersionsOnlyAdvance`, from what each PUT has learnt of the stored
version so far (`Progress`).  Rate limiter: `RateIsKept`; what was served and the tokens
left never exceed the burst and what the time since has brought (`Budget`), also when
cleanup forgets a bucket, because a bucket idle for so long is full again (`Rate *
Cleanup >= Burst`, as in the code).  Event bus: `NoEventVanishes`, `DeadLettersWereTried`,
from where the copies of an event are (`OneCopy`) and how often it was tried
(`TriedInv`); what is given up (`GivenUp`) on JetStream has had all its tries, and on
RabbitMQ had a copy lost as it was published.  Single chats: `OneChatForTwo`, from the unique key (`OneForEachKey`).
Lists: `SteadyRowsAreReadOnce`, from `PagingInv`: of the rows nobody wrote, the client
has received those before its cursor (`CursorCounts`) or before its offset
(`OffsetCounts`) and no others.  It rests on three lemmas about the pages: each sort is
a strict order, total on rows of different ids (`SortOrders`), so rows have the places
0, 1, 2, ... in it (`Places`), and a page that is not full reaches the end
(`SliceSize`); and on the condition of a cursor finding what the sort puts after its
row (`PastAfterRow`), which is false for a row without `is_top`.

Every safety property and every action property of the passing runs is stated by a
theorem.  Only model-checked is everything temporal under fairness (`AllSettle`, the
liveness part of `DeliversEvents`, `AcceptedIsStored`, `LostIsReleased`), which the
prover does not reach.

## What the models show of the code

Besides the four violated statements, the properties above are as weak as the code
makes them; where one has an exception, the exception is real.

- A repair that races a change of membership can undo it (`calm` in
  `RepairedConverges`).  `Replay` is not safe for membership events either: it may put
  an old one after a newer one of the same user (`NoFault` in `UnfaultedConverges`).
  Nor are two gateways: the worker of one may claim an event of a user while that of
  the other still applies the one before it, and finish first, without any fault
  (`SingleWorker`).
- A repair shows the last message to the members it has listed, whoever that message
  was sent to: also to a user who left before it was stored.  So `SummaryAddressed` is
  stated of the workers alone and does not hold beside a repair.
- The handler parses a content but does not validate it, so an accepted message may be
  refused later without an answer.  A gateway that stops between the store and the
  mailboxes leaves a message that a repeat finds stored and does not distribute
  (`send_service.go:254`; `broken` in `MailboxAgreesWithEvent`).  A request without a
  client id, such as a system event, is stored once by every gateway.  A request that
  waits while its group is dismissed is dropped, as is one that reaches no gateway; the
  client has been told that it is accepted.  The announcement of a dismissal
  (`composite_event_adapter.go:17`, `event_publisher.go:123`) is always dropped so: it is
  published after the group has ceased to be active (`member_service.go:547`).  After ninety days a message is gone, but not
  its mailbox rows, and a client id may name a second message.
- A connection whose end is read before its beginning stays in the map as a ghost, and
  its user counts as online (`overtaken`).  A push dropped at a full buffer counts as
  sent.  A user connected elsewhere gets an offline push from a connector that does not
  have the connection, or none if that publication fails.
- Two settings requests that overlap lose one another's changes; a chosen avatar is
  overwritten by one that was being drawn, and a newer drawing by an older one
  (`outdated`); two consumers may push an older document last to a member, and an event
  or a push that is lost is not repeated (`missed`); settings changes publish nothing.
- A page of history read while a smaller number is still being stored misses it.  A
  dismissed group shortens the pages of ListGroups, and rows that cross an offset are
  repeated or left out (`disturbed`).
- A snapshot whose user is first stored while it is under way may be refused as stale
  although it is the same version (`user_repo.go:69`).
- A JetStream event whose last try gets no answer is neither redelivered nor a dead
  letter (`cut`); a RabbitMQ event is lost if it, its next try or its dead letter does not
  reach a queue, of which nobody is told (`lost`).

## Not modelled

- *Authentication.*  Tokens are checked without any state; each request stands alone.
- *Media upload and storage, the picture of an avatar.*  One write for each request,
  nothing shared; an avatar is the members it shows.
- *Caches and the dispatcher* are used by no process, as are the bus in memory (an
  example only) and the duplicates of the membership operations in `group_service.go`.
- *The web client.*  Its state lives in one browser and is rebuilt from the API.
- *The text of a push and its provider.*  `Connector` has the record of the result; no
  process starts the consumer.
- *Parsing and formatting* of requests and responses, the wording of system messages,
  lengths and addresses in contents, the two minutes within which a recall is allowed
  (a recall may come at any time).
- *Retention elsewhere.*  Completed events are removed after seven days, which takes away
  settled events only.  Messages expire in `MessageDelivery`; in the modules of the
  projection, its repair and the lists they stay, so these say nothing of a chat whose
  last message is older than ninety days (a repair then finds no message to show).
- *A failover of MongoDB.*  A write that was acknowledged stays; the code says nothing of
  its write concern.  NATS core delivers a message at most once to each subscription.
