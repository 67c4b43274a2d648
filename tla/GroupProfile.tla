--------------------------- MODULE GroupProfile ---------------------------
(***************************************************************************)
(* The document of one group and who is told when it changes: requests     *)
(* that read it, decide and write it back, the goroutines that draw the    *)
(* group's avatar from its first members, and the consumers of dim.group.* *)
(* that push the document to the members.  Roles and counts of members are *)
(* in GroupMembership.  Name, description and announcement are one thing   *)
(* here: a write of them is a new revision of the document.                *)
(***************************************************************************)
EXTENDS Naturals, Sequences, FiniteSets

CONSTANTS Users,
          Founders,       \* the sequence of users the group is created with
          Admins,         \* users whose role is owner or admin
          JoinMethods, Default,   \* values of settings.join_method, the first one
          Requests,       \* requests under way at once
          Ops,            \* what a request may ask for
          Jobs,           \* goroutines that may draw an avatar
          AvatarMembers,  \* groupAvatarMemberLimit, 9 in the code
          Consumers,      \* one consumer of dim.group.* per gateway
          MaxRevs         \* bound: revisions of the document

\* uniqueNonEmpty gives CreateGroup its members, the owner first.
ASSUME ProfileAssumption ==
  /\ Founders \in Seq(Users) /\ Founders # <<>>
  /\ \A i, j \in DOMAIN Founders : Founders[i] = Founders[j] => i = j
  /\ Admins \subseteq Users /\ Default \in JoinMethods
  /\ AvatarMembers \in Nat \ {0} /\ MaxRevs \in Nat /\ "" \notin JoinMethods

VARIABLES active, roster, \* groups.status; group_members in the order of joined_at
          doc,            \* revision, avatar and settings of the group
          requests, jobs,
          waiting,        \* events no consumer has taken yet
          consumers,
          seen,           \* the revision pushed to each user last
          announced,      \* history: the revision when the last event was published
          missed,         \* history: users a loss or a late push has left behind
          outdated        \* history: the avatar was drawn from a list out of date, or could not be

docVars == <<active, roster, doc>>
pushVars == <<consumers, seen>>
eventVars == <<waiting, announced, missed>>
vars == <<docVars, requests, jobs, pushVars, eventVars, outdated>>

Settings == [join : JoinMethods, muted : BOOLEAN]
NoAvatar == [kind |-> "none", of |-> <<>>]
Chosen == [kind |-> "chosen", of |-> <<>>]
Drawn(s) == [kind |-> "drawn", of |-> s]

\* An avatar a member chooses has another address than drawn ones have:
\* shouldUpdateGeneratedAvatar tells them apart by it.  A PATCH of the settings
\* passes validJoinMethod, which an empty join_method passes as well.
ASSUME OpsAssumption ==
  \A op \in Ops :
    /\ op.kind = "avatar" => op.avatar \in {NoAvatar, Chosen}
    /\ op.kind = "settings" =>
         /\ "join" \in DOMAIN op.named => op.named.join \in JoinMethods \union {""}
         /\ "muted" \in DOMAIN op.named => op.named.muted \in BOOLEAN

\* firstAvatarMembers
First(s) == SubSeq(s, 1, IF Len(s) < AvatarMembers THEN Len(s) ELSE AvatarMembers)

Members == {roster[i] : i \in DOMAIN roster}

NoRequest == [pc |-> "idle", user |-> Founders[1], op |-> [kind |-> "none"],
              base |-> [join |-> Default, muted |-> FALSE],
              next |-> [join |-> Default, muted |-> FALSE]]
NoJob == [pc |-> "idle", before |-> <<>>, list |-> <<>>, sawChosen |-> FALSE]
NoEvent == [pc |-> "idle", to |-> {}, rev |-> 0]

\* After CreateGroup: the avatar has been drawn, or is about to be.
Init ==
  /\ active = TRUE /\ roster = Founders
  /\ doc \in [rev : {1}, avatar : {NoAvatar, Drawn(First(Founders))},
             settings : {[join |-> Default, muted |-> FALSE]}]
  /\ requests = [r \in Requests |-> NoRequest]
  /\ \E j \in Jobs : jobs = [i \in Jobs |-> IF i = j /\ doc.avatar = NoAvatar
                                           THEN [NoJob EXCEPT !.pc = "created"] ELSE NoJob]
  /\ waiting = 0
  /\ consumers = [c \in Consumers |-> NoEvent]
  /\ seen = [u \in Users |-> 0]
  /\ announced = 0 /\ missed = {} /\ outdated = FALSE

\* publishDomainEvent: the queue group gives each event to one consumer, which
\* takes it when it is done with those before, or nobody receives it: a failed
\* publication is logged, and NATS delivers at most once.
Publish ==
  /\ announced' = doc.rev
  /\ \/ waiting' = waiting + 1 /\ UNCHANGED missed
     \/ UNCHANGED waiting /\ missed' = missed \union Members

Silent == UNCHANGED eventVars

\* UpdateFields, UpdateAvatar: nothing is written to a group that was dismissed.
Update(d) == doc' = IF active THEN [d EXCEPT !.rev = doc.rev + 1] ELSE doc

\* The bound: revisions written and requests that may write one.
Room == doc.rev + Cardinality({r \in Requests : requests[r].pc # "idle"}) < MaxRevs

---------------------------------------------------------------------------
\* requireGroupMember, before the handler reads the body.
ReadGroup(r) ==
  /\ requests[r].pc = "idle" /\ active /\ Room
  /\ \E u \in Members, op \in Ops :
       requests' = [requests EXCEPT ![r] =
         [NoRequest EXCEPT !.pc = "read", !.user = u, !.op = op, !.base = doc.settings]]
  /\ Silent /\ UNCHANGED <<docVars, jobs, pushVars, outdated>>

\* Mutant: what the request does not name is taken from the defaults.
MergedOverDefaults(r) ==
  [f \in {"join", "muted"} |-> IF f \in DOMAIN requests[r].op.named
                               THEN requests[r].op.named[f] ELSE NoRequest.base[f]]

\* The handler of PATCH settings merges the request into what it has read.
Merged(r) ==
  [f \in {"join", "muted"} |-> IF f \in DOMAIN requests[r].op.named
                               THEN requests[r].op.named[f] ELSE requests[r].base[f]]

\* Mutant: an empty join_method is stored.
AnyJoinMethod(s) == s

\* An empty join_method, which validJoinMethod lets pass, means the present one.
WithJoinMethod(s) == IF s.join = "" THEN [s EXCEPT !.join = doc.settings.join] ELSE s

\* The service reads the group and the member once more and checks the role.
Permitted(r) ==
  /\ active /\ requests[r].user \in Members
  /\ requests[r].op.kind = "settings" => requests[r].user \in Admins

Check(r) ==
  /\ requests[r].pc = "read"
  /\ requests' = [requests EXCEPT ![r] =
       IF ~Permitted(r) THEN NoRequest
       ELSE IF @.op.kind = "settings"
       THEN [@ EXCEPT !.pc = "allowed", !.next = WithJoinMethod(Merged(r))]
       ELSE [@ EXCEPT !.pc = "allowed"]]
  /\ Silent /\ UNCHANGED <<docVars, jobs, pushVars, outdated>>

\* UpdateSettings writes the whole settings and announces nothing.
WriteSettings(r) ==
  /\ requests[r].pc = "allowed" /\ requests[r].op.kind = "settings"
  /\ Update([doc EXCEPT !.settings = requests[r].next])
  /\ requests' = [requests EXCEPT ![r] = NoRequest]
  /\ Silent /\ UNCHANGED <<active, roster, jobs, pushVars, outdated>>

\* UpdateInfo, SetAnnouncement
WriteInfo(r) ==
  /\ requests[r].pc = "allowed" /\ requests[r].op.kind \in {"info", "avatar"}
  /\ Update(IF requests[r].op.kind = "avatar"
            THEN [doc EXCEPT !.avatar = requests[r].op.avatar] ELSE doc)
  /\ requests' = [requests EXCEPT ![r] = IF active THEN [@ EXCEPT !.pc = "written"] ELSE NoRequest]
  /\ Silent /\ UNCHANGED <<active, roster, jobs, pushVars, outdated>>

AnnounceInfo(r) ==
  /\ requests[r].pc = "written"
  /\ requests' = [requests EXCEPT ![r] = NoRequest]
  /\ Publish
  /\ UNCHANGED <<docVars, jobs, pushVars, outdated>>

---------------------------------------------------------------------------
\* The transaction of JoinGroup, AddMembers, LeaveGroup or KickMember, which
\* moves member_count in the document.
ChangeRoster(j, new) ==
  /\ active /\ jobs[j].pc = "idle" /\ Room
  /\ roster' = new /\ Update(doc)
  /\ jobs' = [jobs EXCEPT ![j] = [NoJob EXCEPT !.pc = "committed", !.before = roster]]
  /\ Silent /\ UNCHANGED <<active, requests, pushVars, outdated>>

Join(u, j) == u \notin Members /\ ChangeRoster(j, Append(roster, u))

Without(s, i) == SubSeq(s, 1, i - 1) \o SubSeq(s, i + 1, Len(s))

Leave(u, j) ==
  \E i \in DOMAIN roster :
    roster[i] = u /\ Members # {u} /\ ChangeRoster(j, Without(roster, i))

\* Mutant: only the number of members counts.
ChangedLength(before, after) == Len(First(before)) # Len(First(after))

\* avatarAffectingMembersChanged
Changed(before, after) == First(before) # First(after)

\* After the commit: publishEvent, then maybeGenerateGroupAvatarAsync reads the
\* members and starts a goroutine if it is worth while.
AnnounceRoster(j) ==
  /\ jobs[j].pc = "committed"
  /\ jobs' = [jobs EXCEPT ![j] = IF Changed(@.before, roster)
                                 THEN [NoJob EXCEPT !.pc = "started", !.list = roster] ELSE NoJob]
  /\ Publish
  /\ UNCHANGED <<docVars, requests, pushVars, outdated>>

\* Mutant: a goroutine never looks at the avatar there is.
CheckNoAvatar(j) ==
  /\ jobs[j].pc \in {"created", "started"}
  /\ jobs' = [jobs EXCEPT ![j] = [@ EXCEPT !.pc = "drawing",
                !.sawChosen = (doc.avatar = Chosen),
                !.list = IF jobs[j].pc = "created" THEN roster ELSE jobs[j].list]]
  /\ Silent /\ UNCHANGED <<docVars, requests, pushVars, outdated>>

\* The goroutine leaves an avatar alone that was not drawn (shouldUpdate-
\* GeneratedAvatar).  That of CreateGroup reads the members only now.
CheckAvatar(j) ==
  /\ jobs[j].pc \in {"created", "started"}
  /\ jobs' = [jobs EXCEPT ![j] =
       IF ~active \/ doc.avatar = Chosen THEN NoJob
       ELSE [@ EXCEPT !.pc = "drawing", !.sawChosen = (doc.avatar = Chosen),
               !.list = IF jobs[j].pc = "created" THEN roster ELSE jobs[j].list]]
  /\ Silent /\ UNCHANGED <<docVars, requests, pushVars, outdated>>

\* GenerateAndStore and UpdateAvatar, whatever the avatar is by then.
WriteAvatar(j) ==
  /\ jobs[j].pc = "drawing"
  /\ Update([doc EXCEPT !.avatar = Drawn(First(jobs[j].list))])
  /\ jobs' = [jobs EXCEPT ![j] = IF active THEN [NoJob EXCEPT !.pc = "written"] ELSE NoJob]
  /\ outdated' = (First(jobs[j].list) # First(roster))
  /\ Silent /\ UNCHANGED <<active, roster, requests, pushVars>>

\* The avatar cannot be drawn or stored: that is logged and nothing else.
DrawingFails(j) ==
  /\ jobs[j].pc = "drawing"
  /\ jobs' = [jobs EXCEPT ![j] = NoJob]
  /\ outdated' = TRUE
  /\ Silent /\ UNCHANGED <<docVars, requests, pushVars>>

AnnounceAvatar(j) ==
  /\ jobs[j].pc = "written"
  /\ jobs' = [jobs EXCEPT ![j] = NoJob]
  /\ Publish
  /\ UNCHANGED <<docVars, requests, pushVars, outdated>>

\* DismissGroup; its event finds no active group and is pushed to nobody.
Dismiss ==
  /\ active
  /\ active' = FALSE
  /\ Publish
  /\ UNCHANGED <<roster, doc, requests, jobs, pushVars, outdated>>

---------------------------------------------------------------------------
\* handle takes an event, reads the members...
Taken(c, to) ==
  /\ consumers[c].pc = "idle" /\ waiting > 0
  /\ waiting' = waiting - 1
  /\ consumers' = [consumers EXCEPT ![c] = [NoEvent EXCEPT !.pc = "listed", !.to = to]]
  /\ UNCHANGED <<docVars, requests, jobs, seen, announced, missed, outdated>>

\* Mutant: only the first page of the members is read.
ListPage(c) == Taken(c, {First(roster)[i] : i \in DOMAIN First(roster)})

ListUIDs(c) == Taken(c, Members)

\* ... and gives the event up when they cannot be read, or the gateway stops...
ListFails(c) ==
  /\ consumers[c].pc = "idle" /\ waiting > 0
  /\ waiting' = waiting - 1 /\ missed' = missed \union Members
  /\ UNCHANGED <<docVars, requests, jobs, pushVars, announced, outdated>>

\* ... then the group as it is now: that of a dismissed group is not found...
FindGroup(c) ==
  /\ consumers[c].pc = "listed"
  /\ consumers' = [consumers EXCEPT ![c] =
       IF active THEN [@ EXCEPT !.pc = "read", !.rev = doc.rev] ELSE NoEvent]
  /\ Silent /\ UNCHANGED <<docVars, requests, jobs, seen, outdated>>

\* ... or it cannot be read, or the gateway stops among the pushes.  An event
\* is never taken twice.
HandlingFails(c) ==
  /\ consumers[c].pc # "idle"
  /\ consumers' = [consumers EXCEPT ![c] = NoEvent]
  /\ missed' = missed \union consumers[c].to
  /\ UNCHANGED <<docVars, requests, jobs, waiting, seen, announced, outdated>>

\* What is left of an event when u has had its push.
Rest(e, u) == IF e.to = {u} THEN NoEvent ELSE [e EXCEPT !.to = e.to \ {u}]

\* A push is published for each member listed, with the group as it was read:
\* one published before it by another gateway may have been newer.
PushTo(c, u) ==
  /\ consumers[c].pc = "read" /\ u \in consumers[c].to
  /\ consumers' = [consumers EXCEPT ![c] = Rest(@, u)]
  /\ seen' = [seen EXCEPT ![u] = consumers[c].rev]
  /\ missed' = IF consumers[c].rev >= announced THEN missed \ {u}
               ELSE IF consumers[c].rev < seen[u] THEN missed \union {u} ELSE missed
  /\ UNCHANGED <<docVars, requests, jobs, waiting, announced, outdated>>

\* The push cannot be published: that is logged, and the next one follows.
PushFails(c, u) ==
  /\ consumers[c].pc = "read" /\ u \in consumers[c].to
  /\ consumers' = [consumers EXCEPT ![c] = Rest(@, u)]
  /\ missed' = missed \union {u}
  /\ UNCHANGED <<docVars, requests, jobs, waiting, seen, announced, outdated>>

Next ==
  \/ \E r \in Requests :
       ReadGroup(r) \/ Check(r) \/ WriteSettings(r) \/ WriteInfo(r) \/ AnnounceInfo(r)
  \/ \E u \in Users, j \in Jobs : Join(u, j) \/ Leave(u, j)
  \/ \E j \in Jobs :
       \/ AnnounceRoster(j) \/ CheckAvatar(j) \/ WriteAvatar(j)
       \/ DrawingFails(j) \/ AnnounceAvatar(j)
  \/ \E c \in Consumers : ListUIDs(c) \/ ListFails(c) \/ FindGroup(c) \/ HandlingFails(c)
  \/ \E c \in Consumers, u \in Users : PushTo(c, u) \/ PushFails(c, u)
  \/ Dismiss

Spec == Init /\ [][Next]_vars

---------------------------------------------------------------------------
\* The document always has a join method the service knows, and nothing is
\* pushed that was never written.
TypeOK ==
  /\ active \in BOOLEAN /\ roster \in Seq(Users) /\ Cardinality(Members) = Len(roster)
  /\ doc.settings \in Settings
  /\ doc.avatar \in {NoAvatar, Chosen} \/ doc.avatar.kind = "drawn"
  /\ requests \in [Requests -> [pc : {"idle", "read", "allowed", "written"}, user : Users,
       op : Ops \union {[kind |-> "none"]}, base : Settings, next : Settings]]
  /\ \A j \in Jobs :
       jobs[j].pc \in {"idle", "created", "committed", "started", "drawing", "written"}
  /\ waiting \in Nat
  /\ \A c \in Consumers : consumers[c].to \subseteq Users
  /\ \A u \in Users : seen[u] <= doc.rev
  /\ missed \subseteq Users /\ outdated \in BOOLEAN

Quiet == waiting = 0 /\ \A c \in Consumers : consumers[c].pc = "idle"

\* Once the consumers have nothing left to do, the document pushed last to a
\* member is at least as recent as the last announced write, the member who
\* joined while it was under way too.  Left behind are only those a lost event
\* or push was for, and those a gateway pushed the group to as it had read it
\* before another gateway pushed a newer one, until a push makes up for it.
MembersSeeWhatWasAnnounced ==
  Quiet /\ active => \A u \in Users : u \in Members =>
    \/ seen[u] >= announced
    \/ u \in missed
    \/ \E j \in Jobs : jobs[j].pc = "committed"

\* A request writes all of the settings, and leaves one it does not name as it
\* is unless another request has changed that one since this one read it.
UnnamedSettingsKept ==
  [][\A r \in Requests :
       requests[r].pc = "allowed" /\ requests'[r].pc = "idle" /\ requests[r].op.kind = "settings" =>
       \A f \in {"join", "muted"} \ DOMAIN requests[r].op.named :
         requests[r].base[f] = doc.settings[f] => doc'.settings[f] = doc.settings[f]]_vars

\* With no goroutine at work, a drawn avatar shows the first members of the
\* group as they are now, however their changes and the drawings overlapped,
\* unless the goroutine that wrote last drew from a list already out of date,
\* or one could not draw: membership may change without a new drawing only
\* where the first members stay the same.
AvatarShowsMembers ==
  (\A j \in Jobs : jobs[j].pc = "idle") /\ ~outdated /\ active /\ doc.avatar.kind = "drawn" =>
    doc.avatar.of = First(roster)

\* The avatar a member chose gives way to a drawn one only if the goroutine
\* that wrote it had looked at the avatar before it was chosen.
ChosenLostOnlyByOverlap ==
  [][doc.avatar = Chosen /\ doc'.avatar.kind = "drawn" =>
       \E j \in Jobs : jobs[j].pc = "drawing" /\ ~jobs[j].sawChosen /\ jobs'[j].pc # "drawing"]_vars
===========================================================================
