------------------------ MODULE GroupProfile_proofs ------------------------
(***************************************************************************)
(* Proofs about GroupProfile, for any number of members, requests, drawing *)
(* goroutines and consumers: who has been told of a change, which settings *)
(* a request may move, and when a chosen avatar gives way.                 *)
(***************************************************************************)
EXTENDS GroupProfile, FiniteSetTheorems, SequenceTheorems, TLAPS

\* The records are there, and an empty join method is nowhere but in what a
\* request asks for.
DocShape == DOMAIN doc = {"rev", "avatar", "settings"} /\ doc.settings.join # ""

Revision == doc.rev

Counts ==
  /\ Revision \in Nat /\ waiting \in Nat /\ announced \in Nat /\ announced <= Revision
  /\ \A c \in Consumers : consumers[c].rev \in Nat /\ consumers[c].rev <= Revision

Readers == DOMAIN seen = Users /\ \A u \in Users : seen[u] \in Nat

Slots ==
  /\ DOMAIN consumers = Consumers /\ DOMAIN jobs = Jobs
  /\ \A c \in Consumers : DOMAIN consumers[c] = {"pc", "to", "rev"}
  /\ \A j \in Jobs : DOMAIN jobs[j] = {"pc", "before", "list", "sawChosen"}

\* What a request asks for does not store a drawn avatar.
Askable(op) == op.kind = "avatar" => op.avatar \in {NoAvatar, Chosen}

RequestShape ==
  /\ DOMAIN requests = Requests
  /\ \A r \in Requests : /\ DOMAIN requests[r] = {"pc", "user", "op", "base", "next"}
                         /\ requests[r].base.join # "" /\ requests[r].next.join # ""
                         /\ Askable(requests[r].op)

\* A consumer that will push to u a document no older than the announced one.
Carries(c, u) ==
  /\ u \in consumers[c].to
  /\ consumers[c].pc = "listed" \/ (consumers[c].pc = "read" /\ consumers[c].rev >= announced)

\* What makes MembersSeeWhatWasAnnounced inductive: an event that waits, a
\* consumer on its way to the member, a committed change of the members that
\* will be announced, or a loss.
Told ==
  active => \A u \in Users : u \in Members =>
    \/ seen[u] >= announced
    \/ u \in missed
    \/ waiting > 0
    \/ \E c \in Consumers : Carries(c, u)
    \/ \E j \in Jobs : jobs[j].pc = "committed"

\* A request about to write the settings has kept what it read of those it
\* does not name.
Carried ==
  \A r \in Requests :
    requests[r].pc = "allowed" /\ requests[r].op.kind = "settings" =>
      \A f \in {"join", "muted"} \ DOMAIN requests[r].op.named :
        requests[r].next[f] = requests[r].base[f]

\* No goroutine draws that has seen a chosen avatar.
ChosenWhileDrawing == \A j \in Jobs : jobs[j].pc = "drawing" => ~jobs[j].sawChosen

ProfileInv ==
  /\ DocShape /\ Counts /\ Readers /\ Slots /\ RequestShape
  /\ Told /\ Carried /\ ChosenWhileDrawing

LEMMA ProfileStart == Init => ProfileInv
<1> SUFFICES ASSUME Init PROVE ProfileInv
  OBVIOUS
<1>1. PICK j \in Jobs : jobs = [i \in Jobs |-> IF i = j /\ doc.avatar = NoAvatar
                                              THEN [NoJob EXCEPT !.pc = "created"] ELSE NoJob]
  BY DEF Init
<1>2. \A i \in Jobs : jobs[i].pc \in {"idle", "created"}
  BY <1>1 DEF NoJob
<1>3. /\ DOMAIN doc = {"rev", "avatar", "settings"} /\ Revision = 1
      /\ doc.settings = [join |-> Default, muted |-> FALSE]
  BY DEF Init, Revision
<1>4. DocShape
  <2>1. doc.settings.join = Default
    BY <1>3
  <2>2. Default # ""
    BY ProfileAssumption
  <2> QED BY <1>3, <2>1, <2>2, Zenon DEF DocShape
<1>5. Counts /\ Readers
  BY <1>3 DEF Init, Counts, Readers, NoEvent
<1>6. Slots
  BY <1>1 DEF Init, Slots, NoEvent, NoJob
<1>7. RequestShape
  BY ProfileAssumption DEF Init, RequestShape, NoRequest, Askable
<1>8. Told
  BY DEF Init, Told
<1>9. Carried
  BY DEF Init, Carried, NoRequest
<1>10. ChosenWhileDrawing
  BY <1>2 DEF ChosenWhileDrawing
<1> QED BY <1>4, <1>5, <1>6, <1>7, <1>8, <1>9, <1>10 DEF ProfileInv

LEMMA CountsGrow ==
  ASSUME Counts, Revision' = Revision + 1, UNCHANGED <<announced, waiting, consumers>>
  PROVE  Counts'
  BY DEF Counts

\* What a write leaves of the document.
LEMMA Written ==
  ASSUME DocShape, Counts, NEW d, DOMAIN d = {"rev", "avatar", "settings"},
         d.settings.join # "", Update(d), UNCHANGED <<announced, waiting, consumers>>
  PROVE  DocShape' /\ Counts' /\ doc'.avatar \in {d.avatar, doc.avatar}
<1>1. CASE active
  <2>1. doc' = [d EXCEPT !.rev = doc.rev + 1]
    BY <1>1 DEF Update
  <2>2. /\ DOMAIN doc' = {"rev", "avatar", "settings"}
        /\ doc'.settings = d.settings /\ doc'.avatar = d.avatar
    BY <2>1
  <2>3. Revision' = Revision + 1
    BY <2>1 DEF Revision
  <2>4. DocShape'
    <3>1. doc'.settings.join # ""
      BY <2>2, Zenon
    <3> QED BY <2>2, <3>1 DEF DocShape
  <2>5. Counts'
    BY <2>3, CountsGrow
  <2> QED BY <2>2, <2>4, <2>5
<1>2. CASE ~active
  BY <1>2 DEF Update, DocShape, Counts, Revision
<1> QED BY <1>1, <1>2

\* A request that moves on and is not about to write its settings.
LEMMA RequestMoves ==
  ASSUME RequestShape, Carried, NEW r \in Requests,
         NEW q, requests' = [requests EXCEPT ![r] = q],
         DOMAIN q = {"pc", "user", "op", "base", "next"},
         q.base.join # "", q.next.join # "", Askable(q.op),
         q.pc = "allowed" /\ q.op.kind = "settings" =>
           \A f \in {"join", "muted"} \ DOMAIN q.op.named : q.next[f] = q.base[f]
  PROVE  RequestShape' /\ Carried'
<1>1. /\ DOMAIN requests' = Requests /\ requests'[r] = q
      /\ \A x \in Requests : x # r => requests'[x] = requests[x]
  BY DEF RequestShape
<1>2. RequestShape'
  BY <1>1 DEF RequestShape
<1>3. Carried'
  <2> SUFFICES ASSUME NEW x \in Requests, requests'[x].pc = "allowed",
                      requests'[x].op.kind = "settings",
                      NEW f \in {"join", "muted"} \ DOMAIN requests'[x].op.named
               PROVE  requests'[x].next[f] = requests'[x].base[f]
    BY DEF Carried
  <2>1. CASE x = r
    BY <1>1, <2>1
  <2>2. CASE x # r
    <3>1. requests'[x] = requests[x]
      BY <1>1, <2>2
    <3>2. requests[x].pc = "allowed" /\ requests[x].op.kind = "settings"
          /\ f \in {"join", "muted"} \ DOMAIN requests[x].op.named
      BY <3>1, Zenon
    <3>3. requests[x].next[f] = requests[x].base[f]
      BY <3>2, Zenon DEF Carried
    <3> QED BY <3>1, <3>3, Zenon
  <2> QED BY <2>1, <2>2
<1> QED BY <1>2, <1>3

LEMMA RequestEnds ==
  ASSUME RequestShape, Carried, NEW r \in Requests,
         requests' = [requests EXCEPT ![r] = NoRequest]
  PROVE  RequestShape' /\ Carried'
<1>1. /\ DOMAIN NoRequest = {"pc", "user", "op", "base", "next"} /\ NoRequest.pc = "idle"
      /\ NoRequest.base.join # "" /\ NoRequest.next.join # "" /\ Askable(NoRequest.op)
  BY ProfileAssumption DEF NoRequest, Askable
<1> QED BY <1>1, RequestMoves

LEMMA RequestsStay ==
  ASSUME RequestShape, Carried, requests' = requests
  PROVE  RequestShape' /\ Carried'
  BY DEF RequestShape, Carried

LEMMA DocStays ==
  ASSUME DocShape, Counts, UNCHANGED <<doc, waiting, announced, consumers>>
  PROVE  DocShape' /\ Counts'
  BY DEF DocShape, Counts, Revision

\* An announcement: an event waits for every member, or all have missed it.
LEMMA Announced ==
  ASSUME DocShape, Counts, Publish, UNCHANGED <<doc, roster, consumers>>
  PROVE  DocShape' /\ Counts' /\ Told'
<1>1. waiting' \in Nat /\ (waiting' > 0 \/ missed' = missed \union Members)
  BY DEF Publish, Counts
<1>2. DocShape'
  BY DEF DocShape
<1>3. announced' = Revision /\ Revision' = Revision
  BY DEF Publish, Revision
<1>5. Counts'
  BY <1>1, <1>3 DEF Counts
<1>4. Told'
  BY <1>1 DEF Told, Members
<1> QED BY <1>2, <1>4, <1>5

LEMMA ReadersStay ==
  ASSUME Readers, Slots, UNCHANGED pushVars,
         jobs' = jobs \/ \E j \in Jobs : \E x :
           /\ jobs' = [jobs EXCEPT ![j] = x] /\ DOMAIN x = {"pc", "before", "list", "sawChosen"}
  PROVE  Readers' /\ Slots'
<1>1. Readers'
  BY DEF Readers, pushVars
<1>2. Slots'
  BY DEF Slots, pushVars
<1> QED BY <1>1, <1>2

\* A goroutine that moves on and was not about to announce.
LEMMA ToldStays ==
  ASSUME Told, UNCHANGED <<active, roster, seen, announced, waiting, missed, consumers>>,
         \A j \in Jobs : jobs[j].pc = "committed" => jobs'[j].pc = "committed"
  PROVE  Told'
  BY DEF Told, Members, Carries

---------------------------------------------------------------------------
\* The record of a goroutine that begins, or goes on with another state.
LEMMA JobStarts ==
  /\ DOMAIN NoJob = {"pc", "before", "list", "sawChosen"}
  /\ \A b : DOMAIN [NoJob EXCEPT !.pc = "committed", !.before = b] = DOMAIN NoJob
  /\ \A l : DOMAIN [NoJob EXCEPT !.pc = "started", !.list = l] = DOMAIN NoJob
  /\ DOMAIN [NoJob EXCEPT !.pc = "written"] = DOMAIN NoJob
  BY DEF NoJob

LEMMA Remains ==
  ASSUME NEW e, DOMAIN e = {"pc", "to", "rev"}, NEW v \in e.to
  PROVE  /\ DOMAIN Rest(e, v) = {"pc", "to", "rev"} /\ Rest(e, v).rev \in {0, e.rev}
         /\ Rest(e, v).to \subseteq e.to
         /\ \A u \in e.to : u # v =>
              u \in Rest(e, v).to /\ Rest(e, v).pc = e.pc /\ Rest(e, v).rev = e.rev
<1>1. CASE e.to = {v}
  BY <1>1 DEF Rest, NoEvent
<1>2. CASE e.to # {v}
  BY <1>2 DEF Rest
<1> QED BY <1>1, <1>2

\* Any step of a consumer
Handles(c) ==
  \/ ListUIDs(c) \/ ListFails(c) \/ FindGroup(c) \/ HandlingFails(c)
  \/ \E u \in Users : PushTo(c, u) \/ PushFails(c, u)

LEMMA ConsumersOnlyPush ==
  ASSUME NEW c \in Consumers, Handles(c)
  PROVE  UNCHANGED <<docVars, requests, jobs, announced, outdated>>
  BY DEF Handles, ListUIDs, ListFails, Taken, FindGroup, HandlingFails, PushTo, PushFails, Silent,
         eventVars, pushVars

LEMMA ProfileStep ==
  ASSUME ProfileInv, [Next]_vars
  PROVE  ProfileInv'
<1>0. DocShape /\ Counts /\ Readers /\ Slots /\ RequestShape /\ Told /\ Carried
      /\ ChosenWhileDrawing
  BY DEF ProfileInv
<1> USE <1>0
<1>1. ASSUME UNCHANGED vars PROVE ProfileInv'
  <2>1. UNCHANGED <<doc, waiting, announced, missed, requests, jobs, pushVars, active, roster,
                    seen, consumers>>
    BY <1>1 DEF vars, docVars, pushVars, eventVars
  <2>2. DocShape' /\ Counts' /\ RequestShape' /\ Carried' /\ Readers' /\ Slots' /\ Told'
    BY <2>1, DocStays, RequestsStay, ReadersStay, ToldStays
  <2>3. ChosenWhileDrawing'
    BY <2>1 DEF ChosenWhileDrawing
  <2> QED BY <2>2, <2>3 DEF ProfileInv
<1>2. ASSUME NEW r \in Requests, ReadGroup(r) PROVE ProfileInv'
  <2>1. UNCHANGED <<doc, active, roster, waiting, announced, missed, jobs, pushVars, seen,
                    consumers>>
    BY <1>2 DEF ReadGroup, Silent, eventVars, docVars, pushVars
  <2>2. DocShape' /\ Counts' /\ Readers' /\ Slots' /\ Told'
    BY <2>1, DocStays, ReadersStay, ToldStays
  <2>3. ChosenWhileDrawing'
    BY <2>1 DEF ChosenWhileDrawing
  <2>4. PICK u \in Members, op \in Ops :
          requests' = [requests EXCEPT ![r] =
            [NoRequest EXCEPT !.pc = "read", !.user = u, !.op = op, !.base = doc.settings]]
    BY <1>2 DEF ReadGroup
  <2> DEFINE q == [NoRequest EXCEPT !.pc = "read", !.user = u, !.op = op, !.base = doc.settings]
  <2>5. /\ DOMAIN q = {"pc", "user", "op", "base", "next"} /\ q.pc = "read"
        /\ q.base = doc.settings /\ q.next.join = Default /\ Askable(q.op)
    BY OpsAssumption DEF NoRequest, Askable
  <2> HIDE DEF q
  <2>6. requests' = [requests EXCEPT ![r] = q]
    BY <2>4 DEF q
  <2>7. q.base.join # "" /\ q.next.join # ""
    BY <2>5, ProfileAssumption DEF DocShape
  <2>8. RequestShape' /\ Carried'
    BY <2>5, <2>6, <2>7, RequestMoves
  <2> QED BY <2>2, <2>3, <2>8 DEF ProfileInv
<1>3. ASSUME NEW r \in Requests, Check(r) PROVE ProfileInv'
  <2>1. UNCHANGED <<doc, active, roster, waiting, announced, missed, jobs, pushVars, seen,
                    consumers>>
    BY <1>3 DEF Check, Silent, eventVars, docVars, pushVars
  <2>2. DocShape' /\ Counts' /\ Readers' /\ Slots' /\ Told'
    BY <2>1, DocStays, ReadersStay, ToldStays
  <2>3. ChosenWhileDrawing'
    BY <2>1 DEF ChosenWhileDrawing
  <2> DEFINE s == WithJoinMethod(Merged(r))
             q == [requests[r] EXCEPT !.pc = "allowed", !.next = s]
             o == [requests[r] EXCEPT !.pc = "allowed"]
  <2>4. s.join # ""
    BY DEF WithJoinMethod, Merged, DocShape
  <2>5. \A f \in {"join", "muted"} \ DOMAIN requests[r].op.named : s[f] = requests[r].base[f]
    BY DEF WithJoinMethod, Merged, RequestShape
  <2> HIDE DEF s
  <2>6. /\ DOMAIN q = {"pc", "user", "op", "base", "next"} /\ q.next = s
        /\ q.base = requests[r].base /\ q.op = requests[r].op
    BY DEF RequestShape
  <2>7. /\ DOMAIN o = {"pc", "user", "op", "base", "next"} /\ o.next = requests[r].next
        /\ o.base = requests[r].base /\ o.op = requests[r].op
    BY DEF RequestShape
  <2>8. requests[r].base.join # "" /\ requests[r].next.join # "" /\ Askable(requests[r].op)
    BY DEF RequestShape
  <2>9. \/ requests' = [requests EXCEPT ![r] = NoRequest]
        \/ requests' = [requests EXCEPT ![r] = q]
        \/ requests' = [requests EXCEPT ![r] = o] /\ requests[r].op.kind # "settings"
    BY <1>3 DEF Check, s
  <2> HIDE DEF q, o
  <2>10. CASE requests' = [requests EXCEPT ![r] = NoRequest]
    <3>1. RequestShape' /\ Carried'
      BY <2>10, RequestEnds
    <3> QED BY <2>2, <2>3, <3>1 DEF ProfileInv
  <2>11. CASE requests' = [requests EXCEPT ![r] = q]
    <3>1. RequestShape' /\ Carried'
      <4>1. q.base.join # "" /\ q.next.join # "" /\ Askable(q.op)
        BY <2>4, <2>6, <2>8, Zenon
      <4>2. \A f \in {"join", "muted"} \ DOMAIN q.op.named : q.next[f] = q.base[f]
        BY <2>5, <2>6, Zenon
      <4> QED BY <2>6, <2>11, <4>1, <4>2, RequestMoves
    <3> QED BY <2>2, <2>3, <3>1 DEF ProfileInv
  <2>12. CASE requests' = [requests EXCEPT ![r] = o] /\ requests[r].op.kind # "settings"
    <3>1. RequestShape' /\ Carried'
      BY <2>7, <2>8, <2>12, RequestMoves
    <3> QED BY <2>2, <2>3, <3>1 DEF ProfileInv
  <2> QED BY <2>9, <2>10, <2>11, <2>12
<1>4. ASSUME NEW r \in Requests, WriteSettings(r) PROVE ProfileInv'
  <2>1. /\ UNCHANGED <<active, roster, waiting, announced, missed, jobs, pushVars, seen,
                       consumers>>
        /\ requests' = [requests EXCEPT ![r] = NoRequest]
    BY <1>4 DEF WriteSettings, Silent, eventVars, pushVars
  <2>2. RequestShape' /\ Carried' /\ Readers' /\ Slots' /\ Told'
    BY <2>1, RequestEnds, ReadersStay, ToldStays
  <2> DEFINE d == [doc EXCEPT !.settings = requests[r].next]
  <2>3. /\ DOMAIN d = {"rev", "avatar", "settings"} /\ d.settings.join # ""
        /\ d.avatar = doc.avatar
    BY DEF DocShape, RequestShape
  <2>4. Update(d)
    BY <1>4 DEF WriteSettings
  <2> HIDE DEF d
  <2>5. DocShape' /\ Counts' /\ doc'.avatar = doc.avatar
    BY <2>1, <2>3, <2>4, Written
  <2>6. ChosenWhileDrawing'
    BY <2>1, <2>5 DEF ChosenWhileDrawing
  <2> QED BY <2>2, <2>5, <2>6 DEF ProfileInv
<1>5. ASSUME NEW r \in Requests, WriteInfo(r) PROVE ProfileInv'
  <2> DEFINE d == IF requests[r].op.kind = "avatar"
                  THEN [doc EXCEPT !.avatar = requests[r].op.avatar] ELSE doc
             q == [requests[r] EXCEPT !.pc = "written"]
  <2>1. /\ UNCHANGED <<active, roster, waiting, announced, missed, jobs, pushVars, seen, consumers>>
        /\ requests' = [requests EXCEPT ![r] = NoRequest] \/ requests' = [requests EXCEPT ![r] = q]
        /\ Update(d)
    BY <1>5 DEF WriteInfo, Silent, eventVars, pushVars
  <2>2. Readers' /\ Slots' /\ Told'
    BY <2>1, ReadersStay, ToldStays
  <2>3. /\ DOMAIN d = {"rev", "avatar", "settings"} /\ d.settings.join # ""
    BY DEF DocShape
  <2>4. /\ DOMAIN q = {"pc", "user", "op", "base", "next"} /\ q.pc = "written"
        /\ q.base.join # "" /\ q.next.join # "" /\ Askable(q.op)
    BY DEF RequestShape
  <2> HIDE DEF d, q
  <2>5. DocShape' /\ Counts' /\ doc'.avatar \in {d.avatar, doc.avatar}
    BY <2>1, <2>3, Written
  <2>6. RequestShape' /\ Carried'
    BY <2>1, <2>4, RequestEnds, RequestMoves
  <2>7. ChosenWhileDrawing'
    BY <2>1 DEF ChosenWhileDrawing
  <2> QED BY <2>2, <2>5, <2>6, <2>7 DEF ProfileInv
<1>6. ASSUME NEW r \in Requests, AnnounceInfo(r) PROVE ProfileInv'
  <2>1. /\ UNCHANGED <<doc, active, roster, jobs, pushVars, consumers>> /\ Publish
        /\ requests' = [requests EXCEPT ![r] = NoRequest]
    BY <1>6 DEF AnnounceInfo, docVars, pushVars
  <2>2. DocShape' /\ Counts' /\ Told' /\ RequestShape' /\ Carried' /\ Readers' /\ Slots'
    BY <2>1, Announced, RequestEnds, ReadersStay
  <2>3. ChosenWhileDrawing'
    BY <2>1 DEF ChosenWhileDrawing
  <2> QED BY <2>2, <2>3 DEF ProfileInv
<1>7. ASSUME NEW j \in Jobs, NEW new, ChangeRoster(j, new) PROVE ProfileInv'
  <2>1. /\ Update(doc) /\ UNCHANGED <<waiting, announced, consumers, requests, pushVars>>
        /\ jobs' = [jobs EXCEPT ![j] = [NoJob EXCEPT !.pc = "committed", !.before = roster]]
    BY <1>7 DEF ChangeRoster, Silent, eventVars, pushVars
  <2>2. DocShape' /\ Counts'
    BY <2>1, Written DEF DocShape
  <2>3. RequestShape' /\ Carried' /\ Readers' /\ Slots'
    BY <2>1, JobStarts, RequestsStay, ReadersStay
  <2>4. /\ jobs'[j].pc = "committed"
        /\ \A i \in Jobs : i # j => jobs'[i] = jobs[i]
    BY <2>1 DEF Slots, NoJob
  <2>5. Told'
    BY <2>4 DEF Told
  <2>6. ChosenWhileDrawing'
    BY <2>1, <2>4 DEF ChosenWhileDrawing
  <2> QED BY <2>2, <2>3, <2>5, <2>6 DEF ProfileInv
<1>8. ASSUME NEW j \in Jobs, AnnounceRoster(j) \/ AnnounceAvatar(j) PROVE ProfileInv'
  <2>1. /\ UNCHANGED <<doc, roster, requests, pushVars, consumers>> /\ Publish
        /\ \E x : /\ jobs' = [jobs EXCEPT ![j] = x]
                 /\ DOMAIN x = {"pc", "before", "list", "sawChosen"}
    BY <1>8, JobStarts DEF AnnounceRoster, AnnounceAvatar, docVars, pushVars
  <2>2. /\ jobs'[j].pc \in {"idle", "started"}
        /\ \A i \in Jobs : i # j => jobs'[i] = jobs[i]
    <3>1. PICK x : jobs' = [jobs EXCEPT ![j] = x] /\ x.pc \in {"idle", "started"}
      <4>1. CASE AnnounceRoster(j)
        <5> DEFINE x == [NoJob EXCEPT !.pc = "started", !.list = roster]
        <5>1. x.pc = "started" /\ NoJob.pc = "idle"
          BY DEF NoJob
        <5>2. jobs' = [jobs EXCEPT ![j] = x] \/ jobs' = [jobs EXCEPT ![j] = NoJob]
          BY <4>1 DEF AnnounceRoster
        <5> HIDE DEF x
        <5> QED BY <5>1, <5>2
      <4>2. CASE AnnounceAvatar(j)
        <5>1. NoJob.pc = "idle"
          BY DEF NoJob
        <5> QED BY <4>2, <5>1 DEF AnnounceAvatar
      <4> QED BY <1>8, <4>1, <4>2
    <3> QED BY <3>1 DEF Slots
  <2>3. DocShape' /\ Counts' /\ Told' /\ RequestShape' /\ Carried' /\ Readers' /\ Slots'
    BY <2>1, Announced, RequestsStay, ReadersStay
  <2>4. ChosenWhileDrawing'
    BY <2>1, <2>2 DEF ChosenWhileDrawing
  <2> QED BY <2>3, <2>4 DEF ProfileInv
<1>9. ASSUME NEW j \in Jobs, CheckAvatar(j) \/ DrawingFails(j) PROVE ProfileInv'
  <2>1. /\ UNCHANGED <<doc, active, roster, waiting, announced, missed, requests, pushVars, seen, consumers>>
        /\ \E x : /\ jobs' = [jobs EXCEPT ![j] = x]
                 /\ DOMAIN x = {"pc", "before", "list", "sawChosen"}
    BY <1>9, JobStarts DEF CheckAvatar, DrawingFails, Silent, eventVars, docVars, pushVars, Slots
  <2>2. /\ jobs[j].pc # "committed"
        /\ jobs'[j].pc = "drawing" => jobs'[j].sawChosen = FALSE
        /\ \A i \in Jobs : i # j => jobs'[i] = jobs[i]
    <3>1. CASE DrawingFails(j)
      BY <3>1 DEF DrawingFails, Slots, NoJob
    <3>2. CASE CheckAvatar(j)
      <4>1. DOMAIN jobs[j] = {"pc", "before", "list", "sawChosen"}
        BY DEF Slots
      <4> QED BY <3>2, <4>1 DEF CheckAvatar, Slots, NoJob
    <3> QED BY <1>9, <3>1, <3>2
  <2>3. \A i \in Jobs : jobs[i].pc = "committed" => jobs'[i].pc = "committed"
    BY <2>2
  <2>4. DocShape' /\ Counts' /\ Told' /\ RequestShape' /\ Carried' /\ Readers' /\ Slots'
    BY <2>1, <2>3, DocStays, ToldStays, RequestsStay, ReadersStay
  <2>5. ChosenWhileDrawing'
    BY <2>1, <2>2 DEF ChosenWhileDrawing
  <2> QED BY <2>4, <2>5 DEF ProfileInv
<1>10. ASSUME NEW j \in Jobs, WriteAvatar(j) PROVE ProfileInv'
  <2> DEFINE d == [doc EXCEPT !.avatar = Drawn(First(jobs[j].list))]
  <2>1. /\ UNCHANGED <<active, roster, waiting, announced, missed, requests, pushVars, seen,
                       consumers>>
        /\ \E x : /\ jobs' = [jobs EXCEPT ![j] = x]
                 /\ DOMAIN x = {"pc", "before", "list", "sawChosen"}
        /\ Update(d)
    BY <1>10, JobStarts DEF WriteAvatar, Silent, eventVars, pushVars
  <2>2. DOMAIN d = {"rev", "avatar", "settings"} /\ d.settings.join # ""
    BY DEF DocShape
  <2> HIDE DEF d
  <2>3. DocShape' /\ Counts'
    BY <2>1, <2>2, Written
  <2>4. /\ jobs'[j].pc \in {"idle", "written"} /\ jobs[j].pc = "drawing"
        /\ \A i \in Jobs : i # j => jobs'[i] = jobs[i]
    BY <1>10 DEF WriteAvatar, Slots, NoJob
  <2>5. \A i \in Jobs : jobs[i].pc = "committed" => jobs'[i].pc = "committed"
    BY <2>4
  <2>6. Told' /\ RequestShape' /\ Carried' /\ Readers' /\ Slots'
    BY <2>1, <2>5, ToldStays, RequestsStay, ReadersStay
  <2>7. ChosenWhileDrawing'
    BY <2>4 DEF ChosenWhileDrawing
  <2> QED BY <2>3, <2>6, <2>7 DEF ProfileInv
<1>11. ASSUME NEW c \in Consumers, ListUIDs(c) \/ ListFails(c) PROVE ProfileInv'
  <2>1. /\ UNCHANGED <<doc, roster, active, requests, jobs, seen, announced>>
        /\ waiting > 0 /\ waiting' = waiting - 1
        /\ \/ /\ consumers' = [consumers EXCEPT ![c] = [NoEvent EXCEPT !.pc = "listed", !.to = Members]]
              /\ missed' = missed
           \/ consumers' = consumers /\ missed' = missed \union Members
    BY <1>11 DEF ListUIDs, Taken, ListFails, docVars, pushVars
  <2>2. DocShape' /\ RequestShape' /\ Carried'
    BY <2>1, RequestsStay DEF DocShape
  <2>3. /\ \A x \in Consumers : x # c => consumers'[x] = consumers[x]
        /\ \/ consumers' = consumers
           \/ consumers'[c].pc = "listed" /\ consumers'[c].to = Members /\ consumers'[c].rev = 0
        /\ DOMAIN consumers' = Consumers /\ DOMAIN consumers'[c] = {"pc", "to", "rev"}
    BY <2>1 DEF Slots, NoEvent
  <2>4. Counts'
    BY <2>1, <2>3 DEF Counts, Revision
  <2>5. Readers' /\ Slots'
    BY <2>1, <2>3 DEF Readers, Slots
  <2>6. Members' = Members
    BY <2>1 DEF Members
  <2>7. Told'
    BY <2>1, <2>3, <2>6 DEF Told, Carries
  <2>8. ChosenWhileDrawing'
    BY <2>1 DEF ChosenWhileDrawing
  <2> QED BY <2>2, <2>4, <2>5, <2>7, <2>8 DEF ProfileInv
<1>12. ASSUME NEW c \in Consumers, FindGroup(c) \/ HandlingFails(c)
                                   \/ \E v \in Users : PushTo(c, v) \/ PushFails(c, v)
       PROVE  ProfileInv'
  <2>1. /\ UNCHANGED <<doc, active, roster, requests, jobs, waiting, announced>>
        /\ \E x : consumers' = [consumers EXCEPT ![c] = x]
    BY <1>12 DEF FindGroup, HandlingFails, PushTo, PushFails, Silent, eventVars, docVars
  <2>2. /\ \A x \in Consumers : x # c => consumers'[x] = consumers[x]
        /\ DOMAIN consumers' = Consumers
    BY <2>1 DEF Slots
  <2>3. DocShape' /\ RequestShape' /\ Carried' /\ ChosenWhileDrawing' /\ Members' = Members
    BY <2>1, RequestsStay DEF DocShape, ChosenWhileDrawing, Members
  <2>4. /\ Revision \in Nat /\ announced \in Nat /\ announced <= Revision
        /\ consumers[c].rev \in Nat /\ consumers[c].rev <= Revision
        /\ DOMAIN consumers[c] = {"pc", "to", "rev"} /\ DOMAIN consumers = Consumers
        /\ DOMAIN seen = Users /\ \A u \in Users : seen[u] \in Nat
        /\ DOMAIN NoEvent = {"pc", "to", "rev"} /\ NoEvent.rev = 0
    BY DEF Counts, Slots, Readers, NoEvent
  \* What each of the four leaves of the consumer, and to whom it is told.
  <2> DEFINE Fine ==
        /\ DOMAIN consumers'[c] = {"pc", "to", "rev"}
        /\ consumers'[c].rev \in Nat /\ consumers'[c].rev <= Revision
        /\ DOMAIN seen' = Users /\ \A u \in Users : seen'[u] \in Nat
        /\ active => \A u \in Users :
             /\ seen[u] >= announced => seen'[u] >= announced \/ u \in missed'
             /\ Carries(c, u) => seen'[u] >= announced \/ u \in missed' \/ Carries(c, u)'
             /\ u \in missed => seen'[u] >= announced \/ u \in missed'
  <2>5. ASSUME FindGroup(c) PROVE Fine
    <3>1. /\ consumers[c].pc = "listed" /\ seen' = seen /\ missed' = missed
          /\ consumers' = [consumers EXCEPT ![c] =
               IF active THEN [@ EXCEPT !.pc = "read", !.rev = Revision] ELSE NoEvent]
      BY <2>5 DEF FindGroup, Silent, eventVars, Revision
    <3>2. CASE active
      <4>1. /\ consumers'[c].pc = "read" /\ consumers'[c].rev = Revision
            /\ consumers'[c].to = consumers[c].to /\ DOMAIN consumers'[c] = {"pc", "to", "rev"}
        BY <2>4, <3>1, <3>2
      <4> QED BY <2>1, <2>4, <3>1, <4>1 DEF Carries
    <3>3. CASE ~active
      BY <2>4, <3>1, <3>3
    <3> QED BY <3>2, <3>3
  <2>6. ASSUME HandlingFails(c) PROVE Fine
    <3>1. seen' = seen /\ missed' = missed \union consumers[c].to /\ consumers'[c] = NoEvent
      BY <2>4, <2>6 DEF HandlingFails
    <3> QED BY <2>4, <3>1 DEF Carries
  <2>7. ASSUME NEW v \in Users, PushTo(c, v) \/ PushFails(c, v) PROVE Fine
    <3>1. /\ consumers[c].pc = "read" /\ v \in consumers[c].to
          /\ consumers'[c] = Rest(consumers[c], v)
      BY <2>4, <2>7 DEF PushTo, PushFails
    <3>2. /\ DOMAIN consumers'[c] = {"pc", "to", "rev"}
          /\ consumers'[c].rev \in {0, consumers[c].rev}
          /\ \A u \in consumers[c].to : u # v =>
               u \in consumers'[c].to /\ consumers'[c].pc = "read"
                 /\ consumers'[c].rev = consumers[c].rev
      <4> DEFINE e == consumers[c]
      <4>1. DOMAIN e = {"pc", "to", "rev"} /\ v \in e.to /\ e.pc = "read"
            /\ consumers'[c] = Rest(e, v)
        BY <2>4, <3>1
      <4> HIDE DEF e
      <4>2. /\ DOMAIN Rest(e, v) = {"pc", "to", "rev"} /\ Rest(e, v).rev \in {0, e.rev}
            /\ \A u \in e.to : u # v =>
                 u \in Rest(e, v).to /\ Rest(e, v).pc = e.pc /\ Rest(e, v).rev = e.rev
        BY <4>1, Remains
      <4>3. /\ DOMAIN consumers'[c] = {"pc", "to", "rev"} /\ consumers'[c].rev \in {0, e.rev}
            /\ \A u \in e.to : u # v =>
                 u \in consumers'[c].to /\ consumers'[c].pc = "read" /\ consumers'[c].rev = e.rev
        BY <4>1, <4>2, Zenon
      <4> QED BY <4>3 DEF e
    <3>3. ASSUME NEW u \in Users, u # v, Carries(c, u) PROVE Carries(c, u)'
      BY <2>1, <3>1, <3>2, <3>3 DEF Carries
    <3>4. CASE PushFails(c, v)
      <4>1. seen' = seen /\ missed' = missed \union {v}
        BY <3>4 DEF PushFails
      <4> QED BY <2>4, <3>2, <3>3, <4>1
    <3>5. CASE PushTo(c, v)
      <4>1. /\ seen' = [seen EXCEPT ![v] = consumers[c].rev]
            /\ missed' = IF consumers[c].rev >= announced THEN missed \ {v}
                         ELSE IF consumers[c].rev < seen[v] THEN missed \union {v} ELSE missed
        BY <3>5 DEF PushTo
      <4>2. /\ DOMAIN seen' = Users /\ \A u \in Users : seen'[u] \in Nat
            /\ \A u \in Users : u # v => seen'[u] = seen[u]
            /\ seen'[v] = consumers[c].rev
        BY <2>4, <4>1
      <4>3. Carries(c, v) => consumers[c].rev >= announced
        BY <3>1 DEF Carries
      <4>4. \A u \in Users : u # v => (u \in missed' <=> u \in missed)
        BY <4>1
      <4>5. CASE consumers[c].rev >= announced
        BY <2>4, <3>2, <3>3, <4>2, <4>4, <4>5
      <4>6. CASE consumers[c].rev < announced
        <5>1. seen[v] >= announced => v \in missed'
          BY <2>4, <4>1, <4>6
        <5>2. v \in missed => v \in missed'
          BY <2>4, <4>1, <4>6
        <5>3. ~Carries(c, v)
          BY <2>4, <4>3, <4>6
        <5> QED BY <2>4, <3>2, <3>3, <4>2, <4>4, <5>1, <5>2, <5>3
      <4> QED BY <2>4, <4>5, <4>6
    <3> QED BY <2>7, <3>4, <3>5
  <2>8. Fine
    BY <1>12, <2>5, <2>6, <2>7
  <2>9. Counts' /\ Readers' /\ Slots'
    BY <2>1, <2>2, <2>8 DEF Counts, Readers, Slots, Revision
  <2>10. Told'
    <3>1. \A x \in Consumers, u \in Users : x # c => (Carries(x, u) <=> Carries(x, u)')
      BY <2>1, <2>2 DEF Carries
    <3> HIDE DEF Carries
    <3> QED BY <2>1, <2>3, <2>8, <3>1 DEF Told
  <2> QED BY <2>3, <2>9, <2>10 DEF ProfileInv
<1>13. ASSUME Dismiss PROVE ProfileInv'
  <2>1. UNCHANGED <<roster, doc, requests, jobs, pushVars, consumers>> /\ Publish
    BY <1>13 DEF Dismiss, pushVars
  <2>2. DocShape' /\ Counts' /\ Told' /\ RequestShape' /\ Carried' /\ Readers' /\ Slots'
    BY <2>1, Announced, RequestsStay, ReadersStay
  <2>3. ChosenWhileDrawing'
    BY <2>1 DEF ChosenWhileDrawing
  <2> QED BY <2>2, <2>3 DEF ProfileInv
<1>14. ASSUME NEW u \in Users, NEW j \in Jobs, Join(u, j) \/ Leave(u, j) PROVE ProfileInv'
  BY <1>7, <1>14 DEF Join, Leave
<1>15. ASSUME Next PROVE ProfileInv'
  BY <1>2, <1>3, <1>4, <1>5, <1>6, <1>8, <1>9, <1>10, <1>11, <1>12, <1>13, <1>14, <1>15
     DEF Next
<1> QED BY <1>1, <1>15

\* Every reachable state satisfies the inductive invariant.
THEOREM ProfileInvariant == Spec => []ProfileInv
<1>1. ProfileInv /\ [Next]_vars => ProfileInv'  BY ProfileStep
<1> QED BY <1>1, ProfileStart, PTL DEF Spec

\* When the consumers have nothing left, the document pushed last to a member
\* is what was last announced, whoever joined, left or wrote meanwhile, unless
\* a loss or a push overtaken by a newer one has left the member behind.
THEOREM MembersAreTold == Spec => []MembersSeeWhatWasAnnounced
<1>1. ProfileInv => MembersSeeWhatWasAnnounced
  BY DEF ProfileInv, Told, Carries, Counts, MembersSeeWhatWasAnnounced, Quiet
<1> QED BY <1>1, ProfileInvariant, PTL

\* A request leaves a setting it does not name as it finds it, whatever else it
\* names and whatever others write, unless that one changed since it was read.
THEOREM SettingsAreKept == Spec => UnnamedSettingsKept
<1> DEFINE Kept ==
      \A r \in Requests :
        requests[r].pc = "allowed" /\ requests'[r].pc = "idle"
          /\ requests[r].op.kind = "settings" =>
        \A f \in {"join", "muted"} \ DOMAIN requests[r].op.named :
          requests[r].base[f] = doc.settings[f] => doc'.settings[f] = doc.settings[f]
<1>1. ASSUME ProfileInv, [Next]_vars PROVE [Kept]_vars
  <2>0. DocShape /\ RequestShape /\ Carried
    BY <1>1 DEF ProfileInv
  <2> SUFFICES ASSUME Next, NEW r \in Requests, requests[r].pc = "allowed",
                      requests[r].op.kind = "settings", requests'[r].pc = "idle",
                      NEW f \in {"join", "muted"} \ DOMAIN requests[r].op.named,
                      requests[r].base[f] = doc.settings[f]
               PROVE  doc'.settings[f] = doc.settings[f]
    BY <1>1
  <2>1. ASSUME doc'.settings = doc.settings PROVE doc'.settings[f] = doc.settings[f]
    BY <2>1
  <2>2. ASSUME NEW q \in Requests, WriteSettings(q)
        PROVE  doc'.settings[f] = doc.settings[f]
    <3>1. CASE q # r
      <4>1. requests'[r] = requests[r]
        BY <2>0, <2>2, <3>1 DEF WriteSettings, RequestShape
      <4> QED BY <4>1
    <3>2. CASE q = r
      <4>1. requests[r].next[f] = doc.settings[f]
        BY <2>0 DEF Carried
      <4>2. doc'.settings = requests[r].next \/ doc' = doc
        BY <2>0, <2>2, <3>2 DEF WriteSettings, Update, DocShape
      <4> QED BY <4>1, <4>2
    <3> QED BY <3>1, <3>2
  <2>3. ASSUME NEW q \in Requests, WriteInfo(q) PROVE doc'.settings = doc.settings
    BY <2>0, <2>3 DEF WriteInfo, Update, DocShape
  <2>4. ASSUME NEW q \in Requests, ReadGroup(q) \/ Check(q) \/ AnnounceInfo(q)
        PROVE  doc'.settings = doc.settings
    BY <2>4 DEF ReadGroup, Check, AnnounceInfo, docVars
  <2>5. ASSUME NEW u \in Users, NEW j \in Jobs, Join(u, j) \/ Leave(u, j)
        PROVE  doc'.settings = doc.settings
    BY <2>0, <2>5 DEF Join, Leave, ChangeRoster, Update, DocShape
  <2>6. ASSUME NEW j \in Jobs, WriteAvatar(j) PROVE doc'.settings = doc.settings
    BY <2>0, <2>6 DEF WriteAvatar, Update, DocShape
  <2>7. ASSUME NEW j \in Jobs,
               AnnounceRoster(j) \/ CheckAvatar(j) \/ DrawingFails(j) \/ AnnounceAvatar(j)
        PROVE  doc'.settings = doc.settings
    BY <2>7 DEF AnnounceRoster, CheckAvatar, DrawingFails, AnnounceAvatar, docVars
  <2>8. ASSUME NEW c \in Consumers, Handles(c) PROVE doc'.settings = doc.settings
    BY <2>8, ConsumersOnlyPush DEF docVars
  <2>9. ASSUME Dismiss PROVE doc'.settings = doc.settings
    BY <2>9 DEF Dismiss
  <2> QED BY <2>1, <2>2, <2>3, <2>4, <2>5, <2>6, <2>7, <2>8, <2>9 DEF Next, Handles
<1>2. ProfileInv /\ [Next]_vars => [Kept]_vars
  BY <1>1
<1> QED BY <1>2, ProfileInvariant, PTL DEF Spec, UnnamedSettingsKept

\* A goroutine that has seen a chosen avatar does not replace one, whatever the
\* others do.
THEOREM ChosenAvatarsStay == Spec => ChosenLostOnlyByOverlap
<1> DEFINE Late == \E j \in Jobs :
             jobs[j].pc = "drawing" /\ ~jobs[j].sawChosen /\ jobs'[j].pc # "drawing"
           Stays == doc.avatar = Chosen /\ doc'.avatar.kind = "drawn" => Late
<1>1. ASSUME ProfileInv, [Next]_vars PROVE [Stays]_vars
  <2>0. DocShape /\ RequestShape /\ ChosenWhileDrawing /\ Slots
    BY <1>1 DEF ProfileInv
  <2> SUFFICES ASSUME Next, doc.avatar = Chosen, doc'.avatar.kind = "drawn"
               PROVE  Late
    BY <1>1
  <2>1. ASSUME doc'.avatar = doc.avatar PROVE Late
    BY <2>1 DEF Chosen
  <2>2. ASSUME NEW j \in Jobs, WriteAvatar(j) PROVE Late
    <3>1. jobs[j].pc = "drawing" /\ ~jobs[j].sawChosen
      BY <2>0, <2>2 DEF WriteAvatar, ChosenWhileDrawing
    <3>2. jobs'[j].pc # "drawing"
      BY <2>0, <2>2 DEF WriteAvatar, Slots, NoJob
    <3> QED BY <3>1, <3>2
  <2>3. ASSUME NEW q \in Requests, WriteInfo(q) PROVE Late
    <3>1. CASE requests[q].op.kind = "avatar"
      <4>1. requests[q].op.avatar.kind # "drawn"
        <5>1. requests[q].op.avatar \in {NoAvatar, Chosen}
          BY <2>0, <3>1 DEF RequestShape, Askable
        <5>2. NoAvatar.kind # "drawn" /\ Chosen.kind # "drawn"
          BY DEF NoAvatar, Chosen
        <5> QED BY <5>1, <5>2, Zenon
      <4>2. doc'.avatar = requests[q].op.avatar \/ doc'.avatar = doc.avatar
        BY <2>0, <2>3, <3>1 DEF WriteInfo, Update, DocShape
      <4> QED BY <2>1, <4>1, <4>2
    <3>2. CASE requests[q].op.kind # "avatar"
      <4>1. doc'.avatar = doc.avatar
        BY <2>0, <2>3, <3>2 DEF WriteInfo, Update, DocShape
      <4> QED BY <2>1, <4>1
    <3> QED BY <3>1, <3>2
  <2>4. ASSUME NEW q \in Requests,
               ReadGroup(q) \/ Check(q) \/ WriteSettings(q) \/ AnnounceInfo(q)
        PROVE  doc'.avatar = doc.avatar
    BY <2>0, <2>4 DEF ReadGroup, Check, WriteSettings, AnnounceInfo, docVars, Update, DocShape
  <2>5. ASSUME NEW u \in Users, NEW j \in Jobs, Join(u, j) \/ Leave(u, j)
        PROVE  doc'.avatar = doc.avatar
    BY <2>0, <2>5 DEF Join, Leave, ChangeRoster, Update, DocShape
  <2>6. ASSUME NEW j \in Jobs,
               AnnounceRoster(j) \/ CheckAvatar(j) \/ DrawingFails(j) \/ AnnounceAvatar(j)
        PROVE  doc'.avatar = doc.avatar
    BY <2>6 DEF AnnounceRoster, CheckAvatar, DrawingFails, AnnounceAvatar, docVars
  <2>7. ASSUME NEW c \in Consumers, Handles(c) PROVE doc'.avatar = doc.avatar
    BY <2>7, ConsumersOnlyPush DEF docVars
  <2>8. ASSUME Dismiss PROVE doc'.avatar = doc.avatar
    BY <2>8 DEF Dismiss
  <2> QED BY <2>1, <2>2, <2>3, <2>4, <2>5, <2>6, <2>7, <2>8 DEF Next, Handles
<1>2. ProfileInv /\ [Next]_vars => [Stays]_vars
  BY <1>1
<1> QED BY <1>2, ProfileInvariant, PTL DEF Spec, ChosenLostOnlyByOverlap

---------------------------------------------------------------------------
\* Type correctness

Distinct(s) == \A i, j \in DOMAIN s : s[i] = s[j] => i = j

JobStates == {"idle", "created", "committed", "started", "drawing", "written"}

TypesInv ==
  /\ TypeOK /\ Distinct(roster)
  /\ jobs \in [Jobs -> [pc : JobStates, before : Seq(Users), list : Seq(Users),
                        sawChosen : BOOLEAN]]

\* There are as many members as the roster is long, if it names none twice.
LEMMA RosterCount ==
  ASSUME NEW s \in Seq(Users), Distinct(s)
  PROVE  Cardinality({s[i] : i \in DOMAIN s}) = Len(s)
<1> DEFINE S == {s[i] : i \in DOMAIN s}
<1>1. Len(s) \in Nat /\ DOMAIN s = 1..Len(s) /\ s = [i \in 1..Len(s) |-> s[i]]
  OBVIOUS
<1>2. s \in [1..Len(s) -> S]
  BY <1>1
<1>3. \A t \in S : \E i \in 1..Len(s) : s[i] = t
  BY <1>1
<1>4. \A i, j \in 1..Len(s) : s[i] = s[j] => i = j
  BY <1>1 DEF Distinct
<1> HIDE DEF S
<1>5. s \in Bijection(1..Len(s), S)
  <2> DEFINE D == 1..Len(s)
  <2>1. /\ s \in [D -> S] /\ \A t \in S : \E i \in D : s[i] = t
        /\ \A i, j \in D : s[i] = s[j] => i = j
    BY <1>2, <1>3, <1>4
  <2> HIDE DEF D
  <2>2. s \in Injection(D, S)
    BY <2>1 DEF Injection, IsInjective
  <2>3. s \in Surjection(D, S)
    BY <2>1 DEF Surjection
  <2>4. s \in Bijection(D, S)
    BY <2>2, <2>3 DEF Bijection
  <2> QED BY <2>4 DEF D
<1>6. ExistsBijection(1..Len(s), S)
  BY <1>5 DEF ExistsBijection
<1>7. Cardinality(S) = Len(s)
  BY <1>1, <1>6, FS_CountingElements
<1> QED BY <1>7 DEF S

LEMMA RosterJoined ==
  ASSUME NEW s \in Seq(Users), Distinct(s), NEW u \in Users, \A i \in DOMAIN s : s[i] # u
  PROVE  Append(s, u) \in Seq(Users) /\ Distinct(Append(s, u))
<1>1. \A i \in DOMAIN Append(s, u) :
        \/ i \in DOMAIN s /\ Append(s, u)[i] = s[i]
        \/ i = Len(s) + 1 /\ Append(s, u)[i] = u
  OBVIOUS
<1> QED BY <1>1 DEF Distinct

LEMMA RosterLeft ==
  ASSUME NEW s \in Seq(Users), Distinct(s), NEW i \in DOMAIN s
  PROVE  Without(s, i) \in Seq(Users) /\ Distinct(Without(s, i))
<1> DEFINE w == Without(s, i)
<1>1. /\ w \in Seq(Users) /\ Len(w) = Len(s) - 1 /\ DOMAIN w = 1..(Len(s) - 1)
      /\ \A j \in 1..(Len(s) - 1) : w[j] = IF j < i THEN s[j] ELSE s[j + 1]
  <2> DEFINE a == SubSeq(s, 1, i - 1)
             b == SubSeq(s, i + 1, Len(s))
  <2>1. /\ a \in Seq(Users) /\ Len(a) = i - 1 /\ \A j \in 1..(i - 1) : a[j] = s[j]
        /\ b \in Seq(Users) /\ Len(b) = Len(s) - i /\ \A j \in 1..(Len(s) - i) : b[j] = s[j + i]
    OBVIOUS
  <2>2. w = a \o b
    BY DEF Without
  <2> HIDE DEF a, b, w
  <2>3. /\ w \in Seq(Users) /\ Len(w) = Len(a) + Len(b)
        /\ \A j \in 1..Len(w) : w[j] = IF j <= Len(a) THEN a[j] ELSE b[j - Len(a)]
    <3>1. /\ a \o b \in Seq(Users) /\ Len(a \o b) = Len(a) + Len(b)
          /\ \A j \in 1..(Len(a) + Len(b)) :
               (a \o b)[j] = IF j <= Len(a) THEN a[j] ELSE b[j - Len(a)]
      BY <2>1, ConcatProperties
    <3> QED BY <2>2, <3>1
  <2>4. i \in Nat /\ Len(s) \in Nat /\ i >= 1 /\ i <= Len(s)
    OBVIOUS
  <2>5. Len(w) = Len(s) - 1
    BY <2>1, <2>3, <2>4
  <2>6. ASSUME NEW j \in 1..(Len(s) - 1) PROVE w[j] = IF j < i THEN s[j] ELSE s[j + 1]
    <3>1. CASE j < i
      BY <2>1, <2>3, <2>4, <2>5, <3>1
    <3>2. CASE ~(j < i)
      <4>1. j - (i - 1) \in 1..(Len(s) - i) /\ (j - (i - 1)) + i = j + 1
        BY <2>4, <3>2
      <4>2. w[j] = b[j - (i - 1)]
        BY <2>1, <2>3, <2>4, <2>5, <3>2
      <4> QED BY <2>1, <3>2, <4>1, <4>2
    <3> QED BY <3>1, <3>2
  <2> QED BY <2>3, <2>5, <2>6
<1> HIDE DEF w
<1>2. Distinct(w)
  <2> SUFFICES ASSUME NEW j \in 1..(Len(s) - 1), NEW k \in 1..(Len(s) - 1), w[j] = w[k]
               PROVE  j = k
    BY <1>1 DEF Distinct
  <2> DEFINE at(x) == IF x < i THEN x ELSE x + 1
  <2>1. /\ at(j) \in DOMAIN s /\ at(k) \in DOMAIN s /\ i \in Nat
        /\ w[j] = s[at(j)] /\ w[k] = s[at(k)]
    BY <1>1
  <2>2. at(j) = at(k)
    BY <2>1 DEF Distinct
  <2> QED BY <2>1, <2>2
<1> QED BY <1>1, <1>2 DEF w

---------------------------------------------------------------------------
\* A goroutine that will draw the members as they are: it has still to read
\* them, or will find that they have changed, or has read them already.
Owes(j) ==
  \/ jobs[j].pc = "created"
  \/ jobs[j].pc = "committed" /\ Changed(jobs[j].before, roster)
  \/ jobs[j].pc \in {"started", "drawing"} /\ First(jobs[j].list) = First(roster)

\* What makes AvatarShowsMembers inductive: an avatar that shows others than the
\* first members is about to be drawn anew.
AvatarInv ==
  active /\ ~outdated /\ doc.avatar.kind = "drawn" =>
    doc.avatar.of = First(roster) \/ \E j \in Jobs : Owes(j)

LEMMA AvatarStart == Init => AvatarInv
  BY DEF Init, AvatarInv, NoAvatar, Drawn

\* Steps that change neither the avatar nor the members, and no goroutine.
LEMMA AvatarQuiet ==
  ASSUME AvatarInv, UNCHANGED <<roster, jobs>>, doc'.avatar = doc.avatar,
         active' => active, ~outdated' => ~outdated
  PROVE  AvatarInv'
  BY DEF AvatarInv, Owes, Changed, First

\* Where a change of the members changes the first of them, either it changes
\* them back, or a goroutine that compares the lists before and after sees it.
LEMMA AvatarRoster ==
  ASSUME ProfileInv, AvatarInv, NEW j \in Jobs, NEW new, ChangeRoster(j, new)
  PROVE  AvatarInv'
<1>1. /\ active /\ outdated' = outdated /\ roster' = new /\ doc'.avatar = doc.avatar
      /\ jobs[j].pc = "idle"
      /\ jobs'[j].pc = "committed" /\ jobs'[j].before = roster
      /\ \A i \in Jobs : i # j => jobs'[i] = jobs[i]
  BY DEF ChangeRoster, Update, ProfileInv, DocShape, Slots, NoJob
<1> SUFFICES ASSUME ~outdated, doc.avatar.kind = "drawn"
             PROVE  doc.avatar.of = First(new) \/ \E i \in Jobs : Owes(i)'
  BY <1>1 DEF AvatarInv, First
<1>2. First(roster)' = First(new)
  BY <1>1 DEF First
<1>3. First(roster) # First(new) => Owes(j)'
  <2>1. Changed(jobs[j].before, roster)' <=> First(roster) # First(new)
    BY <1>1 DEF Changed, First
  <2> QED BY <1>1, <2>1 DEF Owes
<1>4. CASE doc.avatar.of = First(roster)
  BY <1>3, <1>4
<1>5. ASSUME NEW i \in Jobs, Owes(i), First(roster) = First(new) PROVE Owes(i)'
  <2>1. i # j
    BY <1>1, <1>5 DEF Owes
  <2>2. jobs'[i] = jobs[i]
    BY <1>1, <2>1
  <2> QED BY <1>1, <1>5, <2>2 DEF Owes, Changed, First
<1> QED BY <1>1, <1>3, <1>4, <1>5 DEF AvatarInv

LEMMA AvatarJob ==
  ASSUME ProfileInv, TypesInv, AvatarInv, NEW j \in Jobs,
         AnnounceRoster(j) \/ CheckAvatar(j) \/ WriteAvatar(j) \/ DrawingFails(j)
           \/ AnnounceAvatar(j)
  PROVE  AvatarInv'
<1> SUFFICES ASSUME active', ~outdated', doc'.avatar.kind = "drawn"
             PROVE  doc'.avatar.of = First(roster)' \/ \E i \in Jobs : Owes(i)'
  BY DEF AvatarInv
<1>1. /\ DOMAIN jobs = Jobs /\ DOMAIN doc = {"rev", "avatar", "settings"}
      /\ DOMAIN jobs[j] = {"pc", "before", "list", "sawChosen"}
      /\ NoJob.pc = "idle"
  BY DEF ProfileInv, Slots, DocShape, NoJob
<1>2. active /\ roster' = roster /\ First(roster)' = First(roster)
  BY DEF AnnounceRoster, CheckAvatar, WriteAvatar, DrawingFails, AnnounceAvatar, docVars, First
<1>3. ASSUME doc' = doc, outdated' = outdated, \E x : jobs' = [jobs EXCEPT ![j] = x],
             Owes(j) => Owes(j)'
      PROVE  doc'.avatar.of = First(roster)' \/ \E i \in Jobs : Owes(i)'
  <2>1. ASSUME NEW i \in Jobs, Owes(i) PROVE Owes(i)'
    <3>1. CASE i = j
      BY <1>3, <2>1, <3>1
    <3>2. CASE i # j
      <4>1. jobs'[i] = jobs[i]
        BY <1>1, <1>3, <3>2
      <4> QED BY <1>2, <2>1, <4>1 DEF Owes, Changed, First
    <3> QED BY <3>1, <3>2
  <2> QED BY <1>2, <1>3, <2>1 DEF AvatarInv
<1>4. CASE AnnounceRoster(j)
  <2>1. /\ doc' = doc /\ outdated' = outdated /\ jobs[j].pc = "committed"
        /\ \E x : jobs' = [jobs EXCEPT ![j] = x]
    BY <1>4 DEF AnnounceRoster, docVars
  <2>2. ASSUME Owes(j) PROVE Owes(j)'
    <3>1. Changed(jobs[j].before, roster)
      BY <2>1, <2>2 DEF Owes
    <3>2. jobs'[j].pc = "started" /\ jobs'[j].list = roster
      BY <1>1, <1>4, <3>1 DEF AnnounceRoster, NoJob
    <3>3. First(jobs[j].list)' = First(roster)
      BY <3>2 DEF First
    <3> QED BY <1>2, <3>2, <3>3 DEF Owes
  <2> QED BY <1>3, <2>1, <2>2
<1>5. CASE CheckAvatar(j)
  <2>1. /\ doc' = doc /\ outdated' = outdated /\ jobs[j].pc \in {"created", "started"}
        /\ \E x : jobs' = [jobs EXCEPT ![j] = x]
    BY <1>5 DEF CheckAvatar, docVars
  <2>2. doc.avatar # Chosen
    BY <2>1 DEF Chosen
  <2>3. /\ jobs'[j].pc = "drawing"
        /\ jobs'[j].list = IF jobs[j].pc = "created" THEN roster ELSE jobs[j].list
    BY <1>1, <1>2, <1>5, <2>2 DEF CheckAvatar
  <2>4. First(jobs[j].list)' = IF jobs[j].pc = "created" THEN First(roster) ELSE First(jobs[j].list)
    BY <2>3 DEF First
  <2>5. ASSUME Owes(j) PROVE Owes(j)'
    BY <1>2, <2>1, <2>3, <2>4, <2>5 DEF Owes
  <2> QED BY <1>3, <2>1, <2>5
<1>6. CASE WriteAvatar(j)
  <2>1. doc'.avatar = Drawn(First(jobs[j].list)) /\ First(jobs[j].list) = First(roster)
    BY <1>1, <1>2, <1>6 DEF WriteAvatar, Update
  <2>2. Drawn(First(jobs[j].list)).of = First(jobs[j].list)
    BY DEF Drawn
  <2> QED BY <1>2, <2>1, <2>2
<1>7. CASE DrawingFails(j)
  BY <1>7 DEF DrawingFails
<1>8. CASE AnnounceAvatar(j)
  <2>1. /\ doc' = doc /\ outdated' = outdated /\ jobs[j].pc = "written"
        /\ \E x : jobs' = [jobs EXCEPT ![j] = x]
    BY <1>8 DEF AnnounceAvatar, docVars
  <2> QED BY <1>3, <2>1 DEF Owes
<1> QED BY <1>4, <1>5, <1>6, <1>7, <1>8

\* A request writes no drawn avatar, and consumers write none at all.
LEMMA AvatarStep ==
  ASSUME ProfileInv, TypesInv, AvatarInv, [Next]_vars
  PROVE  AvatarInv'
<1>0. DOMAIN doc = {"rev", "avatar", "settings"}
  BY DEF ProfileInv, DocShape
<1>1. CASE UNCHANGED vars
  BY <1>1, AvatarQuiet DEF vars, docVars
<1>2. ASSUME NEW r \in Requests, ReadGroup(r) \/ Check(r) \/ AnnounceInfo(r) PROVE AvatarInv'
  <2>1. UNCHANGED <<docVars, jobs, outdated>>
    BY <1>2 DEF ReadGroup, Check, AnnounceInfo
  <2> QED BY <2>1, AvatarQuiet DEF docVars
<1>3. ASSUME NEW r \in Requests, WriteSettings(r) PROVE AvatarInv'
  <2>1. doc'.avatar = doc.avatar /\ UNCHANGED <<active, roster, jobs, outdated>>
    BY <1>0, <1>3 DEF WriteSettings, Update
  <2> QED BY <2>1, AvatarQuiet
<1>4. ASSUME NEW r \in Requests, WriteInfo(r) PROVE AvatarInv'
  <2>1. UNCHANGED <<active, roster, jobs, outdated>>
    BY <1>4 DEF WriteInfo
  <2>2. CASE requests[r].op.kind = "avatar" /\ active
    <3>1. doc'.avatar = requests[r].op.avatar
      BY <1>0, <1>4, <2>2 DEF WriteInfo, Update
    <3>2. requests[r].op.avatar \in {NoAvatar, Chosen}
      BY <2>2 DEF ProfileInv, RequestShape, Askable
    <3>3. doc'.avatar.kind # "drawn"
      BY <3>1, <3>2 DEF NoAvatar, Chosen
    <3> QED BY <3>3 DEF AvatarInv
  <2>3. CASE ~active
    BY <2>1, <2>3 DEF AvatarInv
  <2>4. CASE requests[r].op.kind # "avatar"
    <3>1. doc'.avatar = doc.avatar
      BY <1>0, <1>4, <2>4 DEF WriteInfo, Update
    <3> QED BY <2>1, <3>1, AvatarQuiet
  <2> QED BY <2>2, <2>3, <2>4
<1>5. ASSUME NEW u \in Users, NEW j \in Jobs, Join(u, j) \/ Leave(u, j) PROVE AvatarInv'
  BY <1>5, AvatarRoster DEF Join, Leave
<1>6. ASSUME NEW j \in Jobs,
             AnnounceRoster(j) \/ CheckAvatar(j) \/ WriteAvatar(j) \/ DrawingFails(j)
               \/ AnnounceAvatar(j)
      PROVE  AvatarInv'
  BY <1>6, AvatarJob
<1>7. ASSUME NEW c \in Consumers, Handles(c) PROVE AvatarInv'
  BY <1>7, ConsumersOnlyPush, AvatarQuiet DEF docVars
<1>8. CASE Dismiss
  BY <1>8 DEF Dismiss, AvatarInv
<1> QED BY <1>1, <1>2, <1>3, <1>4, <1>5, <1>6, <1>7, <1>8 DEF Next, Handles

---------------------------------------------------------------------------
\* Types

RequestType ==
  [pc : {"idle", "read", "allowed", "written"}, user : Users,
   op : Ops \union {[kind |-> "none"]}, base : Settings, next : Settings]

JobType == [pc : JobStates, before : Seq(Users), list : Seq(Users), sawChosen : BOOLEAN]

\* TypesInv, as the proof takes it apart.
LEMMA TypesParts ==
  TypesInv <=>
    /\ active \in BOOLEAN /\ roster \in Seq(Users) /\ Distinct(roster)
    /\ doc.settings \in Settings
    /\ doc.avatar \in {NoAvatar, Chosen} \/ doc.avatar.kind = "drawn"
    /\ requests \in [Requests -> RequestType] /\ jobs \in [Jobs -> JobType]
    /\ waiting \in Nat
    /\ \A c \in Consumers : consumers[c].to \subseteq Users
    /\ \A u \in Users : seen[u] <= doc.rev
    /\ missed \subseteq Users /\ outdated \in BOOLEAN
<1>1. roster \in Seq(Users) /\ Distinct(roster) => Cardinality(Members) = Len(roster)
  BY RosterCount DEF Members
<1>2. jobs \in [Jobs -> JobType] =>
        \A j \in Jobs : jobs[j].pc \in {"idle", "created", "committed", "started", "drawing", "written"}
  BY DEF JobType, JobStates
<1> QED BY <1>1, <1>2 DEF TypesInv, TypeOK, RequestType, JobType

LEMMA Idle == NoRequest \in RequestType /\ NoJob \in JobType
<1>1. Founders[1] \in Users
  <2>1. Founders \in Seq(Users) /\ Founders # <<>>
    BY ProfileAssumption
  <2> QED BY <2>1
<1>2. Default \in JoinMethods
  BY ProfileAssumption
<1> QED BY <1>1, <1>2 DEF NoRequest, NoJob, RequestType, JobType, JobStates, Settings

LEMMA TypesStart == Init => TypesInv
<1> SUFFICES ASSUME Init PROVE TypesInv
  OBVIOUS
<1>1. active = TRUE /\ roster = Founders /\ waiting = 0 /\ missed = {} /\ outdated = FALSE
  BY DEF Init
<1>2. roster \in Seq(Users) /\ Distinct(roster)
  BY <1>1, ProfileAssumption DEF Distinct
<1>3. doc.settings = [join |-> Default, muted |-> FALSE] /\ doc.rev = 1
      /\ doc.avatar \in {NoAvatar, Drawn(First(Founders))}
  BY DEF Init
<1>4. doc.settings \in Settings
  <2>1. Default \in JoinMethods
    BY ProfileAssumption
  <2> QED BY <1>3, <2>1 DEF Settings
<1>5. doc.avatar \in {NoAvatar, Chosen} \/ doc.avatar.kind = "drawn"
  BY <1>3 DEF Drawn
<1>6. requests \in [Requests -> RequestType]
  BY Idle DEF Init
<1>7. jobs \in [Jobs -> JobType]
  <2>1. [NoJob EXCEPT !.pc = "created"] \in JobType
    BY Idle DEF JobType, JobStates
  <2>2. PICK j \in Jobs : jobs = [i \in Jobs |-> IF i = j /\ doc.avatar = NoAvatar
                                                THEN [NoJob EXCEPT !.pc = "created"] ELSE NoJob]
    BY DEF Init
  <2> QED BY <2>1, <2>2, Idle
<1>8. \A c \in Consumers : consumers[c].to \subseteq Users
  BY DEF Init, NoEvent
<1>9. \A u \in Users : seen[u] <= doc.rev
  BY <1>3 DEF Init
<1> QED BY <1>1, <1>2, <1>4, <1>5, <1>6, <1>7, <1>8, <1>9, TypesParts

\* What a request will write is a value the service knows: an empty join
\* method gives way to the present one.
LEMMA SettingsMerged ==
  ASSUME TypesInv, NEW r \in Requests, requests[r].op.kind = "settings"
  PROVE  WithJoinMethod(Merged(r)) \in Settings
<1> DEFINE op == requests[r].op
           m == Merged(r)
<1>1. requests[r] \in RequestType /\ doc.settings \in Settings
  BY TypesParts
<1>2. op \in Ops /\ requests[r].base \in Settings
  BY <1>1 DEF RequestType
<1>3. /\ "join" \in DOMAIN op.named => op.named.join \in JoinMethods \union {""}
      /\ "muted" \in DOMAIN op.named => op.named.muted \in BOOLEAN
  BY <1>2, OpsAssumption
<1>4. /\ m = [join |-> m.join, muted |-> m.muted]
      /\ m.join \in JoinMethods \union {""} /\ m.muted \in BOOLEAN
  <2>1. requests[r].base.join \in JoinMethods /\ requests[r].base.muted \in BOOLEAN
    BY <1>2 DEF Settings
  <2>2. m.join = IF "join" \in DOMAIN op.named THEN op.named.join ELSE requests[r].base.join
    BY DEF Merged
  <2>3. m.muted = IF "muted" \in DOMAIN op.named THEN op.named.muted ELSE requests[r].base.muted
    BY DEF Merged
  <2>4. m = [join |-> m.join, muted |-> m.muted]
    BY DEF Merged
  <2> HIDE DEF m, op
  <2>5. m.join \in JoinMethods \union {""}
    BY <1>3, <2>1, <2>2, Zenon
  <2>6. m.muted \in BOOLEAN
    BY <1>3, <2>1, <2>3, Zenon
  <2> QED BY <2>4, <2>5, <2>6
<1> HIDE DEF m, op
<1>5. doc.settings.join \in JoinMethods
  BY <1>1 DEF Settings
<1>6. PICK a \in JoinMethods \union {""}, b \in BOOLEAN : m = [join |-> a, muted |-> b]
  BY <1>4
<1>7. WithJoinMethod(m) \in {[join |-> a, muted |-> b], [join |-> doc.settings.join, muted |-> b]}
      /\ (a = "" => WithJoinMethod(m) = [join |-> doc.settings.join, muted |-> b])
  BY <1>6 DEF WithJoinMethod
<1>8. WithJoinMethod(m) \in Settings
  <2>1. [join |-> doc.settings.join, muted |-> b] \in Settings
    BY <1>5 DEF Settings
  <2>2. CASE a = ""
    BY <1>7, <2>1, <2>2, Zenon
  <2>3. CASE a # ""
    <3>1. [join |-> a, muted |-> b] \in Settings
      BY <2>3 DEF Settings
    <3> QED BY <1>7, <2>1, <3>1
  <2> QED BY <2>2, <2>3
<1> QED BY <1>8 DEF m

\* A write of typed values leaves the document typed and later than what was
\* pushed.
LEMMA WriteTyped ==
  ASSUME ProfileInv, TypesInv, NEW d, Update(d), DOMAIN d = DOMAIN doc,
         d.settings \in Settings,
         d.avatar \in {NoAvatar, Chosen} \/ d.avatar.kind = "drawn", seen' = seen
  PROVE  /\ doc'.settings \in Settings
         /\ doc'.avatar \in {NoAvatar, Chosen} \/ doc'.avatar.kind = "drawn"
         /\ \A u \in Users : seen'[u] <= doc'.rev
<1>1. /\ DOMAIN doc = {"rev", "avatar", "settings"} /\ doc.rev \in Nat
      /\ \A u \in Users : seen[u] \in Nat
  BY DEF ProfileInv, DocShape, Counts, Revision, Readers
<1>2. /\ doc.settings \in Settings
      /\ doc.avatar \in {NoAvatar, Chosen} \/ doc.avatar.kind = "drawn"
      /\ \A u \in Users : seen[u] <= doc.rev
  BY TypesParts
<1>3. CASE ~active
  BY <1>2, <1>3 DEF Update
<1>4. CASE active
  <2>1. /\ doc'.settings = d.settings /\ doc'.avatar = d.avatar /\ doc'.rev = doc.rev + 1
    BY <1>1, <1>4 DEF Update
  <2>2. doc'.settings \in Settings
    BY <2>1, Zenon
  <2>3. doc'.avatar \in {NoAvatar, Chosen} \/ doc'.avatar.kind = "drawn"
    BY <2>1, Zenon
  <2>4. \A u \in Users : seen'[u] <= doc'.rev
    BY <1>1, <1>2, <2>1
  <2> QED BY <2>2, <2>3, <2>4
<1> QED BY <1>3, <1>4

\* The parts of the state that a step of a request, a goroutine or a consumer
\* leaves alone stay typed.
DocTypes ==
  /\ doc.settings \in Settings
  /\ doc.avatar \in {NoAvatar, Chosen} \/ doc.avatar.kind = "drawn"
  /\ \A u \in Users : seen[u] <= doc.rev

PlaceTypes ==
  /\ active \in BOOLEAN /\ roster \in Seq(Users) /\ Distinct(roster)
  /\ waiting \in Nat /\ missed \subseteq Users /\ outdated \in BOOLEAN

ActorTypes ==
  /\ requests \in [Requests -> RequestType] /\ jobs \in [Jobs -> JobType]
  /\ \A c \in Consumers : consumers[c].to \subseteq Users

LEMMA TypesSplit == TypesInv <=> DocTypes /\ PlaceTypes /\ ActorTypes
  BY TypesParts DEF DocTypes, PlaceTypes, ActorTypes

LEMMA TypesJoined == DocTypes' /\ PlaceTypes' /\ ActorTypes' => TypesInv'
  BY TypesSplit, PTL

LEMMA DocTypesStay ==
  ASSUME DocTypes, UNCHANGED <<doc, seen>> PROVE DocTypes'
  BY DEF DocTypes

LEMMA PlaceTypesStay ==
  ASSUME PlaceTypes, UNCHANGED <<active, roster>>, waiting' = waiting \/ waiting' = waiting + 1,
         missed' = missed \/ missed' = missed \union Members,
         outdated' = outdated \/ outdated' \in BOOLEAN
  PROVE  PlaceTypes'
<1>0. outdated' \in BOOLEAN
  BY Zenon DEF PlaceTypes
<1>1. Members \subseteq Users
  BY DEF PlaceTypes, Members
<1>2. missed' \subseteq Users /\ waiting' \in Nat
  BY <1>1 DEF PlaceTypes
<1> QED BY <1>0, <1>2, Zenon DEF PlaceTypes, Distinct

LEMMA RequestTyped ==
  ASSUME ActorTypes, NEW r \in Requests, NEW q \in RequestType,
         requests' = [requests EXCEPT ![r] = q], UNCHANGED <<jobs, consumers>>
  PROVE  ActorTypes'
  BY DEF ActorTypes

LEMMA JobTyped ==
  ASSUME ActorTypes, NEW j \in Jobs, NEW q \in JobType,
         jobs' = [jobs EXCEPT ![j] = q], UNCHANGED <<requests, consumers>>
  PROVE  ActorTypes'
  BY DEF ActorTypes

LEMMA ActorsStay ==
  ASSUME ActorTypes, UNCHANGED <<requests, jobs, consumers>> PROVE ActorTypes'
  BY DEF ActorTypes

LEMMA TypesStep ==
  ASSUME ProfileInv, TypesInv, [Next]_vars
  PROVE  TypesInv'
<1>0. /\ DocTypes /\ PlaceTypes /\ ActorTypes
      /\ DOMAIN doc = {"rev", "avatar", "settings"} /\ DOMAIN jobs = Jobs
      /\ DOMAIN consumers = Consumers /\ DOMAIN requests = Requests
  BY TypesSplit DEF ProfileInv, DocShape, Slots, RequestShape
<1> USE <1>0
<1>1. CASE UNCHANGED vars
  <2>1. UNCHANGED <<doc, seen, active, roster, waiting, missed, outdated, requests, jobs, consumers>>
    BY <1>1 DEF vars, docVars, pushVars, eventVars
  <2> QED BY <2>1, DocTypesStay, PlaceTypesStay, ActorsStay, TypesJoined
<1>2. ASSUME NEW r \in Requests, ReadGroup(r) PROVE TypesInv'
  <2>1. UNCHANGED <<doc, seen, active, roster, waiting, missed, outdated, jobs, consumers>>
    BY <1>2 DEF ReadGroup, Silent, eventVars, docVars, pushVars
  <2>2. PICK u \in Members, op \in Ops :
          requests' = [requests EXCEPT ![r] =
            [NoRequest EXCEPT !.pc = "read", !.user = u, !.op = op, !.base = doc.settings]]
    BY <1>2 DEF ReadGroup
  <2>3. u \in Users
    BY DEF PlaceTypes, Members
  <2> DEFINE q == [NoRequest EXCEPT !.pc = "read", !.user = u, !.op = op, !.base = doc.settings]
  <2>4. q \in RequestType
    BY <2>3, Idle DEF RequestType, DocTypes
  <2> HIDE DEF q
  <2>5. ActorTypes'
    <3>1. requests' = [requests EXCEPT ![r] = q]
      BY <2>2 DEF q
    <3> QED BY <2>1, <2>4, <3>1, RequestTyped
  <2> QED BY <2>1, <2>5, DocTypesStay, PlaceTypesStay, TypesJoined
<1>3. ASSUME NEW r \in Requests, Check(r) PROVE TypesInv'
  <2>1. UNCHANGED <<doc, seen, active, roster, waiting, missed, outdated, jobs, consumers>>
    BY <1>3 DEF Check, Silent, eventVars, docVars, pushVars
  <2> DEFINE s == WithJoinMethod(Merged(r))
             q == [requests[r] EXCEPT !.pc = "allowed", !.next = s]
             o == [requests[r] EXCEPT !.pc = "allowed"]
  <2>2. requests[r].op.kind = "settings" => s \in Settings
    BY SettingsMerged
  <2> HIDE DEF s
  <2>3. requests[r] \in RequestType
    BY DEF ActorTypes
  <2>4. (requests[r].op.kind = "settings" => q \in RequestType) /\ o \in RequestType
    BY <2>2, <2>3 DEF RequestType
  <2>5. \/ requests' = [requests EXCEPT ![r] = NoRequest]
        \/ requests' = [requests EXCEPT ![r] = q] /\ requests[r].op.kind = "settings"
        \/ requests' = [requests EXCEPT ![r] = o]
    BY <1>3 DEF Check, s
  <2> HIDE DEF q, o
  <2>6. ActorTypes'
    BY <2>1, <2>4, <2>5, Idle, RequestTyped
  <2> QED BY <2>1, <2>6, DocTypesStay, PlaceTypesStay, TypesJoined
<1>4. ASSUME NEW r \in Requests, WriteSettings(r) PROVE TypesInv'
  <2>1. /\ UNCHANGED <<seen, active, roster, waiting, missed, outdated, jobs, consumers>>
        /\ requests' = [requests EXCEPT ![r] = NoRequest]
    BY <1>4 DEF WriteSettings, Silent, eventVars, pushVars
  <2> DEFINE d == [doc EXCEPT !.settings = requests[r].next]
  <2>2. DOMAIN d = DOMAIN doc /\ d.settings \in Settings /\ d.avatar = doc.avatar
    <3>1. requests[r].next \in Settings
      BY DEF ActorTypes, RequestType
    <3> QED BY <3>1
  <2>3. Update(d)
    BY <1>4 DEF WriteSettings
  <2> HIDE DEF d
  <2>4. DocTypes'
    BY <2>1, <2>2, <2>3, WriteTyped DEF DocTypes
  <2> QED BY <2>1, <2>4, Idle, RequestTyped, PlaceTypesStay, TypesJoined
<1>5. ASSUME NEW r \in Requests, WriteInfo(r) PROVE TypesInv'
  <2> DEFINE d == IF requests[r].op.kind = "avatar"
                  THEN [doc EXCEPT !.avatar = requests[r].op.avatar] ELSE doc
             q == [requests[r] EXCEPT !.pc = "written"]
  <2>1. /\ UNCHANGED <<seen, active, roster, waiting, missed, outdated, jobs, consumers>>
        /\ requests' = [requests EXCEPT ![r] = NoRequest] \/ requests' = [requests EXCEPT ![r] = q]
        /\ Update(d)
    BY <1>5 DEF WriteInfo, Silent, eventVars, pushVars
  <2>2. q \in RequestType
    BY DEF ActorTypes, RequestType
  <2>3. requests[r].op.kind = "avatar" => requests[r].op.avatar \in {NoAvatar, Chosen}
    BY DEF ProfileInv, RequestShape, Askable
  <2>4. /\ DOMAIN d = DOMAIN doc /\ d.settings \in Settings
        /\ d.avatar \in {NoAvatar, Chosen} \/ d.avatar.kind = "drawn"
    <3>1. CASE requests[r].op.kind = "avatar"
      <4>1. DOMAIN d = DOMAIN doc /\ d.settings = doc.settings /\ d.avatar = requests[r].op.avatar
        BY <3>1
      <4> HIDE DEF d
      <4> QED BY <2>3, <3>1, <4>1, Zenon DEF DocTypes
    <3>2. CASE requests[r].op.kind # "avatar"
      <4>1. d = doc
        BY <3>2
      <4> HIDE DEF d
      <4> QED BY <4>1 DEF DocTypes
    <3> QED BY <3>1, <3>2
  <2> HIDE DEF d, q
  <2>5. DocTypes'
    BY <2>1, <2>4, WriteTyped DEF DocTypes
  <2>6. ActorTypes'
    BY <2>1, <2>2, Idle, RequestTyped
  <2>7. PlaceTypes'
    BY <2>1, PlaceTypesStay
  <2> QED BY <2>5, <2>6, <2>7, TypesJoined
<1>6. ASSUME NEW r \in Requests, AnnounceInfo(r) PROVE TypesInv'
  <2>1. /\ UNCHANGED <<doc, seen, active, roster, outdated, jobs, consumers>>
        /\ waiting' = waiting \/ waiting' = waiting + 1
        /\ missed' = missed \/ missed' = missed \union Members
        /\ requests' = [requests EXCEPT ![r] = NoRequest]
    BY <1>6 DEF AnnounceInfo, Publish, docVars, pushVars
  <2> QED BY <2>1, Idle, RequestTyped, DocTypesStay, PlaceTypesStay, TypesJoined
<1>7. ASSUME NEW j \in Jobs, NEW new \in Seq(Users), Distinct(new), ChangeRoster(j, new)
      PROVE  TypesInv'
  <2> DEFINE q == [NoJob EXCEPT !.pc = "committed", !.before = roster]
  <2>1. /\ UNCHANGED <<seen, active, waiting, requests, consumers>> /\ roster' = new
        /\ UNCHANGED <<missed, outdated>> /\ Update(doc)
        /\ jobs' = [jobs EXCEPT ![j] = q]
    BY <1>7 DEF ChangeRoster, Silent, eventVars, pushVars
  <2>2. q \in JobType
    BY Idle DEF JobType, JobStates, PlaceTypes
  <2> HIDE DEF q
  <2>3. ActorTypes'
    BY <2>1, <2>2, JobTyped
  <2>4. DocTypes'
    BY <2>1, WriteTyped DEF DocTypes
  <2>5. PlaceTypes'
    <3>2. Distinct(roster)'
      BY <1>7, <2>1 DEF Distinct
    <3> QED BY <2>1, <3>2 DEF PlaceTypes
  <2> QED BY <2>3, <2>4, <2>5, TypesJoined
<1>8. ASSUME NEW u \in Users, NEW j \in Jobs, Join(u, j) PROVE TypesInv'
  <2>1. /\ Append(roster, u) \in Seq(Users) /\ Distinct(Append(roster, u))
    <3>1. \A i \in DOMAIN roster : roster[i] # u
      BY <1>8 DEF Join, Members
    <3> QED BY <3>1, RosterJoined DEF PlaceTypes
  <2> QED BY <1>7, <1>8, <2>1 DEF Join
<1>9. ASSUME NEW u \in Users, NEW j \in Jobs, Leave(u, j) PROVE TypesInv'
  <2>1. PICK i \in DOMAIN roster : ChangeRoster(j, Without(roster, i))
    BY <1>9 DEF Leave
  <2>2. Without(roster, i) \in Seq(Users) /\ Distinct(Without(roster, i))
    BY RosterLeft DEF PlaceTypes
  <2> QED BY <1>7, <2>1, <2>2
<1>10. ASSUME NEW j \in Jobs, AnnounceRoster(j) \/ CheckAvatar(j) \/ DrawingFails(j)
                                \/ AnnounceAvatar(j)
       PROVE  TypesInv'
  <2>1. /\ UNCHANGED <<doc, seen, active, roster, requests, consumers>>
        /\ waiting' = waiting \/ waiting' = waiting + 1
        /\ missed' = missed \/ missed' = missed \union Members
        /\ outdated' \in BOOLEAN
    BY <1>10 DEF AnnounceRoster, CheckAvatar, DrawingFails, AnnounceAvatar, Publish, Silent,
                 eventVars, docVars, pushVars, PlaceTypes
  <2>2. \E q \in JobType : jobs' = [jobs EXCEPT ![j] = q]
    <3>1. roster \in Seq(Users) /\ jobs[j] \in JobType
      BY DEF PlaceTypes, ActorTypes
    <3>2. /\ [NoJob EXCEPT !.pc = "started", !.list = roster] \in JobType
          /\ \A l \in Seq(Users), b \in BOOLEAN :
               [jobs[j] EXCEPT !.pc = "drawing", !.sawChosen = b, !.list = l] \in JobType
          /\ jobs[j].list \in Seq(Users)
      BY <3>1, Idle DEF JobType, JobStates
    <3>3. CASE AnnounceRoster(j)
      BY <3>2, <3>3, Idle DEF AnnounceRoster
    <3>4. CASE CheckAvatar(j)
      <4> DEFINE l == IF jobs[j].pc = "created" THEN roster ELSE jobs[j].list
                 b == doc.avatar = Chosen
                 q == [jobs[j] EXCEPT !.pc = "drawing", !.sawChosen = b, !.list = l]
      <4>1. l \in Seq(Users)
        BY <3>1, <3>2
      <4>2. jobs' = [jobs EXCEPT ![j] = NoJob] \/ jobs' = [jobs EXCEPT ![j] = q]
        BY <3>4 DEF CheckAvatar
      <4>4. b \in BOOLEAN
        OBVIOUS
      <4> HIDE DEF l, b
      <4>3. q \in JobType
        BY <3>2, <4>1, <4>4
      <4> HIDE DEF q
      <4> QED BY <4>2, <4>3, Idle
    <3>5. CASE DrawingFails(j) \/ AnnounceAvatar(j)
      BY <3>5, Idle DEF DrawingFails, AnnounceAvatar
    <3> QED BY <1>10, <3>3, <3>4, <3>5
  <2>3. ActorTypes'
    BY <2>1, <2>2, JobTyped
  <2> QED BY <2>1, <2>3, DocTypesStay, PlaceTypesStay, TypesJoined
<1>11. ASSUME NEW j \in Jobs, WriteAvatar(j) PROVE TypesInv'
  <2> DEFINE d == [doc EXCEPT !.avatar = Drawn(First(jobs[j].list))]
             q == [NoJob EXCEPT !.pc = "written"]
  <2>1. /\ UNCHANGED <<seen, active, roster, waiting, missed, requests, consumers>>
        /\ outdated' \in BOOLEAN
        /\ jobs' = [jobs EXCEPT ![j] = q] \/ jobs' = [jobs EXCEPT ![j] = NoJob]
        /\ Update(d)
    BY <1>11 DEF WriteAvatar, Silent, eventVars, pushVars
  <2>2. DOMAIN d = DOMAIN doc /\ d.settings = doc.settings /\ d.avatar.kind = "drawn"
    BY DEF Drawn
  <2>3. q \in JobType
    BY Idle DEF JobType, JobStates
  <2> HIDE DEF d, q
  <2>4. DocTypes'
    BY <2>1, <2>2, WriteTyped DEF DocTypes
  <2>5. ActorTypes'
    BY <2>1, <2>3, Idle, JobTyped
  <2> QED BY <2>1, <2>4, <2>5, PlaceTypesStay, TypesJoined
<1>12. ASSUME NEW c \in Consumers, ListUIDs(c) \/ ListFails(c) PROVE TypesInv'
  <2>1. /\ UNCHANGED <<doc, seen, active, roster, outdated, requests, jobs>>
        /\ waiting > 0 /\ waiting' = waiting - 1
        /\ \/ consumers' = [consumers EXCEPT ![c] = [NoEvent EXCEPT !.pc = "listed", !.to = Members]]
           \/ consumers' = consumers
        /\ missed' = missed \/ missed' = missed \union Members
    BY <1>12 DEF ListUIDs, Taken, ListFails, docVars, pushVars
  <2>2. Members \subseteq Users
    BY DEF PlaceTypes, Members
  <2>3. ActorTypes'
    BY <2>1, <2>2 DEF ActorTypes, NoEvent
  <2>4. PlaceTypes'
    <3>1. waiting' \in Nat
      BY <2>1 DEF PlaceTypes
    <3> QED BY <2>1, <2>2, <3>1, Zenon DEF PlaceTypes, Distinct
  <2> QED BY <2>1, <2>3, <2>4, DocTypesStay, TypesJoined
<1>13. ASSUME NEW c \in Consumers, FindGroup(c) \/ HandlingFails(c)
                                    \/ \E v \in Users : PushTo(c, v) \/ PushFails(c, v)
       PROVE  TypesInv'
  <2>1. UNCHANGED <<doc, active, roster, outdated, waiting, requests, jobs>>
    BY <1>13 DEF FindGroup, HandlingFails, PushTo, PushFails, Silent, eventVars, docVars
  <2>2. /\ consumers[c].to \subseteq Users /\ DOMAIN consumers[c] = {"pc", "to", "rev"}
        /\ consumers[c].rev \in Nat /\ consumers[c].rev <= doc.rev /\ doc.rev \in Nat
        /\ DOMAIN seen = Users
    BY DEF ActorTypes, ProfileInv, Slots, Counts, Readers, Revision
  <2>3. /\ \E x : consumers' = [consumers EXCEPT ![c] = x] /\ x.to \subseteq Users
        /\ missed' \subseteq Users
        /\ \A u \in Users : seen'[u] <= doc.rev
    <3>0. NoEvent.to = {} /\ missed \subseteq Users /\ \A u \in Users : seen[u] <= doc.rev
      BY DEF NoEvent, PlaceTypes, DocTypes
    <3>1. CASE FindGroup(c)
      <4>1. [consumers[c] EXCEPT !.pc = "read", !.rev = doc.rev].to = consumers[c].to
        BY <2>2
      <4> QED BY <2>2, <3>0, <3>1, <4>1 DEF FindGroup, Silent, eventVars
    <3>2. CASE HandlingFails(c)
      BY <2>2, <3>0, <3>2 DEF HandlingFails
    <3>3. ASSUME NEW v \in consumers[c].to, consumers' = [consumers EXCEPT ![c] = Rest(@, v)]
          PROVE  \E x : consumers' = [consumers EXCEPT ![c] = x] /\ x.to \subseteq Users
      <4>1. Rest(consumers[c], v).to \subseteq Users
        BY <2>2, Remains
      <4> QED BY <3>3, <4>1
    <3>4. ASSUME NEW v \in Users, PushTo(c, v)
          PROVE  missed' \subseteq Users /\ \A u \in Users : seen'[u] <= doc.rev
      BY <2>2, <3>0, <3>4 DEF PushTo
    <3>5. ASSUME NEW v \in Users, PushFails(c, v)
          PROVE  missed' \subseteq Users /\ \A u \in Users : seen'[u] <= doc.rev
      BY <3>0, <3>5 DEF PushFails
    <3> QED BY <1>13, <3>1, <3>2, <3>3, <3>4, <3>5 DEF PushTo, PushFails
  <2>4. ActorTypes'
    BY <2>1, <2>3 DEF ActorTypes
  <2>5. DocTypes'
    BY <2>1, <2>3 DEF DocTypes
  <2>6. PlaceTypes'
    BY <2>1, <2>3, Zenon DEF PlaceTypes, Distinct
  <2> QED BY <2>4, <2>5, <2>6, TypesJoined
<1>14. ASSUME Dismiss PROVE TypesInv'
  <2>1. /\ UNCHANGED <<doc, seen, roster, outdated, requests, jobs, consumers>>
        /\ waiting' = waiting \/ waiting' = waiting + 1
        /\ missed' = missed \/ missed' = missed \union Members
        /\ active' = FALSE
    BY <1>14 DEF Dismiss, Publish, pushVars
  <2>2. PlaceTypes'
    <3>1. waiting' \in Nat
      BY <2>1 DEF PlaceTypes
    <3>2. missed' \subseteq Users
      BY <2>1 DEF PlaceTypes, Members
    <3> QED BY <2>1, <3>1, <3>2, Zenon DEF PlaceTypes, Distinct
  <2> QED BY <2>1, <2>2, ActorsStay, DocTypesStay, TypesJoined
<1>15. ASSUME Next PROVE TypesInv'
  BY <1>2, <1>3, <1>4, <1>5, <1>6, <1>8, <1>9, <1>10, <1>11, <1>12, <1>13, <1>14, <1>15 DEF Next
<1> QED BY <1>1, <1>15

---------------------------------------------------------------------------
\* Every reachable state satisfies the three inductive invariants at once.
THEOREM ProfileTypes == Spec => [](TypesInv /\ AvatarInv)
<1>1. ProfileInv /\ TypesInv /\ AvatarInv /\ [Next]_vars => (TypesInv /\ AvatarInv)'
  BY TypesStep, AvatarStep
<1>2. Init => TypesInv /\ AvatarInv
  BY TypesStart, AvatarStart
<1> QED BY <1>1, <1>2, ProfileInvariant, PTL DEF Spec

\* The settings stay values the service knows whatever a request names, no one
\* is a member twice, and nothing is pushed that was never written.
THEOREM ProfileTypeCorrect == Spec => []TypeOK
<1>1. TypesInv => TypeOK  BY DEF TypesInv
<1> QED BY <1>1, ProfileTypes, PTL

\* With no goroutine at work, a drawn avatar shows the first members as they
\* are now, however many changes there have been, unless the last one written
\* was drawn from a list out of date, or one could not be drawn.
THEOREM AvatarsShowMembers == Spec => []AvatarShowsMembers
<1>1. AvatarInv => AvatarShowsMembers  BY DEF AvatarInv, AvatarShowsMembers, Owes
<1> QED BY <1>1, ProfileTypes, PTL
=============================================================================
