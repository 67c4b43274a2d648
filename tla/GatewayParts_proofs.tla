------------------------ MODULE GatewayParts_proofs ------------------------
(***************************************************************************)
(* Proofs about the small parts around the gateway, each for any value of  *)
(* its constants: the versioned snapshots of a user, the token buckets of  *)
(* the rate limiter, the retries of the event bus, the one chat of two     *)
(* users, and the paged lists.                                             *)
(***************************************************************************)
EXTENDS UserSnapshots, RateLimiter, EventBus, SingleChat, Paging, FiniteSetTheorems,
        TLAPS

---------------------------------------------------------------------------
(* User snapshots *)

PutSteps == {"new", "update", "find", "insert", "ok", "stale", "error"}

\* What a request knows of the document while it runs.  A request that began
\* when the user was stored has, after its update, found a version that is not
\* older than its own; and it never inserts.
Progress(w) ==
  /\ puts[w].pc \in {"update", "find", "insert"} => puts[w].version > 0
  /\ puts[w].pc = "ok" => user >= puts[w].version
  /\ puts[w].pc \in {"update", "find", "insert"} /\ puts[w].began = "stored" => user > 0
  /\ puts[w].pc = "find" /\ puts[w].began = "stored" => user >= puts[w].version
  /\ puts[w].pc = "insert" => puts[w].began = "absent"
  /\ puts[w].pc = "stale" /\ puts[w].began = "stored" => user > puts[w].version

SnapshotTypes ==
  /\ user \in Nat
  /\ puts \in [Writers -> [pc : PutSteps, version : Nat, count : Nat, began : {"absent", "stored"}]]

SnapshotInv == SnapshotTypes /\ \A w \in Writers : Progress(w)

LEMMA SnapshotsStart == SnapshotsInit => SnapshotInv
  BY SnapshotsAssumption DEF SnapshotsInit, SnapshotInv, SnapshotTypes, Progress, PutSteps

\* Every step keeps the invariant, and none makes the copy older.
LEMMA SnapshotsStep ==
  ASSUME SnapshotInv, [SnapshotsNext]_snapshotVars
  PROVE  SnapshotInv' /\ user' >= user
<1>1. CASE UNCHANGED snapshotVars
  BY <1>1 DEF SnapshotInv, SnapshotTypes, Progress, snapshotVars
<1>2. ASSUME NEW w \in Writers, NEW v \in 1..MaxVersion, PutUserSnapshot(w, v)
      PROVE  SnapshotInv' /\ user' >= user
  BY <1>2, SnapshotsAssumption DEF SnapshotInv, SnapshotTypes, Progress, PutSteps, PutUserSnapshot
<1>3. ASSUME NEW w \in Writers, Update(w)
      PROVE  SnapshotInv' /\ user' >= user
  BY <1>3 DEF SnapshotInv, SnapshotTypes, Progress, PutSteps, Update, Goto
<1>4. ASSUME NEW w \in Writers, FindCurrent(w)
      PROVE  SnapshotInv' /\ user' >= user
  BY <1>4 DEF SnapshotInv, SnapshotTypes, Progress, PutSteps, FindCurrent, Goto
<1>5. ASSUME NEW w \in Writers, Insert(w)
      PROVE  SnapshotInv' /\ user' >= user
  BY <1>5 DEF SnapshotInv, SnapshotTypes, Progress, PutSteps, Insert, Goto
<1>6. ASSUME NEW w \in Writers, DatabaseError(w)
      PROVE  SnapshotInv' /\ user' >= user
  BY <1>6 DEF SnapshotInv, SnapshotTypes, Progress, PutSteps, DatabaseError, Goto, Idle
<1> QED BY <1>1, <1>2, <1>3, <1>4, <1>5, <1>6 DEF SnapshotsNext

\* The inductive invariant: what every request under way knows stays true.
THEOREM SnapshotsInvariant == SnapshotsSpec => []SnapshotInv
<1>1. SnapshotInv /\ [SnapshotsNext]_snapshotVars => SnapshotInv'  BY SnapshotsStep
<1> QED BY <1>1, SnapshotsStart, PTL DEF SnapshotsSpec

\* A snapshot that was acknowledged is kept until a newer one replaces it.
THEOREM AcknowledgedStays == SnapshotsSpec => []AcknowledgedIsKept
<1>1. SnapshotInv => AcknowledgedIsKept  BY DEF SnapshotInv, Progress, AcknowledgedIsKept
<1> QED BY <1>1, SnapshotsInvariant, PTL

\* Only a newer version makes a snapshot stale, except for the race of inserts.
THEOREM StaleIsOlder == SnapshotsSpec => []StaleMeansNewer
<1>1. SnapshotInv => StaleMeansNewer  BY DEF SnapshotInv, Progress, StaleMeansNewer
<1> QED BY <1>1, SnapshotsInvariant, PTL

\* The copy of a user never goes back to an older version.
THEOREM VersionsOnlyAdvance == SnapshotsSpec => VersionsAdvance
<1>1. SnapshotInv /\ [SnapshotsNext]_snapshotVars => [user' >= user]_snapshotVars
  BY SnapshotsStep
<1> QED BY <1>1, SnapshotsInvariant, PTL DEF SnapshotsSpec, VersionsAdvance

---------------------------------------------------------------------------
(* Rate limiter *)

\* The tokens a request would find in a bucket now.
Level(v) == IF v.known THEN Refilled(v) ELSE Burst

LimiterTypes ==
  /\ clock \in Nat /\ swept \in Nat
  /\ visitors \in [Keys -> [known : BOOLEAN, tokens : Nat, lastCheck : Nat]]
  /\ \A k \in Keys : visitors[k].lastCheck <= clock /\ visitors[k].tokens <= Burst
  /\ admitted \in [Keys -> Seq(Nat)]

\* Since any admitted request a bucket has given no more than one full bucket
\* and what flowed in since, what it still holds included.
Budget(k) ==
  \A i \in DOMAIN admitted[k] :
    /\ admitted[k][i] <= clock
    /\ Len(admitted[k]) - i + 1 + Level(visitors[k])
         <= Burst + Rate * (clock - admitted[k][i])

LimiterInv == LimiterTypes /\ (\A k \in Keys : Budget(k)) /\ WithinRate

LEMMA LimiterStart == LimiterInit => LimiterInv
  BY LimiterAssumption DEF LimiterInit, LimiterInv, LimiterTypes, Budget, WithinRate, Stranger

\* What flows into a bucket.
LEMMA Inflow ==
  /\ \A n \in Nat : Rate * n \in Nat /\ n * Rate = Rate * n /\ Rate * (n + 1) = Rate * n + Rate
  /\ \A n \in Nat : n >= Cleanup => Rate * n >= Burst
<1>1. \A n \in Nat : Rate * n \in Nat /\ n * Rate = Rate * n /\ Rate * (n + 1) = Rate * n + Rate
  BY LimiterAssumption
<1>2. \A n \in Nat : n >= Cleanup => Rate * n >= Rate * Cleanup
  BY LimiterAssumption
<1> QED BY <1>1, <1>2, LimiterAssumption

LEMMA LevelTypes ==
  ASSUME LimiterTypes, NEW k \in Keys
  PROVE  Level(visitors[k]) \in 0..Burst
<1>1. /\ visitors[k].tokens \in Nat /\ visitors[k].known \in BOOLEAN
      /\ clock - visitors[k].lastCheck \in Nat
  BY DEF LimiterTypes
<1>2. (clock - visitors[k].lastCheck) * Rate \in Nat
  BY <1>1, Inflow
<1> QED BY <1>1, <1>2, LimiterAssumption DEF Level, Refilled

\* A unit of time adds the rate to both sides of the budget.
LEMMA FlowAdds ==
  ASSUME NEW n \in Nat, NEW i \in Nat, NEW old \in Nat, NEW new \in Nat, NEW flow \in Nat,
         n - i + 1 + old <= Burst + flow, new <= old + Rate
  PROVE  n - i + 1 + new <= Burst + (flow + Rate)
  BY LimiterAssumption

LEMMA LimiterElapse ==
  ASSUME LimiterInv, Elapse
  PROVE  LimiterInv'
<1>1. /\ clock \in Nat /\ clock' = clock + 1
      /\ visitors' = visitors /\ admitted' = admitted /\ swept' = swept
  BY DEF Elapse, LimiterInv, LimiterTypes
<1>2. LimiterTypes'
  BY <1>1 DEF LimiterInv, LimiterTypes
<1>3. WithinRate'
  BY <1>1 DEF LimiterInv, WithinRate
<1>4. ASSUME NEW k \in Keys PROVE Budget(k)'
  <2>1. Level(visitors[k])' \in Nat /\ Level(visitors[k])' <= Level(visitors[k]) + Rate
    <3> DEFINE n == clock - visitors[k].lastCheck
    <3>1. n \in Nat /\ clock' - visitors[k].lastCheck = n + 1 /\ visitors[k].tokens \in Nat
      BY <1>1 DEF LimiterInv, LimiterTypes
    <3>2. n * Rate \in Nat /\ (n + 1) * Rate = n * Rate + Rate
      BY <3>1, Inflow
    <3> HIDE DEF n
    <3>3. Refilled(visitors[k])' = IF visitors[k].tokens + n * Rate + Rate > Burst THEN Burst
                                   ELSE visitors[k].tokens + n * Rate + Rate
      BY <1>1, <3>1, <3>2, LimiterAssumption DEF Refilled
    <3>4. Refilled(visitors[k]) = IF visitors[k].tokens + n * Rate > Burst THEN Burst
                                  ELSE visitors[k].tokens + n * Rate
      BY DEF Refilled, n
    <3> QED BY <1>1, <3>1, <3>2, <3>3, <3>4, LimiterAssumption DEF Level
  <2>2. Level(visitors[k]) \in Nat /\ admitted[k] \in Seq(Nat)
    BY LevelTypes, LimiterAssumption DEF LimiterInv, LimiterTypes
  <2>3. ASSUME NEW i \in DOMAIN admitted[k]
        PROVE  /\ admitted'[k][i] <= clock'
               /\ Len(admitted'[k]) - i + 1 + Level(visitors[k])'
                    <= Burst + Rate * (clock' - admitted'[k][i])
    <3>1. /\ admitted[k][i] \in Nat /\ admitted[k][i] <= clock
          /\ Len(admitted[k]) - i + 1 + Level(visitors[k])
                <= Burst + Rate * (clock - admitted[k][i])
      BY <2>2 DEF LimiterInv, Budget
    <3>2. clock - admitted[k][i] \in Nat /\ clock' - admitted[k][i] = (clock - admitted[k][i]) + 1
      BY <1>1, <3>1
    <3>3. /\ Rate * (clock' - admitted[k][i]) = Rate * (clock - admitted[k][i]) + Rate
          /\ Rate * (clock - admitted[k][i]) \in Nat
      BY <3>2, Inflow
    <3> DEFINE flow == Rate * (clock - admitted[k][i])
    <3>4. /\ Len(admitted[k]) - i + 1 + Level(visitors[k]) <= Burst + flow
          /\ flow \in Nat /\ Rate * (clock' - admitted[k][i]) = flow + Rate
      BY <3>1, <3>3
    <3> HIDE DEF flow
    <3>5. i \in Nat /\ Len(admitted[k]) \in Nat
      BY <2>2
    <3>6. Len(admitted[k]) - i + 1 + Level(visitors[k])' <= Burst + (flow + Rate)
      BY <2>1, <2>2, <3>4, <3>5, FlowAdds
    <3> QED BY <1>1, <3>1, <3>4, <3>6
  <2> QED BY <1>1, <2>3 DEF Budget
<1> QED BY <1>2, <1>3, <1>4 DEF LimiterInv

\* A request that is admitted takes one token of those its bucket holds.
LEMMA LimiterAllow ==
  ASSUME LimiterInv, NEW k \in Keys, Allow(k)
  PROVE  LimiterInv'
<1> DEFINE tokens == Level(visitors[k])
           after == IF tokens >= 1 THEN tokens - 1 ELSE tokens
           s == admitted[k]
<1>1. /\ tokens \in 0..Burst /\ clock \in Nat /\ s \in Seq(Nat)
      /\ after \in 0..Burst /\ LimiterTypes
  BY LevelTypes, LimiterAssumption DEF LimiterInv, LimiterTypes
<1>2. /\ visitors' = [visitors EXCEPT ![k] = [known |-> TRUE, tokens |-> after, lastCheck |-> clock]]
      /\ admitted' = [admitted EXCEPT ![k] = IF tokens >= 1 THEN Append(s, clock) ELSE s]
      /\ clock' = clock /\ swept' = swept
  BY DEF Allow, Level
<1> HIDE DEF tokens
<1>3. LimiterTypes'
  BY <1>1, <1>2, LimiterAssumption DEF LimiterTypes
<1>4. ASSUME NEW x \in Keys, x # k PROVE Budget(x)'
  <2>1. visitors'[x] = visitors[x] /\ admitted'[x] = admitted[x]
    BY <1>1, <1>2, <1>4 DEF LimiterTypes
  <2>2. Level(visitors[x])' = Level(visitors[x])
    BY <1>2, <2>1 DEF Level, Refilled
  <2> QED BY <1>2, <2>1, <2>2 DEF LimiterInv, Budget
<1>5. Level(visitors[k])' = after
  <2>1. visitors'[k] = [known |-> TRUE, tokens |-> after, lastCheck |-> clock]
    BY <1>1, <1>2 DEF LimiterTypes
  <2>2. (clock - clock) * Rate = 0
    BY <1>1, LimiterAssumption
  <2>3. Refilled(visitors[k])' = after
    BY <1>1, <1>2, <2>1, <2>2, LimiterAssumption DEF Refilled
  <2> QED BY <2>1, <2>3 DEF Level
<1>6. admitted'[k] = IF tokens >= 1 THEN Append(s, clock) ELSE s
  BY <1>1, <1>2 DEF LimiterTypes
<1>7. \A i \in DOMAIN s :
        /\ s[i] \in Nat /\ s[i] <= clock /\ Rate * (clock - s[i]) \in Nat
        /\ Len(s) - i + 1 + tokens <= Burst + Rate * (clock - s[i])
  <2> TAKE i \in DOMAIN s
  <2>1. s[i] \in Nat /\ s[i] <= clock
    BY <1>1 DEF LimiterInv, Budget
  <2>2. clock - s[i] \in Nat
    BY <1>1, <2>1
  <2> QED BY <2>1, <2>2, Inflow DEF LimiterInv, Budget, tokens
<1>8. CASE tokens >= 1
  <2>1. /\ admitted'[k] = Append(s, clock) /\ Level(visitors[k])' = tokens - 1
        /\ Rate * (clock - clock) = 0
    BY <1>1, <1>5, <1>6, <1>8, LimiterAssumption
  <2>2. \A i \in DOMAIN Append(s, clock) :
          \/ i \in DOMAIN s /\ Append(s, clock)[i] = s[i]
          \/ i = Len(s) + 1 /\ Append(s, clock)[i] = clock
    BY <1>1
  <2>3. Len(Append(s, clock)) = Len(s) + 1 /\ Len(s) \in Nat /\ Burst \in Nat
    BY <1>1, LimiterAssumption
  <2>4. ASSUME NEW i \in DOMAIN Append(s, clock)
        PROVE  /\ Append(s, clock)[i] <= clock
               /\ Len(Append(s, clock)) - i + 1 + (tokens - 1)
                    <= Burst + Rate * (clock - Append(s, clock)[i])
    <3>1. CASE i \in DOMAIN s /\ Append(s, clock)[i] = s[i]
      <4> DEFINE flow == Rate * (clock - s[i])
      <4>1. Len(s) - i + 1 + tokens <= Burst + flow /\ flow \in Nat /\ s[i] <= clock
        BY <1>7, <3>1
      <4>2. Append(s, clock)[i] <= clock /\ Rate * (clock - Append(s, clock)[i]) = flow
        BY <3>1, <4>1
      <4> HIDE DEF flow
      <4>3. i \in Nat
        BY <1>1, <3>1
      <4>4. (Len(s) + 1) - i + 1 + (tokens - 1) <= Burst + flow
        BY <1>1, <2>3, <4>1, <4>3
      <4> QED BY <2>3, <4>2, <4>4
    <3>2. CASE i = Len(s) + 1 /\ Append(s, clock)[i] = clock
      BY <1>1, <2>1, <2>3, <3>2
    <3> QED BY <2>2, <3>1, <3>2
  <2>5. Budget(k)'
    BY <1>2, <2>1, <2>4 DEF Budget
  <2>6. ASSUME NEW i \in DOMAIN Append(s, clock), NEW j \in DOMAIN Append(s, clock), i < j
        PROVE  j - i + 1 <= Burst + Rate * (Append(s, clock)[j] - Append(s, clock)[i])
    <3>0. i \in DOMAIN s /\ Append(s, clock)[i] = s[i]
      BY <1>1, <2>6
    <3>1. CASE j \in DOMAIN s /\ Append(s, clock)[j] = s[j]
      BY <2>6, <3>0, <3>1 DEF LimiterInv, WithinRate
    <3>2. CASE j = Len(s) + 1 /\ Append(s, clock)[j] = clock
      <4> DEFINE flow == Rate * (clock - s[i])
      <4>1. Len(s) - i + 1 + tokens <= Burst + flow /\ flow \in Nat
        BY <1>7, <3>0
      <4>2. Rate * (Append(s, clock)[j] - Append(s, clock)[i]) = flow
        BY <3>0, <3>2
      <4> HIDE DEF flow
      <4>3. i \in Nat
        BY <1>1, <3>0
      <4>4. j - i + 1 <= Burst + flow
        BY <1>1, <1>8, <2>3, <3>2, <4>1, <4>3
      <4> QED BY <4>2, <4>4
    <3> QED BY <2>2, <3>1, <3>2
  <2>7. WithinRate'
    BY <1>1, <1>2, <2>1, <2>6 DEF LimiterInv, LimiterTypes, WithinRate
  <2> QED BY <1>3, <1>4, <2>5, <2>7 DEF LimiterInv
<1>9. CASE ~(tokens >= 1)
  <2>1. admitted'[k] = s /\ Level(visitors[k])' = tokens /\ admitted' = admitted
    BY <1>1, <1>2, <1>5, <1>6, <1>9 DEF LimiterTypes
  <2>2. Budget(k)'
    BY <1>2, <1>7, <2>1 DEF Budget
  <2>3. WithinRate'
    BY <2>1 DEF LimiterInv, WithinRate
  <2> QED BY <1>3, <1>4, <2>2, <2>3 DEF LimiterInv
<1> QED BY <1>8, <1>9

\* A bucket that is forgotten would be full by now.
LEMMA LimiterCleanup ==
  ASSUME LimiterInv, CleanupVisitors
  PROVE  LimiterInv'
<1>1. /\ clock' = clock /\ clock \in Nat /\ admitted' = admitted /\ swept' = clock
      /\ \A k \in Keys : visitors'[k] = IF clock - visitors[k].lastCheck > Cleanup
                                        THEN Stranger ELSE visitors[k]
      /\ visitors' = [k \in Keys |-> visitors'[k]]
  BY DEF CleanupVisitors, LimiterInv, LimiterTypes
<1>2. LimiterTypes'
  <2>1. ASSUME NEW k \in Keys
        PROVE  /\ visitors'[k] \in [known : BOOLEAN, tokens : Nat, lastCheck : Nat]
               /\ visitors'[k].lastCheck <= clock /\ visitors'[k].tokens <= Burst
    <3>1. Stranger \in [known : BOOLEAN, tokens : Nat, lastCheck : Nat]
          /\ Stranger.lastCheck = 0 /\ Stranger.tokens = 0
      BY DEF Stranger
    <3> QED BY <1>1, <3>1, LimiterAssumption DEF LimiterInv, LimiterTypes
  <2> QED BY <1>1, <2>1 DEF LimiterInv, LimiterTypes
<1>3. ASSUME NEW k \in Keys PROVE Budget(k)'
  <2>1. Level(visitors[k])' = Level(visitors[k])
    <3>1. CASE ~(clock - visitors[k].lastCheck > Cleanup)
      BY <1>1, <3>1 DEF Level, Refilled
    <3>2. CASE clock - visitors[k].lastCheck > Cleanup
      <4> DEFINE n == clock - visitors[k].lastCheck
      <4>1. n \in Nat /\ n >= Cleanup /\ visitors[k].tokens \in Nat
        BY <1>1, <3>2, LimiterAssumption DEF LimiterInv, LimiterTypes
      <4>2. n * Rate \in Nat /\ n * Rate >= Burst
        BY <4>1, Inflow
      <4> HIDE DEF n
      <4>3. Refilled(visitors[k]) = Burst
        <5>1. Refilled(visitors[k]) = IF visitors[k].tokens + n * Rate > Burst THEN Burst
                                      ELSE visitors[k].tokens + n * Rate
          BY DEF Refilled, n
        <5> QED BY <4>1, <4>2, <5>1, LimiterAssumption
      <4>4. visitors'[k].known = FALSE
        BY <1>1, <3>2 DEF Stranger
      <4> QED BY <4>3, <4>4 DEF Level
    <3> QED BY <3>1, <3>2
  <2> QED BY <1>1, <2>1 DEF LimiterInv, Budget
<1>4. WithinRate'
  BY <1>1 DEF LimiterInv, WithinRate
<1> QED BY <1>2, <1>3, <1>4 DEF LimiterInv

\* Between two admitted requests of a key no more are admitted than a full
\* bucket and what flows in meanwhile, for every rate and burst whose bucket
\* is full again when it is forgotten.
THEOREM RateIsKept == LimiterSpec => []WithinRate
<1>1. LimiterInv /\ UNCHANGED limiterVars => LimiterInv'
  BY DEF LimiterInv, LimiterTypes, Budget, WithinRate, Level, Refilled, limiterVars
<1>2. LimiterInv /\ [LimiterNext]_limiterVars => LimiterInv'
  BY <1>1, LimiterElapse, LimiterAllow, LimiterCleanup DEF LimiterNext
<1>3. LimiterInv => WithinRate
  BY DEF LimiterInv
<1> QED BY <1>2, <1>3, LimiterStart, PTL DEF LimiterSpec

---------------------------------------------------------------------------
(* Event bus *)

\* A bag with one element less.
LEMMA OneLess ==
  ASSUME NEW q, IsABag(q), NEW c \in DOMAIN q, NEW r, r = q (-) SetToBag({c})
  PROVE  /\ IsABag(r) /\ DOMAIN r \subseteq DOMAIN q
         /\ \A d \in DOMAIN q : d # c => d \in DOMAIN r /\ r[d] = q[d]
         /\ q[c] = 1 => c \notin DOMAIN r
<1> DEFINE b == [e \in DOMAIN q |-> IF e \in DOMAIN SetToBag({c})
                                    THEN q[e] - SetToBag({c})[e] ELSE q[e]]
<1>1. r = [e \in {d \in DOMAIN b : b[d] > 0} |-> b[e]]
  BY DEF (-)
<1>2. \A e \in DOMAIN q : b[e] = (IF e = c THEN q[c] - 1 ELSE q[e]) /\ q[e] \in Nat \ {0}
  BY DEF SetToBag, IsABag
<1>3. DOMAIN b = DOMAIN q
  OBVIOUS
<1> HIDE DEF b
<1>4. DOMAIN r = {d \in DOMAIN q : b[d] > 0} /\ \A d \in DOMAIN r : r[d] = b[d]
  BY <1>1, <1>3
<1>5. r = [d \in DOMAIN r |-> r[d]]
  BY <1>1
<1>6. \A d \in DOMAIN r : r[d] \in Nat \ {0}
  BY <1>2, <1>4
<1>7. IsABag(r)
  BY <1>5, <1>6 DEF IsABag
<1>8. \A d \in DOMAIN q : d # c => d \in DOMAIN r /\ r[d] = q[d]
  <2>1. ASSUME NEW d \in DOMAIN q, d # c PROVE b[d] = q[d] /\ b[d] > 0
    BY <1>2, <2>1
  <2> QED BY <1>4, <2>1
<1>9. q[c] = 1 => c \notin DOMAIN r
  <2>1. q[c] = 1 => b[c] = 0
    BY <1>2
  <2> QED BY <1>4, <2>1
<1>10. DOMAIN r \subseteq DOMAIN q
  BY <1>4
<1> QED BY <1>7, <1>8, <1>9, <1>10

---------------------------------------------------------------------------
Copies == [event : Events, count : Nat]
Held == [pc : {"handling", "failed", "ack"}, event : Events, count : Nat]

BusTypes ==
  /\ IsABag(queue) /\ DOMAIN queue \subseteq Copies
  /\ hand = Empty \/ hand \in Held
  /\ published \subseteq Events /\ tries \in [Events -> Nat]

\* A copy has been tried as often as it says, whichever bus counts.
TriedInv ==
  /\ \A c \in DOMAIN queue : c.event \in published /\ c.count <= tries[c.event]
  /\ hand \in Held =>
       /\ hand.event \in published
       /\ IF bus = "nats" THEN hand.count <= tries[hand.event]
                          ELSE hand.count + 1 <= tries[hand.event]
  /\ \A e \in Events : e \in dead => tries[e] >= MaxDeliver

\* JetStream has one copy of an event, which counts its deliveries.
OneCopy ==
  /\ \A c \in DOMAIN queue : queue[c] = 1 /\ c.count = tries[c.event]
  /\ hand \in Held =>
       /\ hand.count = tries[hand.event]
       /\ \A c \in DOMAIN queue : c.event # hand.event
  /\ \A e \in Events : tries[e] <= MaxDeliver /\ (e \notin published => tries[e] = 0)

\* What is about to be acknowledged is settled, or waits for another try.
Settled ==
  hand \in Held /\ hand.pc = "ack" =>
    \/ hand.event \in handled \union dead \/ GivenUp(hand.event)
    \/ bus # "nats" /\ \E c \in DOMAIN queue : c.event = hand.event

BusInv == BusTypes /\ TriedInv /\ (bus = "nats" => OneCopy) /\ Settled /\ NothingVanishes

\* The queue with one copy more.
LEMMA OneMore ==
  ASSUME BusTypes, NEW c \in Copies, queue' = queue (+) SetToBag({c})
  PROVE  /\ IsABag(queue') /\ DOMAIN queue' = DOMAIN queue \union {c}
         /\ \A d \in DOMAIN queue : d # c => queue'[d] = queue[d]
         /\ c \notin DOMAIN queue => queue'[c] = 1
  BY DEF (+), SetToBag, IsABag, BusTypes

LEMMA EmptyHand == Empty \notin Held
  BY DEF Empty, Held

LEMMA BusStart == BusInit => BusInv
<1> SUFFICES ASSUME BusInit PROVE BusInv
  OBVIOUS
<1>1. DOMAIN queue = {} /\ IsABag(queue)
  BY DEF BusInit, EmptyBag, SetToBag, IsABag
<1> QED BY <1>1, EmptyHand, BusAssumption DEF BusInit, BusInv, BusTypes, TriedInv, OneCopy,
       Settled, NothingVanishes

LEMMA BusPublish ==
  ASSUME BusInv, NEW e \in Events, PublishEvent(e)
  PROVE  BusInv'
<1> USE BusAssumption DEF BusInv, BusTypes
<1>2. CASE lost' = lost \union {e} /\ bus = "rabbit" /\ UNCHANGED queue
  <2>1. /\ e \notin published /\ published' = published \union {e}
        /\ UNCHANGED <<bus, hand, handled, dead, tries, cut>>
    BY DEF PublishEvent
  <2>2. BusTypes' /\ TriedInv' /\ Settled'
    BY <1>2, <2>1 DEF TriedInv, Settled, GivenUp
  <2>3. NothingVanishes'
    BY <1>2, <2>1 DEF NothingVanishes, Deliverable, GivenUp
  <2> QED BY <1>2, <2>1, <2>2, <2>3
<1> SUFFICES ASSUME queue' = queue (+) SetToBag({Copy(e, 0)}), UNCHANGED <<faults, lost>>
             PROVE  BusInv'
  BY <1>2 DEF PublishEvent
<1> DEFINE new == Copy(e, 0)
<1>0. new \in Copies /\ new.event = e /\ new.count = 0
  BY DEF Copy, Copies
<1>1. /\ IsABag(queue') /\ DOMAIN queue' = DOMAIN queue \union {new}
      /\ \A d \in DOMAIN queue : d # new => queue'[d] = queue[d]
      /\ new \notin DOMAIN queue => queue'[new] = 1
  <2>1. BusTypes /\ queue' = queue (+) SetToBag({new}) /\ new \in Copies
    BY <1>0 DEF PublishEvent
  <2> HIDE DEF new
  <2> QED BY <2>1, OneMore
<1>3. /\ e \notin published /\ published' = published \union {e}
      /\ UNCHANGED <<bus, hand, handled, dead, tries, lost, cut>>
  BY DEF PublishEvent
<1> HIDE DEF new
<1>4. new \notin DOMAIN queue
  BY <1>0, <1>3 DEF TriedInv
<1>5. BusTypes'
  BY <1>1, <1>0, <1>3
<1>6. TriedInv'
  <2>1. tries[e] \in Nat
    OBVIOUS
  <2> QED BY <1>1, <1>0, <1>3, <2>1 DEF TriedInv
<1>7. bus = "nats" => OneCopy'
  <2>1. bus = "nats" /\ hand \in Held => hand.event # e
    BY <1>3 DEF TriedInv
  <2> QED BY <1>1, <1>0, <1>3, <1>4, <2>1 DEF OneCopy
<1>8. Settled'
  BY <1>1, <1>3 DEF Settled, GivenUp
<1>9. NothingVanishes'
  <2>1. Deliverable(e)'
    BY <1>1, <1>0 DEF Deliverable, BagToSet
  <2>2. \A x : Deliverable(x) => Deliverable(x)'
    BY <1>1, <1>3 DEF Deliverable, BagToSet
  <2> QED BY <1>3, <2>1, <2>2 DEF NothingVanishes, GivenUp
<1> QED BY <1>3, <1>5, <1>6, <1>7, <1>8, <1>9

\* The copy delivered leaves the queue; every other stays.
LEMMA BusDeliver ==
  ASSUME BusInv, NEW c \in DOMAIN queue, Deliver(c)
  PROVE  BusInv'
<1> USE BusAssumption, EmptyHand DEF BusInv, BusTypes
<1> DEFINE n == IF bus = "nats" THEN c.count + 1 ELSE c.count
<1>1. /\ IsABag(queue') /\ DOMAIN queue' \subseteq DOMAIN queue
      /\ \A d \in DOMAIN queue : d # c => d \in DOMAIN queue' /\ queue'[d] = queue[d]
      /\ queue[c] = 1 => c \notin DOMAIN queue'
  <2>1. IsABag(queue) /\ queue' = queue (-) SetToBag({c})
    BY DEF Deliver
  <2> QED BY <2>1, OneLess
<1>2. c \in Copies /\ c.event \in Events /\ c.count \in Nat /\ c = [event |-> c.event, count |-> c.count]
  BY DEF Copies
<1>3. /\ hand' = [pc |-> "handling", event |-> c.event, count |-> n]
      /\ hand' \in Held /\ hand'.pc = "handling" /\ hand'.event = c.event /\ hand'.count = n
  BY <1>2 DEF Deliver, Held
<1>4. /\ hand = Empty /\ (bus = "nats" => c.count < MaxDeliver)
      /\ UNCHANGED <<bus, published, handled, dead, lost, cut>>
      /\ tries'[c.event] = tries[c.event] + 1 /\ tries' \in [Events -> Nat]
      /\ \A e \in Events : e # c.event => tries'[e] = tries[e]
      /\ \A e \in Events : tries[e] \in Nat /\ tries'[e] \in Nat
  BY <1>2 DEF Deliver
<1>5. BusTypes'
  BY <1>1, <1>3, <1>4
<1>6. TriedInv'
  <2>1. \A d \in DOMAIN queue : /\ d.event \in Events /\ d.count \in Nat
                                /\ d.event \in published /\ d.count <= tries[d.event]
    BY DEF TriedInv, Copies
  <2>2. \A d \in DOMAIN queue' : d.event \in published' /\ d.count <= tries'[d.event]
    BY <1>1, <1>4, <2>1
  <2>3. hand'.event \in published'
        /\ IF bus' = "nats" THEN hand'.count <= tries'[hand'.event]
                            ELSE hand'.count + 1 <= tries'[hand'.event]
    BY <1>2, <1>3, <1>4, <2>1
  <2>4. \A e \in Events : e \in dead' => tries'[e] >= MaxDeliver
    BY <1>4 DEF TriedInv
  <2> QED BY <2>2, <2>3, <2>4 DEF TriedInv
<1>7. bus = "nats" => OneCopy'
  <2> SUFFICES ASSUME bus = "nats" PROVE OneCopy'
    OBVIOUS
  <2>1. c.count = tries[c.event] /\ queue[c] = 1
    BY DEF OneCopy
  <2>2. \A d \in DOMAIN queue : d.event = c.event => d = c
    BY <2>1 DEF OneCopy, Copies
  <2>3. \A d \in DOMAIN queue' : d \in DOMAIN queue /\ d # c /\ d.event # c.event /\ d.event \in Events
    BY <1>1, <2>1, <2>2 DEF Copies
  <2>4. \A d \in DOMAIN queue' : queue'[d] = 1 /\ d.count = tries'[d.event]
    BY <1>1, <1>4, <2>3 DEF OneCopy
  <2>5. hand'.count = tries'[hand'.event]
    BY <1>2, <1>3, <1>4, <2>1
  <2>6. \A e \in Events : tries'[e] <= MaxDeliver /\ (e \notin published' => tries'[e] = 0)
    <3>1. c.event \in published
      BY DEF TriedInv
    <3> QED BY <1>2, <1>4, <2>1, <3>1 DEF OneCopy
  <2> QED BY <1>3, <2>3, <2>4, <2>5, <2>6 DEF OneCopy
<1>8. Settled'
  BY <1>3 DEF Settled
<1>9. NothingVanishes'
  <2>1. hand' # Empty
    BY <1>3
  <2>2. \A x : Deliverable(x) => Deliverable(x)'
    BY <1>1, <1>3, <1>4, <2>1 DEF Deliverable, BagToSet
  <2>3. ASSUME NEW x \in Events, GivenUp(x) PROVE GivenUp(x)' \/ Deliverable(x)'
    <3>1. CASE x = c.event
      BY <1>3, <2>1, <3>1 DEF Deliverable
    <3>2. CASE x # c.event
      BY <1>4, <2>3, <3>2 DEF GivenUp, Deliver
    <3> QED BY <3>1, <3>2
  <2> QED BY <1>4, <2>2, <2>3 DEF NothingVanishes
<1> QED BY <1>4, <1>5, <1>6, <1>7, <1>8, <1>9

\* Steps of the consumer that put no copy into the queue.
LEMMA BusHandling ==
  ASSUME BusInv, Handle \/ SendToDeadLetter \/ Ack
  PROVE  BusInv'
<1> USE BusAssumption, EmptyHand DEF BusInv, BusTypes
<1>1. /\ UNCHANGED <<bus, queue, published, tries, cut>>
      /\ hand \in Held /\ hand # Empty
      /\ handled \subseteq handled' /\ dead \subseteq dead' /\ lost \subseteq lost'
  BY DEF Handle, SendToDeadLetter, Ack, Empty
<1>2. hand' = Empty \/ (hand' \in Held /\ hand'.event = hand.event /\ hand'.count = hand.count)
  BY <1>1 DEF Handle, SendToDeadLetter, Ack, Held
<1>3. \A e \in Events : e \in dead' => e \in dead \/ (e = hand.event /\ LastTry)
  BY DEF Handle, SendToDeadLetter, Ack
<1>4. BusTypes'
  BY <1>1, <1>2
<1>5. TriedInv'
  <2>1. hand.event \in Events /\ hand.count \in Nat /\ tries[hand.event] \in Nat
    BY <1>1 DEF Held
  <2>2. LastTry => tries[hand.event] >= MaxDeliver
    BY <1>1, <2>1 DEF LastTry, TriedInv
  <2> QED BY <1>1, <1>2, <1>3, <2>2 DEF TriedInv
<1>6. bus = "nats" => OneCopy'
  BY <1>1, <1>2 DEF OneCopy
<1>7. Settled'
  <2>1. CASE Handle
    BY <1>1, <2>1 DEF Handle, Held, Settled
  <2>2. CASE SendToDeadLetter
    <3>1. hand'.event = hand.event /\ (hand.event \in dead' \/ hand.event \in lost')
      BY <1>1, <2>2 DEF SendToDeadLetter, Held
    <3>2. bus = "nats" => tries[hand.event] = MaxDeliver
      <4>1. bus = "nats" => hand.count >= MaxDeliver /\ hand.count = tries[hand.event]
                              /\ tries[hand.event] <= MaxDeliver
        BY <1>1, <2>2 DEF SendToDeadLetter, LastTry, OneCopy, Held
      <4> QED BY <1>1, <4>1 DEF Held
    <3> QED BY <1>1, <3>1, <3>2 DEF Settled, GivenUp
  <2>3. CASE Ack
    BY <2>3 DEF Ack, Settled
  <2> QED BY <2>1, <2>2, <2>3
<1>8. NothingVanishes'
  <2>1. CASE Handle \/ SendToDeadLetter
    <3>1. hand' # Empty /\ hand'.event = hand.event
      BY <1>1, <1>2, <2>1 DEF Handle, SendToDeadLetter, Held
    <3>2. \A x : Deliverable(x) => Deliverable(x)'
      BY <1>1, <3>1 DEF Deliverable
    <3> QED BY <1>1, <3>2 DEF NothingVanishes, GivenUp
  <2>2. CASE Ack
    <3> PICK e \in Events : e = hand.event
      BY <1>1 DEF Held
    <3>1. e \in handled \union dead \/ GivenUp(e) \/ Deliverable(e)'
      BY <1>1, <2>2 DEF Ack, Settled, Deliverable, BagToSet
    <3>3. \A x : GivenUp(x) => GivenUp(x)'
      BY <1>1 DEF GivenUp
    <3>2. \A x : Deliverable(x) => Deliverable(x)' \/ x = e
      BY <1>1 DEF Deliverable
    <3> QED BY <1>1, <3>1, <3>2, <3>3 DEF NothingVanishes
  <2> QED BY <2>1, <2>2
<1> QED BY <1>1, <1>4, <1>5, <1>6, <1>7, <1>8

\* The copy in hand goes back to the queue: after a failure that is not the
\* last, with one more failure counted in rabbit's header; or after a crash.
LEMMA BusReturned ==
  ASSUME BusInv, NEW n \in Nat, hand \in Held,
         queue' = queue (+) SetToBag({Copy(hand.event, n)}),
         n = hand.count \/ (bus # "nats" /\ n = hand.count + 1),
         UNCHANGED <<bus, published, handled, dead, tries, lost>>,
         cut \subseteq cut',
         \/ hand' = Empty
         \/ bus # "nats" /\ hand' = [hand EXCEPT !.pc = "ack"],
         bus = "nats" => \/ n < MaxDeliver
                         \/ hand.event \in cut' /\ tries[hand.event] = MaxDeliver
  PROVE  BusInv'
<1> USE BusAssumption, EmptyHand DEF BusInv, BusTypes
<1> DEFINE new == Copy(hand.event, n)
<1>0. /\ new \in Copies /\ new.event = hand.event /\ new.count = n
      /\ hand.event \in Events /\ hand.count \in Nat /\ tries[hand.event] \in Nat
  BY DEF Copy, Copies, Held
<1>1. /\ IsABag(queue') /\ DOMAIN queue' = DOMAIN queue \union {new}
      /\ \A d \in DOMAIN queue : d # new => queue'[d] = queue[d]
      /\ new \notin DOMAIN queue => queue'[new] = 1
  <2>1. BusTypes /\ queue' = queue (+) SetToBag({new}) /\ new \in Copies
    BY <1>0
  <2> HIDE DEF new
  <2> QED BY <2>1, OneMore
<1>3. hand' = Empty \/ (hand' \in Held /\ hand'.event = hand.event /\ hand'.count = hand.count)
  BY DEF Held
<1> HIDE DEF new
<1>4. BusTypes'
  BY <1>1, <1>0, <1>3
<1>5. TriedInv'
  <2>1. new.event \in published /\ new.count <= tries[new.event]
    BY <1>0 DEF TriedInv
  <2> QED BY <1>1, <1>3, <2>1 DEF TriedInv
<1>6. bus = "nats" => OneCopy'
  <2> SUFFICES ASSUME bus = "nats" PROVE OneCopy'
    OBVIOUS
  <2>1. new \notin DOMAIN queue /\ new.count = tries[new.event]
    BY <1>0 DEF OneCopy
  <2> QED BY <1>1, <2>1 DEF OneCopy
<1>7. Settled'
  BY <1>1, <1>0, <1>3 DEF Settled
<1>8. NothingVanishes'
  <2> PICK e \in Events : e = hand.event
    BY <1>0
  <2>1. Deliverable(e)' \/ GivenUp(e)'
    BY <1>1, <1>0 DEF Deliverable, BagToSet, GivenUp
  <2>2. \A x : Deliverable(x) => Deliverable(x)' \/ x = e
    BY <1>1 DEF Deliverable, BagToSet
  <2>3. \A x : GivenUp(x) => GivenUp(x)'
    BY DEF GivenUp
  <2> QED BY <2>1, <2>2, <2>3 DEF NothingVanishes
<1> QED BY <1>4, <1>5, <1>6, <1>7, <1>8

LEMMA BusStep ==
  ASSUME BusInv, [BusNext]_busVars
  PROVE  BusInv'
<1> USE EmptyHand DEF BusInv, BusTypes
<1>1. ASSUME UNCHANGED busVars PROVE BusInv'
  BY <1>1 DEF busVars, TriedInv, OneCopy, Settled, NothingVanishes, Deliverable, GivenUp
<1>2. ASSUME NEW c \in BagToSet(queue), Deliver(c) PROVE BusInv'
  BY <1>2, BusDeliver DEF BagToSet
<1>3. ASSUME Nak PROVE BusInv'
  <2>1. /\ hand \in Held /\ hand.count \in Nat /\ bus = "nats" /\ hand.count < MaxDeliver
        /\ queue' = queue (+) SetToBag({Copy(hand.event, hand.count)}) /\ hand' = Empty
        /\ UNCHANGED <<bus, published, handled, dead, tries, lost, cut>>
    BY <1>3, BusAssumption DEF Nak, Empty, Held, LastTry
  <2> QED BY <2>1, BusReturned
<1>4. ASSUME RequeueForRetry PROVE BusInv'
  <2>1. /\ hand \in Held /\ hand.count \in Nat /\ bus = "rabbit" /\ hand.event \in Events
        /\ hand' = [hand EXCEPT !.pc = "ack"]
        /\ UNCHANGED <<bus, published, handled, dead, tries, cut>>
    BY <1>4 DEF RequeueForRetry, Empty, Held
  <2>2. CASE queue' = queue (+) SetToBag({Copy(hand.event, hand.count + 1)})
             /\ UNCHANGED <<faults, lost>>
    <3>1. PICK n \in Nat : n = hand.count + 1
      BY <2>1
    <3>2. queue' = queue (+) SetToBag({Copy(hand.event, n)})
      BY <2>2, <3>1
    <3> QED BY <2>1, <2>2, <3>1, <3>2, BusReturned
  <2>3. CASE lost' = lost \union {hand.event} /\ UNCHANGED queue
    <3>1. /\ hand' \in Held /\ hand' # Empty /\ hand # Empty
          /\ hand'.event = hand.event /\ hand'.count = hand.count
      BY <2>1 DEF Held
    <3>2. BusTypes' /\ TriedInv' /\ Settled'
      BY <2>1, <2>3, <3>1 DEF TriedInv, Settled, GivenUp
    <3>3. NothingVanishes'
      BY <2>1, <2>3, <3>1 DEF NothingVanishes, Deliverable, GivenUp
    <3> QED BY <2>1, <3>2, <3>3
  <2> QED BY <1>4, <2>2, <2>3 DEF RequeueForRetry
<1>5. ASSUME Crash PROVE BusInv'
  <2>1. /\ hand \in Held /\ hand.count \in Nat /\ hand' = Empty
        /\ queue' = queue (+) SetToBag({Copy(hand.event, hand.count)})
        /\ UNCHANGED <<bus, published, handled, dead, tries, lost>>
        /\ cut \subseteq cut'
        /\ bus = "nats" /\ hand.count = MaxDeliver => hand.event \in cut'
    BY <1>5 DEF Crash, Held
  <2>2. bus = "nats" => hand.count <= MaxDeliver
    BY <2>1 DEF OneCopy, Held
  <2>3. bus = "nats" => \/ hand.count < MaxDeliver
                        \/ hand.event \in cut' /\ tries[hand.event] = MaxDeliver
    BY <2>1, <2>2, BusAssumption DEF OneCopy
  <2> QED BY <2>1, <2>3, BusReturned
<1>6. ASSUME BusNext PROVE BusInv'
  BY <1>2, <1>3, <1>4, <1>5, <1>6, BusPublish, BusHandling DEF BusNext
<1> QED BY <1>1, <1>6

\* The inductive invariant: what each copy says of its tries is true.
THEOREM BusInvariant == BusSpec => []BusInv
<1>1. BusInv /\ [BusNext]_busVars => BusInv'  BY BusStep
<1> QED BY <1>1, BusStart, PTL DEF BusSpec

\* A published event waits, is under way, handled or a dead letter, unless it was
\* given up: by JetStream after its last try only, by RabbitMQ whenever a copy of
\* it is published that reaches no queue.
THEOREM NoEventVanishes == BusSpec => []NothingVanishes
<1>1. BusInv => NothingVanishes  BY DEF BusInv
<1> QED BY <1>1, BusInvariant, PTL

\* A dead letter was tried as often as the policy says, and JetStream tries no
\* event more often.
THEOREM DeadLettersWereTried == BusSpec => []DeadAfterAllTries
<1>1. BusInv => DeadAfterAllTries
  BY DEF BusInv, TriedInv, OneCopy, DeadAfterAllTries
<1> QED BY <1>1, BusInvariant, PTL

---------------------------------------------------------------------------
(* Single chats *)

\* The chats that are stored: one for each key, in the lists of its members.
OneForEachKey ==
  /\ \A x, y \in chats : x.key = y.key => x = y
  /\ \A x \in chats : x.key = x.members /\ x.members \X {x.id} \subseteq inLists

\* What a call works for, and what it was answered.
CallServed(c) ==
  /\ calls[c].pc \in {"begin", "open"} => calls[c].key = calls[c].members
  /\ calls[c].pc = "answered" =>
       \E x \in chats : x.key = calls[c].members /\ x.id = calls[c].chat

ChatsInv ==
  /\ calls = [c \in Calls |-> calls[c]]
  /\ OneForEachKey /\ \A c \in Calls : CallServed(c)

LEMMA ChatsStart == ChatsInit => ChatsInv
  BY DEF ChatsInit, ChatsInv, OneForEachKey, CallServed

\* A call that moves and leaves the stored chats alone.
LEMMA ChatsCall ==
  ASSUME ChatsInv, NEW c \in Calls, NEW r, calls' = [calls EXCEPT ![c] = r],
         r.pc \in {"new", "begin", "open", "failed"}, UNCHANGED <<chats, inLists>>,
         r.pc \in {"begin", "open"} => r.key = r.members
  PROVE  ChatsInv'
<1>1. calls' = [x \in Calls |-> IF x = c THEN r ELSE calls[x]]
  BY DEF ChatsInv
<1>2. calls' = [x \in Calls |-> calls'[x]]
  BY <1>1
<1>3. OneForEachKey'
  BY DEF ChatsInv, OneForEachKey
<1>4. ASSUME NEW x \in Calls PROVE CallServed(x)'
  BY <1>1 DEF ChatsInv, CallServed
<1> QED BY <1>2, <1>3, <1>4 DEF ChatsInv

\* A transaction that commits has found the chat of its key, or adds it.
LEMMA ChatsCommit ==
  ASSUME ChatsInv, NEW c \in Calls, Commit(c)
  PROVE  ChatsInv'
<1> DEFINE found == SameKey(c, calls[c].snapshot)
           chat == IF found # {} THEN CHOOSE x \in found : TRUE
                   ELSE [id |-> c, key |-> calls[c].key, members |-> calls[c].members]
           r == [pc |-> "answered", members |-> calls[c].members, chat |-> chat.id]
<1>1. /\ calls[c].pc = "open" /\ SameKey(c, chats) = found
      /\ chats' = chats \union {chat}
      /\ inLists' = inLists \union (chat.members \X {chat.id})
      /\ calls' = [x \in Calls |-> IF x = c THEN r ELSE calls[x]]
  BY DEF Commit, ChatsInv
<1>2. calls[c].key = calls[c].members
  BY <1>1 DEF ChatsInv, CallServed
<1>3. /\ chat.key = calls[c].key /\ chat.members = chat.key
      /\ \A x \in chats : x.key = chat.key => x = chat
  <2>1. CASE found # {}
    <3>1. chat \in found
      BY <2>1
    <3>2. chat \in chats /\ chat.key = calls[c].key
      BY <1>1, <3>1 DEF SameKey
    <3> QED BY <3>2 DEF ChatsInv, OneForEachKey
  <2>2. CASE found = {}
    <3>1. chat = [id |-> c, key |-> calls[c].key, members |-> calls[c].members]
      BY <2>2
    <3>2. \A x \in chats : x.key # calls[c].key
      BY <1>1, <2>2 DEF SameKey
    <3>3. chat.key = calls[c].key /\ chat.members = calls[c].members
      BY <3>1
    <3> HIDE DEF chat
    <3> QED BY <1>2, <3>2, <3>3
  <2> QED BY <2>1, <2>2
<1> HIDE DEF found, chat
<1>4. OneForEachKey'
  BY <1>1, <1>3 DEF ChatsInv, OneForEachKey
<1>5. ASSUME NEW x \in Calls PROVE CallServed(x)'
  <2>1. CASE x = c
    <3>1. calls'[x] = r
      BY <1>1, <2>1
    <3>2. r.pc = "answered" /\ r.members = calls[c].members /\ r.chat = chat.id
      OBVIOUS
    <3>3. chat \in chats' /\ chat.key = r.members
      BY <1>1, <1>2, <1>3, <3>2
    <3> HIDE DEF r
    <3> QED BY <3>1, <3>2, <3>3 DEF CallServed
  <2>2. CASE x # c
    BY <1>1, <2>2 DEF ChatsInv, CallServed
  <2> QED BY <2>1, <2>2
<1>6. calls' = [x \in Calls |-> calls'[x]]
  BY <1>1
<1> QED BY <1>4, <1>5, <1>6 DEF ChatsInv

LEMMA ChatsStep ==
  ASSUME ChatsInv, [ChatsNext]_chatVars
  PROVE  ChatsInv'
<1>1. ASSUME UNCHANGED chatVars PROVE ChatsInv'
  BY <1>1 DEF ChatsInv, OneForEachKey, CallServed, chatVars
<1>2. ASSUME NEW c \in Calls, NEW u \in People, NEW p \in People, EnsureSingleChat(c, u, p)
      PROVE  ChatsInv'
  BY <1>2, ChatsCall DEF EnsureSingleChat, SingleKey
<1>3. ASSUME NEW c \in Calls, BeginTransaction(c) \/ Conflict(c) PROVE ChatsInv'
  <2>1. calls[c].pc \in {"begin", "open"}
    BY <1>3 DEF BeginTransaction, Conflict
  <2>2. calls[c].key = calls[c].members
    BY <2>1 DEF ChatsInv, CallServed
  <2> QED BY <1>3, <2>2, ChatsCall DEF BeginTransaction, Conflict
<1>4. ASSUME NEW c \in Calls, GiveUp(c) PROVE ChatsInv'
  BY <1>4, ChatsCall DEF GiveUp
<1> QED BY <1>1, <1>2, <1>3, <1>4, ChatsCommit DEF ChatsNext

\* Any two calls for the same two users that are answered are given the same
\* chat, in the lists of both, for any number of users and of calls at once.
THEOREM OneChatForTwo == ChatsSpec => []OneSingleChat
<1>1. ASSUME ChatsInv PROVE OneSingleChat
  <2> SUFFICES ASSUME NEW c \in Calls, calls[c].pc = "answered"
               PROVE  /\ calls[c].members \X {calls[c].chat} \subseteq inLists
                      /\ \A d \in Calls :
                           calls[d].pc = "answered" /\ calls[d].members = calls[c].members
                             => calls[d].chat = calls[c].chat
    BY DEF OneSingleChat
  <2>1. PICK x \in chats : x.key = calls[c].members /\ x.id = calls[c].chat
    BY <1>1 DEF ChatsInv, CallServed
  <2>2. calls[c].members \X {calls[c].chat} \subseteq inLists
    BY <1>1, <2>1 DEF ChatsInv, OneForEachKey
  <2>3. ASSUME NEW d \in Calls, calls[d].pc = "answered", calls[d].members = calls[c].members
        PROVE  calls[d].chat = calls[c].chat
    <3>1. PICK y \in chats : y.key = calls[d].members /\ y.id = calls[d].chat
      BY <1>1, <2>3 DEF ChatsInv, CallServed
    <3> QED BY <1>1, <2>1, <2>3, <3>1 DEF ChatsInv, OneForEachKey
  <2> QED BY <2>2, <2>3
<1>2. ChatsInv => OneSingleChat
  BY <1>1
<1> QED BY <1>2, ChatsStart, ChatsStep, PTL DEF ChatsSpec

---------------------------------------------------------------------------
(* Paged lists *)

\* What the order of a list compares.
HasPosition(x) == x.id \in Nat /\ x.top \in Tops /\ x.time \in Nat

ListKinds == Messages \union Offsets \union {"conversations"}

\* The sort of each list is a strict order, total on rows of different ids.
LEMMA SortOrders ==
  ASSUME kind \in ListKinds, NEW x, NEW y, NEW z,
         HasPosition(x), HasPosition(y), HasPosition(z)
  PROVE  /\ ~Before(x, x)
         /\ Before(x, y) /\ Before(y, z) => Before(x, z)
         /\ x.id # y.id => Before(x, y) \/ Before(y, x)
<1>1. /\ x.id \in Nat /\ y.id \in Nat /\ z.id \in Nat
      /\ x.time \in Nat /\ y.time \in Nat /\ z.time \in Nat
      /\ x.top \in Tops /\ y.top \in Tops /\ z.top \in Tops
  BY DEF HasPosition
<1>2. CASE kind \in Messages
  BY <1>1, <1>2 DEF Before, Messages
<1>3. CASE kind \in Offsets
  BY <1>1, <1>3 DEF Before, Messages, Offsets
<1>4. CASE kind = "conversations"
  <2>1. /\ Rank["missing"] = 0 /\ Rank["unpinned"] = 1 /\ Rank["pinned"] = 2
    BY DEF Rank
  <2>2. \A a \in Tops : Rank[a] \in 0..2 /\ \A b \in Tops : Rank[a] = Rank[b] => a = b
    BY <2>1 DEF Tops
  <2>3. \A a, b : Before(a, b) <=>
          \/ Rank[a.top] > Rank[b.top]
          \/ a.top = b.top /\ (a.time > b.time \/ (a.time = b.time /\ a.id < b.id))
    BY <1>4 DEF Before, Messages
  <2> QED BY <1>1, <2>2, <2>3
<1> QED BY <1>2, <1>3, <1>4 DEF ListKinds

\* Rows a query can sort.
Ordered(S) ==
  /\ IsFiniteSet(S) /\ \A x \in S : HasPosition(x)
  /\ \A x, y \in S : x.id = y.id => x = y

\* Rows are numbered from 0 in the order of the list.
LEMMA Places ==
  ASSUME kind \in ListKinds, NEW S, Ordered(S)
  PROVE  /\ Cardinality(S) \in Nat
         /\ \A r \in S : Place(r, S) \in Nat /\ Place(r, S) < Cardinality(S)
         /\ \A x, y \in S : Before(x, y) <=> Place(x, S) < Place(y, S)
<1> DEFINE E(r) == {x \in S : Before(x, r)}
<1>1. IsFiniteSet(S) /\ Cardinality(S) \in Nat
  BY FS_CardinalityType DEF Ordered
<1>2. ASSUME NEW r \in S
      PROVE  /\ IsFiniteSet(E(r)) /\ Cardinality(E(r)) \in Nat /\ Place(r, S) = Cardinality(E(r))
             /\ IsFiniteSet(E(r) \union {r})
             /\ Cardinality(E(r) \union {r}) = Cardinality(E(r)) + 1
  <2>1. E(r) \in SUBSET S /\ r \notin E(r)
    BY <1>2, SortOrders DEF Ordered
  <2> HIDE DEF E
  <2>2. IsFiniteSet(E(r)) /\ Cardinality(E(r)) \in Nat
    BY <1>1, <2>1, FS_Subset, FS_CardinalityType
  <2>3. /\ IsFiniteSet(E(r) \union {r})
        /\ Cardinality(E(r) \union {r}) = Cardinality(E(r)) + 1
    BY <2>1, <2>2, FS_AddElement
  <2> QED BY <2>2, <2>3 DEF Place, E
<1>3. ASSUME NEW r \in S
      PROVE  Place(r, S) \in Nat /\ Place(r, S) < Cardinality(S)
  <2>1. E(r) \union {r} \in SUBSET S
    OBVIOUS
  <2> HIDE DEF E
  <2>2. Cardinality(E(r) \union {r}) <= Cardinality(S)
    BY <1>1, <2>1, FS_Subset
  <2> QED BY <1>1, <1>2, <2>2
<1>4. ASSUME NEW x \in S, NEW y \in S, Before(x, y)
      PROVE  Place(x, S) < Place(y, S)
  <2>1. E(x) \union {x} \in SUBSET E(y)
    BY <1>4, SortOrders DEF Ordered
  <2> HIDE DEF E
  <2>2. Cardinality(E(x) \union {x}) <= Cardinality(E(y))
    BY <1>2, <2>1, FS_Subset
  <2>3. /\ Place(x, S) = Cardinality(E(x)) /\ Place(y, S) = Cardinality(E(y))
        /\ Cardinality(E(x)) \in Nat /\ Cardinality(E(y)) \in Nat
        /\ Cardinality(E(x) \union {x}) = Cardinality(E(x)) + 1
    BY <1>2
  <2> QED BY <2>2, <2>3
<1>5. ASSUME NEW x \in S, NEW y \in S, ~Before(x, y)
      PROVE  ~(Place(x, S) < Place(y, S))
  <2>1. x = y \/ Before(y, x)
    BY <1>5, SortOrders DEF Ordered
  <2> QED BY <1>3, <1>4, <2>1
<1> QED BY <1>1, <1>3, <1>4, <1>5

\* A page is full, or holds all rows after the skipped ones.
LEMMA SliceSize ==
  ASSUME kind \in ListKinds, NEW S, Ordered(S), NEW skip \in Nat, NEW limit \in Nat
  PROVE  LET n == Cardinality(Slice(S, skip, limit))
         IN  n \in Nat /\ (n = limit \/ (n < limit /\ Cardinality(S) <= skip + n))
<1> DEFINE N == Cardinality(S)
           P == Slice(S, skip, limit)
           f == [r \in S |-> Place(r, S)]
           top == IF skip + limit <= N THEN skip + limit - 1 ELSE N - 1
           g == [r \in P |-> Place(r, S)]
<1>1. /\ N \in Nat /\ IsFiniteSet(S)
      /\ \A r \in S : Place(r, S) \in Nat /\ Place(r, S) < N
      /\ \A x, y \in S : Before(x, y) <=> Place(x, S) < Place(y, S)
  BY Places DEF Ordered
<1>2. ASSUME NEW x \in S, NEW y \in S, Place(x, S) = Place(y, S) PROVE x = y
  BY <1>1, <1>2, SortOrders DEF Ordered
<1>3. IsFiniteSet(0..(N - 1)) /\ Cardinality(0..(N - 1)) = N
  BY <1>1, FS_Interval
<1> HIDE DEF N
<1>4. f \in Injection(S, 0..(N - 1))
  BY <1>1, <1>2 DEF Injection, IsInjective
<1> HIDE DEF f
<1>5. f \in Surjection(S, 0..(N - 1))
  BY <1>3, <1>4, FS_Injection DEF N
<1>6. \A k \in 0..(N - 1) : \E r \in S : Place(r, S) = k
  BY <1>5 DEF Surjection, f
<1>7. P \in SUBSET S /\ IsFiniteSet(P)
  BY <1>1, FS_Subset DEF Slice
<1>8. \A r \in S : r \in P <=> Place(r, S) \in skip..top
  BY <1>1 DEF Slice
<1> HIDE DEF P
<1>9. g \in Bijection(P, skip..top)
  <2>1. top \in Int
    BY <1>1
  <2>2. g \in [P -> skip..top]
    BY <1>7, <1>8
  <2>3. \A x, y \in P : g[x] = g[y] => x = y
    BY <1>2, <1>7
  <2>4. ASSUME NEW k \in skip..top PROVE \E r \in P : g[r] = k
    <3>1. k \in 0..(N - 1)
      BY <1>1
    <3>2. PICK r \in S : Place(r, S) = k
      BY <1>6, <3>1
    <3> QED BY <1>8, <3>2
  <2> HIDE DEF g, top
  <2> QED BY <2>2, <2>3, <2>4 DEF Bijection, Injection, Surjection, IsInjective
<1>10. Cardinality(P) = Cardinality(skip..top)
  BY <1>7, <1>9, FS_Bijection DEF ExistsBijection
<1>11. top \in Int /\ Cardinality(skip..top) = IF skip > top THEN 0 ELSE top - skip + 1
  BY <1>1, FS_Interval
<1> QED BY <1>1, <1>10, <1>11 DEF P, N

SomeRow == [id : Ids, top : Tops, time : Nat, found : BOOLEAN]

PagingTypes ==
  /\ kind \in Kinds /\ page \in {"first", "next", "end"}
  /\ rows \subseteq SomeRow /\ \A x, y \in rows : x.id = y.id => x = y
  /\ steady \subseteq Listed(rows)
  /\ now \in Nat /\ offset \in Nat
  /\ last \in [top : Tops, time : Nat, id : Nat]
  /\ shown \in [Ids -> Nat]

\* Between two pages the rows before the cursor have been received, the others
\* not; of a message, written or not, nothing before the cursor.
CursorCounts ==
  kind \notin Offsets /\ page # "end" =>
    /\ ~disturbed => \A r \in steady : shown[r.id] = IF Past(r) THEN 0 ELSE 1
    /\ ~disturbed /\ page = "next" /\ kind = "conversations" => last.top # "missing"
    /\ kind \in Messages =>
         \A i \in Ids : shown[i] = 0 \/ (shown[i] = 1 /\ page = "next" /\ i >= last.id)

\* The same of the rows before the offset.
OffsetCounts ==
  kind \in Offsets /\ page # "end" /\ ~disturbed =>
    \A r \in steady : shown[r.id] = IF Place(r, rows) < offset THEN 1 ELSE 0

PagingInv ==
  /\ PagingTypes /\ CursorCounts /\ OffsetCounts
  /\ ~disturbed => ~Unsorted(rows)
  /\ SteadyRowsOnce

LEMMA KindsListed == Kinds \subseteq ListKinds
  BY PagingAssumption DEF ListKinds

\* Every part of the rows can be sorted.
LEMMA RowsOrdered ==
  ASSUME NEW R, R \subseteq SomeRow, \A x, y \in R : x.id = y.id => x = y,
         NEW S \in SUBSET R
  PROVE  Ordered(S)
<1> DEFINE f == [r \in S |-> r.id]
<1>1. \A x \in S : x.id \in Ids /\ x.id \in Nat /\ x.top \in Tops /\ x.time \in Nat
  BY PagingAssumption DEF SomeRow
<1>2. f \in Injection(S, Ids)
  BY <1>1 DEF Injection, IsInjective
<1>3. IsFiniteSet(S)
  BY <1>2, PagingAssumption, FS_Injection
<1> QED BY <1>1, <1>3 DEF Ordered, HasPosition

LEMMA PagingStart == PagingInit => PagingInv
<1> SUFFICES ASSUME PagingInit PROVE PagingInv
  OBVIOUS
<1>1. PICK f \in Initially(kind) :
        rows = UNION {{[id |-> i, top |-> d.top, time |-> d.time, found |-> d.found] :
                        d \in f[i]} : i \in Ids}
  BY DEF PagingInit
<1>2. ASSUME NEW i \in Ids
      PROVE  /\ \A d \in f[i] : d.top \in Tops /\ d.time \in Nat /\ d.found \in BOOLEAN
             /\ \A d, e \in f[i] : d = e
  <2> DEFINE T == IF kind = "conversations" THEN Tops ELSE {"missing"}
             M == IF kind \in Messages THEN {0} ELSE 0..1
             F == IF kind \in {"search", "groups"} THEN BOOLEAN ELSE {TRUE}
             Fields == [top : T, time : M, found : F]
  <2>1. T \subseteq Tops /\ M \subseteq Nat
    BY DEF Tops
  <2>2. F \subseteq BOOLEAN
    BY Zenon
  <2>3. f \in [Ids -> {{}} \union {{d} : d \in Fields}]
    BY <1>1, Zenon DEF Initially
  <2> HIDE DEF T, M, F
  <2>4. \A d \in Fields : d.top \in T /\ d.time \in M /\ d.found \in F
    OBVIOUS
  <2>5. \A d \in Fields : d.top \in Tops /\ d.time \in Nat /\ d.found \in BOOLEAN
    BY <2>1, <2>2, <2>4, Zenon
  <2> HIDE DEF Fields
  <2> QED BY <2>3, <2>5
<1>3. \A r \in rows : \E i \in Ids : \E d \in f[i] :
        r = [id |-> i, top |-> d.top, time |-> d.time, found |-> d.found]
  BY <1>1
<1>4. rows \subseteq SomeRow /\ \A x, y \in rows : x.id = y.id => x = y
  BY <1>2, <1>3 DEF SomeRow
<1>5. /\ kind \in Kinds /\ page = "first" /\ offset = 0 /\ now = 1
      /\ last = [top |-> "missing", time |-> 0, id |-> 0]
      /\ shown = [i \in Ids |-> 0] /\ steady = Listed(rows) /\ disturbed = Unsorted(rows)
  BY DEF PagingInit
<1>6. PagingTypes
  BY <1>4, <1>5 DEF PagingTypes, Tops
<1>7. \A r \in steady : r \in rows /\ r.id \in Ids
  BY <1>4, <1>5 DEF Listed, SomeRow
<1>8. CursorCounts
  BY <1>5, <1>7 DEF CursorCounts, Past
<1>9. OffsetCounts
  <2> SUFFICES ASSUME NEW r \in steady PROVE Place(r, rows) \in Nat
    BY <1>5, <1>7 DEF OffsetCounts
  <2> QED BY <1>4, <1>5, <1>7, KindsListed, RowsOrdered, Places
<1> QED BY <1>5, <1>6, <1>8, <1>9 DEF PagingInv, SteadyRowsOnce

\* What a client has received after one more page.
LEMMA Received ==
  ASSUME PagingTypes, NEW I \in SUBSET rows, Return(I)
  PROVE  /\ shown' \in [Ids -> Nat]
         /\ \A r \in rows : shown'[r.id] = shown[r.id] + IF r \in I THEN 1 ELSE 0
         /\ \A i \in Ids : \/ shown'[i] = shown[i]
                           \/ shown'[i] = shown[i] + 1 /\ \E r \in I : r.id = i
<1>1. shown \in [Ids -> Nat] /\ \A r \in rows : r.id \in Ids
  BY DEF PagingTypes, SomeRow
<1>2. \A x, y \in rows : x.id = y.id => x = y
  BY DEF PagingTypes
<1>3. shown' = [i \in Ids |-> shown[i] + IF \E r \in I : r.id = i THEN 1 ELSE 0]
  BY DEF Return
<1> QED BY <1>1, <1>2, <1>3

\* The condition of the cursor finds what the sort puts after its row.
LEMMA PastIsAfter ==
  ASSUME kind \in ListKinds \ Offsets, NEW x, HasPosition(x), HasPosition(last),
         kind = "conversations" => x.top # "missing" /\ last.top # "missing",
         page = "next"
  PROVE  Past(x) <=> Before(last, x)
<1>1. x.top \in Tops /\ last.top \in Tops
  BY DEF HasPosition
<1>2. CASE kind \in Messages
  BY <1>2 DEF Past, Before, Messages, Offsets
<1>3. CASE kind = "conversations"
  BY <1>1, <1>3 DEF Past, Before, Messages, Offsets, Tops, Rank
<1> QED BY <1>2, <1>3 DEF ListKinds

\* The same of the cursor that is made from a row c.
LEMMA PastAfterRow ==
  ASSUME kind \in ListKinds \ Offsets, NEW x, HasPosition(x), NEW c, HasPosition(c),
         kind = "conversations" => x.top # "missing" /\ c.top # "missing",
         page' = "next", kind' = kind, last' = [top |-> c.top, time |-> c.time, id |-> c.id]
  PROVE  Past(x)' <=> Before(c, x)
<1>1. /\ x.top \in Tops /\ c.top \in Tops
      /\ last'.top = c.top /\ last'.time = c.time /\ last'.id = c.id
  BY DEF HasPosition
<1>2. CASE kind \in Messages
  BY <1>1, <1>2 DEF Past, Before, Messages, Offsets
<1>3. CASE kind = "conversations"
  BY <1>1, <1>3 DEF Past, Before, Messages, Offsets, Tops, Rank
<1> QED BY <1>2, <1>3 DEF ListKinds

\* A message on a page has not been received before.
LEMMA MessagesOnce ==
  ASSUME PagingInv, kind \in Messages, page # "end",
         NEW I \in SUBSET {r \in rows : Past(r)}, Return(I)
  PROVE  \A i \in Ids : shown'[i] <= 1 /\ (shown'[i] = 1 => shown[i] = 1 \/ \E r \in I : r.id = i)
<1>1. I \in SUBSET rows /\ PagingTypes
  BY DEF PagingInv
<1>2. shown \in [Ids -> Nat] /\ \A r \in rows : r.id \in Nat /\ last.id \in Nat
  BY <1>1, PagingAssumption DEF PagingTypes, SomeRow
<1>3. \A i \in Ids : shown[i] = 0 \/ (shown[i] = 1 /\ page = "next" /\ i >= last.id)
  BY DEF PagingInv, CursorCounts, Messages, Offsets
<1>4. \A r \in I : page = "first" \/ r.id < last.id
  BY DEF Past, Messages, Offsets
<1> QED BY <1>1, <1>2, <1>3, <1>4, Received

LEMMA PageKeeps ==
  ASSUME PagingInv, NEW limit \in Nat \ {0}, NextPage(limit)
  PROVE  PagingInv'
<1> DEFINE all == {r \in Listed(rows) : Past(r)}
           fetched == Slice(all, 0, limit + 1)
           items == IF Cardinality(fetched) > limit THEN Slice(all, 0, limit) ELSE fetched
<1>1. /\ kind \in ListKinds /\ kind \notin Offsets /\ page \in {"first", "next"}
      /\ PagingTypes /\ last \in [top : Tops, time : Nat, id : Nat]
      /\ rows \subseteq SomeRow /\ steady \subseteq Listed(rows)
      /\ \A x, y \in rows : x.id = y.id => x = y
  BY KindsListed DEF NextPage, PagingInv, PagingTypes
<1>2. /\ Return(items)
      /\ kind' = kind /\ rows' = rows /\ now' = now /\ offset' = offset
      /\ steady' = steady /\ disturbed' = disturbed
  BY DEF NextPage
<1>3. /\ all \in SUBSET rows /\ Ordered(all) /\ items \in SUBSET all
      /\ \A r \in rows : r.id \in Ids /\ HasPosition(r)
  <2>1. all \in SUBSET rows
    BY DEF Listed
  <2>2. Ordered(all) /\ Ordered(rows)
    BY <1>1, <2>1, RowsOrdered
  <2>3. items \in SUBSET all
    BY DEF Slice
  <2>4. \A r \in rows : r.id \in Ids
    BY <1>1 DEF SomeRow
  <2> QED BY <2>1, <2>2, <2>3, <2>4 DEF Ordered
<1>4. ASSUME NEW r \in steady, ~disturbed
      PROVE  /\ r \in rows /\ r \in Listed(rows) /\ r.id \in Ids
             /\ shown[r.id] = IF Past(r) THEN 0 ELSE 1
             /\ shown'[r.id] = shown[r.id] + IF r \in items THEN 1 ELSE 0
  <2>1. r \in rows /\ r \in Listed(rows) /\ r.id \in Ids
    BY <1>1, <1>3, <1>4 DEF Listed
  <2>2. shown[r.id] = IF Past(r) THEN 0 ELSE 1
    BY <1>1, <1>4 DEF PagingInv, CursorCounts
  <2>3. shown'[r.id] = shown[r.id] + IF r \in items THEN 1 ELSE 0
    <3> HIDE DEF items
    <3>1. items \in SUBSET rows
      BY <1>3
    <3> QED BY <1>1, <1>2, <2>1, <3>1, Received
  <2> QED BY <2>1, <2>2, <2>3
<1>5. ASSUME ~disturbed, kind = "conversations", NEW r \in rows PROVE r.top # "missing"
  BY <1>5 DEF PagingInv, Unsorted
<1>6. shown' \in [Ids -> Nat]
  <2> HIDE DEF items
  <2>1. items \in SUBSET rows
    BY <1>3
  <2> QED BY <1>1, <1>2, <2>1, Received
<1>7. ASSUME kind \in Messages
      PROVE  \A i \in Ids : /\ shown'[i] <= 1
                            /\ shown'[i] = 1 => shown[i] = 1 \/ \E r \in items : r.id = i
  <2>1. items \in SUBSET {r \in rows : Past(r)}
    BY <1>3
  <2> HIDE DEF items
  <2> QED BY <1>1, <1>2, <1>7, <2>1, MessagesOnce
<1>8. CASE Cardinality(fetched) > limit
  <2>1. page' = "next" /\ items = Slice(all, 0, limit)
    BY <1>8 DEF NextPage
  <2>2. PICK c \in CursorOf(all, limit) : last' = [top |-> c.top, time |-> c.time, id |-> c.id]
    BY <1>8 DEF NextPage
  <2>3. c \in all /\ c \in rows /\ HasPosition(c) /\ Past(c)
    BY <1>3, <2>2 DEF CursorOf, Slice
  <2>4. /\ \A r \in all : Place(r, all) \in Nat
        /\ \A x, y \in all : Before(x, y) <=> Place(x, all) < Place(y, all)
    <3> HIDE DEF all
    <3> QED BY <1>1, <1>3, Places
  <2>5. Place(c, all) = limit - 1
    <3>1. limit - 1 <= Place(c, all) /\ Place(c, all) < (limit - 1) + 1
      BY <2>2 DEF CursorOf, Slice
    <3> HIDE DEF all
    <3> QED BY <2>3, <2>4, <3>1
  <2>6. \A r \in all : r \in items <=> ~Before(c, r)
    <3>1. \A r \in all : r \in items <=> 0 <= Place(r, all) /\ Place(r, all) < 0 + limit
      BY <2>1 DEF Slice
    <3> HIDE DEF all, items
    <3> QED BY <2>3, <2>4, <2>5, <3>1
  <2>7. PagingTypes'
    <3>1. last' \in [top : Tops, time : Nat, id : Nat]
      BY <2>2, <2>3 DEF HasPosition
    <3> QED BY <1>1, <1>2, <1>6, <2>1, <3>1 DEF PagingTypes, Listed
  <2>8. ASSUME NEW r \in steady, ~disturbed
        PROVE  shown'[r.id] = IF Past(r)' THEN 0 ELSE 1
    <3>1. HasPosition(r) /\ r \in rows
      BY <1>3, <1>4, <2>8
    <3>2. kind = "conversations" => r.top # "missing" /\ c.top # "missing"
      BY <1>5, <2>3, <2>8, <3>1
    <3>3. Past(r)' <=> Before(c, r)
      BY <1>1, <1>2, <2>1, <2>2, <2>3, <3>1, <3>2, PastAfterRow
    <3>4. CASE Past(r)
      <4>1. r \in all
        BY <1>4, <2>8, <3>4
      <4>2. r \in items <=> ~Before(c, r)
        BY <2>6, <4>1
      <4> HIDE DEF items
      <4> QED BY <1>4, <2>8, <3>3, <3>4, <4>2
    <3>5. CASE ~Past(r)
      <4>1. r \notin items
        BY <1>3, <3>5
      <4>2. page = "next"
        BY <1>1, <3>5 DEF Past
      <4>3. kind = "conversations" => last.top # "missing"
        BY <1>1, <2>8, <4>2 DEF PagingInv, CursorCounts
      <4>4. HasPosition(last)
        BY <1>1 DEF HasPosition
      <4>5. Before(last, c) /\ ~Before(last, r)
        BY <1>1, <2>3, <3>1, <3>2, <3>5, <4>2, <4>3, <4>4, PastIsAfter
      <4>6. ~Before(c, r)
        BY <1>1, <2>3, <3>1, <4>4, <4>5, SortOrders
      <4> HIDE DEF items
      <4> QED BY <1>4, <2>8, <3>3, <3>5, <4>1, <4>6
    <3> QED BY <3>4, <3>5
  <2>9. ASSUME kind \in Messages, NEW i \in Ids
        PROVE  shown'[i] = 0 \/ (shown'[i] = 1 /\ i >= last'.id)
    <3>1. i \in Nat /\ c.id \in Nat /\ last'.id = c.id /\ last.id \in Nat
      BY <1>1, <2>2, <2>3, PagingAssumption DEF HasPosition
    <3>2. shown'[i] \in Nat
      BY <1>6
    <3>3. ASSUME shown[i] = 1 PROVE i >= c.id
      <4>1. page = "next" /\ i >= last.id
        BY <1>1, <2>9, <3>3 DEF PagingInv, CursorCounts
      <4>2. c.id < last.id
        BY <2>3, <2>9, <4>1 DEF Past, Messages, Offsets
      <4> QED BY <3>1, <4>1, <4>2
    <3>4. ASSUME NEW r \in items, r.id = i PROVE i >= c.id
      <4>1. ~Before(c, r)
        BY <1>3, <2>6, <3>4
      <4> QED BY <2>9, <3>1, <3>4, <4>1 DEF Before
    <3> HIDE DEF items
    <3> QED BY <1>7, <2>9, <3>1, <3>2, <3>3, <3>4
  <2>10. CursorCounts'
    <3>1. ~disturbed /\ kind = "conversations" => last'.top # "missing"
      BY <1>5, <2>2, <2>3
    <3>2. \A r \in steady : r.id \in Ids
      BY <1>1, <1>3 DEF Listed
    <3> QED BY <1>2, <2>1, <2>8, <2>9, <3>1 DEF CursorCounts
  <2>11. SteadyRowsOnce'
    BY <1>2, <1>7, <2>1 DEF SteadyRowsOnce
  <2> QED BY <1>1, <1>2, <2>7, <2>10, <2>11 DEF PagingInv, OffsetCounts, Unsorted
<1>9. CASE ~(Cardinality(fetched) > limit)
  <2>1. page' = "end" /\ last' = last /\ items = fetched
    BY <1>9 DEF NextPage
  <2>2. \A r \in all : r \in items
    <3>1. \A r \in all : Place(r, all) \in Nat /\ Place(r, all) < Cardinality(all)
      <4> HIDE DEF all
      <4> QED BY <1>1, <1>3, Places
    <3>2. /\ Cardinality(fetched) \in Nat
          /\ \/ Cardinality(fetched) = limit + 1
             \/ Cardinality(fetched) < limit + 1 /\ Cardinality(all) <= 0 + Cardinality(fetched)
      <4> HIDE DEF all
      <4>1. limit + 1 \in Nat /\ 0 \in Nat
        OBVIOUS
      <4> QED BY <1>1, <1>3, <4>1, SliceSize
    <3>3. Cardinality(all) \in Nat
      <4> HIDE DEF all
      <4> QED BY <1>1, <1>3, Places
    <3>4. \A r \in all : 0 <= Place(r, all) /\ Place(r, all) < 0 + (limit + 1)
      <4> HIDE DEF all, fetched
      <4> QED BY <1>9, <3>1, <3>2, <3>3
    <3> QED BY <2>1, <3>4 DEF Slice
  <2>3. PagingTypes'
    BY <1>1, <1>2, <1>6, <2>1 DEF PagingTypes, Listed
  <2>4. ASSUME NEW r \in steady, ~disturbed PROVE shown'[r.id] = 1
    <3>1. Past(r) <=> r \in items
      BY <1>3, <1>4, <2>2, <2>4
    <3> HIDE DEF items
    <3> QED BY <1>4, <2>4, <3>1
  <2>5. SteadyRowsOnce'
    BY <1>2, <1>7, <2>4 DEF SteadyRowsOnce, Readable
  <2> QED BY <1>1, <1>2, <2>1, <2>3, <2>5 DEF PagingInv, CursorCounts, OffsetCounts, Unsorted
<1> QED BY <1>8, <1>9

\* The sort of a list does not change.
LEMMA SortStays ==
  ASSUME kind' = kind, NEW x, NEW y
  PROVE  Before(x, y)' <=> Before(x, y)
  BY DEF Before

\* A page of rows after the offset, from which no row of the list is left out.
LEMMA SliceReceived ==
  ASSUME PagingInv, kind \in Offsets, page # "end", ~disturbed,
         NEW limit \in Nat, NEW I \in SUBSET rows, Return(I), NEW r \in steady,
         r \in I <=> r \in Slice(rows, offset, limit)
  PROVE  /\ shown'[r.id] = IF Place(r, rows) < offset + limit THEN 1 ELSE 0
         /\ Place(r, rows) \in Nat /\ Place(r, rows) < Cardinality(rows)
<1>1. /\ kind \in ListKinds /\ PagingTypes /\ r \in rows /\ r.id \in Ids /\ offset \in Nat
      /\ rows \subseteq SomeRow /\ \A x, y \in rows : x.id = y.id => x = y
  BY KindsListed DEF PagingInv, PagingTypes, Listed, SomeRow
<1>2. Place(r, rows) \in Nat /\ Place(r, rows) < Cardinality(rows)
  BY <1>1, RowsOrdered, Places
<1>3. r \in I <=> offset <= Place(r, rows) /\ Place(r, rows) < offset + limit
  BY <1>1 DEF Slice
<1>4. shown'[r.id] = shown[r.id] + IF r \in I THEN 1 ELSE 0
  BY <1>1, Received
<1>5. shown[r.id] = IF Place(r, rows) < offset THEN 1 ELSE 0
  BY <1>1 DEF PagingInv, OffsetCounts
<1> QED BY <1>1, <1>2, <1>3, <1>4, <1>5

LEMMA MembersKeep ==
  ASSUME PagingInv, NEW limit \in Nat \ {0}, NextMembers(limit)
  PROVE  PagingInv'
<1> DEFINE items == Slice(rows, offset, limit)
           n == Cardinality(items)
<1>1. /\ kind \in Offsets /\ kind = "members" /\ kind \notin Messages /\ page # "end"
      /\ Return(items) /\ offset' = offset + n
      /\ page' = IF n = limit THEN "next" ELSE "end"
      /\ kind' = kind /\ rows' = rows /\ now' = now /\ last' = last
      /\ steady' = steady /\ disturbed' = disturbed
  BY DEF NextMembers, Offsets, Messages
<1>2. /\ kind \in ListKinds /\ PagingTypes /\ offset \in Nat
      /\ rows \subseteq SomeRow /\ steady \subseteq Listed(rows)
      /\ \A x, y \in rows : x.id = y.id => x = y
  BY KindsListed DEF PagingInv, PagingTypes
<1>3. items \in SUBSET rows
  BY DEF Slice
<1>4. Ordered(rows)
  BY <1>2, RowsOrdered
<1>5. n \in Nat /\ (n = limit \/ (n < limit /\ Cardinality(rows) <= offset + n))
  BY <1>2, <1>4, SliceSize
<1>6. Cardinality(rows) \in Nat
  BY <1>2, <1>4, Places
<1>7. ASSUME NEW r \in steady, ~disturbed
      PROVE  /\ shown'[r.id] = IF Place(r, rows) < offset + limit THEN 1 ELSE 0
             /\ Place(r, rows) \in Nat /\ Place(r, rows) < Cardinality(rows)
             /\ Place(r, rows)' = Place(r, rows)
  <2>1. Place(r, rows)' = Place(r, rows)
    BY <1>1, SortStays DEF Place
  <2> QED BY <1>1, <1>3, <1>7, <2>1, SliceReceived
<1>8. PagingTypes'
  <2>1. shown' \in [Ids -> Nat]
    BY <1>1, <1>2, <1>3, Received
  <2>2. offset' \in Nat /\ page' \in {"first", "next", "end"}
    BY <1>1, <1>2, <1>5
  <2> QED BY <1>1, <1>2, <2>1, <2>2 DEF PagingTypes, Listed
<1> HIDE DEF items, n
<1>9. OffsetCounts'
  BY <1>1, <1>5, <1>7 DEF OffsetCounts
<1>10. ASSUME NEW r \in steady, ~disturbed, n # limit PROVE shown'[r.id] = 1
  BY <1>2, <1>5, <1>6, <1>7, <1>10
<1>11. SteadyRowsOnce'
  BY <1>1, <1>10 DEF SteadyRowsOnce, Readable
<1> QED BY <1>1, <1>8, <1>9, <1>11 DEF PagingInv, CursorCounts, Unsorted

LEMMA GroupsKeep ==
  ASSUME PagingInv, NEW limit \in Nat \ {0}, NextGroups(limit)
  PROVE  PagingInv'
<1> DEFINE items == Slice(rows, offset, limit)
           active == {r \in items : r.found}
<1>1. /\ kind \in Offsets /\ kind = "groups" /\ kind \notin Messages /\ page # "end"
      /\ Return(active) /\ offset' = offset + limit
      /\ page' = IF active = {} THEN "end" ELSE "next"
      /\ kind' = kind /\ rows' = rows /\ now' = now /\ last' = last
      /\ steady' = steady /\ disturbed' = disturbed
  BY DEF NextGroups, Offsets, Messages
<1>2. /\ kind \in ListKinds /\ PagingTypes /\ offset \in Nat
      /\ rows \subseteq SomeRow /\ steady \subseteq Listed(rows)
      /\ \A x, y \in rows : x.id = y.id => x = y
  BY KindsListed DEF PagingInv, PagingTypes
<1>3. items \in SUBSET rows /\ active \in SUBSET rows
  BY DEF Slice
<1>4. Ordered(rows)
  BY <1>2, RowsOrdered
<1>5. \/ Cardinality(items) = limit
      \/ Cardinality(items) < limit /\ Cardinality(rows) <= offset + Cardinality(items)
  BY <1>2, <1>4, SliceSize
<1>6. ASSUME NEW r \in steady, ~disturbed
      PROVE  /\ shown'[r.id] = IF Place(r, rows) < offset + limit THEN 1 ELSE 0
             /\ Place(r, rows) \in Nat /\ Place(r, rows) < Cardinality(rows)
             /\ Place(r, rows)' = Place(r, rows)
  <2>1. Place(r, rows)' = Place(r, rows)
    BY <1>1, SortStays DEF Place
  <2>2. r.found
    BY <1>1, <1>2 DEF Listed
  <2>3. r \in active <=> r \in items
    BY <2>2
  <2> HIDE DEF active
  <2> QED BY <1>1, <1>3, <1>6, <2>1, <2>3, SliceReceived
<1>7. PagingTypes'
  <2>1. shown' \in [Ids -> Nat]
    BY <1>1, <1>2, <1>3, Received
  <2>2. offset' \in Nat /\ page' \in {"first", "next", "end"}
    BY <1>1, <1>2
  <2> QED BY <1>1, <1>2, <2>1, <2>2 DEF PagingTypes, Listed
<1>8. ASSUME NEW r \in steady, ~disturbed, active = {}, \A x \in rows : x.found
      PROVE  shown'[r.id] = 1
  <2>1. items = {}
    BY <1>3, <1>8
  <2>2. Cardinality(items) = 0
    BY <2>1, FS_EmptySet
  <2> HIDE DEF items
  <2>3. Cardinality(rows) <= offset /\ Cardinality(rows) \in Nat
    BY <1>2, <1>4, <1>5, <2>2, Places
  <2> QED BY <1>2, <1>6, <1>8, <2>3
<1> HIDE DEF active
<1>9. OffsetCounts'
  BY <1>1, <1>6 DEF OffsetCounts
<1>10. SteadyRowsOnce'
  BY <1>1, <1>8 DEF SteadyRowsOnce, Readable
<1> QED BY <1>1, <1>7, <1>9, <1>10 DEF PagingInv, CursorCounts, Unsorted

\* A write leaves the places of the rows that nobody wrote, or is seen to move them.
LEMMA WriteKeeps ==
  ASSUME PagingInv, NEW old \in SUBSET rows, NEW new \in SUBSET SomeRow, Write(old, new),
         kind' = kind, now' \in Nat, \A x, y \in rows' : x.id = y.id => x = y,
         {y.id : y \in old} = {y.id : y \in new} /\ kind \in Offsets =>
           \A x \in rows : Place(x, rows') = Place(x, rows)
  PROVE  PagingInv'
<1>1. /\ page # "end" /\ page' = page /\ last' = last /\ offset' = offset /\ shown' = shown
      /\ rows' = (rows \ old) \union new /\ steady' = steady \ (old \union new)
  BY DEF Write
<1>2. /\ ~disturbed' => ~disturbed /\ ~Unsorted(rows')
      /\ ~disturbed' /\ kind \in Offsets =>
           \/ {y.id : y \in old} = {y.id : y \in new}
           \/ \A x \in steady, r \in (old \ new) \union (new \ old) : ~Before(r, x)
  BY DEF Write
<1>3. PagingTypes'
  BY <1>1 DEF PagingInv, PagingTypes, Listed
<1>4. CursorCounts'
  <2>1. \A r \in steady' : Past(r)' <=> Past(r)
    BY <1>1 DEF Past
  <2> QED BY <1>1, <1>2, <2>1 DEF PagingInv, CursorCounts
<1>5. ASSUME NEW x \in steady', ~disturbed', kind \in Offsets
      PROVE  shown'[x.id] = IF Place(x, rows)' < offset' THEN 1 ELSE 0
  <2>1. x \in steady /\ x \in rows
    BY <1>1 DEF PagingInv, PagingTypes, Listed
  <2>2. Place(x, rows') = Place(x, rows)
    <3>1. CASE {y.id : y \in old} = {y.id : y \in new}
      BY <1>5, <2>1, <3>1
    <3>2. CASE {y.id : y \in old} # {y.id : y \in new}
      <4>1. \A r \in (old \ new) \union (new \ old) : ~Before(r, x)
        BY <1>2, <1>5, <2>1, <3>2
      <4>2. {y \in rows' : Before(y, x)} = {y \in rows : Before(y, x)}
        BY <1>1, <4>1
      <4> QED BY <4>2 DEF Place
    <3> QED BY <3>1, <3>2
  <2>3. Place(x, rows)' = Place(x, rows')
    BY SortStays DEF Place
  <2>4. shown[x.id] = IF Place(x, rows) < offset THEN 1 ELSE 0
    BY <1>1, <1>2, <1>5, <2>1 DEF PagingInv, OffsetCounts
  <2> QED BY <1>1, <2>2, <2>3, <2>4
<1>6. OffsetCounts'
  BY <1>5 DEF OffsetCounts
<1>7. ~disturbed' => ~Unsorted(rows)'
  BY <1>2 DEF Unsorted
<1>8. SteadyRowsOnce'
  BY <1>1 DEF PagingInv, SteadyRowsOnce
<1> QED BY <1>3, <1>4, <1>6, <1>7, <1>8 DEF PagingInv

\* The row of a group that is dismissed keeps its place.
LEMMA DismissedKeepsPlace ==
  ASSUME kind \in ListKinds, Ordered(rows), NEW r \in rows, rows \subseteq SomeRow, r.found,
         NEW x \in rows
  PROVE  Place(x, (rows \ {r}) \union {[r EXCEPT !.found = FALSE]}) = Place(x, rows)
<1> DEFINE d == [r EXCEPT !.found = FALSE]
           A == {y \in rows : Before(y, x)}
           B == {y \in (rows \ {r}) \union {d} : Before(y, x)}
<1>1. /\ d.id = r.id /\ d.top = r.top /\ d.time = r.time /\ d \notin rows
  BY DEF Ordered, SomeRow
<1>2. Before(d, x) <=> Before(r, x)
  BY <1>1 DEF Before
<1>3. IsFiniteSet(A)
  <2>1. A \in SUBSET rows
    OBVIOUS
  <2> HIDE DEF A
  <2> QED BY <2>1, FS_Subset DEF Ordered
<1> HIDE DEF d
<1>4. CASE ~Before(r, x)
  <2>1. A = B
    BY <1>2, <1>4
  <2> QED BY <2>1 DEF Place, d
<1>5. CASE Before(r, x)
  <2>1. r \in A /\ B = (A \ {r}) \union {d} /\ d \notin A \ {r}
    BY <1>1, <1>2, <1>5
  <2> HIDE DEF A, B
  <2>2. IsFiniteSet(A \ {r}) /\ Cardinality(A \ {r}) = Cardinality(A) - 1
    BY <1>3, <2>1, FS_RemoveElement
  <2>3. Cardinality(B) = Cardinality(A \ {r}) + 1
    BY <2>1, <2>2, FS_AddElement
  <2>4. Cardinality(A) \in Nat
    BY <1>3, FS_CardinalityType
  <2>5. Cardinality(A) = Cardinality(B)
    BY <2>2, <2>3, <2>4
  <2> QED BY <2>5 DEF Place, A, B, d
<1> QED BY <1>4, <1>5

\* Every write of another request.
LEMMA OthersKeep ==
  ASSUME PagingInv,
         \/ \E i \in Ids : Join(i) \/ \E found \in BOOLEAN : StoreMessage(i, found)
         \/ \E r \in rows :
              \/ Leave(r) \/ DismissGroup(r)
              \/ \E top \in Tops, found \in BOOLEAN : UpdateConversation(r, top, found)
  PROVE  PagingInv'
<1>1. /\ PagingTypes /\ rows \subseteq SomeRow /\ \A x, y \in rows : x.id = y.id => x = y
      /\ now \in Nat /\ kind \in ListKinds
  BY KindsListed DEF PagingInv, PagingTypes
<1>2. ASSUME NEW d \in SomeRow, d.id \in Absent, Write({}, {d}), now' \in Nat, kind' = kind
      PROVE  PagingInv'
  <2>1. rows' = rows \union {d}
    BY <1>2 DEF Write
  <2>2. \A x, y \in rows' : x.id = y.id => x = y
    BY <1>1, <1>2, <2>1 DEF Absent
  <2>3. {y.id : y \in {}} # {y.id : y \in {d}}
    OBVIOUS
  <2>4. {} \in SUBSET rows /\ {d} \in SUBSET SomeRow
    BY <1>2
  <2> QED BY <1>2, <2>2, <2>3, <2>4, WriteKeeps
<1>3. ASSUME NEW i \in Ids, Join(i) PROVE PagingInv'
  <2> DEFINE d == [id |-> i, top |-> "missing", time |-> now', found |-> TRUE]
  <2>1. i \in Absent /\ Tick /\ Write({}, {d})
    BY <1>3 DEF Join
  <2>2. now' \in Nat
    BY <1>1, <2>1 DEF Tick
  <2>3. d \in SomeRow /\ d.id = i
    BY <2>2 DEF SomeRow, Tops
  <2>4. kind' = kind
    BY <2>1 DEF Write
  <2> HIDE DEF d
  <2> QED BY <1>2, <2>1, <2>2, <2>3, <2>4
<1>4. ASSUME NEW i \in Ids, NEW found \in BOOLEAN, StoreMessage(i, found) PROVE PagingInv'
  <2> DEFINE d == [id |-> i, top |-> "missing", time |-> 0, found |-> found]
  <2>1. i \in Absent /\ now' = now /\ Write({}, {d})
    BY <1>4 DEF StoreMessage
  <2>2. d \in SomeRow /\ d.id = i
    BY DEF SomeRow, Tops
  <2>3. kind' = kind
    BY <2>1 DEF Write
  <2> HIDE DEF d
  <2> QED BY <1>1, <1>2, <2>1, <2>2, <2>3
<1>5. ASSUME NEW r \in rows, Leave(r) PROVE PagingInv'
  <2>1. Write({r}, {}) /\ now' = now
    BY <1>5 DEF Leave
  <2>2. kind' = kind /\ rows' = (rows \ {r}) \union {}
    BY <2>1 DEF Write
  <2>3. {y.id : y \in {r}} # {y.id : y \in {}}
    OBVIOUS
  <2>4. \A x, y \in rows' : x.id = y.id => x = y
    BY <1>1, <2>2
  <2>5. {r} \in SUBSET rows /\ {} \in SUBSET SomeRow
    BY <1>5
  <2> QED BY <1>1, <2>1, <2>2, <2>3, <2>4, <2>5, WriteKeeps
<1>6. ASSUME NEW r \in rows, DismissGroup(r) PROVE PagingInv'
  <2> DEFINE d == [r EXCEPT !.found = FALSE]
  <2>1. Write({r}, {d}) /\ now' = now /\ r.found
    BY <1>6 DEF DismissGroup
  <2>2. kind' = kind /\ rows' = (rows \ {r}) \union {d}
    BY <2>1 DEF Write
  <2>3. d \in SomeRow /\ d.id = r.id
    BY <1>1, <1>6 DEF SomeRow
  <2>4. Ordered(rows)
    BY <1>1, RowsOrdered
  <2>5. \A x \in rows : Place(x, rows') = Place(x, rows)
    BY <1>1, <1>6, <2>1, <2>2, <2>4, DismissedKeepsPlace
  <2> HIDE DEF d
  <2>6. \A x, y \in rows' : x.id = y.id => x = y
    BY <1>1, <1>6, <2>2, <2>3
  <2>7. {r} \in SUBSET rows /\ {d} \in SUBSET SomeRow
    BY <1>6, <2>3
  <2> QED BY <1>1, <2>1, <2>2, <2>5, <2>6, <2>7, WriteKeeps
<1>7. ASSUME NEW r \in rows, NEW top \in Tops, NEW found \in BOOLEAN,
             UpdateConversation(r, top, found)
      PROVE  PagingInv'
  <2> DEFINE d == [id |-> r.id, top |-> top, time |-> now', found |-> found]
  <2>1. kind = "conversations" /\ Tick /\ Write({r}, {d})
    BY <1>7 DEF UpdateConversation
  <2>2. kind' = kind /\ rows' = (rows \ {r}) \union {d}
    BY <2>1 DEF Write
  <2>3. now' \in Nat
    BY <1>1, <2>1 DEF Tick
  <2>4. r.id \in Ids
    BY <1>1, <1>7 DEF SomeRow
  <2>5. d \in SomeRow /\ d.id = r.id
    BY <2>3, <2>4 DEF SomeRow
  <2> HIDE DEF d
  <2>6. \A x, y \in rows' : x.id = y.id => x = y
    BY <1>1, <1>7, <2>2, <2>5
  <2>7. {r} \in SUBSET rows /\ {d} \in SUBSET SomeRow /\ kind \notin Offsets
    BY <1>7, <2>1, <2>5 DEF Offsets
  <2> QED BY <2>1, <2>2, <2>3, <2>6, <2>7, WriteKeeps
<1> QED BY <1>3, <1>4, <1>5, <1>6, <1>7

LEMMA PagingStep == PagingInv /\ [PagingNext]_pagingVars => PagingInv'
<1> SUFFICES ASSUME PagingInv, [PagingNext]_pagingVars PROVE PagingInv'
  OBVIOUS
<1>1. ASSUME NEW limit \in Limits, GetPage(limit) PROVE PagingInv'
  <2>1. Capped(limit) \in Nat \ {0}
    BY PagingAssumption DEF Capped
  <2> QED BY <1>1, <2>1, PageKeeps, MembersKeep, GroupsKeep DEF GetPage
<1>2. CASE UNCHANGED pagingVars
  <2>1. \A x : Past(x)' <=> Past(x)
    BY <1>2 DEF pagingVars, Past
  <2>2. \A x : Place(x, rows)' = Place(x, rows)
    BY <1>2, SortStays DEF pagingVars, Place
  <2> QED BY <1>2, <2>1, <2>2
         DEF pagingVars, PagingInv, PagingTypes, CursorCounts, OffsetCounts, Listed,
             Unsorted, SteadyRowsOnce, Readable
<1> QED BY <1>1, <1>2, OthersKeep DEF PagingNext

\* What a client has received while it reads one of the lists page after page:
\* the rows before its cursor or offset, each once.
THEOREM PagingInvariant == PagingSpec => []PagingInv
  BY PagingStart, PagingStep, PTL DEF PagingSpec

\* A client that has read a list to its end has received every row that nobody
\* wrote meanwhile once, and no message twice.
THEOREM SteadyRowsAreReadOnce == PagingSpec => []SteadyRowsOnce
<1>1. PagingInv => SteadyRowsOnce
  BY DEF PagingInv
<1> QED BY <1>1, PagingInvariant, PTL
=============================================================================
