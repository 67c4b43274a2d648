--------------------------- MODULE UserSnapshots ---------------------------
(***************************************************************************)
(* The copy of one user's profile, written by the business system with a   *)
(* version.  Each PUT is up to three calls of the database, and several of *)
(* them run at once: retries, and versions that overtake one another.      *)
(***************************************************************************)
EXTENDS Naturals

CONSTANTS Writers,      \* PUTs under way at once
          MaxVersion,   \* bound: the versions 1..MaxVersion
          MaxPuts       \* bound: PUTs of one writer

ASSUME SnapshotsAssumption == MaxVersion \in Nat /\ MaxPuts \in Nat

VARIABLES user,  \* the version of the document, 0 when there is none
          puts   \* each writer's request and its answer

snapshotVars == <<user, puts>>

Put == [pc : {"new", "update", "find", "insert", "ok", "stale", "error"},
        version : 0..MaxVersion, count : 0..MaxPuts,
        began : {"absent", "stored"}]  \* history: was there a document when it began

Idle(w) == puts[w].pc \in {"new", "ok", "stale", "error"}

SnapshotsInit ==
  /\ user \in 0..1
  /\ puts = [w \in Writers |-> [pc |-> "new", version |-> 0, count |-> 0, began |-> "stored"]]

Goto(w, pc) == puts' = [puts EXCEPT ![w].pc = pc]

\* PutUserSnapshot, for a version above 0
PutUserSnapshot(w, v) ==
  /\ Idle(w) /\ puts[w].count < MaxPuts
  /\ v > 0
  /\ puts' = [puts EXCEPT ![w] = [pc |-> "update", version |-> v,
                                  count |-> @.count + 1,
                                  began |-> IF user = 0 THEN "absent" ELSE "stored"]]
  /\ UNCHANGED user

\* Mutant: the version is not in the filter.
UpdateAnyVersion(w) ==
  /\ puts[w].pc = "update"
  /\ IF user # 0
     THEN user' = puts[w].version /\ Goto(w, "ok")
     ELSE Goto(w, "find") /\ UNCHANGED user

\* UpdateOne, with the version in its filter
Update(w) ==
  /\ puts[w].pc = "update"
  /\ IF user # 0 /\ user < puts[w].version
     THEN user' = puts[w].version /\ Goto(w, "ok")
     ELSE Goto(w, "find") /\ UNCHANGED user

\* Mutant: the present version counts as stale.
FindOther(w) ==
  /\ puts[w].pc = "find"
  /\ Goto(w, IF user = 0 THEN "insert" ELSE "stale")
  /\ UNCHANGED user

\* FindOne: what Update did not match is there as sent, is newer, or, if it was
\* inserted since, may be older; or there is none.
FindCurrent(w) ==
  /\ puts[w].pc = "find"
  /\ Goto(w, IF user = 0 THEN "insert" ELSE IF user = puts[w].version THEN "ok" ELSE "stale")
  /\ UNCHANGED user

\* InsertOne: a duplicate counts as stale, whatever its version.
Insert(w) ==
  /\ puts[w].pc = "insert"
  /\ IF user = 0
     THEN user' = puts[w].version /\ Goto(w, "ok")
     ELSE Goto(w, "stale") /\ UNCHANGED user

\* The database fails before the call or after it.
DatabaseError(w) ==
  /\ ~Idle(w)
  /\ Goto(w, "error")
  /\ \/ UNCHANGED user
     \/ /\ puts[w].pc = "update" /\ user # 0 /\ user < puts[w].version
        /\ user' = puts[w].version
     \/ /\ puts[w].pc = "insert" /\ user = 0
        /\ user' = puts[w].version

SnapshotsNext ==
  \E w \in Writers :
    \/ \E v \in 1..MaxVersion : PutUserSnapshot(w, v)
    \/ Update(w) \/ FindCurrent(w) \/ Insert(w) \/ DatabaseError(w)

SnapshotsSpec == SnapshotsInit /\ [][SnapshotsNext]_snapshotVars

---------------------------------------------------------------------------
\* A snapshot that was acknowledged is kept until a newer one replaces it.
AcknowledgedIsKept == \A w \in Writers : puts[w].pc = "ok" => user >= puts[w].version

\* A snapshot is refused as stale only for a newer one, and never for a retry
\* of its own version, unless the user was first stored while it was under way.
StaleMeansNewer ==
  \A w \in Writers : puts[w].pc = "stale" /\ puts[w].began = "stored" => user > puts[w].version

\* The copy never goes back to an older version.
VersionsAdvance == [][user' >= user]_snapshotVars
=============================================================================
