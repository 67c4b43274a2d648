------------------------------- MODULE Paging -------------------------------
(***************************************************************************)
(* A client that reads one of the lists of the HTTP API page after page,   *)
(* while the rows of the list change: the history of a chat, a search in   *)
(* it, and the conversations of a user, each with a cursor; the members of *)
(* a group and the groups of a user, with an offset.                       *)
(***************************************************************************)
EXTENDS Naturals, FiniteSets

CONSTANTS Kinds,      \* the lists that are read
          Ids,        \* 1..n: the number of a message, or the rank of a chat_id or uid
          Limits,     \* the limits a client asks for
          MaxLimit,   \* 100 in the code
          MaxMillis,  \* bound: the clock
          MaxChanges  \* bound: writes while the client reads

VARIABLES kind,       \* the list this client reads
          rows,       \* the documents that may belong to the list
          now,        \* the clock, in the precision of the database
          page, last, offset, \* "first", "next" or "end"; what the cursor holds
          shown,      \* how often the client has received each id
          changes,    \* writes so far
          steady,     \* history: rows there from the start that nobody wrote
          disturbed   \* history: rows crossed the offset, or had no is_top

pagingVars == <<kind, rows, now, page, last, offset, shown, changes, steady, disturbed>>

\* is_top is missing in a document until the user pins or unpins the chat:
\* Upsert and BatchUpsert do not set it.
Tops == {"missing", "unpinned", "pinned"}
Rank == [missing |-> 0, unpinned |-> 1, pinned |-> 2]
Row == [id : Ids, top : Tops, time : 0..MaxMillis, found : BOOLEAN]

Messages == {"history", "search"}
Offsets == {"members", "groups"}

\* Repositories and handlers take no limit below 1.
ASSUME PagingAssumption ==
  /\ Kinds \subseteq Messages \union Offsets \union {"conversations"}
  /\ IsFiniteSet(Ids) /\ Ids \subseteq Nat
  /\ Limits \subseteq Nat \ {0} /\ MaxLimit \in Nat \ {0}
  /\ MaxMillis \in Nat /\ MaxChanges \in Nat

\* time is updated_at or joined_at.  found says that the preview matches, that
\* the user has not left the conversation, that the group is active.
Initially(k) ==
  LET Fields == [top   : IF k = "conversations" THEN Tops ELSE {"missing"},
                 time  : IF k \in Messages THEN {0} ELSE 0..1,
                 found : IF k \in {"search", "groups"} THEN BOOLEAN ELSE {TRUE}]
  IN [Ids -> {{}} \union {{d} : d \in Fields}]

Unsorted(S) == kind = "conversations" /\ \E r \in S : r.top = "missing"

Listed(S) == {r \in S : kind = "history" \/ r.found}

PagingInit ==
  /\ kind \in Kinds
  /\ \E f \in Initially(kind) :
       rows = UNION {{[id |-> i, top |-> d.top, time |-> d.time, found |-> d.found] : d \in f[i]} : i \in Ids}
  /\ now = 1
  /\ page = "first" /\ last = [top |-> "missing", time |-> 0, id |-> 0] /\ offset = 0
  /\ shown = [i \in Ids |-> 0] /\ changes = 0
  /\ steady = Listed(rows) /\ disturbed = Unsorted(rows)

\* The sort of the query
Before(x, y) ==
  \/ kind \in Messages /\ x.id > y.id
  \/ kind = "conversations" /\ Rank[x.top] > Rank[y.top]
  \/ /\ kind \notin Messages
     /\ kind = "conversations" => x.top = y.top
     /\ \/ IF kind = "members" THEN x.time < y.time ELSE x.time > y.time
        \/ x.time = y.time /\ x.id < y.id

\* Mutant: the row the cursor was made from comes again.
PastOrAt(x) == kind \in Messages => page = "first" \/ x.id <= last.id

\* The condition the cursor adds.  A comparison finds no document in which the
\* field is missing, and a missing is_top becomes false in the cursor.
Past(x) ==
  \/ page = "first"
  \/ kind \in Messages /\ x.id < last.id
  \/ /\ kind = "conversations" /\ x.top # "missing"
     /\ \/ last.top = "pinned" /\ x.top = "unpinned"
        \/ /\ x.top = IF last.top = "pinned" THEN "pinned" ELSE "unpinned"
           /\ x.time < last.time \/ (x.time = last.time /\ x.id > last.id)
  \/ kind \in Offsets

\* The rows of S that come before r, and what a query with a skip and a limit
\* finds of S.  The order within a page is left out: a client keeps it.
Place(r, S) == Cardinality({x \in S : Before(x, r)})
Slice(S, skip, limit) == {r \in S : skip <= Place(r, S) /\ Place(r, S) < skip + limit}

\* The cursor is made from the last row that is returned.
CursorOf(all, limit) == Slice(all, limit - 1, 1)

Return(items) ==
  shown' = [i \in Ids |-> shown[i] + IF \E r \in items : r.id = i THEN 1 ELSE 0]

\* FindPageByChatSeq, SearchPageByChatSeq, GetListByCursor: one row more than
\* the limit is read, to know whether more follow.
NextPage(limit) ==
  LET all == {r \in Listed(rows) : Past(r)}
      fetched == Slice(all, 0, limit + 1)
  IN /\ kind \notin Offsets /\ page # "end"
     /\ IF Cardinality(fetched) > limit
        THEN /\ Return(Slice(all, 0, limit))
             /\ page' = "next"
             /\ \E r \in CursorOf(all, limit) :
                  last' = [top |-> r.top, time |-> r.time, id |-> r.id]
        ELSE Return(fetched) /\ page' = "end" /\ UNCHANGED last
     /\ UNCHANGED <<kind, rows, now, offset, changes, steady, disturbed>>

\* ListMembers: a full page is taken for a sign of more.
NextMembers(limit) ==
  LET items == Slice(rows, offset, limit)
  IN /\ kind = "members" /\ page # "end"
     /\ Return(items)
     /\ page' = IF Cardinality(items) = limit THEN "next" ELSE "end"
     /\ offset' = offset + Cardinality(items)
     /\ UNCHANGED <<kind, rows, now, last, changes, steady, disturbed>>

\* ListGroups takes a page of memberships and leaves out the groups that were
\* dismissed; the client asks on until a page is empty.
NextGroups(limit) ==
  LET active == {r \in Slice(rows, offset, limit) : r.found}
  IN /\ kind = "groups" /\ page # "end"
     /\ Return(active)
     /\ page' = IF active = {} THEN "end" ELSE "next"
     /\ offset' = offset + limit
     /\ UNCHANGED <<kind, rows, now, last, changes, steady, disturbed>>

\* Repositories cap the limit, and the handlers of the two lists with an offset
\* do so themselves.
Capped(limit) == IF limit > MaxLimit THEN MaxLimit ELSE limit

GetPage(limit) ==
  NextPage(Capped(limit)) \/ NextMembers(Capped(limit)) \/ NextGroups(Capped(limit))

---------------------------------------------------------------------------
\* Other requests write: old becomes new, each of them at most one row.
Write(old, new) ==
  /\ page # "end" /\ changes < MaxChanges
  /\ changes' = changes + 1
  /\ rows' = (rows \ old) \union new
  /\ steady' = steady \ (old \union new)
  /\ disturbed' = \/ disturbed \/ Unsorted(rows')
                   \/ /\ kind \in Offsets
                      /\ \E x \in steady, r \in (old \ new) \union (new \ old) :
                           Before(r, x) /\ {y.id : y \in old} # {y.id : y \in new}
  /\ UNCHANGED <<kind, page, last, offset, shown>>

Absent == Ids \ {r.id : r \in rows}

\* A message is stored, perhaps after one with a higher number (SendMessage).
StoreMessage(i, found) ==
  /\ kind \in Messages /\ i \in Absent /\ (kind = "history" => found)
  /\ Write({}, {[id |-> i, top |-> "missing", time |-> 0, found |-> found]})
  /\ UNCHANGED now

Tick == now' \in {now, now + 1} /\ now' <= MaxMillis

\* Joining, a message, reading, muting, pinning and leaving all set updated_at.
UpdateConversation(r, top, found) ==
  /\ kind = "conversations"
  /\ top \in {r.top, "pinned", "unpinned"}
  /\ Tick
  /\ Write({r}, {[id |-> r.id, top |-> top, time |-> now', found |-> found]})

Join(i) ==
  /\ kind \notin Messages /\ i \in Absent
  /\ Tick
  /\ Write({}, {[id |-> i, top |-> "missing", time |-> now', found |-> TRUE]})

Leave(r) ==
  /\ kind \in Offsets
  /\ Write({r}, {}) /\ UNCHANGED now

DismissGroup(r) ==
  /\ kind = "groups" /\ r.found
  /\ Write({r}, {[r EXCEPT !.found = FALSE]}) /\ UNCHANGED now

PagingNext ==
  \/ \E limit \in Limits : GetPage(limit)
  \/ \E i \in Ids : Join(i) \/ \E found \in BOOLEAN : StoreMessage(i, found)
  \/ \E r \in rows :
       \/ Leave(r) \/ DismissGroup(r)
       \/ \E top \in Tops, found \in BOOLEAN : UpdateConversation(r, top, found)

PagingSpec == PagingInit /\ [][PagingNext]_pagingVars

---------------------------------------------------------------------------
\* Whether the list can be read to its end at all: no conversation was ever
\* without is_top, no row crossed the offset, and no group is dismissed.
Readable == ~disturbed /\ (kind = "groups" => \A r \in rows : r.found)

\* A client that has read to the end has received every row that was there
\* from the start and that nobody wrote meanwhile, and has received it once,
\* although other rows came, went and moved between its requests.  A message is
\* never received twice, also when others are stored out of order meanwhile.
SteadyRowsOnce ==
  /\ page = "end" /\ Readable => \A r \in steady : shown[r.id] = 1
  /\ kind \in Messages => \A i \in Ids : shown[i] <= 1

\* What the API promises of the conversation list: its pages neither repeat nor
\* leave out a conversation that nobody wrote meanwhile.
ConversationsComplete ==
  kind = "conversations" /\ page = "end" => \A r \in steady : shown[r.id] = 1
=============================================================================
