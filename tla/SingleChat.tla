----------------------------- MODULE SingleChat -----------------------------
(***************************************************************************)
(* POST /chats/single: the one chat of two users, created by whichever of  *)
(* them asks first.  Each call is a transaction that works on a snapshot,  *)
(* is run again when it conflicts, and is given up after five seconds.     *)
(***************************************************************************)
EXTENDS Naturals, FiniteSets

CONSTANTS People,
          Calls     \* the calls; each names the chat_id of its candidate

VARIABLES chats,    \* the single chats: their key, id and members
          inLists,  \* whose conversation lists have which chat
          calls

chatVars == <<chats, inLists, calls>>

\* Mutant: the users are not sorted.
UnsortedKey(u, p) == <<u, p>>

\* NewSingleChatKey: the hash of the two ids, sorted
SingleKey(u, p) == {u, p}

ChatsInit ==
  /\ chats = {} /\ inLists = {}
  /\ calls = [c \in Calls |-> [pc |-> "new"]]

\* NewSingleChat: the candidate, with a new id
EnsureSingleChat(c, u, p) ==
  /\ calls[c].pc = "new" /\ u # p
  /\ calls' = [calls EXCEPT ![c] = [pc |-> "begin", members |-> {u, p}, key |-> SingleKey(u, p)]]
  /\ UNCHANGED <<chats, inLists>>

SameKey(c, S) == {x \in S : x.key = calls[c].key}

\* The snapshot the transaction reads
BeginTransaction(c) ==
  /\ calls[c].pc = "begin"
  /\ calls' = [calls EXCEPT ![c] = [pc |-> "open", members |-> @.members, key |-> @.key,
                                    snapshot |-> SameKey(c, chats)]]
  /\ UNCHANGED <<chats, inLists>>

\* InsertOrGetSingle and EnsureUsers, in one transaction: it commits if nobody
\* has inserted a chat with the key since the snapshot.
Commit(c) ==
  LET found == SameKey(c, calls[c].snapshot)
      chat == IF found # {} THEN CHOOSE x \in found : TRUE
              ELSE [id |-> c, key |-> calls[c].key, members |-> calls[c].members]
  IN /\ calls[c].pc = "open" /\ SameKey(c, chats) = found
     /\ chats' = chats \union {chat}
     /\ inLists' = inLists \union (chat.members \X {chat.id})
     /\ calls' = [calls EXCEPT ![c] = [pc |-> "answered", members |-> @.members, chat |-> chat.id]]

\* The unique index, or a write of the same conversation, makes it start again.
Conflict(c) ==
  /\ calls[c].pc = "open"
  /\ calls' = [calls EXCEPT ![c] = [pc |-> "begin", members |-> @.members, key |-> @.key]]
  /\ UNCHANGED <<chats, inLists>>

GiveUp(c) ==
  /\ calls[c].pc \in {"begin", "open"}
  /\ calls' = [calls EXCEPT ![c] = [pc |-> "failed"]]
  /\ UNCHANGED <<chats, inLists>>

ChatsNext ==
  \E c \in Calls :
    \/ \E u, p \in People : EnsureSingleChat(c, u, p)
    \/ BeginTransaction(c) \/ Commit(c) \/ Conflict(c) \/ GiveUp(c)

ChatsSpec == ChatsInit /\ [][ChatsNext]_chatVars

\* Whoever asks, and however often at once: all that are answered are given
\* the same chat of the two, and it is in the lists of both by then.
OneSingleChat ==
  \A c \in Calls : calls[c].pc = "answered" =>
    /\ calls[c].members \X {calls[c].chat} \subseteq inLists
    /\ \A d \in Calls : calls[d].pc = "answered" /\ calls[d].members = calls[c].members =>
         calls[d].chat = calls[c].chat
=============================================================================
