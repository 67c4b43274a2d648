------------------------- MODULE ConversationView -------------------------
(***************************************************************************)
(* One document of the `conversations` collection: what one user sees of   *)
(* one chat.  Every write of the conversation repository is one MongoDB    *)
(* update of one document, so each is one function from view to view.      *)
(* Sequence numbers start at 1, so 0 stands for an absent last_msg and for *)
(* an absent last_read_seq, which the repository's filters treat alike.    *)
(* total_msg_count always equals last: the same update sets both from the  *)
(* same number.  Times, ids and the text of the summary are left out.      *)
(***************************************************************************)
EXTENDS Naturals

View == [state : {"absent", "current", "left"},  \* no document; left_at unset; set
         last  : Nat,                            \* last_msg.seq, total_msg_count
         read  : Nat]                            \* last_read_seq

NoView == [state |-> "absent", last |-> 0, read |-> 0]

Later(m, n) == IF m >= n THEN m ELSE n

\* A user who lists conversations sees this one.
Visible(v) == v.state = "current"

Upsert(v, seq) ==
  [state |-> "current", last |-> v.last, read |-> Later(v.read, seq)]

\* BatchUpsert, for one of its users: the read position is left alone.
EnsureUser(v) == [v EXCEPT !.state = "current"]

\* Mutant: the filter on last_msg.seq is forgotten.
AcceptsAnyMessage(v, seq) == Visible(v)

\* The filter of the update in UpdateLastMessage.
AcceptsMessage(v, seq) == Visible(v) /\ v.last < seq

UpdateLastMessage(v, seq) ==
  IF AcceptsMessage(v, seq) THEN [v EXCEPT !.last = seq] ELSE v

\* Mutant: a message that matches no view is taken for an old one.
AnyMessageAccepted(v, seq) == TRUE

\* UpdateLastMessage returns nil: it matched, or the view, left or not, is
\* already at this sequence or beyond; otherwise it returns ErrNoDocuments.
MessageAccepted(v, seq) ==
  AcceptsMessage(v, seq) \/ (v.state # "absent" /\ v.last >= seq)

MarkRead(v, seq) ==
  IF v.state = "absent" THEN v ELSE [v EXCEPT !.read = Later(@, seq)]

MarkLeft(v) == IF v.state = "current" THEN [v EXCEPT !.state = "left"] ELSE v

\* v2 is v1 moved forward: what no operation of the repository may undo.
Advances(v1, v2) ==
  /\ v2.state = "absent" => v1.state = "absent"
  /\ v2.last >= v1.last
  /\ v2.read >= v1.read
===========================================================================
