---------------------------- MODULE ReplyWindow ----------------------------
(***************************************************************************)
(* The server's memory of one client: std::list<ReplyT>, kept in           *)
(* ascending order of xid_ (RpcServer::reply_window_), and the pure part   *)
(* of CheckDuplicateAndUpdate and AddReply that works on it.  A window is  *)
(* a sequence of ReplyT records; every operator below is what one loop of  *)
(* the C++ code leaves behind.                                             *)
(***************************************************************************)
EXTENDS Integers, SequencesExt

\* (Names that end in _Faulty are the mistakes a run has to notice: each one
\* replaces the definition it stands before, and the property named in
\* PROJECT.json must then fail.)

\* Faulty: the header's xid and the result change places.
Reply_Faulty(xid, err, result) == [xid |-> result, err |-> err, result |-> xid]

\* ReplyHeader and the marshalled result (key "0"), 0 when there is none.
Reply(xid, err, result) == [xid |-> xid, err |-> err, result |-> result]
NoReply == Reply(0, "RESERVED", 0)

ReplyT(xid) == [xid_ |-> xid, cb_present |-> FALSE, buf_ |-> NoReply]

\* Where a scan from the front stops: the first entry whose xid is at least
\* x, or one past the end.
FirstAtLeast(w, x) ==
    Min({i \in 1..Len(w) : w[i].xid_ >= x} \cup {Len(w) + 1})

Holds(w, x) == \E i \in 1..Len(w) : w[i].xid_ = x

\* Faulty: a request that is still being processed counts as new.
DupState_Faulty(w, ack, x) ==
    LET i == FirstAtLeast(w, x) IN
    CASE x <= ack                                  -> "FORGOTTEN"
      [] x > ack /\ i <= Len(w) /\ w[i].xid_ = x /\ w[i].cb_present -> "DONE"
      [] OTHER                                     -> "NEW"

\* Faulty: an entry whose reply is not there yet is answered from.
DupState_NoReplyFaulty(w, ack, x) ==
    IF x <= ack THEN "FORGOTTEN" ELSE IF Holds(w, x) THEN "DONE" ELSE "NEW"

\* Faulty: a request that was answered already is run again.
DupState_RerunFaulty(w, ack, x) ==
    IF x <= ack THEN "FORGOTTEN"
    ELSE IF Holds(w, x) /\ ~w[FirstAtLeast(w, x)].cb_present THEN "INPROGRESS"
    ELSE "NEW"

\* The value CheckDuplicateAndUpdate returns, ack being the already updated
\* max_ackowledged_rep_ of the client.
DupState(w, ack, x) ==
    LET i == FirstAtLeast(w, x) IN
    CASE x <= ack                                    -> "FORGOTTEN"
      [] x > ack /\ (i > Len(w) \/ w[i].xid_ > x)    -> "NEW"
      [] x > ack /\ i <= Len(w) /\ w[i].xid_ = x     ->
             IF w[i].cb_present THEN "DONE" ELSE "INPROGRESS"

\* rep_window.insert before the first larger xid, push_back if there is none.
Remember(w, x) == InsertAt(w, FirstAtLeast(w, x), ReplyT(x))

\* Faulty: < for <=, and <= for <= with the next xid.
Trim_Faulty(w, ack) == SubSeq(w, FirstAtLeast(w, ack), Len(w))
Trim_EagerFaulty(w, ack) == SubSeq(w, FirstAtLeast(w, ack + 2), Len(w))

\* The ON_SCOPE_EXIT loop: erase from the front up to the first entry the
\* client has not acknowledged.
Trim(w, ack) == SubSeq(w, FirstAtLeast(w, ack + 1), Len(w))

\* The window CheckDuplicateAndUpdate leaves, trailing trim included.
CheckedWindow(w, ack, x) ==
    Trim(IF DupState(w, ack, x) = "NEW" THEN Remember(w, x) ELSE w, ack)

\* AddReply on a window that holds x: the first entry for x gets the reply.
AddedReply(w, x, rep) ==
    LET j == Min({i \in 1..Len(w) : w[i].xid_ = x})
    IN  [w EXCEPT ![j] = [xid_ |-> x, cb_present |-> TRUE, buf_ |-> rep]]

\* The reply DONE points at: the buf_ of the entry for x.
Remembered(w, x) == w[FirstAtLeast(w, x)].buf_

Ascending(w) == \A i, j \in 1..Len(w) : i < j => w[i].xid_ < w[j].xid_
=============================================================================
