---------------------------- MODULE XidRepWindow ----------------------------
(***************************************************************************)
(* The client's record of received replies, xid_rep_window_: an ascending  *)
(* list of xids whose front is sent to the server as xid_rep_, the claim   *)
(* that every reply up to it has arrived.                                  *)
(***************************************************************************)
EXTENDS Integers, SequencesExt

\* Before the first larger element, or at the end.
Inserted(w, xid) ==
    InsertAt(w, Min({i \in 1..Len(w) : w[i] > xid} \cup {Len(w) + 1}), xid)

\* Values the compress loop reaches from the front without meeting a gap.
Unbroken(w) == {v \in Range(w) : \A u \in w[1]..v : u \in Range(w)}

\* The compress loop pops the front as long as its successor is in the list;
\* a value that is listed twice stays listed twice when the loop stops at it.
Compressed(w) ==
    SubSeq(w, Min({i \in 1..Len(w) : w[i] = Max(Unbroken(w))}), Len(w))

\* Faulty: no compress after an insertion at the end; only the latest is kept.
UpdatedXidRep_Faulty(w, xid) ==
    IF w # <<>> /\ xid <= w[1] THEN w
    ELSE IF w = <<>> \/ xid >= w[Len(w)] THEN Append(w, xid)
    ELSE Compressed(Inserted(w, xid))
UpdatedXidRep_LatestFaulty(w, xid) == IF w # <<>> /\ xid <= w[1] THEN w ELSE <<xid>>

\* UpdateXidRep.
UpdatedXidRep(w, xid) ==
    IF w # <<>> /\ xid <= w[1] THEN w ELSE Compressed(Inserted(w, xid))

\* Faulty: the next xid instead of the last one received.
ReceivedXid_Faulty(w) == IF w = <<>> THEN 0 ELSE w[1] + 1

\* The lambda received_xid of Call.
ReceivedXid(w) == IF w = <<>> THEN 0 ELSE w[1]

-----------------------------------------------------------------------------
(* The same function with the loop of the code spelled out: `it` runs over  *)
(* the list behind the front, and the inner loop pops while the front's     *)
(* successor is *it.  f is the index the front has reached.                 *)

\* Faulty: `if` instead of `while`.
PoppedTo_Faulty(w, f, it) == IF w[f] + 1 = w[it] THEN f + 1 ELSE f

PoppedTo(w, f, it) == Min({g \in f..it : w[g] + 1 # w[it]})

CompressLoop(w) ==
    LET front[it \in 1..Len(w)] == IF it = 1 THEN 1 ELSE PoppedTo(w, front[it - 1], it)
    IN  SubSeq(w, front[Len(w)], Len(w))
=============================================================================
