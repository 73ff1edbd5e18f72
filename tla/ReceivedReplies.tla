-------------------------- MODULE ReceivedReplies --------------------------
(***************************************************************************)
(* xid_rep_window_ on its own: any reply may be received next, any number  *)
(* of times and in any order, and UpdateXidRep records it.  What the list  *)
(* says is compared with the set of replies that really came.              *)
(***************************************************************************)
EXTENDS XidRepWindow

CONSTANTS
    MaxXid,       \* bound: xids 2..MaxXid
    MaxReplies    \* bound: replies received

ASSUME BoundsAssumption == MaxXid \in Nat \ {0, 1} /\ MaxReplies \in Nat

VARIABLES
    xid_rep_window,
    got,          \* history: xids received
    first,        \* history: the one received first
    replies       \* replies received so far

vars == <<xid_rep_window, got, first, replies>>

Init == xid_rep_window = <<>> /\ got = {} /\ first = 0 /\ replies = 0

GotPdu(xid) ==
    /\ replies < MaxReplies
    /\ replies' = replies + 1
    /\ xid_rep_window' = UpdatedXidRep(xid_rep_window, xid)
    /\ got' = got \cup {xid}
    /\ first' = IF got = {} THEN xid ELSE first

Next == \E xid \in 2..MaxXid : GotPdu(xid)

Spec == Init /\ [][Next]_vars

-----------------------------------------------------------------------------
\* The front of the list is the end of the unbroken run of received xids that
\* starts at the first one, and behind it stand exactly the received xids
\* beyond the gap: nothing received is dropped and nothing is counted early,
\* whatever the order and however often a reply is repeated (UpdateXidRep).
WindowIsReceived ==
    got # {} =>
        LET front == Max({v \in got : first <= v /\ first..v \subseteq got}) IN
        /\ ReceivedXid(xid_rep_window) = front
        /\ Range(xid_rep_window) = {v \in got : v >= front}
        /\ \A i, j \in 1..Len(xid_rep_window) :
              i < j => xid_rep_window[i] <= xid_rep_window[j]

\* The loop that pops the front while an iterator runs over the list behind
\* it, and the closed form the other modules use, leave the same list, for the
\* list and any element that may be inserted into it next.
LoopCompresses ==
    \A xid \in 2..MaxXid :
        LET w == Inserted(xid_rep_window, xid) IN CompressLoop(w) = Compressed(w)
=============================================================================
