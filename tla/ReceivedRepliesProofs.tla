----------------------- MODULE ReceivedRepliesProofs -----------------------
(***************************************************************************)
(* What xid_rep_window_ says of the replies that came, for any number of   *)
(* calls and replies.                                                      *)
(***************************************************************************)
EXTENDS ReceivedReplies, WindowProofs

Xids == 2..MaxXid

\* The front is where the unbroken run from the first reply ends, and the list
\* is what was received from there on.
FrontXid == xid_rep_window[1]
ListInv ==
    /\ xid_rep_window \in Seq(Xids) /\ NonDecreasing(xid_rep_window)
    /\ got \subseteq Xids
    /\ got = {} <=> xid_rep_window = <<>>
    /\ got # {} =>
          /\ first \in got /\ first <= FrontXid
          /\ first..FrontXid \subseteq got /\ FrontXid + 1 \notin got
          /\ Range(xid_rep_window) = {v \in got : v >= FrontXid}

LEMMA XidsAreNats == Xids \in SUBSET Nat
BY BoundsAssumption DEF Xids

LEMMA ListInvInit == Init => ListInv
BY DEF Init, ListInv, NonDecreasing

\* A reply at or before the front changes nothing.
LEMMA ListInvOld ==
    ASSUME ListInv, NEW xid \in Xids, GotPdu(xid), xid_rep_window # <<>>, xid <= FrontXid
    PROVE  ListInv'
<1>. USE XidsAreNats
<1>1. xid_rep_window' = xid_rep_window
  BY DEF GotPdu, UpdatedXidRep, FrontXid
<1>2. FrontXid' = FrontXid /\ got' = got \cup {xid} /\ first' = first /\ FrontXid \in Xids
  BY <1>1, NatSeq DEF GotPdu, ListInv, FrontXid
<1>3. FrontXid \in got
  <2>1. FrontXid \in first..FrontXid
    BY <1>2 DEF ListInv
  <2>. QED
    BY <2>1 DEF ListInv
<1>4. {v \in got' : v >= FrontXid} = {v \in got : v >= FrontXid}
  BY <1>2, <1>3
<1>5. FrontXid + 1 \notin got'
  BY <1>2 DEF ListInv
<1>. HIDE DEF FrontXid
<1>. QED
  BY <1>1, <1>2, <1>4, <1>5 DEF ListInv

\* A reply beyond the front may close gaps and move it.
LEMMA ListInvNew ==
    ASSUME ListInv, NEW xid \in Xids, GotPdu(xid),
           xid_rep_window = <<>> \/ xid > FrontXid
    PROVE  ListInv'
<1>. USE XidsAreNats
<1>. DEFINE w == xid_rep_window
            n == UpdatedXidRep(w, xid)
            all == Range(w) \cup {xid}
            start == IF w = <<>> THEN xid ELSE w[1]
<1>1. /\ xid_rep_window' = n /\ got' = got \cup {xid}
      /\ first' = IF got = {} THEN xid ELSE first
  BY DEF GotPdu
<1>2. w \in Seq(Xids) /\ NonDecreasing(w) /\ (w = <<>> \/ xid > w[1])
  BY DEF ListInv, FrontXid
<1>3. /\ n \in Seq(Xids) /\ n # <<>> /\ NonDecreasing(n)
      /\ n[1] \in all /\ start <= n[1] /\ start..n[1] \subseteq all
      /\ \A v \in all : start..v \subseteq all => v <= n[1]
      /\ Range(n) = {v \in all : v >= n[1]}
  BY <1>2, UpdatedXidRepIs
<1>4. n[1] \in Nat /\ start \in Nat /\ n[1] \in Xids /\ (w # <<>> => w[1] \in Nat)
  BY <1>2, <1>3, NatSeq
<1>5. all = {v \in got' : v >= start} /\ got' \subseteq Xids
  <2>1. CASE w = <<>>
    <3>1. Range(w) = {} /\ got = {}
      BY <2>1 DEF ListInv, Range
    <3>. QED
      BY <1>1, <1>4, <2>1, <3>1
  <2>2. CASE w # <<>>
    <3>1. Range(w) = {v \in got : v >= w[1]} /\ got \subseteq Xids
      BY <2>2 DEF ListInv, FrontXid
    <3>2. start = w[1] /\ start <= xid /\ xid \in Nat
      BY <1>2, <1>4, <2>2
    <3>3. got' = got \cup {xid}
      BY <1>1
    <3>. HIDE DEF start
    <3>. QED
      BY <3>1, <3>2, <3>3
  <2>. QED
    BY <2>1, <2>2
<1>6. first' \in got' /\ first' <= start /\ first'..start \subseteq got'
  <2>1. CASE w = <<>>
    <3>1. got = {}
      BY <2>1 DEF ListInv
    <3>. QED
      BY <1>1, <1>4, <2>1, <3>1
  <2>2. CASE w # <<>>
    <3>1. got # {} /\ first \in got /\ first <= w[1] /\ first..w[1] \subseteq got
      BY <2>2 DEF ListInv, FrontXid
    <3>. QED
      BY <1>1, <2>2, <3>1
  <2>. QED
    BY <2>1, <2>2
<1>. HIDE DEF n, all, start
<1>7. first' \in Nat
  BY <1>5, <1>6
<1>8. first' <= n[1] /\ first'..n[1] \subseteq got'
  <2>1. \A v \in first'..n[1] : v \in first'..start \/ v \in start..n[1]
    BY <1>3, <1>4, <1>7
  <2>. QED
    BY <1>3, <1>4, <1>5, <1>6, <1>7, <2>1
<1>9. n[1] + 1 \notin got'
  <2>. SUFFICES ASSUME n[1] + 1 \in got' PROVE FALSE
    OBVIOUS
  <2>1. n[1] + 1 \in all
    BY <1>3, <1>4, <1>5
  <2>2. \A v \in start..(n[1] + 1) : v \in start..n[1] \/ v = n[1] + 1
    BY <1>4
  <2>3. n[1] + 1 <= n[1]
    BY <1>3, <2>1, <2>2
  <2>. QED
    BY <1>4, <2>3
<1>10. Range(n) = {v \in got' : v >= n[1]}
  <2>1. \A v \in got' : v >= n[1] => v >= start
    BY <1>3, <1>4, <1>5
  <2>. QED
    BY <1>3, <1>5, <2>1
<1>11. got' # {} /\ xid_rep_window' # <<>>
  BY <1>1, <1>3
<1>12. FrontXid' = n[1]
  BY <1>1 DEF FrontXid
<1>. QED
  BY <1>1, <1>3, <1>5, <1>6, <1>8, <1>9, <1>10, <1>11, <1>12 DEF ListInv

LEMMA ListInvStep == ListInv /\ [Next]_vars => ListInv'
<1>. SUFFICES ASSUME ListInv, [Next]_vars PROVE ListInv'
  OBVIOUS
<1>1. CASE UNCHANGED vars
  BY <1>1 DEF vars, ListInv, FrontXid, NonDecreasing
<1>2. ASSUME NEW xid \in Xids, GotPdu(xid) PROVE ListInv'
  <2>1. xid_rep_window # <<>> => FrontXid \in Nat
    BY XidsAreNats, NatSeq DEF ListInv, FrontXid
  <2>2. xid \in Nat
    BY XidsAreNats
  <2>. QED
    BY <1>2, <2>1, <2>2, ListInvOld, ListInvNew
<1>. QED
  BY <1>1, <1>2 DEF Next, Xids

\* However the replies come, the front of xid_rep_window_ is the last xid up to
\* which all have been received, and nothing received behind it is forgotten.
THEOREM ListSaysWhatCame == Spec => []WindowIsReceived
<1>1. ASSUME ListInv PROVE WindowIsReceived
  <2>. SUFFICES ASSUME got # {}
                PROVE  LET front == Max({v \in got : first <= v /\ first..v \subseteq got}) IN
                       /\ ReceivedXid(xid_rep_window) = front
                       /\ Range(xid_rep_window) = {v \in got : v >= front}
                       /\ NonDecreasing(xid_rep_window)
    BY DEF WindowIsReceived, NonDecreasing
  <2>. DEFINE S == {v \in got : first <= v /\ first..v \subseteq got}
  <2>1. xid_rep_window # <<>> /\ FrontXid \in Nat /\ first \in Nat /\ got \subseteq Nat
    BY <1>1, XidsAreNats, NatSeq DEF ListInv, FrontXid
  <2>2. FrontXid \in S
    <3>1. FrontXid \in first..FrontXid
      BY <1>1, <2>1 DEF ListInv
    <3>. QED
      BY <1>1, <3>1 DEF ListInv
  <2>3. ASSUME NEW v \in S, v > FrontXid PROVE FALSE
    <3>1. v \in Nat /\ FrontXid + 1 \in first..v
      BY <1>1, <2>1, <2>3 DEF ListInv
    <3>. QED
      BY <1>1, <3>1 DEF ListInv
  <2>4. S \in SUBSET Nat /\ \A v \in S : v <= FrontXid
    <3>1. S \in SUBSET Nat
      BY <2>1
    <3>. HIDE DEF S
    <3>. QED
      BY <2>1, <2>3, <3>1
  <2>. HIDE DEF S
  <2>5. Max(S) = FrontXid
    <3>1. Max(S) \in S /\ FrontXid <= Max(S)
      BY <2>1, <2>2, <2>4, MaxOfNats
    <3>2. Max(S) \in Nat /\ Max(S) <= FrontXid
      BY <2>4, <3>1
    <3>. QED
      BY <2>1, <3>1, <3>2
  <2>6. ReceivedXid(xid_rep_window) = FrontXid
    BY <2>1 DEF ReceivedXid, FrontXid
  <2>. QED
    BY <1>1, <2>5, <2>6 DEF S, ListInv
<1>. QED
  BY <1>1, ListInvInit, ListInvStep, PTL DEF Spec

\* The loop that pops the front of xid_rep_window_ while an iterator runs over
\* the rest leaves the list the closed form of UpdateXidRep describes, whatever
\* replies have come and whichever comes next.
THEOREM LoopIsTheClosedForm == Spec => []LoopCompresses
<1>1. ASSUME ListInv PROVE LoopCompresses
  <2>. SUFFICES ASSUME NEW xid \in Xids
                PROVE  CompressLoop(Inserted(xid_rep_window, xid))
                         = Compressed(Inserted(xid_rep_window, xid))
    BY DEF LoopCompresses, Xids
  <2>. DEFINE w == Inserted(xid_rep_window, xid)
  <2>1. w \in Seq(Xids) /\ w # <<>> /\ NonDecreasing(w)
    BY <1>1, XidsAreNats, InsertedIs DEF ListInv
  <2>. HIDE DEF w
  <2>2. CompressLoop(w) = Compressed(w)
    BY <2>1, XidsAreNats, LoopIsCompressed
  <2>. QED
    BY <2>2 DEF w
<1>. QED
  BY <1>1, ListInvInit, ListInvStep, PTL DEF Spec
=============================================================================
