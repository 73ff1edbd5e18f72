---------------------------- MODULE WindowProofs ----------------------------
(***************************************************************************)
(* What the operators of ReplyWindow and XidRepWindow do to the server's   *)
(* and the client's window, for windows and xids of any size.              *)
(***************************************************************************)
EXTENDS ReplyWindow, XidRepWindow, SequenceTheorems, WellFoundedInduction, TLAPS

-----------------------------------------------------------------------------
(* The scan: FirstAtLeast is where the loops over a window stop. *)

LessThan == {ss \in Nat \X Nat : ss[1] < ss[2]}

\* A non-empty set of naturals has a least element, and Min picks it; the scan
\* of the window is a minimum.
LEMMA MinOfNats ==
    ASSUME NEW S \in SUBSET Nat, S # {}
    PROVE  Min(S) \in S /\ \A y \in S : Min(S) <= y
<1>1. IsWellFoundedOn(LessThan, Nat)
  BY NatLessThanWellFounded, Zenon DEF OpToRel, LessThan
<1>2. PICK x \in S : \A y \in S : ~ (<<y, x>> \in LessThan)
  BY <1>1, WFMin, Zenon
<1>3. ASSUME NEW y \in S PROVE x <= y
  <2>1. <<y, x>> \notin LessThan
    BY <1>2
  <2>2. x \in Nat /\ y \in Nat
    OBVIOUS
  <2>3. ~ (y < x)
    BY <2>1, <2>2 DEF LessThan
  <2>. QED
    BY <2>2, <2>3
<1>. QED
  BY <1>3 DEF Min

\* The scan for x passes over smaller xids only and stops at one that is not,
\* or behind the last (the loops of CheckDuplicateAndUpdate).
LEMMA FirstAtLeastStops ==
    ASSUME NEW T, \A e \in T : e.xid_ \in Nat,
           NEW w \in Seq(T), NEW x \in Nat
    PROVE  /\ FirstAtLeast(w, x) \in 1..(Len(w) + 1)
           /\ \A i \in 1..Len(w) : i < FirstAtLeast(w, x) => w[i].xid_ < x
           /\ FirstAtLeast(w, x) <= Len(w) => w[FirstAtLeast(w, x)].xid_ >= x
<1>. DEFINE S == {i \in 1..Len(w) : w[i].xid_ >= x} \cup {Len(w) + 1}
<1>1. Len(w) \in Nat /\ \A i \in 1..Len(w) : w[i] \in T /\ w[i].xid_ \in Nat
  BY LenProperties
<1>2. S \in SUBSET Nat /\ S # {}
  BY <1>1
<1>. HIDE DEF S
<1>3. Min(S) \in S /\ \A y \in S : Min(S) <= y
  BY <1>2, MinOfNats
<1>4. FirstAtLeast(w, x) = Min(S)
  BY DEF FirstAtLeast, S
<1>5. Min(S) \in 1..(Len(w) + 1)
  BY <1>1, <1>3 DEF S
<1>6. \A i \in 1..Len(w) : i < Min(S) => w[i].xid_ < x
  BY <1>1, <1>3, <1>5 DEF S
<1>7. Min(S) <= Len(w) => w[Min(S)].xid_ >= x
  BY <1>1, <1>3, <1>5 DEF S
<1>. QED
  BY <1>4, <1>5, <1>6, <1>7

-----------------------------------------------------------------------------
(* Insertion into a list. *)

\* Elements before the place stay, those behind it move up by one.
LEMMA InsertAtIs ==
    ASSUME NEW T, NEW w \in Seq(T), NEW f \in 1..(Len(w) + 1), NEW e \in T
    PROVE  /\ InsertAt(w, f, e) \in Seq(T)
           /\ Len(InsertAt(w, f, e)) = Len(w) + 1
           /\ \A i \in 1..(Len(w) + 1) :
                 InsertAt(w, f, e)[i] = IF i < f THEN w[i] ELSE IF i = f THEN e ELSE w[i - 1]
<1>. DEFINE front == SubSeq(w, 1, f - 1)
            back == SubSeq(w, f, Len(w))
<1>1. Len(w) \in Nat /\ \A i \in 1..Len(w) : w[i] \in T
  BY LenProperties
<1>2. /\ front \in Seq(T) /\ Len(front) = f - 1
      /\ \A i \in 1..(f - 1) : front[i] = w[i]
  BY <1>1, SubSeqProperties
<1>3. /\ back \in Seq(T) /\ Len(back) = Len(w) - f + 1
      /\ \A i \in 1..(Len(w) - f + 1) : back[i] = w[f + i - 1]
  BY <1>1, SubSeqProperties
<1>4. <<e>> \in Seq(T) /\ Len(<<e>>) = 1 /\ <<e>>[1] = e
  OBVIOUS
<1>. HIDE DEF front, back
<1>. DEFINE l == front \o <<e>>
<1>5. /\ l \in Seq(T) /\ Len(l) = f
      /\ \A i \in 1..(f - 1) : l[i] = w[i]
      /\ l[f] = e
  BY <1>1, <1>2, <1>4, ConcatProperties
<1>. HIDE DEF l
<1>6. /\ l \o back \in Seq(T)
      /\ Len(l \o back) = Len(l) + Len(back)
      /\ \A i \in 1..(Len(l) + Len(back)) :
            (l \o back)[i] = IF i <= Len(l) THEN l[i] ELSE back[i - Len(l)]
  BY <1>3, <1>5, ConcatProperties
<1>7. Len(l) = f /\ Len(l) + Len(back) = Len(w) + 1
  BY <1>1, <1>3, <1>5
<1>8. \A i \in 1..(Len(w) + 1) : i > f =>
          i - f \in 1..(Len(w) - f + 1) /\ f + (i - f) - 1 = i - 1
  BY <1>1
<1>9. InsertAt(w, f, e) = l \o back
  BY DEF InsertAt, l, front, back
<1>. QED
  BY <1>1, <1>3, <1>5, <1>6, <1>7, <1>8, <1>9

-----------------------------------------------------------------------------
(* Trim, Remember and AddReply, one at a time. *)

\* The trim erases acknowledged entries only, and in a sorted window all of
\* them (the ON_SCOPE_EXIT loop).
LEMMA TrimErases ==
    ASSUME NEW T, \A e \in T : e.xid_ \in Nat,
           NEW w \in Seq(T), NEW ack \in Nat
    PROVE  /\ Trim(w, ack) \in Seq(T)
           /\ \A i \in 1..Len(Trim(w, ack)) :
                 \E j \in 1..Len(w) : Trim(w, ack)[i] = w[j]
           /\ \A y \in Nat : Holds(w, y) => y <= ack \/ Holds(Trim(w, ack), y)
           /\ Ascending(w) => /\ Ascending(Trim(w, ack))
                              /\ \A i \in 1..Len(Trim(w, ack)) : Trim(w, ack)[i].xid_ > ack
<1>. DEFINE f == FirstAtLeast(w, ack + 1)
            t == SubSeq(w, f, Len(w))
<1>1. /\ Len(w) \in Nat
      /\ \A i \in 1..Len(w) : w[i] \in T /\ w[i].xid_ \in Nat
  BY LenProperties
<1>2. /\ f \in 1..(Len(w) + 1)
      /\ \A i \in 1..Len(w) : i < f => w[i].xid_ < ack + 1
      /\ f <= Len(w) => w[f].xid_ >= ack + 1
  <2>1. ack + 1 \in Nat
    OBVIOUS
  <2>. QED
    BY <2>1, FirstAtLeastStops
<1>. HIDE DEF f
<1>3. /\ t \in Seq(T)
      /\ Len(t) = Len(w) - f + 1
      /\ \A i \in 1..(Len(w) - f + 1) : t[i] = w[f + i - 1]
  BY <1>1, <1>2, SubSeqProperties
<1>. HIDE DEF t
<1>4. \A i \in 1..Len(t) : f + i - 1 \in 1..Len(w) /\ t[i] = w[f + i - 1]
  BY <1>1, <1>2, <1>3
<1>5. \A i \in 1..Len(t) : \E j \in 1..Len(w) : t[i] = w[j]
  BY <1>4
<1>6. ASSUME NEW y \in Nat, Holds(w, y) PROVE y <= ack \/ Holds(t, y)
  <2>1. PICK j \in 1..Len(w) : w[j].xid_ = y
    BY <1>6 DEF Holds
  <2>2. CASE j < f
    BY <1>1, <1>2, <2>1, <2>2
  <2>3. CASE j >= f
    <3>1. j - f + 1 \in 1..Len(t) /\ t[j - f + 1] = w[j]
      BY <1>1, <1>2, <1>3, <2>3
    <3>. QED
      BY <2>1, <3>1 DEF Holds
  <2>. QED
    BY <1>1, <1>2, <2>1, <2>2, <2>3
<1>7. ASSUME Ascending(w) PROVE Ascending(t) /\ \A i \in 1..Len(t) : t[i].xid_ > ack
  <2>1. ASSUME NEW i \in 1..Len(t), NEW j \in 1..Len(t), i < j
        PROVE  t[i].xid_ < t[j].xid_
    <3>1. /\ f + i - 1 \in 1..Len(w) /\ f + j - 1 \in 1..Len(w)
          /\ f + i - 1 < f + j - 1
      BY <1>1, <1>2, <1>4, <2>1
    <3>2. w[f + i - 1].xid_ < w[f + j - 1].xid_
      BY <1>7, <3>1 DEF Ascending
    <3>. QED
      BY <1>4, <3>2
  <2>2. ASSUME NEW i \in 1..Len(t) PROVE t[i].xid_ > ack
    <3>1. f \in 1..Len(w) /\ f + i - 1 \in 1..Len(w) /\ f <= f + i - 1
      BY <1>1, <1>2, <1>3
    <3>2. w[f].xid_ <= w[f + i - 1].xid_
      BY <1>1, <1>7, <3>1 DEF Ascending
    <3>3. t[i].xid_ = w[f + i - 1].xid_
      BY <1>4
    <3>4. w[f].xid_ \in Nat /\ w[f + i - 1].xid_ \in Nat /\ w[f].xid_ >= ack + 1
      BY <1>1, <1>2, <3>1
    <3>. QED
      BY <3>2, <3>3, <3>4
  <2>. QED
    BY <2>1, <2>2 DEF Ascending
<1>. QED
  BY <1>3, <1>5, <1>6, <1>7 DEF Trim, t, f

\* A request that is not in the window gets an entry at its place (the insert
\* before the first larger xid, or push_back).
LEMMA RememberAdds ==
    ASSUME NEW T, \A e \in T : e.xid_ \in Nat,
           NEW w \in Seq(T), NEW x \in Nat, ReplyT(x) \in T
    PROVE  /\ Remember(w, x) \in Seq(T)
           /\ Holds(Remember(w, x), x)
           /\ \A y \in Nat : Holds(w, y) => Holds(Remember(w, x), y)
           /\ \A i \in 1..Len(Remember(w, x)) :
                 \/ Remember(w, x)[i] = ReplyT(x)
                 \/ \E j \in 1..Len(w) : Remember(w, x)[i] = w[j]
           /\ Ascending(w) /\ ~Holds(w, x) => Ascending(Remember(w, x))
<1>. DEFINE f == FirstAtLeast(w, x)
            v == InsertAt(w, f, ReplyT(x))
<1>1. /\ Len(w) \in Nat
      /\ \A i \in 1..Len(w) : w[i] \in T /\ w[i].xid_ \in Nat
      /\ ReplyT(x).xid_ = x
  BY LenProperties DEF ReplyT
<1>2. /\ f \in 1..(Len(w) + 1)
      /\ \A i \in 1..Len(w) : i < f => w[i].xid_ < x
      /\ f <= Len(w) => w[f].xid_ >= x
  BY <1>1, FirstAtLeastStops
<1>8. Remember(w, x) = v
  BY DEF Remember
<1>. HIDE DEF f
<1>9. /\ v \in Seq(T) /\ Len(v) = Len(w) + 1
      /\ \A i \in 1..(Len(w) + 1) :
            v[i] = IF i < f THEN w[i] ELSE IF i = f THEN ReplyT(x) ELSE w[i - 1]
  BY <1>2, InsertAtIs
<1>. HIDE DEF v
<1>10. Holds(v, x)
  BY <1>1, <1>2, <1>9 DEF Holds
<1>11. ASSUME NEW y \in Nat, Holds(w, y) PROVE Holds(v, y)
  <2>1. PICK j \in 1..Len(w) : w[j].xid_ = y
    BY <1>11 DEF Holds
  <2>2. \E i \in 1..(Len(w) + 1) : v[i] = w[j]
    <3>1. CASE j < f
      BY <1>1, <1>9, <3>1
    <3>2. CASE j >= f
      <4>1. j + 1 \in 1..(Len(w) + 1) /\ v[j + 1] = w[j]
        BY <1>1, <1>2, <1>9, <3>2
      <4>. QED
        BY <4>1
    <3>. QED
      BY <1>2, <3>1, <3>2
  <2>. QED
    BY <1>9, <2>1, <2>2 DEF Holds
<1>12. \A i \in 1..Len(v) : v[i] = ReplyT(x) \/ \E j \in 1..Len(w) : v[i] = w[j]
  BY <1>1, <1>2, <1>9
<1>13. ASSUME Ascending(w), ~Holds(w, x) PROVE Ascending(v)
  <2>1. \A i \in 1..Len(w) : i < f => w[i].xid_ < x
    BY <1>2
  <2>2. \A i \in 1..Len(w) : i >= f => w[i].xid_ > x
    <3>. SUFFICES ASSUME NEW i \in 1..Len(w), i >= f PROVE w[i].xid_ > x
      OBVIOUS
    <3>1. f \in 1..Len(w) /\ w[f].xid_ >= x
      BY <1>1, <1>2
    <3>2. w[f].xid_ <= w[i].xid_
      BY <1>1, <1>13, <3>1 DEF Ascending
    <3>3. w[i].xid_ # x
      BY <1>13 DEF Holds
    <3>. QED
      BY <1>1, <3>1, <3>2, <3>3
  <2>3. ASSUME NEW i \in 1..Len(v), NEW j \in 1..Len(v), i < j
        PROVE  v[i].xid_ < v[j].xid_
    <3>1. CASE j < f
      BY <1>1, <1>2, <1>9, <1>13, <2>3, <3>1 DEF Ascending
    <3>2. CASE j = f
      BY <1>1, <1>2, <1>9, <2>1, <2>3, <3>2
    <3>3. CASE i < f /\ j > f
      <4>1. i \in 1..Len(w) /\ j - 1 \in 1..Len(w) /\ i < j - 1
        BY <1>1, <1>2, <1>9, <3>3
      <4>2. w[i].xid_ < w[j - 1].xid_
        BY <1>13, <4>1 DEF Ascending
      <4>3. v[i] = w[i] /\ v[j] = w[j - 1]
        BY <1>1, <1>2, <1>9, <3>3
      <4>. QED
        BY <4>2, <4>3
    <3>4. CASE i = f /\ j > f
      <4>1. j - 1 \in 1..Len(w) /\ j - 1 >= f
        BY <1>1, <1>2, <1>9, <3>4
      <4>. QED
        BY <1>1, <1>9, <2>2, <3>4, <4>1
    <3>5. CASE i > f /\ j > f
      <4>1. i - 1 \in 1..Len(w) /\ j - 1 \in 1..Len(w) /\ i - 1 < j - 1
        BY <1>1, <1>2, <1>9, <2>3, <3>5
      <4>2. w[i - 1].xid_ < w[j - 1].xid_
        BY <1>13, <4>1 DEF Ascending
      <4>3. v[i] = w[i - 1] /\ v[j] = w[j - 1]
        BY <1>1, <1>2, <1>9, <3>5
      <4>. QED
        BY <4>2, <4>3
    <3>. QED
      BY <1>1, <1>2, <1>9, <2>3, <3>1, <3>2, <3>3, <3>4, <3>5
  <2>. QED
    BY <2>3 DEF Ascending
<1>. QED
  BY <1>8, <1>9, <1>10, <1>11, <1>12, <1>13 DEF v

\* The reply goes into the entry that is there for x; no entry appears,
\* disappears or changes its xid (AddReply).
LEMMA AddedReplyKeeps ==
    ASSUME NEW T, \A e \in T : e.xid_ \in Nat,
           NEW w \in Seq(T), NEW x \in Nat, NEW rep, Holds(w, x),
           [xid_ |-> x, cb_present |-> TRUE, buf_ |-> rep] \in T
    PROVE  /\ AddedReply(w, x, rep) \in Seq(T)
           /\ Len(AddedReply(w, x, rep)) = Len(w)
           /\ \A i \in 1..Len(w) :
                 /\ AddedReply(w, x, rep)[i].xid_ = w[i].xid_
                 /\ \/ AddedReply(w, x, rep)[i] = w[i]
                    \/ /\ w[i].xid_ = x
                       /\ AddedReply(w, x, rep)[i] =
                             [xid_ |-> x, cb_present |-> TRUE, buf_ |-> rep]
           /\ \A y \in Nat : Holds(w, y) => Holds(AddedReply(w, x, rep), y)
           /\ Ascending(w) => Ascending(AddedReply(w, x, rep))
<1>. DEFINE S == {i \in 1..Len(w) : w[i].xid_ = x}
            j == Min(S)
            n == [xid_ |-> x, cb_present |-> TRUE, buf_ |-> rep]
            v == [w EXCEPT ![j] = n]
<1>1. Len(w) \in Nat /\ \A i \in 1..Len(w) : w[i] \in T
  BY LenProperties
<1>2. S \in SUBSET Nat /\ S # {}
  BY <1>1 DEF Holds
<1>3. j \in 1..Len(w) /\ w[j].xid_ = x
  BY <1>2, MinOfNats
<1>4. n.xid_ = x /\ n \in T
  OBVIOUS
<1>5. AddedReply(w, x, rep) = v
  BY DEF AddedReply
<1>. HIDE DEF j, n
<1>6. v \in Seq(T) /\ Len(v) = Len(w)
  BY <1>3, <1>4, ExceptSeq
<1>7. \A i \in 1..Len(w) : v[i] = IF i = j THEN n ELSE w[i]
  BY <1>3, <1>4, ExceptSeq
<1>. HIDE DEF v
<1>8. \A i \in 1..Len(w) : v[i].xid_ = w[i].xid_
  BY <1>3, <1>4, <1>7
<1>9. \A i \in 1..Len(w) : v[i] = w[i] \/ (w[i].xid_ = x /\ v[i] = n)
  BY <1>3, <1>7
<1>. QED
  BY <1>5, <1>6, <1>8, <1>9 DEF Holds, Ascending, n

-----------------------------------------------------------------------------
(* CheckDuplicateAndUpdate as a whole. *)

\* What each State says of the request and the window it was looked up in.
LEMMA DupStateMeans ==
    ASSUME NEW T, \A e \in T : e.xid_ \in Nat,
           NEW w \in Seq(T), Ascending(w), NEW x \in Nat, NEW ack \in Nat
    PROVE  \/ DupState(w, ack, x) = "FORGOTTEN" /\ x <= ack
           \/ DupState(w, ack, x) = "NEW" /\ x > ack /\ ~Holds(w, x)
           \/ DupState(w, ack, x) = "INPROGRESS" /\ x > ack /\ Holds(w, x)
           \/ /\ DupState(w, ack, x) = "DONE" /\ x > ack
              /\ \E i \in 1..Len(w) : /\ w[i].xid_ = x /\ w[i].cb_present
                                      /\ Remembered(w, x) = w[i].buf_
<1>. DEFINE f == FirstAtLeast(w, x)
<1>1. /\ Len(w) \in Nat
      /\ \A i \in 1..Len(w) : w[i].xid_ \in Nat
  BY LenProperties
<1>2. /\ f \in 1..(Len(w) + 1)
      /\ \A i \in 1..Len(w) : i < f => w[i].xid_ < x
      /\ f <= Len(w) => w[f].xid_ >= x
  BY FirstAtLeastStops
<1>. HIDE DEF f
<1>3. CASE x <= ack
  BY <1>3 DEF DupState
<1>4. CASE x > ack /\ (f > Len(w) \/ w[f].xid_ > x)
  <2>1. DupState(w, ack, x) = "NEW"
    BY <1>1, <1>2, <1>4 DEF DupState, f
  <2>2. ASSUME NEW i \in 1..Len(w) PROVE w[i].xid_ # x
    <3>1. CASE i < f
      BY <1>1, <1>2, <3>1
    <3>2. CASE i >= f
      <4>1. f \in 1..Len(w) /\ w[f].xid_ > x
        BY <1>1, <1>2, <1>4, <3>2
      <4>2. w[f].xid_ <= w[i].xid_
        BY <1>1, <3>2, <4>1 DEF Ascending
      <4>. QED
        BY <1>1, <4>1, <4>2
    <3>. QED
      BY <1>2, <3>1, <3>2
  <2>. QED
    BY <1>4, <2>1, <2>2 DEF Holds
<1>5. CASE x > ack /\ ~ (f > Len(w) \/ w[f].xid_ > x)
  <2>1. f \in 1..Len(w) /\ w[f].xid_ = x
    BY <1>1, <1>2, <1>5
  <2>2. DupState(w, ack, x) = IF w[f].cb_present THEN "DONE" ELSE "INPROGRESS"
    BY <1>1, <1>5, <2>1 DEF DupState, f
  <2>3. Remembered(w, x) = w[f].buf_
    BY DEF Remembered, f
  <2>. QED
    BY <1>5, <2>1, <2>2, <2>3 DEF Holds
<1>. QED
  BY <1>3, <1>4, <1>5

\* What a check leaves: a sorted window of unacknowledged xids, in which every
\* earlier xid is unless it is acknowledged, and a new one always.
LEMMA CheckedWindowKeeps ==
    ASSUME NEW T, \A e \in T : e.xid_ \in Nat,
           NEW w \in Seq(T), Ascending(w), NEW x \in Nat, NEW ack \in Nat,
           ReplyT(x) \in T
    PROVE  /\ CheckedWindow(w, ack, x) \in Seq(T)
           /\ Ascending(CheckedWindow(w, ack, x))
           /\ \A i \in 1..Len(CheckedWindow(w, ack, x)) :
                 /\ CheckedWindow(w, ack, x)[i].xid_ > ack
                 /\ \/ CheckedWindow(w, ack, x)[i] = ReplyT(x)
                    \/ \E j \in 1..Len(w) : CheckedWindow(w, ack, x)[i] = w[j]
           /\ \A y \in Nat : Holds(w, y) => y <= ack \/ Holds(CheckedWindow(w, ack, x), y)
           /\ DupState(w, ack, x) = "NEW" => Holds(CheckedWindow(w, ack, x), x)
<1>. DEFINE u == IF DupState(w, ack, x) = "NEW" THEN Remember(w, x) ELSE w
            t == Trim(u, ack)
<1>1. DupState(w, ack, x) = "NEW" => x > ack /\ ~Holds(w, x)
  BY DupStateMeans, Zenon
<1>2. /\ u \in Seq(T) /\ Ascending(u)
      /\ \A i \in 1..Len(u) : u[i] = ReplyT(x) \/ \E j \in 1..Len(w) : u[i] = w[j]
      /\ \A y \in Nat : Holds(w, y) => Holds(u, y)
      /\ DupState(w, ack, x) = "NEW" => Holds(u, x)
  <2>1. CASE DupState(w, ack, x) = "NEW"
    <3>1. u = Remember(w, x)
      BY <2>1
    <3>2. /\ Remember(w, x) \in Seq(T) /\ Holds(Remember(w, x), x)
          /\ \A y \in Nat : Holds(w, y) => Holds(Remember(w, x), y)
          /\ \A i \in 1..Len(Remember(w, x)) :
                \/ Remember(w, x)[i] = ReplyT(x)
                \/ \E j \in 1..Len(w) : Remember(w, x)[i] = w[j]
          /\ Ascending(w) /\ ~Holds(w, x) => Ascending(Remember(w, x))
      BY RememberAdds
    <3>. HIDE DEF u
    <3>. QED
      BY <1>1, <2>1, <3>1, <3>2
  <2>2. CASE DupState(w, ack, x) # "NEW"
    <3>1. u = w
      BY <2>2
    <3>. HIDE DEF u
    <3>. QED
      BY <2>2, <3>1
  <2>. QED
    BY <2>1, <2>2
<1>3. CheckedWindow(w, ack, x) = t
  BY DEF CheckedWindow
<1>. HIDE DEF u
<1>4. /\ t \in Seq(T) /\ Ascending(t)
      /\ \A i \in 1..Len(t) : \E j \in 1..Len(u) : t[i] = u[j]
      /\ \A y \in Nat : Holds(u, y) => y <= ack \/ Holds(t, y)
      /\ \A i \in 1..Len(t) : t[i].xid_ > ack
  BY <1>2, TrimErases
<1>. HIDE DEF t
<1>5. \A i \in 1..Len(t) : t[i] = ReplyT(x) \/ \E j \in 1..Len(w) : t[i] = w[j]
  BY <1>2, <1>4
<1>6. \A y \in Nat : Holds(w, y) => y <= ack \/ Holds(t, y)
  BY <1>2, <1>4
<1>7. DupState(w, ack, x) = "NEW" => Holds(t, x)
  <2>1. ~ (x > ack /\ x <= ack)
    OBVIOUS
  <2>. QED
    BY <1>1, <1>2, <1>4, <2>1
<1>. QED
  BY <1>3, <1>4, <1>5, <1>6, <1>7

\* The window has the reply to x.
Replied(w, x) == \E i \in 1..Len(w) : w[i].xid_ = x /\ w[i].cb_present

\* In a sorted window an xid has one entry.
LEMMA AscendingIsOne ==
    ASSUME NEW T, \A e \in T : e.xid_ \in Nat, NEW w \in Seq(T), Ascending(w),
           NEW i \in 1..Len(w), NEW j \in 1..Len(w), w[i].xid_ = w[j].xid_
    PROVE  i = j
<1>1. Len(w) \in Nat /\ w[i].xid_ \in Nat /\ w[j].xid_ \in Nat
  BY LenProperties
<1>2. ~(i < j) /\ ~(j < i)
  BY <1>1 DEF Ascending
<1>. QED
  BY <1>1, <1>2

\* A check takes away what is acknowledged and nothing else: the replies that
\* are there stay, and no reply appears.
LEMMA CheckedWindowIs ==
    ASSUME NEW T, \A e \in T : e.xid_ \in Nat,
           NEW w \in Seq(T), Ascending(w), NEW x \in Nat, NEW ack \in Nat,
           ReplyT(x) \in T
    PROVE  LET v == CheckedWindow(w, ack, x) IN
           /\ \A y \in Nat : Replied(v, y) <=> Replied(w, y) /\ y > ack
           /\ \A y \in Nat : Holds(w, y) /\ y > ack => Holds(v, y)
           /\ DupState(w, ack, x) = "NEW" => Holds(v, x)
<1>. DEFINE v == CheckedWindow(w, ack, x)
<1>1. /\ v \in Seq(T)
      /\ \A i \in 1..Len(v) :
            /\ v[i].xid_ > ack
            /\ v[i] = ReplyT(x) \/ \E j \in 1..Len(w) : v[i] = w[j]
      /\ \A y \in Nat : Holds(w, y) => y <= ack \/ Holds(v, y)
      /\ DupState(w, ack, x) = "NEW" => Holds(v, x)
  BY CheckedWindowKeeps
<1>2. ASSUME DupState(w, ack, x) # "NEW", NEW i \in 1..Len(v)
      PROVE  \E j \in 1..Len(w) : v[i] = w[j]
  <2>1. v = Trim(w, ack)
    BY <1>2 DEF CheckedWindow
  <2>. QED
    BY <1>2, <2>1, TrimErases
<1>3. ReplyT(x).xid_ = x /\ ~ReplyT(x).cb_present
  BY DEF ReplyT
<1>. HIDE DEF v
<1>4. Len(v) \in Nat /\ \A i \in 1..Len(v) : v[i].xid_ \in Nat
  BY <1>1, LenProperties
<1>5. ASSUME NEW y \in Nat, Replied(v, y) PROVE Replied(w, y) /\ y > ack
  BY <1>1, <1>3, <1>5 DEF Replied
<1>6. ASSUME NEW y \in Nat, Holds(w, y), y > ack PROVE Holds(v, y)
  <2>1. ~(y <= ack)
    BY <1>6
  <2>. QED
    BY <1>1, <1>6, <2>1
<1>7. ASSUME NEW y \in Nat, Replied(w, y), y > ack PROVE Replied(v, y)
  <2>1. PICK j \in 1..Len(w) : w[j].xid_ = y /\ w[j].cb_present
    BY <1>7 DEF Replied
  <2>2. Holds(w, y)
    BY <2>1 DEF Holds
  <2>3. PICK i \in 1..Len(v) : v[i].xid_ = y
    BY <1>7, <1>6, <2>2 DEF Holds
  <2>4. \E l \in 1..Len(w) : v[i] = w[l]
    <3>1. CASE v[i] = ReplyT(x)
      <4>1. Holds(w, x)
        BY <1>3, <2>2, <2>3, <3>1
      <4>2. DupState(w, ack, x) # "NEW"
        BY <4>1, DupStateMeans, Zenon
      <4>. QED
        BY <1>2, <4>2
    <3>2. CASE v[i] # ReplyT(x)
      BY <1>1, <3>2
    <3>. QED
      BY <3>1, <3>2
  <2>5. PICK l \in 1..Len(w) : v[i] = w[l]
    BY <2>4
  <2>6. l = j
    BY <2>1, <2>3, <2>5, AscendingIsOne
  <2>. QED
    BY <2>1, <2>3, <2>5, <2>6 DEF Replied
<1>. QED
  BY <1>1, <1>5, <1>6, <1>7 DEF v

\* AddReply turns the entry it was given into a reply, and touches no other.
LEMMA AddedReplyIs ==
    ASSUME NEW T, \A e \in T : e.xid_ \in Nat, NEW w \in Seq(T), Ascending(w),
           NEW x \in Nat, Holds(w, x), NEW rep,
           [xid_ |-> x, cb_present |-> TRUE, buf_ |-> rep] \in T
    PROVE  LET v == AddedReply(w, x, rep) IN
           \A y \in Nat : /\ Holds(v, y) <=> Holds(w, y)
                          /\ Replied(v, y) <=> Replied(w, y) \/ y = x
<1>. DEFINE S == {i \in 1..Len(w) : w[i].xid_ = x}
            j == Min(S)
            n == [xid_ |-> x, cb_present |-> TRUE, buf_ |-> rep]
            v == [w EXCEPT ![j] = n]
<1>1. Len(w) \in Nat /\ \A i \in 1..Len(w) : w[i] \in T
  BY LenProperties
<1>2. S \in SUBSET Nat /\ S # {}
  BY <1>1 DEF Holds
<1>3. j \in 1..Len(w) /\ w[j].xid_ = x
  BY <1>2, MinOfNats
<1>4. n.xid_ = x /\ n.cb_present /\ n \in T
  OBVIOUS
<1>5. AddedReply(w, x, rep) = v
  BY DEF AddedReply
<1>. HIDE DEF j, n
<1>6. /\ Len(v) = Len(w)
      /\ \A i \in 1..Len(w) : v[i] = IF i = j THEN n ELSE w[i]
  BY <1>3, <1>4, ExceptSeq
<1>. HIDE DEF v
<1>7. \A i \in 1..Len(w) : v[i].xid_ = w[i].xid_
  BY <1>3, <1>4, <1>6
<1>8. \A y \in Nat : Holds(v, y) <=> Holds(w, y)
  BY <1>6, <1>7 DEF Holds
<1>9. ASSUME NEW y \in Nat, Replied(v, y) PROVE Replied(w, y) \/ y = x
  BY <1>3, <1>4, <1>6, <1>9 DEF Replied
<1>10. ASSUME NEW y \in Nat, Replied(w, y) PROVE Replied(v, y)
  <2>1. PICK i \in 1..Len(w) : w[i].xid_ = y /\ w[i].cb_present
    BY <1>10 DEF Replied
  <2>2. v[i].xid_ = y /\ v[i].cb_present
    BY <1>4, <1>6, <1>7, <2>1
  <2>. QED
    BY <1>6, <2>2 DEF Replied
<1>11. Replied(v, x)
  BY <1>3, <1>4, <1>6 DEF Replied
<1>. QED
  BY <1>5, <1>8, <1>9, <1>10, <1>11

-----------------------------------------------------------------------------
(* The client's window. *)

NonDecreasing(w) == \A i, j \in 1..Len(w) : i < j => w[i] <= w[j]

\* A bounded non-empty set of naturals has a greatest element, and Max picks it.
LEMMA MaxOfNats ==
    ASSUME NEW S \in SUBSET Nat, S # {}, NEW b \in Nat, \A y \in S : y <= b
    PROVE  Max(S) \in S /\ \A y \in S : y <= Max(S)
<1>. DEFINE D == {d \in 0..b : b - d \in S}
<1>1. D \in SUBSET Nat /\ \A y \in S : b - y \in D /\ y \in Nat
  <2>1. \A y \in S : y \in Nat /\ b - y \in 0..b /\ b - (b - y) = y
    OBVIOUS
  <2>. QED
    BY <2>1
<1>2. D # {}
  BY <1>1
<1>3. Min(D) \in D /\ \A d \in D : Min(D) <= d
  <2>. HIDE DEF D
  <2>. QED
    BY <1>1, <1>2, MinOfNats
<1>4. b - Min(D) \in S /\ Min(D) \in 0..b
  BY <1>3
<1>5. \A y \in S : Min(D) <= b - y
  BY <1>1, <1>3
<1>. HIDE DEF D
<1>6. \A y \in S : y <= b - Min(D)
  BY <1>4, <1>5
<1>. QED
  BY <1>4, <1>6 DEF Max

\* The elements of a sequence of naturals.
LEMMA NatSeq ==
    ASSUME NEW T \in SUBSET Nat, NEW w \in Seq(T)
    PROVE  /\ Len(w) \in Nat
           /\ w # <<>> => Len(w) >= 1 /\ w[1] \in T
           /\ \A i \in 1..Len(w) : w[i] \in T /\ w[i] \in Nat
<1>1. Len(w) \in Nat /\ \A i \in 1..Len(w) : w[i] \in T
  BY LenProperties
<1>2. ASSUME w # <<>> PROVE Len(w) >= 1 /\ w[1] \in T
  <2>1. Len(w) \in Nat \ {0}
    BY <1>2, EmptySeq
  <2>2. 1 \in 1..Len(w)
    BY <2>1
  <2>. QED
    BY <1>1, <2>1, <2>2
<1>. QED
  BY <1>1, <1>2

\* The values of a sequence, by their positions.
LEMMA RangeIs ==
    ASSUME NEW T, NEW w \in Seq(T)
    PROVE  /\ Range(w) = {w[i] : i \in 1..Len(w)}
           /\ Range(w) \subseteq T
BY LenProperties DEF Range

\* The new xid takes its place in the order (the insert of UpdateXidRep).
LEMMA InsertedIs ==
    ASSUME NEW T \in SUBSET Nat, NEW w \in Seq(T), NonDecreasing(w), NEW x \in T
    PROVE  /\ Inserted(w, x) \in Seq(T) /\ Inserted(w, x) # <<>>
           /\ NonDecreasing(Inserted(w, x))
           /\ Range(Inserted(w, x)) = Range(w) \cup {x}
           /\ w # <<>> /\ x > w[1] => Inserted(w, x)[1] = w[1]
           /\ w = <<>> => Inserted(w, x)[1] = x
<1>. DEFINE S == {i \in 1..Len(w) : w[i] > x} \cup {Len(w) + 1}
            f == Min(S)
            v == InsertAt(w, f, x)
<1>1. Len(w) \in Nat /\ x \in Nat /\ \A i \in 1..Len(w) : w[i] \in T /\ w[i] \in Nat
  BY LenProperties
<1>2. S \in SUBSET Nat /\ S # {}
  BY <1>1
<1>3. f \in S /\ \A y \in S : f <= y
  <2>. HIDE DEF S
  <2>. QED
    BY <1>2, MinOfNats
<1>4. /\ f \in 1..(Len(w) + 1)
      /\ \A i \in 1..Len(w) : i < f => w[i] <= x
      /\ f <= Len(w) => w[f] > x
  <2>. HIDE DEF f
  <2>. QED
    BY <1>1, <1>3
<1>5. Inserted(w, x) = v
  BY DEF Inserted
<1>. HIDE DEF f
<1>6. /\ v \in Seq(T) /\ Len(v) = Len(w) + 1
      /\ \A i \in 1..(Len(w) + 1) :
            v[i] = IF i < f THEN w[i] ELSE IF i = f THEN x ELSE w[i - 1]
  BY <1>4, InsertAtIs
<1>. HIDE DEF v, S
<1>7. \A i \in 1..Len(w) : i >= f => w[i] > x
  <2>. SUFFICES ASSUME NEW i \in 1..Len(w), i >= f PROVE w[i] > x
    OBVIOUS
  <2>1. f \in 1..Len(w) /\ w[f] > x
    BY <1>1, <1>4
  <2>2. w[f] <= w[i]
    BY <1>1, <2>1 DEF NonDecreasing
  <2>. QED
    BY <1>1, <2>1, <2>2
<1>8. NonDecreasing(v)
  <2>1. ASSUME NEW i \in 1..Len(v), NEW j \in 1..Len(v), i < j PROVE v[i] <= v[j]
    <3>1. CASE j < f
      BY <1>1, <1>4, <1>6, <2>1, <3>1 DEF NonDecreasing
    <3>2. CASE j = f
      BY <1>1, <1>4, <1>6, <2>1, <3>2
    <3>3. CASE j > f
      <4>1. j - 1 \in 1..Len(w) /\ j - 1 >= f /\ v[j] = w[j - 1] /\ w[j - 1] > x
        BY <1>1, <1>4, <1>6, <1>7, <3>3
      <4>2. CASE i < f
        <5>1. i \in 1..Len(w) /\ v[i] = w[i] /\ w[i] <= x
          BY <1>1, <1>4, <1>6, <4>2
        <5>. QED
          BY <1>1, <4>1, <5>1
      <4>3. CASE i = f
        <5>1. v[i] = x
          BY <1>4, <1>6, <4>3
        <5>. QED
          BY <1>1, <4>1, <5>1
      <4>4. CASE i > f
        <5>1. i - 1 \in 1..Len(w) /\ i - 1 < j - 1 /\ v[i] = w[i - 1]
          BY <1>1, <1>4, <1>6, <2>1, <4>4
        <5>. QED
          BY <4>1, <5>1 DEF NonDecreasing
      <4>. QED
        BY <1>4, <1>6, <4>2, <4>3, <4>4
    <3>. QED
      BY <1>4, <1>6, <3>1, <3>2, <3>3
  <2>. QED
    BY <2>1 DEF NonDecreasing
<1>9. Range(v) = Range(w) \cup {x}
  <2>1. Range(v) = {v[i] : i \in 1..Len(v)} /\ Range(w) = {w[i] : i \in 1..Len(w)}
    BY <1>6, RangeIs
  <2>2. ASSUME NEW i \in 1..Len(v) PROVE v[i] = x \/ \E j \in 1..Len(w) : v[i] = w[j]
    BY <1>1, <1>4, <1>6
  <2>3. ASSUME NEW j \in 1..Len(w) PROVE \E i \in 1..Len(v) : v[i] = w[j]
    <3>1. CASE j < f
      BY <1>1, <1>6, <3>1
    <3>2. CASE j >= f
      <4>1. j + 1 \in 1..Len(v) /\ v[j + 1] = w[j]
        BY <1>1, <1>4, <1>6, <3>2
      <4>. QED
        BY <4>1
    <3>. QED
      BY <1>4, <3>1, <3>2
  <2>4. f \in 1..Len(v) /\ v[f] = x
    BY <1>4, <1>6
  <2>. QED
    BY <2>1, <2>2, <2>3, <2>4
<1>10. w # <<>> /\ x > w[1] => v[1] = w[1]
  <2>. SUFFICES ASSUME w # <<>>, x > w[1] PROVE v[1] = w[1]
    OBVIOUS
  <2>1. 1 \in 1..Len(w)
    BY <1>1, EmptySeq
  <2>2. f # 1
    BY <1>1, <1>4, <2>1
  <2>. QED
    BY <1>1, <1>4, <1>6, <2>1, <2>2
<1>11. w = <<>> => v[1] = x
  BY <1>1, <1>4, <1>6
<1>12. v # <<>>
  BY <1>1, <1>6
<1>. QED
  BY <1>5, <1>6, <1>8, <1>9, <1>10, <1>11, <1>12

\* Popping the front ends at the last xid that is reached without a gap; what
\* lies behind it stays (the compress loop of UpdateXidRep).
LEMMA CompressedIs ==
    ASSUME NEW T \in SUBSET Nat, NEW w \in Seq(T), NonDecreasing(w), w # <<>>
    PROVE  LET m == Max(Unbroken(w)) IN
           /\ m \in Unbroken(w) /\ \A u \in Unbroken(w) : u <= m
           /\ Compressed(w) \in Seq(T) /\ Compressed(w) # <<>>
           /\ NonDecreasing(Compressed(w))
           /\ Compressed(w)[1] = m
           /\ Range(Compressed(w)) = {v \in Range(w) : v >= m}
<1>. DEFINE U == Unbroken(w)
            m == Max(U)
            S == {i \in 1..Len(w) : w[i] = m}
            f == Min(S)
            c == SubSeq(w, f, Len(w))
<1>1. /\ Len(w) \in Nat /\ Len(w) >= 1
      /\ \A i \in 1..Len(w) : w[i] \in T /\ w[i] \in Nat
  BY NatSeq
<1>2. Range(w) = {w[i] : i \in 1..Len(w)} /\ Range(w) \subseteq T
  BY RangeIs
<1>3. U \in SUBSET Nat /\ \A u \in U : u <= w[Len(w)]
  <2>1. \A i \in 1..Len(w) : w[i] <= w[Len(w)]
    BY <1>1 DEF NonDecreasing
  <2>. QED
    BY <1>1, <1>2, <2>1 DEF Unbroken
<1>4. w[1] \in U
  <2>1. w[1] \in Range(w) /\ \A u \in w[1]..w[1] : u = w[1]
    BY <1>1, <1>2
  <2>. QED
    BY <2>1 DEF Unbroken
<1>. HIDE DEF U
<1>5. m \in U /\ \A u \in U : u <= m
  <2>1. w[Len(w)] \in Nat
    BY <1>1
  <2>. QED
    BY <1>3, <1>4, <2>1, MaxOfNats
<1>. HIDE DEF m
<1>6. S \in SUBSET Nat /\ S # {}
  <2>1. m \in Range(w)
    BY <1>5 DEF U, Unbroken
  <2>. QED
    BY <1>1, <1>2, <2>1
<1>7. f \in S /\ \A i \in S : f <= i
  <2>. HIDE DEF S
  <2>. QED
    BY <1>6, MinOfNats
<1>8. f \in 1..Len(w) /\ w[f] = m
  BY <1>7
<1>9. Compressed(w) = c
  BY DEF Compressed, U, m
<1>10. \A i \in 1..Len(w) : w[i] >= m => i >= f
  <2>. SUFFICES ASSUME NEW i \in 1..Len(w), w[i] >= m, i < f PROVE FALSE
    BY <1>8
  <2>1. w[i] <= w[f]
    BY <1>8 DEF NonDecreasing
  <2>2. w[i] = m
    BY <1>1, <1>8, <2>1
  <2>. QED
    BY <1>7, <1>8, <2>2
<1>. HIDE DEF f
<1>11. /\ c \in Seq(T)
       /\ Len(c) = Len(w) - f + 1
       /\ \A i \in 1..(Len(w) - f + 1) : c[i] = w[f + i - 1]
  BY <1>1, <1>8, SubSeqProperties
<1>. HIDE DEF c, S
<1>12. \A i \in 1..Len(c) : f + i - 1 \in 1..Len(w) /\ c[i] = w[f + i - 1]
  BY <1>1, <1>8, <1>11
<1>13. NonDecreasing(c)
  <2>1. ASSUME NEW i \in 1..Len(c), NEW j \in 1..Len(c), i < j PROVE c[i] <= c[j]
    <3>1. f + i - 1 < f + j - 1
      BY <1>8, <2>1, <1>11
    <3>. QED
      BY <1>12, <3>1 DEF NonDecreasing
  <2>. QED
    BY <2>1 DEF NonDecreasing
<1>14. c # <<>> /\ c[1] = m
  BY <1>1, <1>8, <1>11
<1>15. Range(c) = {v \in Range(w) : v >= m}
  <2>1. Range(c) = {c[i] : i \in 1..Len(c)}
    BY <1>11, RangeIs
  <2>2. ASSUME NEW i \in 1..Len(c) PROVE c[i] \in Range(w) /\ c[i] >= m
    <3>1. w[f] <= w[f + i - 1]
      BY <1>1, <1>8, <1>12 DEF NonDecreasing
    <3>. QED
      BY <1>1, <1>2, <1>8, <1>12, <3>1
  <2>3. ASSUME NEW j \in 1..Len(w), w[j] >= m PROVE w[j] \in Range(c)
    <3>1. j >= f
      BY <1>10, <2>3
    <3>2. j - f + 1 \in 1..Len(c) /\ c[j - f + 1] = w[j]
      BY <1>1, <1>8, <1>11, <3>1
    <3>. QED
      BY <2>1, <3>2
  <2>. QED
    BY <1>2, <2>1, <2>2, <2>3
<1>. QED
  BY <1>5, <1>9, <1>11, <1>13, <1>14, <1>15 DEF m, U

\* UpdateXidRep as a whole, for an xid beyond the front: the front moves over
\* the unbroken run, and exactly what was received behind it is kept.
LEMMA UpdatedXidRepIs ==
    ASSUME NEW T \in SUBSET Nat, NEW w \in Seq(T), NonDecreasing(w), NEW x \in T
    PROVE  LET n == UpdatedXidRep(w, x)
               all == Range(w) \cup {x}
               start == IF w = <<>> THEN x ELSE w[1] IN
           /\ n \in Seq(T) /\ n # <<>> /\ NonDecreasing(n)
           /\ w # <<>> /\ x <= w[1] => n = w
           /\ w = <<>> \/ x > w[1] =>
                 /\ n[1] \in all /\ start <= n[1] /\ start..n[1] \subseteq all
                 /\ \A v \in all : start..v \subseteq all => v <= n[1]
                 /\ Range(n) = {v \in all : v >= n[1]}
<1>. DEFINE n == UpdatedXidRep(w, x)
            all == Range(w) \cup {x}
            start == IF w = <<>> THEN x ELSE w[1]
            I == Inserted(w, x)
<1>1. Len(w) \in Nat /\ x \in Nat /\ (w # <<>> => w[1] \in Nat)
  BY NatSeq
<1>2. CASE w # <<>> /\ x <= w[1]
  <2>1. n = w
    BY <1>2 DEF UpdatedXidRep
  <2>2. ~(w = <<>> \/ x > w[1])
    BY <1>1, <1>2
  <2>. QED
    BY <1>2, <2>1, <2>2
<1>3. CASE w = <<>> \/ x > w[1]
  <2>1. n = Compressed(I)
    BY <1>1, <1>3 DEF UpdatedXidRep
  <2>2. /\ I \in Seq(T) /\ I # <<>> /\ NonDecreasing(I)
        /\ Range(I) = all
        /\ w # <<>> /\ x > w[1] => I[1] = w[1]
        /\ w = <<>> => I[1] = x
    BY InsertedIs
  <2>3. I[1] = start
    BY <1>3, <2>2
  <2>. DEFINE m == Max(Unbroken(I))
  <2>. HIDE DEF I, n, all, start
  <2>4. /\ m \in Unbroken(I) /\ \A u \in Unbroken(I) : u <= m
        /\ n \in Seq(T) /\ n # <<>> /\ NonDecreasing(n)
        /\ n[1] = m
        /\ Range(n) = {v \in Range(I) : v >= m}
    BY <2>1, <2>2, CompressedIs
  <2>. HIDE DEF m
  <2>5. Unbroken(I) = {v \in all : start..v \subseteq all}
    BY <2>2, <2>3 DEF Unbroken
  <2>6. start <= n[1]
    <3>1. n[1] \in Nat /\ start \in Nat
      <4>1. n[1] \in T
        BY <2>4, NatSeq
      <4>. QED
        BY <1>1, <4>1 DEF start
    <3>2. start \in Unbroken(I)
      <4>1. start \in all
        BY <2>2, <2>3, RangeIs, EmptySeq, LenProperties
      <4>2. \A u \in start..start : u = start
        BY <3>1
      <4>. QED
        BY <2>5, <4>1, <4>2
    <3>. QED
      BY <2>4, <3>2
  <2>7. (w # <<>> /\ x <= w[1]) = FALSE
    BY <1>1, <1>3
  <2>. QED
    BY <1>3, <2>2, <2>4, <2>5, <2>6, <2>7 DEF n, all, start
<1>. QED
  BY <1>1, <1>2, <1>3
-----------------------------------------------------------------------------
(* The compress loop, step by step. *)

\* g[it] is where the front stands when the loop has done position it.
LoopsTo(g, w, n) ==
    g = [it \in 1..n |-> IF it = 1 THEN 1 ELSE PoppedTo(w, g[it - 1], it)]

\* What the loop keeps true: f is the first position of its value, everything
\* from the head of the list up to that value has been met, and its successor
\* has not.
FrontAt(w, f, it) ==
    /\ f \in 1..it
    /\ \A i \in 1..(f - 1) : w[i] < w[f]
    /\ \A u \in w[1]..w[f] : \E i \in 1..it : w[i] = u
    /\ \A i \in 1..it : w[i] # w[f] + 1

\* The recursion is well founded: a run of the loop exists for every list.
LEMMA LoopRuns ==
    ASSUME NEW w, NEW n \in Nat, n >= 1
    PROVE  \E g : LoopsTo(g, w, n)
<1>. DEFINE Bad == {m \in Nat : m >= 1 /\ ~ \E g : LoopsTo(g, w, m)}
<1>. SUFFICES ASSUME Bad # {} PROVE FALSE
  OBVIOUS
<1>1. PICK m \in Bad : \A k \in Bad : m <= k
  <2>1. Bad \in SUBSET Nat
    OBVIOUS
  <2>. HIDE DEF Bad
  <2>. QED
    BY <2>1, MinOfNats
<1>2. m \in Nat /\ m >= 1 /\ ~ \E g : LoopsTo(g, w, m)
  OBVIOUS
<1>3. m # 1
  <2>. DEFINE g == [it \in 1..1 |-> 1]
  <2>1. LoopsTo(g, w, 1)
    <3>1. \A it \in 1..1 : it = 1
      OBVIOUS
    <3>. QED
      BY <3>1 DEF LoopsTo
  <2>. QED
    BY <1>2, <2>1
<1>4. PICK g : LoopsTo(g, w, m - 1)
  BY <1>1, <1>2, <1>3
<1>. DEFINE p == PoppedTo(w, g[m - 1], m)
            h == [it \in 1..m |-> IF it = m THEN p ELSE g[it]]
<1>5. \A it \in 1..(m - 1) : g[it] = IF it = 1 THEN 1 ELSE PoppedTo(w, g[it - 1], it)
  BY <1>4 DEF LoopsTo
<1>6. h[m] = p /\ \A it \in 1..(m - 1) : h[it] = g[it]
  BY <1>2
<1>7. h = [it \in 1..m |-> h[it]]
  OBVIOUS
<1>. HIDE DEF h
<1>8. ASSUME NEW it \in 1..m PROVE h[it] = IF it = 1 THEN 1 ELSE PoppedTo(w, h[it - 1], it)
  <2>1. CASE it = m
    <3>1. h[it - 1] = g[m - 1]
      BY <1>2, <1>3, <1>6, <2>1
    <3>. QED
      BY <1>3, <1>6, <2>1, <3>1
  <2>2. CASE it # m
    <3>1. it \in 1..(m - 1) /\ (it # 1 => it - 1 \in 1..(m - 1))
      BY <1>2, <2>2
    <3>2. h[it] = g[it] /\ (it # 1 => h[it - 1] = g[it - 1])
      BY <1>6, <3>1
    <3>. QED
      BY <1>5, <3>1, <3>2
  <2>. QED
    BY <2>1, <2>2
<1>9. LoopsTo(h, w, m)
  BY <1>7, <1>8 DEF LoopsTo
<1>. QED
  BY <1>2, <1>9

\* One turn of the outer loop; the inner one pops nothing, or all there is
\* before the iterator.
LEMMA LoopTurn ==
    ASSUME NEW T \in SUBSET Nat, NEW w \in Seq(T), NonDecreasing(w),
           NEW it \in 1..Len(w), it < Len(w), NEW f, FrontAt(w, f, it)
    PROVE  FrontAt(w, PoppedTo(w, f, it + 1), it + 1)
<1>. DEFINE n == it + 1
            S == {g \in f..n : w[g] + 1 # w[n]}
            p == Min(S)
<1>1. /\ Len(w) \in Nat /\ n \in 1..Len(w) /\ f \in 1..it
      /\ \A i \in 1..Len(w) : w[i] \in Nat
  BY NatSeq DEF FrontAt
<1>2. \A i \in 1..n : w[i] <= w[n]
  BY <1>1 DEF NonDecreasing
<1>3. S \in SUBSET Nat /\ n \in S
  BY <1>1
<1>4. p \in S /\ \A g \in S : p <= g
  <2>. HIDE DEF S
  <2>. QED
    BY <1>3, MinOfNats
<1>5. PoppedTo(w, f, n) = p
  BY DEF PoppedTo
<1>. HIDE DEF p
<1>6. CASE w[f] + 1 # w[n]
  <2>1. p = f
    <3>1. f \in S
      BY <1>1, <1>6
    <3>2. p <= f /\ p >= f /\ p \in Nat
      BY <1>1, <1>3, <1>4, <3>1
    <3>. QED
      BY <1>1, <3>2
  <2>2. \A i \in 1..n : i \in 1..it \/ i = n
    BY <1>1
  <2>3. \A i \in 1..n : w[i] # w[f] + 1
    BY <1>6, <2>2 DEF FrontAt
  <2>4. 1..it \subseteq 1..n /\ f \in 1..n
    BY <1>1
  <2>5. FrontAt(w, f, n)
    BY <2>3, <2>4 DEF FrontAt
  <2>. QED
    BY <1>5, <2>1, <2>5
<1>7. CASE w[f] + 1 = w[n]
  <2>1. ASSUME NEW g \in f..it PROVE w[g] = w[f]
    <3>1. g \in 1..Len(w) /\ g \in 1..it /\ g \in 1..n /\ f \in 1..Len(w)
      BY <1>1
    <3>2. w[f] <= w[g]
      <4>1. CASE g = f
        BY <1>1, <3>1, <4>1
      <4>2. CASE f < g
        BY <3>1, <4>2 DEF NonDecreasing
      <4>. QED
        BY <1>1, <4>1, <4>2
    <3>3. w[g] <= w[n] /\ w[g] # w[f] + 1
      BY <1>2, <3>1 DEF FrontAt
    <3>4. w[g] \in Nat /\ w[f] \in Nat
      BY <1>1, <3>1
    <3>. QED
      BY <1>7, <3>2, <3>3, <3>4
  <2>2. p = n
    <3>1. p \in f..n /\ w[p] + 1 # w[n]
      BY <1>4
    <3>2. p \notin f..it
      BY <1>7, <2>1, <3>1
    <3>. QED
      BY <1>1, <3>1, <3>2
  <2>3. w[f] \in Nat /\ w[n] \in Nat /\ w[1] \in Nat
    BY <1>1
  <2>4. ASSUME NEW i \in 1..(n - 1) PROVE w[i] < w[n]
    <3>1. w[i] < w[f] \/ w[i] = w[f]
      <4>1. i \in 1..(f - 1) \/ i \in f..it
        BY <1>1
      <4>. QED
        BY <2>1, <4>1 DEF FrontAt
    <3>2. w[i] \in Nat
      BY <1>1
    <3>. QED
      BY <1>7, <2>3, <3>1, <3>2
  <2>5. ASSUME NEW u \in w[1]..w[n] PROVE \E i \in 1..n : w[i] = u
    <3>1. CASE u = w[n]
      BY <1>1, <3>1
    <3>2. CASE u # w[n]
      <4>1. u \in w[1]..w[f]
        BY <1>7, <2>3, <3>2
      <4>2. PICK i \in 1..it : w[i] = u
        BY <4>1 DEF FrontAt
      <4>3. i \in 1..n
        BY <1>1
      <4>. QED
        BY <4>2, <4>3
    <3>. QED
      BY <3>1, <3>2
  <2>6. ASSUME NEW i \in 1..n PROVE w[i] # w[n] + 1
    <3>1. w[i] <= w[n] /\ w[i] \in Nat
      BY <1>1, <1>2
    <3>. QED
      BY <2>3, <3>1
  <2>7. n \in 1..n
    BY <1>1
  <2>. HIDE DEF n
  <2>8. FrontAt(w, n, n)
    BY <2>4, <2>5, <2>6, <2>7 DEF FrontAt
  <2>. QED
    BY <1>5, <2>2, <2>8 DEF n
<1>. QED
  BY <1>6, <1>7

\* Where the loop ends is where the closed form cuts the list.
LEMMA LoopEnds ==
    ASSUME NEW T \in SUBSET Nat, NEW w \in Seq(T), NonDecreasing(w), w # <<>>,
           NEW f, FrontAt(w, f, Len(w))
    PROVE  SubSeq(w, f, Len(w)) = Compressed(w)
<1>. DEFINE m == Max(Unbroken(w))
            S == {i \in 1..Len(w) : w[i] = m}
<1>1. /\ Len(w) \in Nat /\ Len(w) >= 1 /\ f \in 1..Len(w)
      /\ \A i \in 1..Len(w) : w[i] \in Nat
  BY NatSeq DEF FrontAt
<1>2. Range(w) = {w[i] : i \in 1..Len(w)}
  BY RangeIs
<1>3. m \in Unbroken(w) /\ \A u \in Unbroken(w) : u <= m
  BY CompressedIs
<1>4. w[f] \in Unbroken(w)
  BY <1>1, <1>2 DEF Unbroken, FrontAt
<1>5. ASSUME NEW u \in Unbroken(w), u > w[f] PROVE FALSE
  <2>1. u \in Nat /\ \A v \in w[1]..u : \E i \in 1..Len(w) : w[i] = v
    BY <1>1, <1>2 DEF Unbroken
  <2>2. w[1] <= w[f] /\ w[1] \in Nat /\ w[f] \in Nat
    BY <1>1 DEF FrontAt
  <2>3. w[f] + 1 \in w[1]..u
    BY <1>5, <2>1, <2>2
  <2>. QED
    BY <2>1, <2>3 DEF FrontAt
<1>6. m = w[f]
  <2>1. m \in Nat /\ w[f] \in Nat
    BY <1>1, <1>2, <1>3 DEF Unbroken
  <2>2. w[f] <= m /\ ~(m > w[f])
    BY <1>3, <1>4, <1>5
  <2>. HIDE DEF m
  <2>. QED
    BY <2>1, <2>2
<1>. HIDE DEF m
<1>7. S \in SUBSET Nat /\ f \in S
  BY <1>1, <1>6
<1>8. \A i \in S : f <= i
  <2>. SUFFICES ASSUME NEW i \in S, i < f PROVE FALSE
    BY <1>1
  <2>1. i \in 1..(f - 1) /\ w[i] = w[f] /\ w[f] \in Nat
    BY <1>1, <1>6
  <2>2. w[i] < w[f]
    BY <2>1 DEF FrontAt
  <2>. QED
    BY <2>1, <2>2
<1>. HIDE DEF S
<1>9. Min(S) = f
  <2>1. Min(S) \in S /\ Min(S) <= f
    BY <1>7, MinOfNats
  <2>2. f <= Min(S) /\ Min(S) \in Nat /\ f \in Nat
    BY <1>7, <1>8, <2>1
  <2>. QED
    BY <2>1, <2>2
<1>. QED
  BY <1>9 DEF Compressed, S, m

\* The loop of UpdateXidRep, which pops the list it iterates over, leaves what
\* the closed form says, for every ascending list.
LEMMA LoopIsCompressed ==
    ASSUME NEW T \in SUBSET Nat, NEW w \in Seq(T), NonDecreasing(w), w # <<>>
    PROVE  CompressLoop(w) = Compressed(w)
<1>. DEFINE g == CHOOSE h : LoopsTo(h, w, Len(w))
<1>1. Len(w) \in Nat /\ Len(w) >= 1 /\ w[1] \in Nat
  BY NatSeq
<1>2. CompressLoop(w) = SubSeq(w, g[Len(w)], Len(w))
  BY DEF CompressLoop, LoopsTo
<1>3. LoopsTo(g, w, Len(w))
  BY <1>1, LoopRuns
<1>. HIDE DEF g
<1>4. \A it \in 1..Len(w) : g[it] = IF it = 1 THEN 1 ELSE PoppedTo(w, g[it - 1], it)
  BY <1>3 DEF LoopsTo
<1>. DEFINE Bad == {it \in 1..Len(w) : ~FrontAt(w, g[it], it)}
<1>5. Bad = {}
  <2>. SUFFICES ASSUME Bad # {} PROVE FALSE
    OBVIOUS
  <2>1. PICK k \in Bad : \A j \in Bad : k <= j
    <3>1. Bad \in SUBSET Nat
      OBVIOUS
    <3>. HIDE DEF Bad
    <3>. QED
      BY <3>1, MinOfNats
  <2>2. k \in 1..Len(w) /\ ~FrontAt(w, g[k], k)
    OBVIOUS
  <2>3. CASE k = 1
    <3>1. g[k] = 1
      BY <1>4, <2>2, <2>3
    <3>2. \A i \in 1..1 : i = 1
      OBVIOUS
    <3>3. /\ \A i \in 1..0 : FALSE
          /\ \A u \in w[1]..w[1] : u = w[1]
          /\ 1 \in 1..1 /\ w[1] # w[1] + 1
      BY <1>1
    <3>4. FrontAt(w, 1, 1)
      BY <3>2, <3>3 DEF FrontAt
    <3>. QED
      BY <2>2, <2>3, <3>1, <3>4
  <2>4. CASE k # 1
    <3>. DEFINE j == k - 1
    <3>1. j \in 1..Len(w) /\ j < Len(w) /\ j + 1 = k /\ j < k
      BY <1>1, <2>2, <2>4
    <3>2. j \notin Bad
      BY <1>1, <2>1, <2>2, <3>1
    <3>3. FrontAt(w, g[j], j)
      BY <3>1, <3>2
    <3>4. g[k] = PoppedTo(w, g[j], k)
      BY <1>4, <2>2, <2>4
    <3>. HIDE DEF j, Bad
    <3>5. FrontAt(w, PoppedTo(w, g[j], j + 1), j + 1)
      BY <3>1, <3>3, LoopTurn
    <3>. QED
      BY <2>2, <3>1, <3>4, <3>5
  <2>. QED
    BY <2>3, <2>4
<1>6. FrontAt(w, g[Len(w)], Len(w))
  BY <1>1, <1>5
<1>. QED
  BY <1>2, <1>6, LoopEnds
=============================================================================
