----------------------------- MODULE WireProofs -----------------------------
(***************************************************************************)
(* What is marshalled is unmarshalled, for any number of values; and what  *)
(* reaches either end of the byte stream, for any number of calls and      *)
(* documents of any size.                                                  *)
(***************************************************************************)
EXTENDS Wire, SequenceTheorems, TLAPS

-----------------------------------------------------------------------------
(* Marshall and Unmarshall. *)

\* m is a Marshall into which the values of s have been put since it was new.
Wrote(m, s) ==
    /\ m = [at |-> m.at, header |-> m.header, id |-> m.id]
    /\ m.id = Len(s)
    /\ m.at = [k \in 0..(Len(s) - 1) |-> s[k + 1]]

\* A new Marshall holds nothing (the member initialisers of Marshall).
LEMMA NewMarshall == Wrote(Marshall, <<>>)
<1>1. 0..(Len(<<>>) - 1) = {}
  OBVIOUS
<1>2. [k \in {} |-> 0] = [k \in {} |-> <<>>[k + 1]]
  OBVIOUS
<1> QED
  BY <1>1, <1>2 DEF Wrote, Marshall

\* operator<< writes the next value under the next key.
LEMMA PutWrites ==
  ASSUME NEW V, NEW s \in Seq(V), NEW v \in V, NEW m, Wrote(m, s)
  PROVE  Wrote(Put(m, v), Append(s, v))
<1> DEFINE t == Append(s, v)
<1>1. Len(t) = Len(s) + 1 /\ Len(s) \in Nat
  OBVIOUS
<1>2. 0..(Len(s) - 1) \cup {Len(s)} = 0..(Len(t) - 1)
  BY <1>1
<1>3. DOMAIN m.at = 0..(Len(s) - 1) /\ m.id = Len(s)
  BY DEF Wrote
<1>4. ASSUME NEW k \in 0..(Len(t) - 1)
      PROVE  (IF k = m.id THEN v ELSE m.at[k]) = t[k + 1]
  <2>1. CASE k = Len(s)
    BY <2>1, <1>1, <1>3
  <2>2. CASE k # Len(s)
    <3>1. k \in 0..(Len(s) - 1)
      BY <2>2, <1>1
    <3>2. m.at[k] = s[k + 1] /\ t[k + 1] = s[k + 1]
      BY <3>1, <1>1 DEF Wrote
    <3> QED
      BY <2>2, <3>2, <1>3
  <2> QED
    BY <2>1, <2>2
<1>5. Put(m, v).at = [k \in 0..(Len(t) - 1) |-> t[k + 1]]
  BY <1>2, <1>3, <1>4 DEF Put
<1>6. Put(m, v).id = Len(t)
  BY <1>1, <1>3 DEF Put
<1> QED
  BY <1>5, <1>6 DEF Put, Wrote

\* A header goes beside the values.
LEMMA PutHeaderWrites ==
  ASSUME NEW s, NEW h, NEW m, Wrote(m, s)
  PROVE  Wrote(PutHeader(m, h), s) /\ Buf(PutHeader(m, h)).header = h
BY DEF Wrote, PutHeader, Buf

\* An Unmarshall that has read k values reads the next one of what was written,
\* and throws when there is none.  With k = 0 this is the Unmarshall of Dispatch
\* and GotPdu; with k > 0 and a new document it says what TakeBuf without a
\* reset of id_ does: the first k values are skipped (>> and TakeBuf).
THEOREM ReadsBackInOrder ==
  ASSUME NEW V, NEW s \in Seq(V), NEW m, Wrote(m, s),
         NEW u, u.id \in Nat, u.json = Buf(m)
  PROVE  /\ Holds(u) <=> u.id < Len(s)
         /\ Holds(u) => Value(u) = s[u.id + 1]
<1>1. u.json.at = [k \in 0..(Len(s) - 1) |-> s[k + 1]]
  BY DEF Wrote, Buf
<1>2. DOMAIN u.json.at = 0..(Len(s) - 1) /\ Len(s) \in Nat
  BY <1>1
<1>3. Holds(u) <=> u.id < Len(s)
  BY <1>2 DEF Holds
<1>4. Holds(u) => Value(u) = s[u.id + 1]
  BY <1>1, <1>2 DEF Holds, Value
<1> QED
  BY <1>3, <1>4

\* What a Marshall holds after Reset and one more value is not what a new
\* Unmarshall looks for, unless nothing was written before (Reset keeps id_).
THEOREM ResetKeepsCounting ==
  ASSUME NEW V, NEW s \in Seq(V), NEW m, Wrote(m, s), NEW v
  PROVE  Holds(Unmarshall(Buf(Put(Reset(m), v)))) <=> s = <<>>
<1>1. DOMAIN Put(Reset(m), v).at = {Len(s)}
  BY DEF Wrote, Reset, Marshall, Put
<1>2. Holds(Unmarshall(Buf(Put(Reset(m), v)))) <=> Len(s) = 0
  BY <1>1 DEF Holds, Unmarshall, Buf
<1>3. Len(s) = 0 <=> s = <<>>
  OBVIOUS
<1> QED
  BY <1>2, <1>3

\* Dispatch extracts the argument and the header that Call put in, and GotPdu
\* the result and the header that Dispatch put in.
THEOREM OneValueOneHeader ==
  ASSUME NEW v, NEW h
  PROVE  LET u == Unmarshall(Buf(PutHeader(Put(Marshall, v), h)))
         IN  Holds(u) /\ Value(u) = v /\ u.json.header = h
<1> DEFINE m == PutHeader(Put(Marshall, v), h)
           u == Unmarshall(Buf(m))
<1>1. <<>> \in Seq({v}) /\ Append(<<>>, v) = <<v>> /\ <<v>> \in Seq({v}) /\ Len(<<v>>) = 1
  OBVIOUS
<1>2. Wrote(Put(Marshall, v), <<v>>)
  BY <1>1, NewMarshall, PutWrites
<1>3. Wrote(m, <<v>>) /\ Buf(m).header = h
  BY <1>2, PutHeaderWrites
<1>4. u.id = 0 /\ u.json = Buf(m)
  BY DEF Unmarshall
<1>5. Holds(u) /\ Value(u) = v
  <2>1. u.id \in Nat
    BY <1>4
  <2> HIDE DEF u, m
  <2>2. (Holds(u) <=> u.id < Len(<<v>>)) /\ (Holds(u) => Value(u) = <<v>>[u.id + 1])
    BY <1>1, <1>3, <1>4, <2>1, ReadsBackInOrder
  <2> QED
    BY <2>2, <1>1, <1>4
<1> QED
  BY <1>3, <1>4, <1>5

-----------------------------------------------------------------------------
(* Documents: what each side sends is a request of a call or the answer to  *)
(* one, and a call that was answered has its own result.                    *)

RequestOf(x) == Buf(PutHeader(Put(Marshall, x), RequestHeader(x)))
ReplyTo(x) == Buf(PutHeader(Put(Marshall, Result(x)), ReplyHeader(x)))
Documents(dir) == [buf: {IF dir = "requests" THEN RequestOf(x) ELSE ReplyTo(x) : x \in Calls},
                   size: Sizes]

DocumentsTyped == /\ DOMAIN sent = Dirs
                  /\ \A dir \in Dirs : sent[dir] \in Seq(Documents(dir))

Pieces == Seq(Nat \X Nat)
Typed ==
    /\ DocumentsTyped
    /\ stream \in [Dirs -> Pieces] /\ chunks \in [Dirs -> SUBSET (Pieces \ {<<>>})]
    /\ deferred \in [Dirs -> Seq(Nat)] /\ got \in [Dirs -> Seq(Nat)]
    /\ finished \in [Dirs -> Nat] /\ listening \in [Dirs -> Nat]
    /\ call \in [Calls -> [pc: {"none", "sent", "answered"},
                           result: {0} \cup {Result(x) : x \in Calls}]]
    /\ splits \in Nat /\ cuts \in Nat /\ defers \in Nat

\* The bytes of piece b are those of the first n documents.
Owned(b, n) == \A j \in 1..Len(b) : b[j][1] \in 1..n
AllOwned == \A dir \in Dirs :
    /\ \A i \in 1..Len(deferred[dir]) : deferred[dir][i] \in 1..Len(sent[dir])
    /\ Owned(stream[dir], Len(sent[dir]))
    /\ \A c \in chunks[dir] : Owned(c, Len(sent[dir]))

-----------------------------------------------------------------------------
(* The first byte of a document is in one place, until it is dispatched.   *)

First(n) == <<n, 1>>
In(b, y) == \E j \in 1..Len(b) : b[j] = y
Unsent(n, df, len) == In(df, n) \/ n > len
Nowhere(n, st, ch) == ~In(st, First(n)) /\ \A c \in ch : ~In(c, First(n))

\* st, df, ch, g: stream, deferred, chunks and got of one direction, in which
\* len documents were sent.
OnePlace(st, df, ch, g, len) ==
    \A n \in Nat :
        /\ \A i, j \in 1..Len(st) : st[i] = First(n) /\ st[j] = First(n) => i = j
        /\ In(st, First(n)) => \A c \in ch : ~In(c, First(n))
        /\ \A c, d \in ch : In(c, First(n)) /\ In(d, First(n)) => c = d
        /\ In(g, n) => n <= len /\ Nowhere(n, st, ch)
        /\ Unsent(n, df, len) => ~In(g, n) /\ Nowhere(n, st, ch)
        /\ \A i, j \in 1..Len(df) : df[i] = n /\ df[j] = n => i = j

InOnePlace == \A dir \in Dirs :
    OnePlace(stream[dir], deferred[dir], chunks[dir], got[dir], Len(sent[dir]))

-----------------------------------------------------------------------------
(* The server's chain reads, answers and reads again, and the documents    *)
(* reach it in the order they were sent.                                   *)

Chain ==
    LET rest == listening["requests"] + finished["replies"] + Len(deferred["replies"])
    IN  \/ chunks["requests"] = {} /\ rest = 1
        \/ \E c \in chunks["requests"] : chunks["requests"] = {c} /\ rest = 0

\* y is the byte after x: the next of the same document, or one of the next.
Follows(x, y) == \/ y[1] = x[1] /\ (y[2] = x[2] + 1 \/ (x[2] = 0 /\ y[2] = 0))
                 \/ y[1] = x[1] + 1
\* The bytes b of the documents after the first lo of s, in order.
Line(b, s, lo) ==
    /\ Len(b) > 0 => b[1][1] = lo + 1
    /\ \A j \in 1..Len(b) : b[j][2] <= s[b[j][1]].size
    /\ \A j \in 1..(Len(b) - 1) : Follows(b[j], b[j + 1])
\* They end with document hi, and those in df are the ones after it.
Ends(b, lo, hi) == IF Len(b) = 0 THEN lo = hi ELSE b[Len(b)][1] = hi
Queued(df, hi) == \A i \in 1..Len(df) : df[i] = hi + i

\* The piece that was read, when there is one, and the stream.
Whole(st, ch) == IF ch = {} THEN st ELSE (CHOOSE c \in ch : TRUE) \o st

Requested == Whole(stream["requests"], chunks["requests"])
Lined == Line(Requested, sent["requests"], Len(got["requests"]))
LastRequest == Len(sent["requests"]) - Len(deferred["requests"])
Complete == /\ Ends(Requested, Len(got["requests"]), LastRequest)
            /\ Queued(deferred["requests"], LastRequest)

InOrder == Up("server") => Chain /\ Lined /\ (Up("client") => Complete)

-----------------------------------------------------------------------------
(* An undisturbed connection has one document on its way.                  *)

Waiting(x) == call[x].pc = "sent" /\ \A y \in Calls \ {x} : call[y].pc # "sent"
LastIs(dir, buf) == sent[dir] # <<>> /\ sent[dir][Len(sent[dir])].buf = buf
LastText(dir) == Text(dir, Len(sent[dir]))
Empty(dir) == stream[dir] = <<>> /\ chunks[dir] = {}
OnItsWay(dir) ==
    /\ Empty(Other(dir))
    /\ \/ stream[dir] = LastText(dir) /\ chunks[dir] = {}
       \/ stream[dir] = <<>> /\ chunks[dir] = {LastText(dir)}

Calm ==
    /\ down = {} /\ \A dir \in Dirs : deferred[dir] = <<>>
    /\ \/ /\ \A x \in Calls : call[x].pc # "sent"
          /\ \A dir \in Dirs : Empty(dir)
       \/ \E x \in Calls :
             /\ Waiting(x)
             /\ \/ LastIs("requests", RequestOf(x)) /\ OnItsWay("requests")
                \/ LastIs("replies", ReplyTo(x)) /\ OnItsWay("replies")
StaysCalm == Undisturbed => Calm

-----------------------------------------------------------------------------
(* Types, and what a step does to one direction.                           *)

LEMMA PieceTyped ==
  ASSUME NEW n \in Nat, NEW size \in Nat, NEW k \in 1..size, NEW bytes,
         bytes = Bytes(n, size) \/ bytes = Spoilt(n, size)
  PROVE  /\ SubSeq(bytes, 1, k) \in Pieces /\ Len(SubSeq(bytes, 1, k)) = k
         /\ \A j \in 1..k : SubSeq(bytes, 1, k)[j] = bytes[j] /\ bytes[j][1] = n
<1>1. bytes \in Pieces /\ Len(bytes) = size
  BY DEF Bytes, Spoilt, Pieces
<1>2. \A j \in 1..size : bytes[j][1] = n
  BY DEF Bytes, Spoilt
<1>. QED
  BY <1>1, <1>2 DEF Pieces

\* The bytes of a piece that is cut after k of them.
LEMMA CutsPiece ==
  ASSUME NEW b \in Pieces, NEW k \in 1..Len(b)
  PROVE  /\ SubSeq(b, 1, k) \in Pieces /\ Len(SubSeq(b, 1, k)) = k
         /\ \A j \in 1..k : SubSeq(b, 1, k)[j] = b[j] /\ j \in 1..Len(b)
         /\ SubSeq(b, k + 1, Len(b)) \in Pieces /\ Len(SubSeq(b, k + 1, Len(b))) = Len(b) - k
         /\ \A j \in 1..(Len(b) - k) : SubSeq(b, k + 1, Len(b))[j] = b[k + j] /\ k + j \in 1..Len(b)
<1>. USE DEF Pieces
<1>1. Len(b) \in Nat /\ k \in Nat /\ k <= Len(b)
  OBVIOUS
<1>2. /\ SubSeq(b, 1, k) \in Pieces /\ Len(SubSeq(b, 1, k)) = k
      /\ \A j \in 1..k : SubSeq(b, 1, k)[j] = b[j] /\ j \in 1..Len(b)
  BY <1>1
<1>3. SubSeq(b, k + 1, Len(b)) \in Pieces /\ Len(SubSeq(b, k + 1, Len(b))) = Len(b) - k
  BY <1>1
<1>4. \A j \in 1..(Len(b) - k) : SubSeq(b, k + 1, Len(b))[j] = b[k + j] /\ k + j \in 1..Len(b)
  BY <1>1
<1>. QED
  BY <1>2, <1>3, <1>4

LEMMA SizesAreNat == Sizes \subseteq Nat /\ \A size \in Sizes : size > 0
BY SizesAssumption

LEMMA DirsAre == /\ Dirs = {"requests", "replies"} /\ "requests" # "replies"
                 /\ Other("requests") = "replies" /\ Other("replies") = "requests"
                 /\ \A dir \in Dirs : Other(dir) \in Dirs /\ Other(dir) # dir
                                      /\ \A d \in Dirs \ {dir} : d = Other(dir)
BY DEF Dirs, Other

\* What a step does to the direction d of the connection.
Rests(d) == /\ UNCHANGED <<stream[d], chunks[d], got[d], deferred[d], sent[d]>>

Sends(d, doc) == /\ sent'[d] = Append(sent[d], doc)
                 /\ UNCHANGED <<chunks[d], got[d]>>

SendsNow(d) == \E doc \in Documents(d) : \E k \in 1..doc.size :
    /\ Up(Sender(d)) /\ Sends(d, doc) /\ deferred[d] = <<>> /\ UNCHANGED deferred[d]
    /\ stream'[d] = stream[d] \o SubSeq(Bytes(Len(sent[d]) + 1, doc.size), 1, k)

Defers(d) == \E doc \in Documents(d) :
    /\ Up(Sender(d)) /\ Sends(d, doc) /\ UNCHANGED stream[d]
    /\ deferred'[d] = Append(deferred[d], Len(sent[d]) + 1)

Flushes(d) ==
    LET n == Head(deferred[d]) size == sent[d][n].size IN
    /\ Up(Sender(d)) /\ UNCHANGED <<chunks[d], got[d], sent[d]>>
    /\ deferred[d] # <<>> /\ deferred'[d] = Tail(deferred[d])
    /\ \E k \in 1..size, bytes \in {Bytes(n, size), Spoilt(n, size)} :
          stream'[d] = stream[d] \o SubSeq(bytes, 1, k)

Aborts(d) ==
    /\ UNCHANGED <<chunks[d], got[d], sent[d], stream[d]>>
    /\ deferred[d] # <<>> /\ deferred'[d] = Tail(deferred[d])
    /\ ~(Up(Sender(d)))'

Reads(d) ==
    /\ listening[d] > 0 /\ UNCHANGED <<got[d], deferred[d], sent[d]>>
    /\ \E k \in 1..Len(stream[d]) :
          /\ chunks'[d] = chunks[d] \cup {SubSeq(stream[d], 1, k)}
          /\ stream'[d] = SubSeq(stream[d], k + 1, Len(stream[d]))

Takes(d) == \E c \in chunks[d] :
    /\ Up(Receiver(d)) /\ UNCHANGED <<stream[d], deferred[d], sent[d]>>
    /\ chunks'[d] = chunks[d] \ {c}
    /\ \/ Parses(d, c) /\ got'[d] = Append(got[d], c[1][1])
       \/ ~Parses(d, c) /\ UNCHANGED got[d] /\ ~(Up(Receiver(d)))'

Moves(d) == \/ Rests(d) \/ SendsNow(d) \/ Defers(d) \/ Flushes(d) \/ Aborts(d)
            \/ Reads(d) \/ Takes(d)

\* Send puts a document on its way or into the queue.
LEMMA SendMoves ==
  ASSUME Typed, NEW dir \in Dirs, NEW buf, NEW size \in Sizes, Up(Sender(dir)),
         [buf |-> buf, size |-> size] \in Documents(dir), Send(dir, buf, size),
         UNCHANGED <<chunks[dir], got[dir]>>
  PROVE  /\ SendsNow(dir) \/ Defers(dir)
         /\ \A d \in Dirs \ {dir} : UNCHANGED <<stream[d], deferred[d], sent[d]>>
         /\ DOMAIN sent' = Dirs /\ \A d \in Dirs : sent'[d] \in Seq(Documents(d))
         /\ stream' \in [Dirs -> Pieces] /\ deferred' \in [Dirs -> Seq(Nat)]
         /\ finished' \in [Dirs -> Nat] /\ cuts' \in Nat /\ defers' \in Nat
<1>. DEFINE n == Len(sent[dir]) + 1  doc == [buf |-> buf, size |-> size]
<1>1. sent[dir] \in Seq(Documents(dir)) /\ n \in Nat /\ size \in Nat
  BY SizesAreNat DEF Typed, DocumentsTyped
<1>2. /\ sent'[dir] = Append(sent[dir], doc) /\ \A d \in Dirs \ {dir} : sent'[d] = sent[d]
      /\ DOMAIN sent' = Dirs /\ \A d \in Dirs : sent'[d] \in Seq(Documents(d))
  <2>1. sent' = [sent EXCEPT ![dir] = Append(sent[dir], doc)]
    BY DEF Send
  <2>2. Append(sent[dir], doc) \in Seq(Documents(dir))
    BY <1>1
  <2>. QED
    BY <2>1, <2>2 DEF Typed, DocumentsTyped
<1>3. ASSUME NEW k \in 1..size, deferred[dir] = <<>>,
             Transmit(dir, Bytes(n, size), k),
             cuts' = cuts + (IF k < size THEN 1 ELSE 0), UNCHANGED <<deferred, defers>>
      PROVE  /\ SendsNow(dir) /\ \A d \in Dirs \ {dir} : UNCHANGED <<stream[d], deferred[d]>>
             /\ stream' \in [Dirs -> Pieces] /\ deferred' \in [Dirs -> Seq(Nat)]
             /\ finished' \in [Dirs -> Nat] /\ cuts' \in Nat /\ defers' \in Nat
  <2>. DEFINE piece == SubSeq(Bytes(n, size), 1, k)
  <2>1. piece \in Pieces
    BY <1>1, PieceTyped
  <2>. HIDE DEF piece
  <2>2. stream[dir] \o piece \in Pieces
    BY <2>1 DEF Typed, Pieces
  <2>3. stream' = [stream EXCEPT ![dir] = stream[dir] \o piece]
        /\ finished' = [finished EXCEPT ![dir] = finished[dir] + 1]
    BY <1>3 DEF Transmit, piece
  <2>4. stream'[dir] = stream[dir] \o piece /\ \A d \in Dirs \ {dir} : stream'[d] = stream[d]
    BY <2>3 DEF Typed
  <2>5. Sends(dir, doc) /\ doc.size = size
    BY <1>2 DEF Sends
  <2>6. SendsNow(dir)
    BY <1>3, <2>4, <2>5 DEF SendsNow, piece
  <2>7. stream' \in [Dirs -> Pieces]
    BY <2>2, <2>3 DEF Typed
  <2>8. finished' \in [Dirs -> Nat]
    BY <2>3 DEF Typed
  <2>. QED
    BY <1>3, <2>4, <2>6, <2>7, <2>8 DEF Typed
<1>4. ASSUME deferred' = [deferred EXCEPT ![dir] = Append(@, n)],
             defers' = defers + (IF deferred[dir] = <<>> THEN 1 ELSE 0),
             UNCHANGED <<stream, cuts, finished>>
      PROVE  /\ Defers(dir) /\ \A d \in Dirs \ {dir} : UNCHANGED <<stream[d], deferred[d]>>
             /\ stream' \in [Dirs -> Pieces] /\ deferred' \in [Dirs -> Seq(Nat)]
             /\ finished' \in [Dirs -> Nat] /\ cuts' \in Nat /\ defers' \in Nat
  <2>1. Append(deferred[dir], n) \in Seq(Nat)
    BY <1>1 DEF Typed
  <2>2. deferred'[dir] = Append(deferred[dir], n)
        /\ \A d \in Dirs \ {dir} : deferred'[d] = deferred[d]
    BY <1>4 DEF Typed
  <2>3. deferred' \in [Dirs -> Seq(Nat)]
    BY <1>4, <2>1 DEF Typed
  <2>4. Defers(dir)
    BY <1>2, <1>4, <2>2 DEF Defers, Sends
  <2>. QED
    BY <1>4, <2>2, <2>3, <2>4 DEF Typed
<1>. QED
  BY <1>2, <1>3, <1>4 DEF Send

LEMMA DocumentsAre ==
  ASSUME Typed, NEW dir \in Dirs, NEW n \in 1..Len(sent[dir])
  PROVE  /\ sent[dir][n] \in Documents(dir) /\ sent[dir][n].size \in Sizes
         /\ \E x \in Calls : sent[dir][n].buf = IF dir = "requests" THEN RequestOf(x) ELSE ReplyTo(x)
<1>1. sent[dir][n] \in Documents(dir)
  BY DEF Typed, DocumentsTyped
<1>. QED
  BY <1>1 DEF Documents

LEMMA ChunksOwned ==
  ASSUME Typed, AllOwned, NEW dir \in Dirs, NEW c \in chunks[dir]
  PROVE  c \in Pieces /\ Len(c) > 0 /\ c[1][1] \in 1..Len(sent[dir])
<1>1. c \in Seq(Nat \X Nat) /\ c # <<>>
  BY DEF Typed, Pieces
<1>2. 1 \in 1..Len(c)
  BY <1>1
<1>. QED
  BY <1>1, <1>2 DEF AllOwned, Owned, Pieces

\* What is put in is what is taken out, on both sides.
LEMMA RequestIs ==
  ASSUME NEW x
  PROVE  LET u == Unmarshall(RequestOf(x))
         IN  /\ Holds(u) /\ Value(u) = x /\ u.json.header.xid = x
             /\ RequestOf(x).header.xid = x /\ Reply(u) = ReplyTo(x)
<1>. DEFINE u == Unmarshall(RequestOf(x))
<1>1. Holds(u) /\ Value(u) = x /\ u.json.header = RequestHeader(x)
  BY OneValueOneHeader DEF RequestOf
<1>2. u.json.header.xid = x
  BY <1>1 DEF RequestHeader
<1>3. RequestOf(x).header.xid = x
  BY <1>2 DEF Unmarshall
<1>. HIDE DEF u
<1>4. Reply(u) = ReplyTo(x)
  BY <1>1, <1>2 DEF Reply, ReplyTo
<1>. QED
  BY <1>1, <1>2, <1>3, <1>4 DEF u

LEMMA ReplyIs ==
  ASSUME NEW x
  PROVE  LET u == Unmarshall(ReplyTo(x))
         IN  Holds(u) /\ Value(u) = Result(x) /\ u.json.header.xid = x
<1>. DEFINE u == Unmarshall(ReplyTo(x))
<1>1. Holds(u) /\ Value(u) = Result(x) /\ u.json.header = ReplyHeader(x)
  BY OneValueOneHeader DEF ReplyTo
<1>. QED
  BY <1>1 DEF ReplyHeader

\* A reply that is a document answers its own call, or nobody.
LEMMA GotAnswers ==
  ASSUME Typed, AllOwned, NEW c \in chunks["replies"], GotPdu(c)
  PROVE  /\ \/ UNCHANGED call
            \/ \E x \in Calls : /\ call[x].pc = "sent"
                                /\ call' = [call EXCEPT ![x] = [pc |-> "answered", result |-> Result(x)]]
         /\ Parses("replies", c) =>
              /\ UNCHANGED down
              /\ \E x \in Calls : /\ sent["replies"][c[1][1]].buf = ReplyTo(x)
                                  /\ call[x].pc = "sent" => call'[x].pc = "answered"
<1>1. CASE ~Parses("replies", c)
  BY <1>1 DEF GotPdu
<1>2. CASE Parses("replies", c)
  <2>1. PICK x \in Calls : sent["replies"][c[1][1]].buf = ReplyTo(x)
    BY ChunksOwned, DocumentsAre, DirsAre
  <2>. DEFINE u == Unmarshall(ReplyTo(x))
  <2>2. Answer(u)
    BY <1>2, <2>1 DEF GotPdu
  <2>3. Holds(u) /\ Value(u) = Result(x) /\ u.json.header.xid = x
    BY ReplyIs
  <2>. HIDE DEF u
  <2>4. IF call[x].pc # "sent" THEN UNCHANGED <<call, down>>
        ELSE /\ call' = [call EXCEPT ![x] = [pc |-> "answered", result |-> Result(x)]]
             /\ UNCHANGED down
    BY <2>2, <2>3 DEF Answer
  <2>5. call[x].pc = "sent" => call'[x].pc = "answered"
    BY <2>4 DEF Typed
  <2>. QED
    BY <2>1, <2>4, <2>5
<1>. QED
  BY <1>1, <1>2

LEMMA TypedInit == Init => Typed /\ AllOwned
<1>. SUFFICES ASSUME Init PROVE Typed /\ AllOwned
  OBVIOUS
<1>1. DocumentsTyped
  BY DEF Init, DocumentsTyped
<1>2. stream \in [Dirs -> Pieces] /\ chunks \in [Dirs -> SUBSET (Pieces \ {<<>>})]
  BY DEF Init, Pieces
<1>3. AllOwned
  BY DirsAre DEF Init, AllOwned, Owned
<1>4. deferred \in [Dirs -> Seq(Nat)] /\ got \in [Dirs -> Seq(Nat)]
      /\ finished \in [Dirs -> Nat] /\ listening \in [Dirs -> Nat]
  BY DEF Init
<1>5. call \in [Calls -> [pc: {"none", "sent", "answered"},
                          result: {0} \cup {Result(x) : x \in Calls}]]
  BY DEF Init
<1>. QED
  BY <1>1, <1>2, <1>3, <1>4, <1>5 DEF Typed, Init

\* A request of a call that is made or made again.
LEMMA SendRequestMoves ==
  ASSUME Typed, NEW x \in Calls, NEW size \in Sizes, SendRequest(x, size), Up("client"),
         UNCHANGED <<chunks, got>>
  PROVE  /\ SendsNow("requests") \/ Defers("requests")
         /\ Rests("replies") /\ Moves("requests")
         /\ DocumentsTyped'
         /\ stream' \in [Dirs -> Pieces] /\ deferred' \in [Dirs -> Seq(Nat)]
         /\ finished' \in [Dirs -> Nat] /\ cuts' \in Nat /\ defers' \in Nat
<1>1. [buf |-> RequestOf(x), size |-> size] \in Documents("requests")
  BY DEF Documents
<1>2. Send("requests", RequestOf(x), size)
  BY DEF SendRequest, RequestOf
<1>3. /\ SendsNow("requests") \/ Defers("requests")
      /\ \A d \in Dirs \ {"requests"} : UNCHANGED <<stream[d], deferred[d], sent[d]>>
      /\ DOMAIN sent' = Dirs /\ \A d \in Dirs : sent'[d] \in Seq(Documents(d))
      /\ stream' \in [Dirs -> Pieces] /\ deferred' \in [Dirs -> Seq(Nat)]
      /\ finished' \in [Dirs -> Nat] /\ cuts' \in Nat /\ defers' \in Nat
  BY <1>1, <1>2, SendMoves, DirsAre DEF Sender
<1>4. Rests("replies")
  BY <1>3, DirsAre DEF Rests
<1>5. DocumentsTyped'
  BY <1>3 DEF DocumentsTyped
<1>. QED
  BY <1>3, <1>4, <1>5 DEF Moves

LEMMA CallMoves ==
  ASSUME Typed, NEW x \in Calls, NEW size \in Sizes, Call(x, size)
  PROVE  Typed' /\ Moves("requests") /\ Rests("replies")
<1>1. /\ Rests("replies") /\ Moves("requests") /\ DocumentsTyped'
      /\ stream' \in [Dirs -> Pieces] /\ deferred' \in [Dirs -> Seq(Nat)]
      /\ finished' \in [Dirs -> Nat] /\ cuts' \in Nat /\ defers' \in Nat
  BY SendRequestMoves DEF Call
<1>2. call' \in [Calls -> [pc: {"none", "sent", "answered"},
                           result: {0} \cup {Result(y) : y \in Calls}]]
  BY DEF Typed, Call
<1>. QED
  BY <1>1, <1>2 DEF Typed, Call

LEMMA ResendMoves ==
  ASSUME Typed, NEW x \in Calls, Resend(x)
  PROVE  Typed' /\ Moves("requests") /\ Rests("replies")
<1>1. PICK n \in 1..Len(sent["requests"]) : SendRequest(x, sent["requests"][n].size)
  BY DEF Resend
<1>2. sent["requests"][n].size \in Sizes
  BY DocumentsAre, DirsAre
<1>3. /\ Rests("replies") /\ Moves("requests") /\ DocumentsTyped'
      /\ stream' \in [Dirs -> Pieces] /\ deferred' \in [Dirs -> Seq(Nat)]
      /\ finished' \in [Dirs -> Nat] /\ cuts' \in Nat /\ defers' \in Nat
  BY <1>1, <1>2, SendRequestMoves DEF Resend
<1>. QED
  BY <1>3 DEF Typed, Resend

\* A handler takes a chunk.
LEMMA HandleMoves ==
  ASSUME Typed, AllOwned, NEW dir \in Dirs, NEW c \in chunks[dir], Handle(dir, c),
         UNCHANGED <<stream[dir], deferred[dir], sent[dir]>>
  PROVE  /\ Takes(dir) /\ \A d \in Dirs \ {dir} : UNCHANGED <<chunks[d], got[d]>>
         /\ chunks' \in [Dirs -> SUBSET (Pieces \ {<<>>})] /\ got' \in [Dirs -> Seq(Nat)]
<1>1. Up(Receiver(dir)) /\ chunks' = [chunks EXCEPT ![dir] = chunks[dir] \ {c}]
  BY DEF Handle
<1>2. chunks'[dir] = chunks[dir] \ {c} /\ \A d \in Dirs \ {dir} : chunks'[d] = chunks[d]
  BY <1>1 DEF Typed
<1>3. chunks' \in [Dirs -> SUBSET (Pieces \ {<<>>})]
  BY <1>1 DEF Typed
<1>4. CASE Parses(dir, c)
  <2>1. got' = [got EXCEPT ![dir] = Append(got[dir], c[1][1])]
    BY <1>4 DEF Handle
  <2>2. c[1][1] \in Nat
    <3>1. c[1][1] \in 1..Len(sent[dir]) /\ Len(sent[dir]) \in Nat
      BY ChunksOwned DEF Typed, DocumentsTyped
    <3>. QED
      BY <3>1
  <2>3. Append(got[dir], c[1][1]) \in Seq(Nat)
    BY <2>2 DEF Typed
  <2>4. got'[dir] = Append(got[dir], c[1][1]) /\ \A d \in Dirs \ {dir} : got'[d] = got[d]
    BY <2>1 DEF Typed
  <2>5. got' \in [Dirs -> Seq(Nat)]
    BY <2>1, <2>3 DEF Typed
  <2>. QED
    BY <1>1, <1>2, <1>3, <1>4, <2>4, <2>5 DEF Takes
<1>5. CASE ~Parses(dir, c)
  <2>1. UNCHANGED got /\ ~(Up(Receiver(dir)))'
    BY <1>5 DEF Handle, Up
  <2>. QED
    BY <1>1, <1>2, <1>3, <1>5, <2>1 DEF Takes, Typed
<1>. QED
  BY <1>4, <1>5

LEMMA GotPduMoves ==
  ASSUME Typed, AllOwned, NEW c \in chunks["replies"], GotPdu(c)
  PROVE  Typed' /\ Takes("replies") /\ Rests("requests")
<1>1. /\ Takes("replies") /\ \A d \in Dirs \ {"replies"} : UNCHANGED <<chunks[d], got[d]>>
      /\ chunks' \in [Dirs -> SUBSET (Pieces \ {<<>>})] /\ got' \in [Dirs -> Seq(Nat)]
  <2>1. Handle("replies", c) /\ UNCHANGED netVars
    BY DEF GotPdu
  <2>2. UNCHANGED <<stream["replies"], deferred["replies"], sent["replies"]>>
    BY <2>1 DEF netVars
  <2>. QED
    BY <2>1, <2>2, HandleMoves, DirsAre
<1>2. Rests("requests")
  BY <1>1, DirsAre DEF Rests, GotPdu, netVars
<1>3. call' \in [Calls -> [pc: {"none", "sent", "answered"},
                           result: {0} \cup {Result(y) : y \in Calls}]]
  <2>1. CASE UNCHANGED call
    BY <2>1 DEF Typed
  <2>2. ASSUME NEW x \in Calls,
               call' = [call EXCEPT ![x] = [pc |-> "answered", result |-> Result(x)]]
        PROVE  call' \in [Calls -> [pc: {"none", "sent", "answered"},
                                    result: {0} \cup {Result(y) : y \in Calls}]]
    <3>1. [pc |-> "answered", result |-> Result(x)]
            \in [pc: {"none", "sent", "answered"}, result: {0} \cup {Result(y) : y \in Calls}]
      OBVIOUS
    <3>. QED
      BY <2>2, <3>1 DEF Typed
  <2>. QED
    BY <2>1, <2>2, GotAnswers
<1>4. DocumentsTyped'
  BY DEF Typed, DocumentsTyped, GotPdu, netVars
<1>. QED
  BY <1>1, <1>2, <1>3, <1>4 DEF Typed, GotPdu, netVars, countVars

\* The server answers a document with a document of its own.
LEMMA DispatchMoves ==
  ASSUME Typed, AllOwned, NEW c \in chunks["requests"], NEW size \in Sizes, Dispatch(c, size)
  PROVE  Typed' /\ Takes("requests") /\ Moves("replies")
<1>1. Handle("requests", c)
  BY DEF Dispatch
<1>2. CASE ~Parses("requests", c)
  <2>1. UNCHANGED <<netVars, cuts, defers>>
    BY <1>2 DEF Dispatch
  <2>2. UNCHANGED <<stream, deferred, sent, finished>>
    BY <2>1 DEF netVars
  <2>3. /\ Takes("requests") /\ \A d \in Dirs \ {"requests"} : UNCHANGED <<chunks[d], got[d]>>
        /\ chunks' \in [Dirs -> SUBSET (Pieces \ {<<>>})] /\ got' \in [Dirs -> Seq(Nat)]
    BY <1>1, <2>2, HandleMoves, DirsAre
  <2>4. Rests("replies")
    BY <2>2, <2>3, DirsAre DEF Rests
  <2>5. DocumentsTyped'
    BY <2>2 DEF Typed, DocumentsTyped
  <2>. QED
    BY <2>1, <2>2, <2>3, <2>4, <2>5 DEF Typed, Dispatch, Moves
<1>3. CASE Parses("requests", c)
  <2>1. PICK x \in Calls : sent["requests"][c[1][1]].buf = RequestOf(x)
    BY ChunksOwned, DocumentsAre, DirsAre
  <2>2. Send("replies", ReplyTo(x), size)
    BY <1>3, <2>1, RequestIs DEF Dispatch
  <2>3. [buf |-> ReplyTo(x), size |-> size] \in Documents("replies")
    BY DEF Documents
  <2>4. UNCHANGED <<chunks["replies"], got["replies"]>>
    BY <1>1, <1>3, DirsAre DEF Handle, Typed
  <2>5. /\ SendsNow("replies") \/ Defers("replies")
        /\ \A d \in Dirs \ {"replies"} : UNCHANGED <<stream[d], deferred[d], sent[d]>>
        /\ DOMAIN sent' = Dirs /\ \A d \in Dirs : sent'[d] \in Seq(Documents(d))
        /\ stream' \in [Dirs -> Pieces] /\ deferred' \in [Dirs -> Seq(Nat)]
        /\ finished' \in [Dirs -> Nat] /\ cuts' \in Nat /\ defers' \in Nat
    BY <1>1, <2>2, <2>3, <2>4, SendMoves, DirsAre DEF Handle, Receiver
  <2>6. UNCHANGED <<stream["requests"], deferred["requests"], sent["requests"]>>
    BY <2>5, DirsAre
  <2>7. /\ Takes("requests")
        /\ chunks' \in [Dirs -> SUBSET (Pieces \ {<<>>})] /\ got' \in [Dirs -> Seq(Nat)]
    BY <1>1, <2>6, HandleMoves, DirsAre
  <2>8. DocumentsTyped'
    BY <2>5 DEF DocumentsTyped
  <2>9. UNCHANGED <<call, listening, splits>>
    BY DEF Dispatch
  <2>. QED
    BY <2>5, <2>7, <2>8, <2>9 DEF Typed, Moves
<1>. QED
  BY <1>2, <1>3

LEMMA FlushMoves ==
  ASSUME Typed, AllOwned, NEW dir \in Dirs, Flush(dir)
  PROVE  Typed' /\ (Flushes(dir) \/ Aborts(dir)) /\ \A d \in Dirs \ {dir} : Rests(d)
<1>. DEFINE n == Head(deferred[dir])  size == sent[dir][n].size
<1>0. Up(Sender(dir)) /\ deferred[dir] # <<>> /\ deferred[dir] \in Seq(Nat)
  BY DEF Flush, Typed
<1>1. n \in 1..Len(sent[dir]) /\ n \in Nat /\ Tail(deferred[dir]) \in Seq(Nat)
  <2>1. n = deferred[dir][1] /\ 1 \in 1..Len(deferred[dir])
    BY <1>0
  <2>2. Len(sent[dir]) \in Nat
    BY DEF Typed, DocumentsTyped
  <2>. QED
    BY <1>0, <2>1, <2>2 DEF AllOwned
<1>2. size \in Nat
  BY <1>1, DocumentsAre, SizesAreNat
<1>. HIDE DEF n, size
<1>3. /\ deferred' = [deferred EXCEPT ![dir] = Tail(deferred[dir])]
      /\ UNCHANGED <<call, sent, listening, chunks, got, countVars>>
  BY DEF Flush
<1>4. /\ deferred' \in [Dirs -> Seq(Nat)] /\ deferred'[dir] = Tail(deferred[dir])
      /\ \A d \in Dirs \ {dir} : deferred'[d] = deferred[d]
  BY <1>1, <1>3 DEF Typed
<1>5. DocumentsTyped'
  BY <1>3 DEF Typed, DocumentsTyped
<1>6. ASSUME NEW k \in 1..size, NEW bytes \in {Bytes(n, size), Spoilt(n, size)},
             Transmit(dir, bytes, k)
      PROVE  /\ stream' \in [Dirs -> Pieces] /\ finished' \in [Dirs -> Nat]
             /\ stream'[dir] = stream[dir] \o SubSeq(bytes, 1, k)
             /\ \A d \in Dirs \ {dir} : stream'[d] = stream[d]
  <2>. DEFINE piece == SubSeq(bytes, 1, k)
  <2>1. piece \in Pieces
    BY <1>1, <1>2, <1>6, PieceTyped
  <2>. HIDE DEF piece
  <2>2. stream[dir] \o piece \in Pieces
    BY <2>1 DEF Typed, Pieces
  <2>3. stream' = [stream EXCEPT ![dir] = stream[dir] \o piece]
        /\ finished' = [finished EXCEPT ![dir] = finished[dir] + 1]
    BY <1>6 DEF Transmit, piece
  <2>4. stream' \in [Dirs -> Pieces] /\ stream'[dir] = stream[dir] \o piece
        /\ \A d \in Dirs \ {dir} : stream'[d] = stream[d]
    BY <2>2, <2>3 DEF Typed
  <2>5. finished' \in [Dirs -> Nat]
    BY <2>3 DEF Typed
  <2>. QED
    BY <2>4, <2>5 DEF piece
<1>7. CASE \E k \in 1..size, bytes \in {Bytes(n, size), Spoilt(n, size)} :
             Transmit(dir, bytes, k)
  <2>1. PICK k \in 1..size, bytes \in {Bytes(n, size), Spoilt(n, size)} :
             Transmit(dir, bytes, k)
    BY <1>7
  <2>2. /\ stream' \in [Dirs -> Pieces] /\ finished' \in [Dirs -> Nat]
        /\ stream'[dir] = stream[dir] \o SubSeq(bytes, 1, k)
        /\ \A d \in Dirs \ {dir} : stream'[d] = stream[d]
    BY <1>6, <2>1
  <2>3. Flushes(dir)
    BY <1>0, <1>3, <1>4, <2>2 DEF Flushes, n, size
  <2>. QED
    BY <1>3, <1>4, <1>5, <2>2, <2>3 DEF Typed, Rests, countVars
<1>8. CASE down' = down \cup {Sender(dir)} /\ UNCHANGED <<stream, finished>>
  <2>1. Aborts(dir)
    BY <1>0, <1>3, <1>4, <1>8 DEF Aborts, Up
  <2>. QED
    BY <1>3, <1>4, <1>5, <1>8, <2>1 DEF Typed, Rests, countVars
<1>. QED
  BY <1>7, <1>8 DEF Flush, n, size

LEMMA ReceiveMoves ==
  ASSUME Typed, NEW dir \in Dirs, Receive(dir)
  PROVE  Typed' /\ Reads(dir) /\ \A d \in Dirs \ {dir} : Rests(d)
<1>. DEFINE all == Len(stream[dir])
            room == IF all < DEFAULT_RPC_SZ THEN all ELSE DEFAULT_RPC_SZ
<1>1. all \in Nat /\ room \in Nat /\ room <= all /\ stream[dir] \in Pieces
  BY BufferAssumption DEF Typed, Pieces
<1>2. PICK k \in 1..room :
        /\ \/ k = room /\ UNCHANGED splits
           \/ k < room /\ FaultsLeft /\ splits' = splits + 1
        /\ chunks' = [chunks EXCEPT ![dir] = chunks[dir] \cup {SubSeq(stream[dir], 1, k)}]
        /\ stream' = [stream EXCEPT ![dir] = SubSeq(stream[dir], k + 1, all)]
  BY DEF Receive
<1>3. k \in 1..all
  BY <1>1
<1>4. /\ SubSeq(stream[dir], 1, k) \in Pieces \ {<<>>}
      /\ SubSeq(stream[dir], k + 1, all) \in Pieces
  <2>. HIDE DEF room
  <2>1. SubSeq(stream[dir], 1, k) \in Pieces /\ Len(SubSeq(stream[dir], 1, k)) = k
    BY <1>1, <1>3, CutsPiece
  <2>2. SubSeq(stream[dir], 1, k) # <<>>
    BY <1>3, <2>1
  <2>3. SubSeq(stream[dir], k + 1, all) \in Pieces
    BY <1>1, <1>3, CutsPiece
  <2>. QED
    BY <2>1, <2>2, <2>3
<1>5. /\ listening' = [listening EXCEPT ![dir] = listening[dir] - 1] /\ listening[dir] > 0
      /\ UNCHANGED <<call, sent, deferred, finished, got, down, cuts, defers>>
  BY DEF Receive
<1>. HIDE DEF all, room
<1>6. /\ chunks' \in [Dirs -> SUBSET (Pieces \ {<<>>})] /\ stream' \in [Dirs -> Pieces]
      /\ chunks'[dir] = chunks[dir] \cup {SubSeq(stream[dir], 1, k)}
      /\ stream'[dir] = SubSeq(stream[dir], k + 1, all)
      /\ \A d \in Dirs \ {dir} : chunks'[d] = chunks[d] /\ stream'[d] = stream[d]
  BY <1>2, <1>4 DEF Typed
<1>7. Reads(dir) /\ \A d \in Dirs \ {dir} : Rests(d)
  BY <1>3, <1>5, <1>6 DEF Reads, Rests, all
<1>8. listening' \in [Dirs -> Nat]
  BY <1>5 DEF Typed
<1>9. DocumentsTyped' /\ splits' \in Nat
  BY <1>2, <1>5 DEF Typed, DocumentsTyped
<1>. QED
  BY <1>5, <1>6, <1>7, <1>8, <1>9 DEF Typed

LEMMA SendFinishedMoves ==
  ASSUME Typed, NEW dir \in Dirs, SendFinished(dir)
  PROVE  Typed' /\ \A d \in Dirs : Rests(d)
<1>1. finished' \in [Dirs -> Nat] /\ listening' \in [Dirs -> Nat]
  BY DirsAre DEF Typed, SendFinished
<1>2. DocumentsTyped'
  BY DEF Typed, DocumentsTyped, SendFinished
<1>. QED
  BY <1>1, <1>2 DEF Typed, Rests, SendFinished, countVars

\* Every step keeps the types and moves each direction in one of these ways.
LEMMA EveryStepMoves ==
  ASSUME Typed, AllOwned, [Next]_vars
  PROVE  Typed' /\ \A d \in Dirs : Moves(d)
<1>1. ASSUME NEW x \in Calls, Resend(x) \/ \E size \in Sizes : Call(x, size)
      PROVE  Typed' /\ Moves("requests") /\ Moves("replies")
  BY <1>1, CallMoves, ResendMoves DEF Moves
<1>2. ASSUME NEW c \in chunks["replies"], GotPdu(c)
      PROVE  Typed' /\ Moves("requests") /\ Moves("replies")
  BY <1>2, GotPduMoves DEF Moves
<1>3. CASE Server
  BY <1>3, DispatchMoves, DirsAre DEF Server, Moves
<1>4. ASSUME NEW dir \in Dirs, Transport(dir)
      PROVE  Typed' /\ \A d \in Dirs : Moves(d)
  BY <1>4, FlushMoves, ReceiveMoves, SendFinishedMoves DEF Transport, Moves
<1>5. CASE UNCHANGED vars
  BY <1>5 DEF vars, netVars, countVars, Typed, DocumentsTyped, Moves, Rests
<1>. QED
  BY <1>1, <1>2, <1>3, <1>4, <1>5, DirsAre DEF Next, Client

\* Bytes on their way are bytes of documents that were sent.
LEMMA OwnedStep ==
  ASSUME Typed, AllOwned, [Next]_vars
  PROVE  AllOwned'
<1>. SUFFICES ASSUME NEW d \in Dirs
              PROVE  /\ \A i \in 1..Len(deferred'[d]) : deferred'[d][i] \in 1..Len(sent'[d])
                     /\ Owned(stream'[d], Len(sent'[d]))
                     /\ \A c \in chunks'[d] : Owned(c, Len(sent'[d]))
  BY DEF AllOwned, Owned
<1>0. Moves(d)
  BY EveryStepMoves
<1>1. /\ \A i \in 1..Len(deferred[d]) : deferred[d][i] \in 1..Len(sent[d])
      /\ Owned(stream[d], Len(sent[d])) /\ \A c \in chunks[d] : Owned(c, Len(sent[d]))
  BY DEF AllOwned
<1>2. /\ sent[d] \in Seq(Documents(d)) /\ Len(sent[d]) \in Nat /\ stream[d] \in Pieces
      /\ deferred[d] \in Seq(Nat) /\ \A c \in chunks[d] : c \in Pieces /\ c # <<>>
  BY DEF Typed, DocumentsTyped
<1>3. CASE Rests(d)
  BY <1>1, <1>3 DEF Rests
<1>4. ASSUME NEW b \in Pieces, NEW piece \in Pieces, NEW n \in Nat, NEW m \in Nat, n <= m,
             Owned(b, n), Owned(piece, m)
      PROVE  Owned(b \o piece, m)
  BY <1>4 DEF Owned, Pieces
<1>5. CASE SendsNow(d)
  <2>0. PICK doc \in Documents(d) : \E k \in 1..doc.size :
          /\ Sends(d, doc) /\ deferred[d] = <<>> /\ UNCHANGED deferred[d]
          /\ stream'[d] = stream[d] \o SubSeq(Bytes(Len(sent[d]) + 1, doc.size), 1, k)
    BY <1>5 DEF SendsNow
  <2>1. PICK k \in 1..doc.size :
          /\ Sends(d, doc) /\ deferred[d] = <<>> /\ UNCHANGED deferred[d]
          /\ stream'[d] = stream[d] \o SubSeq(Bytes(Len(sent[d]) + 1, doc.size), 1, k)
    BY <2>0
  <2>. DEFINE n == Len(sent[d]) + 1  piece == SubSeq(Bytes(n, doc.size), 1, k)
  <2>2. n \in Nat /\ Len(sent'[d]) = n /\ doc.size \in Nat
    <3>1. doc.size \in Sizes
      BY DEF Documents
    <3>2. sent'[d] = Append(sent[d], doc)
      BY <2>1 DEF Sends
    <3>3. Len(Append(sent[d], doc)) = Len(sent[d]) + 1
      BY <1>2
    <3>4. doc.size \in Nat
      BY <3>1, SizesAreNat
    <3>. QED
      BY <1>2, <3>2, <3>3, <3>4
  <2>3. piece \in Pieces /\ \A j \in 1..Len(piece) : piece[j][1] = n
    BY <2>2, PieceTyped
  <2>. HIDE DEF piece
  <2>4. Owned(piece, n) /\ n > Len(sent[d])
    BY <1>2, <2>2, <2>3 DEF Owned
  <2>. HIDE DEF n
  <2>5. Owned(stream'[d], n)
    BY <1>1, <1>2, <1>4, <2>1, <2>2, <2>3, <2>4 DEF n, piece
  <2>6. \A c \in chunks[d] : Owned(c, n)
    BY <1>1, <1>2, <2>2, <2>4 DEF Owned
  <2>. QED
    BY <2>1, <2>2, <2>5, <2>6 DEF Sends
<1>6. CASE Defers(d)
  <2>1. PICK doc \in Documents(d) :
          /\ Sends(d, doc) /\ UNCHANGED stream[d]
          /\ deferred'[d] = Append(deferred[d], Len(sent[d]) + 1)
    BY <1>6 DEF Defers
  <2>2. Len(sent'[d]) = Len(sent[d]) + 1
    BY <1>2, <2>1 DEF Sends
  <2>3. \A i \in 1..Len(deferred'[d]) : deferred'[d][i] \in 1..Len(sent'[d])
    <3>1. /\ Len(deferred[d]) \in Nat /\ Len(deferred'[d]) = Len(deferred[d]) + 1
          /\ \A i \in 1..(Len(deferred[d]) + 1) :
                \/ i \in 1..Len(deferred[d]) /\ deferred'[d][i] = deferred[d][i]
                \/ deferred'[d][i] = Len(sent[d]) + 1
      BY <1>2, <2>1
    <3>2. \A n \in 1..Len(sent[d]) : n \in 1..(Len(sent[d]) + 1)
      BY <1>2
    <3>3. Len(sent[d]) + 1 \in 1..(Len(sent[d]) + 1)
      BY <1>2
    <3>. QED
      BY <1>1, <2>2, <3>1, <3>2, <3>3
  <2>4. Owned(stream[d], Len(sent'[d])) /\ \A c \in chunks[d] : Owned(c, Len(sent'[d]))
    BY <1>1, <1>2, <2>2 DEF Owned
  <2>. QED
    BY <2>1, <2>3, <2>4 DEF Sends
<1>7. ASSUME deferred[d] # <<>>, deferred'[d] = Tail(deferred[d])
      PROVE  \A i \in 1..Len(deferred'[d]) : deferred'[d][i] \in 1..Len(sent[d])
  <2>1. /\ Len(deferred[d]) \in Nat /\ Len(Tail(deferred[d])) = Len(deferred[d]) - 1
        /\ \A i \in 1..(Len(deferred[d]) - 1) :
              i + 1 \in 1..Len(deferred[d]) /\ Tail(deferred[d])[i] = deferred[d][i + 1]
    BY <1>2, <1>7
  <2>. QED
    BY <1>1, <1>7, <2>1
<1>8. CASE Flushes(d)
  <2>. DEFINE n == Head(deferred[d])  size == sent[d][n].size
  <2>1. deferred[d] # <<>> /\ deferred'[d] = Tail(deferred[d])
        /\ UNCHANGED <<chunks[d], got[d], sent[d]>>
    BY <1>8 DEF Flushes
  <2>2. n \in 1..Len(sent[d]) /\ n \in Nat
    <3>1. n = deferred[d][1] /\ 1 \in 1..Len(deferred[d])
      BY <1>2, <2>1
    <3>. QED
      BY <1>1, <1>2, <3>1
  <2>3. size \in Nat
    BY <2>2, DocumentsAre, SizesAreNat
  <2>4. PICK k \in 1..size, bytes \in {Bytes(n, size), Spoilt(n, size)} :
            stream'[d] = stream[d] \o SubSeq(bytes, 1, k)
    BY <1>8 DEF Flushes
  <2>. DEFINE piece == SubSeq(bytes, 1, k)
  <2>. HIDE DEF size
  <2>5. piece \in Pieces /\ \A j \in 1..Len(piece) : piece[j][1] = n
    BY <2>2, <2>3, PieceTyped
  <2>. HIDE DEF piece, n
  <2>6. Owned(piece, Len(sent[d]))
    BY <2>2, <2>5 DEF Owned
  <2>7. Owned(stream'[d], Len(sent[d]))
    BY <1>1, <1>2, <1>4, <2>4, <2>5, <2>6 DEF piece
  <2>. QED
    BY <1>1, <1>7, <2>1, <2>7
<1>9. CASE Aborts(d)
  BY <1>1, <1>7, <1>9 DEF Aborts
<1>10. CASE Reads(d)
  <2>1. PICK k \in 1..Len(stream[d]) :
          /\ chunks'[d] = chunks[d] \cup {SubSeq(stream[d], 1, k)}
          /\ stream'[d] = SubSeq(stream[d], k + 1, Len(stream[d]))
    BY <1>10 DEF Reads
  <2>2. /\ Owned(SubSeq(stream[d], 1, k), Len(sent[d]))
        /\ Owned(SubSeq(stream[d], k + 1, Len(stream[d])), Len(sent[d]))
    BY <1>1, <1>2, CutsPiece DEF Owned
  <2>. QED
    BY <1>1, <1>10, <2>1, <2>2 DEF Reads
<1>11. CASE Takes(d)
  BY <1>1, <1>11 DEF Takes
<1>. QED
  BY <1>0, <1>3, <1>5, <1>6, <1>8, <1>9, <1>10, <1>11 DEF Moves

\* A call gets the result for its own argument (<< and >> on both sides).
THEOREM AnswersAreMatched == Spec => []AnswersMatch
<1>1. Init => Typed /\ AllOwned /\ AnswersMatch
  BY TypedInit DEF Init, AnswersMatch
<1>2. Typed /\ AllOwned /\ AnswersMatch /\ [Next]_vars => (Typed /\ AllOwned /\ AnswersMatch)'
  <2>. SUFFICES ASSUME Typed, AllOwned, AnswersMatch, [Next]_vars
                PROVE  Typed' /\ AllOwned' /\ AnswersMatch'
    OBVIOUS
  <2>1. Typed' /\ AllOwned'
    BY EveryStepMoves, OwnedStep
  <2>2. ASSUME NEW c \in chunks["replies"], GotPdu(c) PROVE AnswersMatch'
    <3>1. ASSUME NEW x \in Calls, call' = [call EXCEPT ![x] = [pc |-> "answered", result |-> Result(x)]]
          PROVE  AnswersMatch'
      BY <3>1 DEF Typed, AnswersMatch
    <3>. QED
      BY <2>2, <3>1, GotAnswers DEF AnswersMatch
  <2>3. ASSUME NEW x \in Calls, NEW size \in Sizes, Call(x, size) PROVE AnswersMatch'
    BY <2>3 DEF Call, Typed, AnswersMatch
  <2>4. CASE UNCHANGED call
    BY <2>1, <2>4 DEF AnswersMatch
  <2>5. \/ \E c \in chunks["replies"] : GotPdu(c)
        \/ \E x \in Calls, size \in Sizes : Call(x, size)
        \/ UNCHANGED call
    BY DEF Next, Client, Server, Transport, Resend, Dispatch, Flush, Receive, SendFinished, vars
  <2>. QED
    BY <2>1, <2>2, <2>3, <2>4, <2>5
<1>. QED
  BY <1>1, <1>2, PTL DEF Spec

-----------------------------------------------------------------------------
(* One place: the first byte of a document is in the stream, in one chunk, *)
(* or has been dispatched.                                                 *)

LEMMA InConcat ==
  ASSUME NEW a \in Pieces, NEW b \in Pieces, NEW y
  PROVE  In(a \o b, y) <=> In(a, y) \/ In(b, y)
<1>1. /\ Len(a \o b) = Len(a) + Len(b) /\ Len(a) \in Nat /\ Len(b) \in Nat
      /\ \A j \in 1..(Len(a) + Len(b)) : (a \o b)[j] = IF j <= Len(a) THEN a[j] ELSE b[j - Len(a)]
  BY DEF Pieces
<1>2. ASSUME In(a \o b, y) PROVE In(a, y) \/ In(b, y)
  <2>1. PICK j \in 1..(Len(a) + Len(b)) : (a \o b)[j] = y
    BY <1>1, <1>2 DEF In
  <2>2. CASE j <= Len(a)
    <3>1. j \in 1..Len(a) /\ a[j] = y
      BY <1>1, <2>1, <2>2
    <3>. QED
      BY <3>1 DEF In
  <2>3. CASE j > Len(a)
    <3>1. j - Len(a) \in 1..Len(b) /\ b[j - Len(a)] = y
      BY <1>1, <2>1, <2>3
    <3>. QED
      BY <3>1 DEF In
  <2>. QED
    BY <1>1, <2>2, <2>3
<1>3. ASSUME NEW j \in 1..Len(a), a[j] = y PROVE In(a \o b, y)
  <2>1. j \in 1..(Len(a) + Len(b)) /\ (a \o b)[j] = y
    BY <1>1, <1>3
  <2>. QED
    BY <1>1, <2>1 DEF In
<1>4. ASSUME NEW j \in 1..Len(b), b[j] = y PROVE In(a \o b, y)
  <2>1. j + Len(a) \in 1..(Len(a) + Len(b)) /\ ~(j + Len(a) <= Len(a)) /\ j + Len(a) - Len(a) = j
    BY <1>1
  <2>2. (a \o b)[j + Len(a)] = y
    BY <1>1, <1>4, <2>1
  <2>. QED
    BY <1>1, <2>1, <2>2 DEF In
<1>. QED
  BY <1>2, <1>3, <1>4 DEF In

Once(b, y) == \A i, j \in 1..Len(b) : b[i] = y /\ b[j] = y => i = j

LEMMA OnceConcat ==
  ASSUME NEW a \in Pieces, NEW b \in Pieces, NEW y,
         (Once(a, y) /\ ~In(b, y)) \/ (~In(a, y) /\ Once(b, y))
  PROVE  Once(a \o b, y)
<1>1. /\ Len(a \o b) = Len(a) + Len(b) /\ Len(a) \in Nat /\ Len(b) \in Nat
      /\ \A j \in 1..(Len(a) + Len(b)) : (a \o b)[j] = IF j <= Len(a) THEN a[j] ELSE b[j - Len(a)]
  BY DEF Pieces
<1>. SUFFICES ASSUME NEW i \in 1..(Len(a) + Len(b)), NEW j \in 1..(Len(a) + Len(b)),
                     (a \o b)[i] = y, (a \o b)[j] = y
              PROVE  i = j
  BY <1>1 DEF Once
<1>2. i <= Len(a) => i \in 1..Len(a) /\ a[i] = y
  BY <1>1
<1>3. j <= Len(a) => j \in 1..Len(a) /\ a[j] = y
  BY <1>1
<1>4. ~(i <= Len(a)) => i - Len(a) \in 1..Len(b) /\ b[i - Len(a)] = y
  BY <1>1
<1>5. ~(j <= Len(a)) => j - Len(a) \in 1..Len(b) /\ b[j - Len(a)] = y
  BY <1>1
<1>6. CASE Once(a, y) /\ ~In(b, y)
  BY <1>2, <1>3, <1>4, <1>5, <1>6 DEF Once, In
<1>7. CASE ~In(a, y) /\ Once(b, y)
  <2>1. i - Len(a) = j - Len(a)
    BY <1>2, <1>3, <1>4, <1>5, <1>7 DEF Once, In
  <2>. QED
    BY <1>1, <2>1
<1>. QED
  BY <1>6, <1>7

Distinct(df) == \A m \in Nat : Once(df, m)
NoneUnsent(df, len, df2, len2) == \A m \in Nat : Unsent(m, df2, len2) => Unsent(m, df, len)
PieceOf(piece, n) == Once(piece, First(n)) /\ \A j \in 1..Len(piece) : piece[j][1] = n

\* Bytes of a document that was not sent so far are appended.
LEMMA PlaceAdds ==
  ASSUME NEW st \in Pieces, NEW df, NEW ch \in SUBSET Pieces, NEW g, NEW len \in Nat,
         OnePlace(st, df, ch, g, len), NEW n \in Nat, Unsent(n, df, len),
         NEW piece \in Pieces, PieceOf(piece, n),
         NEW df2, NEW len2 \in Nat, len <= len2, n <= len2,
         NoneUnsent(df, len, df2, len2), ~Unsent(n, df2, len2), Distinct(df2)
  PROVE  OnePlace(st \o piece, df2, ch, g, len2)
<1>. USE DEF PieceOf, NoneUnsent, Distinct
<1>. SUFFICES ASSUME NEW m \in Nat
              PROVE  /\ Once(st \o piece, First(m))
                     /\ In(st \o piece, First(m)) => \A c \in ch : ~In(c, First(m))
                     /\ \A c, d \in ch : In(c, First(m)) /\ In(d, First(m)) => c = d
                     /\ In(g, m) => m <= len2 /\ Nowhere(m, st \o piece, ch)
                     /\ Unsent(m, df2, len2) => ~In(g, m) /\ Nowhere(m, st \o piece, ch)
  BY DEF OnePlace, Once
<1>1. /\ Once(st, First(m))
      /\ In(st, First(m)) => \A c \in ch : ~In(c, First(m))
      /\ \A c, d \in ch : In(c, First(m)) /\ In(d, First(m)) => c = d
      /\ In(g, m) => m <= len /\ Nowhere(m, st, ch)
      /\ Unsent(m, df, len) => ~In(g, m) /\ Nowhere(m, st, ch)
  BY DEF OnePlace, Once
<1>2. In(piece, First(m)) => m = n
  BY DEF In, First
<1>3. In(st \o piece, First(m)) <=> In(st, First(m)) \/ In(piece, First(m))
  BY InConcat
<1>4. Once(st \o piece, First(m))
  <2>1. CASE m = n
    <3>1. ~In(st, First(m)) /\ Once(piece, First(m))
      BY <1>1, <2>1 DEF Nowhere
    <3>. QED
      BY <3>1, OnceConcat
  <2>2. CASE m # n
    <3>1. Once(st, First(m)) /\ ~In(piece, First(m))
      BY <1>1, <1>2, <2>2
    <3>. QED
      BY <3>1, OnceConcat
  <2>. QED
    BY <2>1, <2>2
<1>5. In(g, m) => m <= len2
  BY <1>1 DEF Unsent
<1>. QED
  BY <1>1, <1>2, <1>3, <1>4, <1>5 DEF Nowhere

\* Documents are sent, or lost, without a byte on its way.
LEMMA PlaceSends ==
  ASSUME NEW st, NEW df, NEW ch, NEW g, NEW len \in Nat, OnePlace(st, df, ch, g, len),
         NEW df2, NEW len2 \in Nat, len <= len2, NoneUnsent(df, len, df2, len2), Distinct(df2)
  PROVE  OnePlace(st, df2, ch, g, len2)
<1>. USE DEF NoneUnsent, Distinct
<1>1. ASSUME NEW m \in Nat, In(g, m) PROVE m <= len2
  <2>1. m <= len
    BY <1>1 DEF OnePlace
  <2>. QED
    BY <2>1
<1>. QED
  BY <1>1 DEF OnePlace, Once

\* A Receive takes the first k bytes.
LEMMA PlaceReads ==
  ASSUME NEW st \in Pieces, NEW df, NEW ch \in SUBSET Pieces, NEW g, NEW len,
         OnePlace(st, df, ch, g, len), NEW k \in 1..Len(st)
  PROVE  OnePlace(SubSeq(st, k + 1, Len(st)), df, ch \cup {SubSeq(st, 1, k)}, g, len)
<1>. DEFINE a == SubSeq(st, 1, k)  b == SubSeq(st, k + 1, Len(st))
<1>1. /\ Len(a) = k /\ Len(b) = Len(st) - k /\ k \in Nat /\ Len(st) \in Nat /\ k <= Len(st)
      /\ \A j \in 1..k : a[j] = st[j] /\ j \in 1..Len(st)
      /\ \A j \in 1..(Len(st) - k) : b[j] = st[k + j] /\ k + j \in 1..Len(st)
  <2>1. Len(st) \in Nat /\ k \in Nat /\ k <= Len(st)
    BY DEF Pieces
  <2>. QED
    BY <2>1, CutsPiece
<1>. HIDE DEF a, b
<1>. SUFFICES ASSUME NEW m \in Nat
              PROVE  /\ Once(b, First(m))
                     /\ In(b, First(m)) => \A c \in ch \cup {a} : ~In(c, First(m))
                     /\ \A c, d \in ch \cup {a} : In(c, First(m)) /\ In(d, First(m)) => c = d
                     /\ In(g, m) => Nowhere(m, b, ch \cup {a})
                     /\ Unsent(m, df, len) => Nowhere(m, b, ch \cup {a})
  BY DEF OnePlace, Once, a, b
<1>2. /\ Once(st, First(m))
      /\ In(st, First(m)) => \A c \in ch : ~In(c, First(m))
      /\ \A c, d \in ch : In(c, First(m)) /\ In(d, First(m)) => c = d
      /\ In(g, m) => Nowhere(m, st, ch)
      /\ Unsent(m, df, len) => Nowhere(m, st, ch)
  BY DEF OnePlace, Once
<1>3. In(a, First(m)) => In(st, First(m))
  BY <1>1 DEF In
<1>4. In(b, First(m)) => In(st, First(m))
  BY <1>1 DEF In
<1>5. ~(In(a, First(m)) /\ In(b, First(m)))
  <2>. SUFFICES ASSUME NEW i \in 1..k, NEW j \in 1..(Len(st) - k), a[i] = First(m), b[j] = First(m)
                PROVE  FALSE
    BY <1>1 DEF In
  <2>0. /\ st[i] = First(m) /\ i \in 1..Len(st)
        /\ st[k + j] = First(m) /\ k + j \in 1..Len(st)
    BY <1>1
  <2>1. i = k + j
    BY <2>0, <1>2 DEF Once
  <2>. QED
    BY <1>1, <2>1
<1>6. Once(b, First(m))
  <2>. SUFFICES ASSUME NEW i \in 1..(Len(st) - k), NEW j \in 1..(Len(st) - k),
                       b[i] = First(m), b[j] = First(m)
                PROVE  i = j
    BY <1>1 DEF Once
  <2>0. /\ st[k + i] = First(m) /\ k + i \in 1..Len(st)
        /\ st[k + j] = First(m) /\ k + j \in 1..Len(st)
    BY <1>1
  <2>1. k + i = k + j
    BY <2>0, <1>2 DEF Once
  <2>. QED
    BY <1>1, <2>1
<1>. QED
  BY <1>2, <1>3, <1>4, <1>5, <1>6 DEF Nowhere

\* A handler takes a chunk; when it is a document, that one is dispatched.
LEMMA PlaceTakes ==
  ASSUME NEW st, NEW df, NEW ch, NEW g, NEW len, OnePlace(st, df, ch, g, len), NEW c \in ch
  PROVE  OnePlace(st, df, ch \ {c}, g, len)
BY DEF OnePlace, Nowhere

LEMMA PlaceDispatches ==
  ASSUME NEW st, NEW df, NEW ch, NEW g \in Seq(Nat), NEW len \in Nat,
         OnePlace(st, df, ch, g, len), NEW c \in ch, NEW n \in 1..len, In(c, First(n))
  PROVE  /\ OnePlace(st, df, ch \ {c}, Append(g, n), len)
         /\ ~In(g, n)
<1>1. OnePlace(st, df, ch \ {c}, g, len)
  BY PlaceTakes
<1>2. ~In(g, n) /\ ~Unsent(n, df, len) /\ Nowhere(n, st, ch \ {c})
  BY DEF OnePlace, Nowhere
<1>3. \A m \in Nat : In(Append(g, n), m) => In(g, m) \/ m = n
  BY DEF In
<1>. DEFINE rest == ch \ {c}
<1>4. ASSUME NEW m \in Nat
      PROVE  /\ In(Append(g, n), m) => m <= len /\ Nowhere(m, st, rest)
             /\ Unsent(m, df, len) => ~In(Append(g, n), m)
  <2>1. (In(g, m) => m <= len /\ Nowhere(m, st, rest)) /\ (Unsent(m, df, len) => ~In(g, m))
    BY <1>1 DEF OnePlace
  <2>. QED
    BY <1>2, <1>3, <2>1
<1>. HIDE DEF rest
<1>5. OnePlace(st, df, rest, g, len)
  BY <1>1 DEF rest
<1>6. OnePlace(st, df, rest, Append(g, n), len)
  BY <1>4, <1>5 DEF OnePlace
<1>. QED
  BY <1>2, <1>6 DEF rest

\* The chunk of a document has its first byte.
LEMMA ParsedIsWhole ==
  ASSUME Typed, AllOwned, NEW dir \in Dirs, NEW c \in chunks[dir], Parses(dir, c)
  PROVE  \E n \in 1..Len(sent[dir]) :
             /\ n = c[1][1] /\ c = Bytes(n, sent[dir][n].size)
             /\ sent[dir][n].size \in Nat \ {0} /\ In(c, First(n))
<1>. DEFINE n == c[1][1]  size == sent[dir][n].size
<1>1. n \in 1..Len(sent[dir]) /\ c = Bytes(n, size)
  BY ChunksOwned DEF Parses, Text
<1>2. size \in Nat \ {0}
  <2>. HIDE DEF n
  <2>1. size \in Sizes
    BY <1>1, DocumentsAre
  <2>. QED
    BY <2>1, SizesAssumption
<1>. HIDE DEF n, size
<1>3. Len(c) = size /\ c[1] = <<n, 1>> /\ 1 \in 1..Len(c)
  BY <1>1, <1>2 DEF Bytes
<1>4. In(c, First(n))
  BY <1>3 DEF In, First
<1>. QED
  BY <1>1, <1>2, <1>4 DEF n, size

\* The first byte is once in a part of a document.
LEMMA OnceInPiece ==
  ASSUME NEW n \in Nat, NEW size \in Nat, NEW k \in 1..size, NEW bytes,
         bytes = Bytes(n, size) \/ bytes = Spoilt(n, size)
  PROVE  PieceOf(SubSeq(bytes, 1, k), n)
<1>. DEFINE piece == SubSeq(bytes, 1, k)
<1>1. Len(piece) = k /\ \A j \in 1..k : piece[j] = bytes[j] /\ j \in 1..size /\ bytes[j][1] = n
  BY PieceTyped
<1>. HIDE DEF piece
<1>2. \A j \in 1..k : piece[j] = First(n) => j = 1
  BY <1>1 DEF Bytes, Spoilt, First
<1>3. PieceOf(piece, n)
  BY <1>1, <1>2 DEF Once, PieceOf
<1>. QED
  BY <1>3 DEF piece

\* The queue of sends without its first.
LEMMA QueueTail ==
  ASSUME NEW df \in Seq(Nat), df # <<>>, Distinct(df)
  PROVE  /\ Head(df) \in Nat /\ In(df, Head(df)) /\ Distinct(Tail(df))
         /\ \A m \in Nat : In(Tail(df), m) => In(df, m) /\ m # Head(df)
<1>. USE DEF Distinct
<1>1. /\ Len(df) \in Nat /\ Len(df) > 0 /\ Head(df) = df[1] /\ 1 \in 1..Len(df) /\ df[1] \in Nat
      /\ Len(Tail(df)) = Len(df) - 1
      /\ \A j \in 1..(Len(df) - 1) : Tail(df)[j] = df[j + 1] /\ j + 1 \in 1..Len(df) /\ j + 1 # 1
  OBVIOUS
<1>2. ASSUME NEW m \in Nat, NEW i \in 1..(Len(df) - 1), NEW j \in 1..(Len(df) - 1),
             Tail(df)[i] = m, Tail(df)[j] = m
      PROVE  i = j
  <2>1. i + 1 = j + 1
    BY <1>1, <1>2 DEF Once
  <2>. QED
    BY <2>1
<1>3. ASSUME NEW m \in Nat, NEW j \in 1..(Len(df) - 1), Tail(df)[j] = m
      PROVE  In(df, m) /\ m # Head(df)
  BY <1>1, <1>3 DEF In, Once
<1>4. In(df, Head(df))
  BY <1>1 DEF In
<1>. QED
  BY <1>1, <1>2, <1>3, <1>4 DEF In, Once

LEMMA PlaceStep ==
  ASSUME Typed, AllOwned, InOnePlace, NEW d \in Dirs, Moves(d)
  PROVE  OnePlace(stream'[d], deferred'[d], chunks'[d], got'[d], Len(sent'[d]))
<1>. DEFINE len == Len(sent[d])
<1>1. /\ sent[d] \in Seq(Documents(d)) /\ len \in Nat /\ stream[d] \in Pieces
      /\ deferred[d] \in Seq(Nat) /\ chunks[d] \in SUBSET Pieces /\ got[d] \in Seq(Nat)
  BY DEF Typed, DocumentsTyped
<1>2. \A i \in 1..Len(deferred[d]) : deferred[d][i] \in 1..len
  BY DEF AllOwned
<1>3. /\ OnePlace(stream[d], deferred[d], chunks[d], got[d], len)
      /\ Distinct(deferred[d])
  BY DEF InOnePlace, OnePlace, Once, Distinct
<1>4. CASE Rests(d)
  BY <1>3, <1>4 DEF Rests
<1>5. ASSUME NEW doc, sent'[d] = Append(sent[d], doc)
      PROVE  Len(sent'[d]) = len + 1
  BY <1>1, <1>5
<1>. HIDE DEF len
<1>6. CASE SendsNow(d)
  <2>0. PICK doc \in Documents(d) : \E k \in 1..doc.size :
          /\ Sends(d, doc) /\ deferred[d] = <<>> /\ UNCHANGED deferred[d]
          /\ stream'[d] = stream[d] \o SubSeq(Bytes(Len(sent[d]) + 1, doc.size), 1, k)
    BY <1>6 DEF SendsNow
  <2>1. PICK k \in 1..doc.size :
          /\ Sends(d, doc) /\ deferred[d] = <<>> /\ UNCHANGED deferred[d]
          /\ stream'[d] = stream[d] \o SubSeq(Bytes(len + 1, doc.size), 1, k)
    BY <2>0 DEF len
  <2>. DEFINE n == len + 1  piece == SubSeq(Bytes(n, doc.size), 1, k)
  <2>2. doc.size \in Nat
    BY SizesAreNat DEF Documents
  <2>3. piece \in Pieces /\ PieceOf(piece, n) /\ n \in Nat
    BY <1>1, <2>2, PieceTyped, OnceInPiece
  <2>4. /\ Unsent(n, deferred[d], len) /\ len <= n /\ n <= n
        /\ NoneUnsent(deferred[d], len, deferred[d], n) /\ ~Unsent(n, deferred[d], n)
    BY <1>1, <2>1 DEF Unsent, In, NoneUnsent
  <2>. HIDE DEF n, piece
  <2>5. OnePlace(stream[d] \o piece, deferred[d], chunks[d], got[d], n)
    BY <1>1, <1>3, <2>3, <2>4, PlaceAdds
  <2>. QED
    BY <1>5, <2>1, <2>5 DEF Sends, n, piece
<1>7. CASE Defers(d)
  <2>1. PICK doc \in Documents(d) :
          /\ Sends(d, doc) /\ UNCHANGED stream[d]
          /\ deferred'[d] = Append(deferred[d], len + 1)
    BY <1>7 DEF Defers, len
  <2>. DEFINE df2 == Append(deferred[d], len + 1)
  <2>2. /\ Len(df2) = Len(deferred[d]) + 1 /\ Len(deferred[d]) \in Nat
        /\ df2[Len(deferred[d]) + 1] = len + 1
        /\ \A i \in 1..Len(deferred[d]) : df2[i] = deferred[d][i]
    BY <1>1
  <2>. HIDE DEF df2
  <2>3. Distinct(df2)
    <3>. SUFFICES ASSUME NEW m \in Nat, NEW i \in 1..Len(df2), NEW j \in 1..Len(df2),
                         df2[i] = m, df2[j] = m
                  PROVE  i = j
      BY DEF Once, Distinct
    <3>1. \A l \in 1..Len(df2) : (l = Len(deferred[d]) + 1 /\ df2[l] = len + 1)
                \/ (l \in 1..Len(deferred[d]) /\ df2[l] = deferred[d][l] /\ df2[l] # len + 1)
      <4>1. \A q \in 1..len : q # len + 1
        BY <1>1
      <4>2. \A l \in 1..Len(df2) : l = Len(deferred[d]) + 1 \/ l \in 1..Len(deferred[d])
        BY <2>2
      <4>. QED
        BY <1>2, <2>2, <4>1, <4>2
    <3>. QED
      BY <1>3, <3>1 DEF Once, Distinct
  <2>4. NoneUnsent(deferred[d], len, df2, len + 1)
    <3>. SUFFICES ASSUME NEW m \in Nat, In(df2, m) \/ m > len + 1
                  PROVE  In(deferred[d], m) \/ m > len
      BY DEF Unsent, NoneUnsent
    <3>1. CASE In(df2, m)
      <4>1. PICK l \in 1..Len(df2) : df2[l] = m
        BY <3>1 DEF In
      <4>2. CASE l = Len(deferred[d]) + 1
        BY <1>1, <2>2, <4>1, <4>2
      <4>3. CASE l # Len(deferred[d]) + 1
        <5>1. l \in 1..Len(deferred[d])
          BY <2>2, <4>3
        <5>. QED
          BY <2>2, <4>1, <5>1 DEF In
      <4>. QED
        BY <4>2, <4>3
    <3>. QED
      BY <1>1, <3>1
  <2>5. OnePlace(stream[d], df2, chunks[d], got[d], len + 1)
    <3>1. len + 1 \in Nat /\ len <= len + 1
      BY <1>1
    <3>. QED
      BY <1>1, <1>3, <2>3, <2>4, <3>1, PlaceSends
  <2>. QED
    BY <1>5, <2>1, <2>5 DEF Sends, df2
<1>8. ASSUME deferred[d] # <<>>
      PROVE  LET n == Head(deferred[d]) IN
             /\ n \in 1..len /\ n \in Nat /\ Unsent(n, deferred[d], len)
             /\ NoneUnsent(deferred[d], len, Tail(deferred[d]), len)
             /\ ~Unsent(n, Tail(deferred[d]), len) /\ Distinct(Tail(deferred[d]))
  <2>1. Head(deferred[d]) = deferred[d][1] /\ 1 \in 1..Len(deferred[d])
    BY <1>1, <1>8
  <2>. QED
    BY <1>1, <1>2, <1>3, <1>8, <2>1, QueueTail DEF Unsent, NoneUnsent
<1>9. CASE Flushes(d)
  <2>. DEFINE n == Head(deferred[d])  size == sent[d][n].size
  <2>1. deferred[d] # <<>> /\ deferred'[d] = Tail(deferred[d])
        /\ UNCHANGED <<chunks[d], got[d], sent[d]>>
    BY <1>9 DEF Flushes
  <2>2. size \in Nat
    BY <1>8, <2>1, DocumentsAre, SizesAreNat DEF len
  <2>3. PICK k \in 1..size, bytes \in {Bytes(n, size), Spoilt(n, size)} :
            stream'[d] = stream[d] \o SubSeq(bytes, 1, k)
    BY <1>9 DEF Flushes
  <2>. DEFINE piece == SubSeq(bytes, 1, k)
  <2>. HIDE DEF size
  <2>4. piece \in Pieces /\ PieceOf(piece, n)
    BY <1>8, <2>1, <2>2, PieceTyped, OnceInPiece
  <2>. HIDE DEF piece, n
  <2>5. OnePlace(stream[d] \o piece, Tail(deferred[d]), chunks[d], got[d], len)
    <3>1. /\ n \in Nat /\ n <= len /\ len <= len /\ Unsent(n, deferred[d], len)
          /\ NoneUnsent(deferred[d], len, Tail(deferred[d]), len)
          /\ ~Unsent(n, Tail(deferred[d]), len) /\ Distinct(Tail(deferred[d]))
      BY <1>1, <1>8, <2>1 DEF n
    <3>. QED
      BY <1>1, <1>3, <2>4, <3>1, PlaceAdds
  <2>. QED
    BY <2>1, <2>3, <2>5 DEF len, piece
<1>10. CASE Aborts(d)
  <2>1. deferred[d] # <<>> /\ deferred'[d] = Tail(deferred[d])
        /\ UNCHANGED <<chunks[d], got[d], sent[d], stream[d]>>
    BY <1>10 DEF Aborts
  <2>2. OnePlace(stream[d], Tail(deferred[d]), chunks[d], got[d], len)
    <3>1. len <= len
      BY <1>1
    <3>. QED
      BY <1>1, <1>3, <1>8, <2>1, <3>1, PlaceSends
  <2>. QED
    BY <2>1, <2>2 DEF len
<1>11. CASE Reads(d)
  <2>1. PICK k \in 1..Len(stream[d]) :
          /\ chunks'[d] = chunks[d] \cup {SubSeq(stream[d], 1, k)}
          /\ stream'[d] = SubSeq(stream[d], k + 1, Len(stream[d]))
    BY <1>11 DEF Reads
  <2>2. UNCHANGED <<got[d], deferred[d], sent[d]>>
    BY <1>11 DEF Reads
  <2>3. OnePlace(SubSeq(stream[d], k + 1, Len(stream[d])), deferred[d],
                 chunks[d] \cup {SubSeq(stream[d], 1, k)}, got[d], len)
    BY <1>1, <1>3, PlaceReads
  <2>. QED
    BY <2>1, <2>2, <2>3 DEF len
<1>12. CASE Takes(d)
  <2>1. PICK c \in chunks[d] :
          /\ UNCHANGED <<stream[d], deferred[d], sent[d]>>
          /\ chunks'[d] = chunks[d] \ {c}
          /\ \/ Parses(d, c) /\ got'[d] = Append(got[d], c[1][1])
             \/ UNCHANGED got[d]
    BY <1>12 DEF Takes
  <2>2. CASE UNCHANGED got[d]
    BY <1>3, <2>1, <2>2, PlaceTakes DEF len
  <2>3. CASE Parses(d, c) /\ got'[d] = Append(got[d], c[1][1])
    <3>1. c[1][1] \in 1..len /\ In(c, First(c[1][1]))
      BY <2>3, ParsedIsWhole DEF len
    <3>2. OnePlace(stream[d], deferred[d], chunks[d] \ {c}, Append(got[d], c[1][1]), len)
      BY <1>1, <1>3, <3>1, PlaceDispatches
    <3>. QED
      BY <2>1, <2>3, <3>2 DEF len
  <2>. QED
    BY <2>1, <2>2, <2>3
<1>. QED
  BY <1>4, <1>6, <1>7, <1>9, <1>10, <1>11, <1>12 DEF Moves

-----------------------------------------------------------------------------
(* Order: the server reads one piece at a time.                            *)

LEMMA ChainRests ==
  ASSUME Chain, UNCHANGED <<chunks["requests"], listening["requests"],
                            finished["replies"], deferred["replies"]>>
  PROVE  Chain'
BY DEF Chain

\* Sending affects the direction of the message only.
LEMMA SendIsOneWay ==
  ASSUME Typed, NEW dir \in Dirs, NEW buf, NEW size, Send(dir, buf, size), NEW d \in Dirs \ {dir}
  PROVE  UNCHANGED <<finished[d], deferred[d]>>
BY DEF Send, Transmit, Typed

LEMMA DownGrows ==
  ASSUME [Next]_vars
  PROVE  \A p : (Up(p))' => Up(p)
<1>1. down \subseteq down'
  <2>1. ASSUME NEW c, GotPdu(c) PROVE down \subseteq down'
    BY <2>1 DEF GotPdu, Handle, Answer
  <2>2. ASSUME NEW c, NEW size, Dispatch(c, size) PROVE down \subseteq down'
    BY <2>2 DEF Dispatch, Handle
  <2>3. ASSUME NEW dir, Flush(dir) PROVE down \subseteq down'
    BY <2>3 DEF Flush
  <2>4. ASSUME NEW x, Resend(x) \/ \E size \in Sizes : Call(x, size) PROVE down \subseteq down'
    BY <2>4 DEF Resend, Call
  <2>5. ASSUME NEW dir, Receive(dir) \/ SendFinished(dir) PROVE down \subseteq down'
    BY <2>5 DEF Receive, SendFinished
  <2>6. CASE UNCHANGED vars
    BY <2>6 DEF vars
  <2>. QED
    BY <2>1, <2>2, <2>3, <2>4, <2>5, <2>6 DEF Next, Client, Server, Transport
<1>. QED
  BY <1>1 DEF Up

LEMMA ChainStep ==
  ASSUME Typed, AllOwned, Chain, (Up("server"))', [Next]_vars
  PROVE  Chain'
<1>. DEFINE R == "requests"  P == "replies"
            rest == listening[R] + finished[P] + Len(deferred[P])
<1>0. /\ R \in Dirs /\ P \in Dirs /\ R # P
      /\ listening[R] \in Nat /\ finished[P] \in Nat /\ Len(deferred[P]) \in Nat
      /\ deferred[P] \in Seq(Nat)
  BY DirsAre DEF Typed
<1>1. ASSUME NEW x, NEW size, SendRequest(x, size), UNCHANGED <<chunks, listening>>
      PROVE  Chain'
  BY <1>0, <1>1, SendIsOneWay, ChainRests DEF SendRequest
<1>2. ASSUME NEW c, GotPdu(c) PROVE Chain'
  <2>1. chunks'[R] = chunks[R]
    BY <1>0, <1>2 DEF GotPdu, Handle, Typed
  <2>. QED
    BY <1>2, <2>1, ChainRests DEF GotPdu, netVars
<1>3. ASSUME NEW c \in chunks[R], NEW size, Dispatch(c, size) PROVE Chain'
  <2>1. Parses(R, c)
    BY <1>3 DEF Dispatch, Handle, Up, Receiver, Sender, Other
  <2>2. chunks[R] = {c} /\ rest = 0
    BY DEF Chain
  <2>3. PICK buf : Send(P, buf, size)
    BY <1>3, <2>1 DEF Dispatch
  <2>4. chunks'[R] = {} /\ UNCHANGED listening
    BY <1>0, <1>3, <2>2 DEF Dispatch, Handle, Typed
  <2>5. \/ finished'[P] = finished[P] + 1 /\ deferred'[P] = deferred[P]
        \/ finished'[P] = finished[P] /\ \E n : deferred'[P] = Append(deferred[P], n)
    BY <1>0, <2>3 DEF Send, Transmit, Typed
  <2>6. \A n : Len(Append(deferred[P], n)) = Len(deferred[P]) + 1
    BY <1>0
  <2>7. listening'[R] + finished'[P] + Len(deferred'[P]) = 1
    BY <1>0, <2>2, <2>4, <2>5, <2>6
  <2>. QED
    BY <2>4, <2>7 DEF Chain
<1>4. CASE Flush(P)
  <2>1. PICK k, bytes : Transmit(P, bytes, k)
    BY <1>4 DEF Flush, Up, Sender
  <2>2. /\ finished'[P] = finished[P] + 1 /\ deferred[P] # <<>>
        /\ deferred'[P] = Tail(deferred[P]) /\ UNCHANGED <<chunks, listening>>
    BY <1>0, <1>4, <2>1 DEF Flush, Transmit, Typed
  <2>3. Len(Tail(deferred[P])) = Len(deferred[P]) - 1
    BY <1>0, <2>2
  <2>4. chunks[R] = {} /\ rest = 1
    <3>1. Len(deferred[P]) > 0
      BY <1>0, <2>2
    <3>. QED
      BY <1>0, <3>1 DEF Chain
  <2>5. listening'[R] + finished'[P] + Len(deferred'[P]) = 1
    BY <1>0, <2>2, <2>3, <2>4
  <2>. QED
    BY <2>2, <2>4, <2>5 DEF Chain
<1>5. CASE Flush(R)
  <2>1. deferred'[P] = deferred[P] /\ finished'[P] = finished[P] /\ UNCHANGED <<chunks, listening>>
    BY <1>0, <1>5 DEF Flush, Transmit, Typed
  <2>. QED
    BY <2>1, ChainRests
<1>6. CASE Receive(R)
  <2>1. PICK a : chunks' = [chunks EXCEPT ![R] = chunks[R] \cup {a}]
    BY <1>6 DEF Receive
  <2>2. listening[R] > 0 /\ listening'[R] = listening[R] - 1 /\ UNCHANGED <<deferred, finished>>
    BY <1>0, <1>6 DEF Receive, Typed
  <2>3. chunks[R] = {} /\ rest = 1
    BY <1>0, <2>2 DEF Chain
  <2>4. chunks'[R] = {a} /\ listening'[R] + finished'[P] + Len(deferred'[P]) = 0
    BY <1>0, <2>1, <2>2, <2>3 DEF Typed
  <2>. QED
    BY <2>4 DEF Chain
<1>7. CASE Receive(P)
  <2>1. chunks'[R] = chunks[R] /\ listening'[R] = listening[R] /\ UNCHANGED <<deferred, finished>>
    BY <1>0, <1>7 DEF Receive, Typed
  <2>. QED
    BY <2>1, ChainRests
<1>8. CASE SendFinished(P)
  <2>1. /\ finished[P] > 0 /\ finished'[P] = finished[P] - 1 /\ listening'[R] = listening[R] + 1
        /\ UNCHANGED <<deferred, chunks>>
    BY <1>0, <1>8, DirsAre DEF SendFinished, Typed
  <2>2. chunks[R] = {} /\ rest = 1
    BY <1>0, <2>1 DEF Chain
  <2>3. listening'[R] + finished'[P] + Len(deferred'[P]) = 1
    BY <1>0, <2>1, <2>2
  <2>. QED
    BY <2>1, <2>2, <2>3 DEF Chain
<1>9. CASE SendFinished(R)
  <2>1. finished'[P] = finished[P] /\ listening'[R] = listening[R] /\ UNCHANGED <<deferred, chunks>>
    BY <1>0, <1>9, DirsAre DEF SendFinished, Typed
  <2>. QED
    BY <2>1, ChainRests
<1>10. ASSUME NEW x \in Calls, Resend(x) \/ \E size \in Sizes : Call(x, size) PROVE Chain'
  BY <1>1, <1>10 DEF Resend, Call
<1>11. CASE UNCHANGED vars
  BY <1>11, ChainRests DEF vars, netVars
<1>. QED
  BY <1>2, <1>3, <1>4, <1>5, <1>6, <1>7, <1>8, <1>9, <1>10, <1>11, DirsAre
     DEF Next, Client, Server, Transport

\* The bytes of two pieces in a row.
LEMMA ConcatIs ==
  ASSUME NEW a \in Pieces, NEW b \in Pieces
  PROVE  /\ a \o b \in Pieces /\ Len(a \o b) = Len(a) + Len(b) /\ Len(a) \in Nat /\ Len(b) \in Nat
         /\ \A j \in 1..Len(a) : (a \o b)[j] = a[j]
         /\ \A j \in 1..Len(b) : (a \o b)[Len(a) + j] = b[j]
<1>1. Len(a \o b) = Len(a) + Len(b) /\ Len(a) \in Nat /\ Len(b) \in Nat /\ a \o b \in Pieces
  BY DEF Pieces
<1>2. \A j \in 1..Len(a) : (a \o b)[j] = a[j]
  BY DEF Pieces
<1>3. \A j \in 1..Len(b) : (a \o b)[Len(a) + j] = b[j]
  BY DEF Pieces
<1>. QED
  BY <1>1, <1>2, <1>3

\* Every position of two pieces in a row is one of the first or of the second.
LEMMA PositionIs ==
  ASSUME NEW m \in Nat, NEW n \in Nat, NEW j \in 1..(m + n)
  PROVE  j \in 1..m \/ \E i \in 1..n : j = m + i
<1>1. CASE j > m
  <2>1. j - m \in 1..n /\ j = m + (j - m)
    BY <1>1
  <2>. QED
    BY <2>1
<1>. QED
  BY <1>1

LEMMA OwnedConcat ==
  ASSUME NEW a \in Pieces, NEW b \in Pieces, NEW n, Owned(a, n), Owned(b, n)
  PROVE  Owned(a \o b, n)
<1>. SUFFICES ASSUME NEW j \in 1..(Len(a) + Len(b)) PROVE (a \o b)[j][1] \in 1..n
  BY ConcatIs DEF Owned
<1>0. Len(a) \in Nat /\ Len(b) \in Nat
  BY DEF Pieces
<1>1. j \in 1..Len(a) \/ \E i \in 1..Len(b) : j = Len(a) + i
  BY <1>0, PositionIs
<1>2. CASE j \in 1..Len(a)
  <2>1. (a \o b)[j] = a[j]
    BY <1>2, ConcatIs
  <2>. QED
    BY <1>2, <2>1 DEF Owned
<1>3. ASSUME NEW i \in 1..Len(b), j = Len(a) + i PROVE (a \o b)[j][1] \in 1..n
  <2>1. (a \o b)[j] = b[i]
    BY <1>3, ConcatIs
  <2>. QED
    BY <2>1 DEF Owned
<1>. QED
  BY <1>1, <1>2, <1>3

\* A read cuts the stream in two.
LEMMA CutAndJoined ==
  ASSUME NEW b \in Pieces, NEW k \in 1..Len(b)
  PROVE  SubSeq(b, 1, k) \o SubSeq(b, k + 1, Len(b)) = b
<1>1. /\ b \in Seq(Nat \X Nat) /\ 1 \in 1..(Len(b) + 1) /\ k \in (1 - 1)..Len(b)
      /\ Len(b) \in k..Len(b)
  BY DEF Pieces
<1>2. SubSeq(b, 1, k) \o SubSeq(b, k + 1, Len(b)) = SubSeq(b, 1, Len(b))
  BY <1>1, ConcatAdjacentSubSeq
<1>. QED
  BY <1>1, <1>2, SubSeqFull

LEMMA ConcatAssociates ==
  ASSUME NEW a \in Pieces, NEW b \in Pieces, NEW c \in Pieces
  PROVE  (a \o b) \o c = a \o (b \o c)
<1>. DEFINE S == Nat \X Nat
<1>1. a \in Seq(S) /\ b \in Seq(S) /\ c \in Seq(S)
  BY DEF Pieces
<1>. HIDE DEF S
<1>2. ASSUME NEW s \in Seq(S), NEW t \in Seq(S), NEW u \in Seq(S)
      PROVE (s \o t) \o u = s \o (t \o u)
  BY ConcatAssociative, SMTT(30)
<1>. QED
  BY <1>1, <1>2

\* Documents that are sent later do not disturb a line.
LEMMA LineKept ==
  ASSUME NEW b, NEW s, NEW s2, NEW lo, Line(b, s, lo), Owned(b, Len(s)),
         \A m \in 1..Len(s) : s2[m] = s[m]
  PROVE  Line(b, s2, lo)
BY DEF Line, Owned

\* The bytes of document n from the first or, spoilt, from none.
Fragment(piece, n, size) ==
    /\ Len(piece) > 0
    /\ \A j \in 1..Len(piece) : piece[j][1] = n /\ piece[j][2] <= size
    /\ \A j \in 1..(Len(piece) - 1) : Follows(piece[j], piece[j + 1])

LEMMA FragmentIs ==
  ASSUME NEW n \in Nat, NEW size \in Nat, NEW k \in 1..size, NEW bytes,
         bytes = Bytes(n, size) \/ bytes = Spoilt(n, size)
  PROVE  SubSeq(bytes, 1, k) \in Pieces /\ Fragment(SubSeq(bytes, 1, k), n, size)
<1>. DEFINE piece == SubSeq(bytes, 1, k)
<1>1. /\ piece \in Pieces /\ Len(piece) = k
      /\ \A j \in 1..k : piece[j] = bytes[j] /\ j \in 1..size
  BY PieceTyped
<1>. HIDE DEF piece
<1>2. \A j \in 1..(k - 1) : j \in 1..k /\ j + 1 \in 1..k
  OBVIOUS
<1>3. CASE bytes = Bytes(n, size)
  <2>1. \A j \in 1..k : piece[j] = <<n, j>>
    BY <1>1, <1>3 DEF Bytes
  <2>2. \A j \in 1..k : piece[j][1] = n /\ piece[j][2] = j /\ j <= size
    BY <2>1
  <2>3. \A j \in 1..(k - 1) : Follows(piece[j], piece[j + 1])
    BY <1>2, <2>2 DEF Follows
  <2>. QED
    BY <1>1, <2>2, <2>3 DEF Fragment, piece
<1>4. CASE bytes = Spoilt(n, size)
  <2>1. \A j \in 1..k : piece[j] = <<n, 0>>
    BY <1>1, <1>4 DEF Spoilt
  <2>2. \A j \in 1..k : piece[j][1] = n /\ piece[j][2] = 0 /\ 0 <= size
    BY <2>1
  <2>3. \A j \in 1..(k - 1) : Follows(piece[j], piece[j + 1])
    BY <1>2, <2>2 DEF Follows
  <2>. QED
    BY <1>1, <2>2, <2>3 DEF Fragment, piece
<1>. QED
  BY <1>3, <1>4

\* The next document, or a part of it, is appended to the line.
LEMMA LineAppends ==
  ASSUME NEW b \in Pieces, NEW piece \in Pieces, NEW s, NEW lo \in Nat, NEW hi \in Nat,
         Line(b, s, lo), Ends(b, lo, hi), Fragment(piece, hi + 1, s[hi + 1].size)
  PROVE  Line(b \o piece, s, lo) /\ Ends(b \o piece, lo, hi + 1)
<1>. DEFINE c == b \o piece  m == Len(b)  n == Len(piece)
<1>1. /\ c \in Pieces /\ Len(c) = m + n /\ m \in Nat /\ n \in Nat /\ n > 0
      /\ \A j \in 1..m : c[j] = b[j]
      /\ \A j \in 1..n : c[m + j] = piece[j]
  BY ConcatIs DEF Fragment
<1>. HIDE DEF c, m, n
<1>2. c[m + n][1] = hi + 1 /\ c[m + 1][1] = hi + 1
  <2>1. n \in 1..n /\ 1 \in 1..n
    BY <1>1
  <2>. QED
    BY <1>1, <2>1 DEF Fragment, n
<1>3. c[1][1] = lo + 1
  <2>1. CASE m = 0
    <3>1. lo = hi
      BY <2>1 DEF Ends, m
    <3>. QED
      BY <1>1, <1>2, <2>1, <3>1
  <2>2. CASE m > 0
    <3>1. 1 \in 1..m /\ b[1][1] = lo + 1
      BY <1>1, <2>2 DEF Line, m
    <3>. QED
      BY <1>1, <3>1
  <2>. QED
    BY <1>1, <2>1, <2>2
<1>4. ASSUME NEW j \in 1..(m + n) PROVE c[j][2] <= s[c[j][1]].size
  <2>1. j \in 1..m \/ \E i \in 1..n : j = m + i
    BY <1>1, PositionIs
  <2>2. CASE j \in 1..m
    BY <1>1, <2>2 DEF Line, m
  <2>3. ASSUME NEW i \in 1..n, j = m + i PROVE c[j][2] <= s[c[j][1]].size
    <3>1. c[j] = piece[i] /\ piece[i][1] = hi + 1 /\ piece[i][2] <= s[hi + 1].size
      BY <1>1, <2>3 DEF Fragment, n
    <3>. QED
      BY <3>1
  <2>. QED
    BY <2>1, <2>2, <2>3
<1>5. ASSUME NEW j \in 1..(m + n - 1) PROVE Follows(c[j], c[j + 1])
  <2>1. CASE j < m
    <3>1. j \in 1..m /\ j + 1 \in 1..m /\ j \in 1..(m - 1)
      BY <1>1, <2>1
    <3>. QED
      BY <1>1, <3>1 DEF Line, m
  <2>2. CASE j = m
    <3>1. j \in 1..m /\ m > 0
      BY <1>1, <2>2
    <3>2. c[j] = b[m] /\ b[m][1] = hi
      BY <1>1, <2>2, <3>1 DEF Ends, m
    <3>. QED
      BY <1>2, <2>2, <3>2 DEF Follows
  <2>3. CASE j > m
    <3>. DEFINE i == j - m
    <3>1. i \in 1..(n - 1) /\ i \in 1..n /\ i + 1 \in 1..n /\ j = m + i /\ j + 1 = m + (i + 1)
      BY <1>1, <2>3
    <3>. HIDE DEF i
    <3>2. c[j] = piece[i] /\ c[j + 1] = piece[i + 1]
      BY <1>1, <3>1
    <3>. QED
      BY <3>1, <3>2 DEF Fragment, n
  <2>. QED
    BY <1>1, <2>1, <2>2, <2>3
<1>6. Line(c, s, lo)
  BY <1>1, <1>3, <1>4, <1>5 DEF Line
<1>7. Ends(c, lo, hi + 1)
  BY <1>1, <1>2 DEF Ends
<1>. QED
  BY <1>6, <1>7 DEF c

\* The document at the head of the line is the one after lo.
LEMMA LineTakes ==
  ASSUME NEW c \in Pieces, NEW b \in Pieces, NEW s, NEW lo \in Nat, NEW n \in Nat,
         s[n].size \in Nat \ {0}, c = Bytes(n, s[n].size), Line(c \o b, s, lo)
  PROVE  /\ n = lo + 1 /\ Line(b, s, lo + 1)
         /\ \A hi : Ends(c \o b, lo, hi) => Ends(b, lo + 1, hi)
<1>. DEFINE size == s[n].size  a == c \o b
<1>0. size \in Nat /\ size > 0
  OBVIOUS
<1>1. Len(c) = size /\ \A j \in 1..size : c[j] = <<n, j>>
  BY DEF Bytes
<1>2. /\ Len(a) = size + Len(b) /\ Len(b) \in Nat
      /\ \A j \in 1..size : a[j] = c[j]
      /\ \A j \in 1..Len(b) : a[size + j] = b[j]
  <2>1. /\ Len(a) = Len(c) + Len(b) /\ Len(b) \in Nat
        /\ \A j \in 1..Len(c) : a[j] = c[j]
        /\ \A j \in 1..Len(b) : a[Len(c) + j] = b[j]
    BY ConcatIs
  <2>. HIDE DEF a, size
  <2>. QED
    BY <1>1, <2>1
<1>3. 1 \in 1..size /\ size \in 1..size
  BY <1>0
<1>4. /\ Len(a) > 0 => a[1][1] = lo + 1
      /\ \A j \in 1..Len(a) : a[j][2] <= s[a[j][1]].size
      /\ \A j \in 1..(Len(a) - 1) : Follows(a[j], a[j + 1])
  BY DEF Line
<1>. HIDE DEF a, size
<1>5. a[size][1] = n /\ a[size][2] = size /\ a[1][1] = n
  BY <1>1, <1>2, <1>3
<1>6. n = lo + 1
  BY <1>0, <1>2, <1>4, <1>5
<1>7. Len(b) > 0 => b[1][1] = lo + 2
  <2>. SUFFICES ASSUME Len(b) > 0 PROVE b[1][1] = lo + 2
    OBVIOUS
  <2>1. size \in 1..(Len(a) - 1) /\ size + 1 \in 1..Len(a) /\ 1 \in 1..Len(b)
    BY <1>0, <1>2
  <2>2. a[size + 1] = b[1] /\ Follows(a[size], b[1]) /\ b[1][2] <= s[b[1][1]].size
    BY <1>2, <1>4, <2>1
  <2>3. b[1][1] = n => b[1][2] <= size
    BY <2>2 DEF size
  <2>4. b[1][1] = n + 1
    BY <1>0, <1>5, <2>2, <2>3 DEF Follows
  <2>. QED
    BY <1>6, <2>4
<1>8. \A j \in 1..Len(b) : b[j][2] <= s[b[j][1]].size
  <2>1. \A j \in 1..Len(b) : size + j \in 1..Len(a)
    BY <1>0, <1>2
  <2>. QED
    BY <1>2, <1>4, <2>1
<1>9. ASSUME NEW j \in 1..(Len(b) - 1) PROVE Follows(b[j], b[j + 1])
  <2>1. /\ j \in 1..Len(b) /\ j + 1 \in 1..Len(b) /\ size + j \in 1..(Len(a) - 1)
    BY <1>0, <1>2
  <2>2. (size + j) + 1 = size + (j + 1)
    BY <1>0
  <2>. QED
    BY <1>2, <1>4, <2>1, <2>2
<1>10. ASSUME NEW hi, Ends(a, lo, hi) PROVE Ends(b, lo + 1, hi)
  <2>1. a[Len(a)][1] = hi
    BY <1>0, <1>2, <1>10 DEF Ends
  <2>2. CASE Len(b) = 0
    BY <1>0, <1>2, <1>5, <1>6, <2>1, <2>2 DEF Ends
  <2>3. CASE Len(b) > 0
    <3>1. Len(b) \in 1..Len(b)
      BY <1>2, <2>3
    <3>. QED
      BY <1>2, <2>1, <2>3, <3>1 DEF Ends
  <2>. QED
    BY <1>2, <2>2, <2>3
<1>11. Line(b, s, lo + 1)
  <2>1. (lo + 1) + 1 = lo + 2
    OBVIOUS
  <2>. QED
    BY <1>7, <1>8, <1>9, <2>1 DEF Line
<1>. QED
  BY <1>6, <1>10, <1>11 DEF a

LEMMA WholeIs ==
  ASSUME NEW st, NEW c
  PROVE  Whole(st, {}) = st /\ Whole(st, {c}) = c \o st
<1>1. (CHOOSE d \in {c} : TRUE) = c
  OBVIOUS
<1>. QED
  BY <1>1 DEF Whole

\* What is on its way to the server, while it is up.
LEMMA RequestedIs ==
  ASSUME Typed, AllOwned, Chain
  PROVE  /\ Requested \in Pieces /\ Owned(Requested, Len(sent["requests"]))
         /\ \/ chunks["requests"] = {} /\ Requested = stream["requests"]
            \/ \E c \in chunks["requests"] :
                  /\ chunks["requests"] = {c} /\ c \in Pieces /\ c # <<>>
                  /\ Requested = c \o stream["requests"]
                  /\ listening["requests"] = 0
<1>. DEFINE R == "requests"  P == "replies"
<1>1. /\ stream[R] \in Pieces /\ Owned(stream[R], Len(sent[R]))
      /\ \A c \in chunks[R] : c \in Pieces /\ c # <<>> /\ Owned(c, Len(sent[R]))
  BY DirsAre DEF Typed, AllOwned
<1>2. CASE chunks[R] = {}
  <2>1. Requested = stream[R]
    BY <1>2, WholeIs DEF Requested
  <2>. QED
    BY <1>1, <1>2, <2>1
<1>3. CASE chunks[R] # {}
  <2>1. PICK c \in chunks[R] : chunks[R] = {c} /\ listening[R] + finished[P] + Len(deferred[P]) = 0
    BY <1>3 DEF Chain
  <2>2. Requested = c \o stream[R]
    BY <2>1, WholeIs DEF Requested
  <2>3. listening[R] = 0
    <3>1. listening[R] \in Nat /\ finished[P] \in Nat /\ Len(deferred[P]) \in Nat
      BY DirsAre DEF Typed
    <3>. QED
      BY <2>1, <3>1
  <2>4. Requested \in Pieces /\ Owned(Requested, Len(sent[R]))
    BY <1>1, <2>1, <2>2, ConcatIs, OwnedConcat
  <2>. QED
    BY <1>1, <2>1, <2>2, <2>3, <2>4
<1>. QED
  BY <1>2, <1>3

\* More bytes at the end of the stream are more bytes at the end of the line.
LEMMA StreamGrows ==
  ASSUME Typed, AllOwned, Chain, NEW piece \in Pieces, UNCHANGED chunks["requests"],
         stream'["requests"] = stream["requests"] \o piece
  PROVE  Requested' = Requested \o piece
<1>. DEFINE R == "requests"
<1>1. stream[R] \in Pieces
  BY DirsAre DEF Typed
<1>2. CASE chunks[R] = {}
  BY <1>2, WholeIs DEF Requested
<1>3. ASSUME NEW c, chunks[R] = {c}, c \in Pieces
      PROVE  Requested' = Requested \o piece
  <2>1. Requested = c \o stream[R] /\ Requested' = c \o (stream[R] \o piece)
    BY <1>3, WholeIs DEF Requested
  <2>2. (c \o stream[R]) \o piece = c \o (stream[R] \o piece)
    BY <1>1, <1>3, ConcatAssociates
  <2>. QED
    BY <2>1, <2>2
<1>. QED
  BY <1>2, <1>3, RequestedIs

\* A document that is sent now, or that has waited, is the next of the line.
LEMMA LineContinues ==
  ASSUME Typed, AllOwned, Chain, Lined, Complete, NEW piece \in Pieces,
         Requested' = Requested \o piece, UNCHANGED got["requests"],
         Fragment(piece, LastRequest + 1, sent'["requests"][LastRequest + 1].size),
         LastRequest' = LastRequest + 1, Queued(deferred'["requests"], LastRequest + 1),
         \A m \in 1..Len(sent["requests"]) : sent'["requests"][m] = sent["requests"][m]
  PROVE  (Lined /\ Complete)'
<1>. DEFINE R == "requests"  lo == Len(got[R])  b == Requested  hi == LastRequest
            s == sent[R]  t == sent'[R]
<1>1. b \in Pieces /\ Owned(b, Len(s)) /\ lo \in Nat
  BY RequestedIs, DirsAre DEF Typed
<1>2. Ends(b, lo, hi) /\ Line(b, s, lo)
  BY DEF Complete, Lined
<1>. HIDE DEF b, hi, s, t, lo
<1>3. hi \in Nat
  <2>1. CASE Len(b) = 0
    BY <1>1, <1>2, <2>1 DEF Ends
  <2>2. CASE Len(b) # 0
    <3>1. Len(b) \in 1..Len(b) /\ b \in Seq(Nat \X Nat)
      BY <1>1, <2>2 DEF Pieces
    <3>2. b[Len(b)][1] \in Nat
      BY <3>1
    <3>. QED
      BY <1>2, <2>2, <3>2 DEF Ends
  <2>. QED
    BY <2>1, <2>2
<1>4. Line(b, t, lo)
  BY <1>1, <1>2, LineKept DEF s, t
<1>5. Fragment(piece, hi + 1, t[hi + 1].size)
  BY DEF hi, t
<1>6. Line(b \o piece, t, lo) /\ Ends(b \o piece, lo, hi + 1)
  BY <1>1, <1>2, <1>3, <1>4, <1>5, LineAppends
<1>7. Lined'
  BY <1>6 DEF Lined, t, lo, b
<1>8. Complete'
  BY <1>6 DEF Complete, lo, b, hi
<1>. QED
  BY <1>7, <1>8

\* Every step keeps the documents on their way to the server in order.
LEMMA LineStep ==
  ASSUME Typed, AllOwned, Chain, Lined, Up("client") => Complete,
         Moves("requests"), (Up("client"))' => Up("client"), (Up("server"))'
  PROVE  (Lined /\ (Up("client") => Complete))'
<1>. DEFINE R == "requests"  s == sent[R]  df == deferred[R]
<1>0. /\ R \in Dirs /\ s \in Seq(Documents(R)) /\ df \in Seq(Nat) /\ Len(s) \in Nat
      /\ Len(df) \in Nat /\ stream[R] \in Pieces /\ got[R] \in Seq(Nat)
      /\ Sender(R) = "client" /\ Receiver(R) = "server"
  BY DirsAre DEF Typed, DocumentsTyped, Sender, Receiver
<1>1. ASSUME UNCHANGED <<stream[R], chunks[R]>> PROVE Requested' = Requested
  BY <1>1 DEF Requested
<1>2. ASSUME NEW doc, sent'[R] = Append(s, doc)
      PROVE  /\ Len(sent'[R]) = Len(s) + 1 /\ sent'[R][Len(s) + 1] = doc
             /\ \A m \in 1..Len(s) : sent'[R][m] = s[m]
  BY <1>0, <1>2
<1>3. CASE Rests(R)
  <2>1. Requested' = Requested /\ UNCHANGED <<got[R], deferred[R], sent[R]>>
    BY <1>1, <1>3 DEF Rests
  <2>. QED
    BY <2>1 DEF Lined, Complete, LastRequest
<1>4. CASE SendsNow(R)
  <2>0. PICK doc \in Documents(R) : \E k \in 1..doc.size :
          /\ Sends(R, doc) /\ deferred[R] = <<>> /\ UNCHANGED deferred[R]
          /\ stream'[R] = stream[R] \o SubSeq(Bytes(Len(s) + 1, doc.size), 1, k)
    BY <1>4 DEF SendsNow
  <2>1. PICK k \in 1..doc.size :
          /\ Sends(R, doc) /\ deferred[R] = <<>> /\ UNCHANGED deferred[R]
          /\ stream'[R] = stream[R] \o SubSeq(Bytes(Len(s) + 1, doc.size), 1, k)
    BY <2>0
  <2>. DEFINE n == Len(s) + 1  piece == SubSeq(Bytes(n, doc.size), 1, k)
  <2>2. doc.size \in Nat /\ n \in Nat
    <3>1. doc.size \in Sizes
      BY DEF Documents
    <3>2. doc.size \in Nat
      BY <3>1, SizesAreNat
    <3>3. n \in Nat
      BY <1>0
    <3>. QED
      BY <3>2, <3>3
  <2>3. piece \in Pieces /\ Fragment(piece, n, doc.size)
    BY <2>2, FragmentIs
  <2>4. /\ sent'[R] = Append(s, doc) /\ UNCHANGED <<chunks[R], got[R]>>
        /\ stream'[R] = stream[R] \o piece
    BY <2>1 DEF Sends
  <2>. HIDE DEF piece
  <2>5. Requested' = Requested \o piece
    BY <2>3, <2>4, StreamGrows
  <2>6. Len(sent'[R]) = n /\ sent'[R][n].size = doc.size /\ \A m \in 1..Len(s) : sent'[R][m] = s[m]
    BY <1>2, <2>4
  <2>7. LastRequest = Len(s) /\ LastRequest' = LastRequest + 1
    BY <1>0, <2>1, <2>2, <2>6 DEF LastRequest
  <2>8. Queued(deferred'[R], LastRequest + 1)
    BY <2>1 DEF Queued
  <2>9. Fragment(piece, LastRequest + 1, sent'[R][LastRequest + 1].size)
    BY <2>3, <2>6, <2>7
  <2>10. Complete
    BY <1>0, <1>4 DEF SendsNow
  <2>. QED
    BY <2>3, <2>4, <2>5, <2>6, <2>7, <2>8, <2>9, <2>10, LineContinues
<1>5. CASE Defers(R)
  <2>1. PICK doc \in Documents(R) :
          /\ Sends(R, doc) /\ UNCHANGED stream[R]
          /\ deferred'[R] = Append(df, Len(s) + 1)
    BY <1>5 DEF Defers
  <2>2. /\ sent'[R] = Append(s, doc) /\ UNCHANGED got[R] /\ Requested' = Requested
    BY <1>1, <2>1 DEF Sends
  <2>3. Len(sent'[R]) = Len(s) + 1 /\ \A m \in 1..Len(s) : sent'[R][m] = s[m]
    BY <1>2, <2>2
  <2>4. /\ Len(deferred'[R]) = Len(df) + 1 /\ deferred'[R][Len(df) + 1] = Len(s) + 1
        /\ \A i \in 1..Len(df) : deferred'[R][i] = df[i]
    BY <1>0, <2>1
  <2>5. LastRequest' = LastRequest /\ LastRequest + (Len(df) + 1) = Len(s) + 1
    <3>. DEFINE i == Len(s)  j == Len(df)
    <3>1. LastRequest = i - j /\ LastRequest' = (i + 1) - (j + 1)
      BY <2>3, <2>4 DEF LastRequest
    <3>2. i \in Nat /\ j \in Nat
      BY <1>0
    <3>. HIDE DEF i, j
    <3>3. (i + 1) - (j + 1) = i - j /\ (i - j) + (j + 1) = i + 1
      BY <3>2
    <3>. QED
      BY <3>1, <3>3 DEF i, j
  <2>6. Complete
    BY <1>0, <1>5 DEF Defers
  <2>7. Lined'
    <3>1. Owned(Requested, Len(s)) /\ Line(Requested, s, Len(got[R]))
      BY RequestedIs DEF Lined
    <3>. HIDE DEF s
    <3>2. Line(Requested, sent'[R], Len(got[R]))
      BY <2>3, <3>1, LineKept
    <3>. QED
      BY <2>2, <3>2 DEF Lined
  <2>8. Queued(deferred'[R], LastRequest)
    <3>. SUFFICES ASSUME NEW i \in 1..(Len(df) + 1) PROVE deferred'[R][i] = LastRequest + i
      BY <2>4 DEF Queued
    <3>1. CASE i = Len(df) + 1
      BY <2>4, <2>5, <3>1
    <3>2. CASE i # Len(df) + 1
      <4>1. i \in 1..Len(df)
        <5>. DEFINE l == Len(df)
        <5>1. l \in Nat /\ i \in 1..(l + 1) /\ i # l + 1
          BY <1>0, <3>2
        <5>. HIDE DEF l
        <5>2. i \in 1..l
          BY <5>1
        <5>. QED
          BY <5>2 DEF l
      <4>2. Queued(df, LastRequest)
        BY <2>6 DEF Complete
      <4>. HIDE DEF df
      <4>3. deferred'[R][i] = df[i] /\ df[i] = LastRequest + i
        BY <2>4, <4>1, <4>2 DEF Queued
      <4>. QED
        BY <4>3
    <3>. QED
      BY <3>1, <3>2
  <2>9. Complete'
    BY <2>2, <2>5, <2>6, <2>8 DEF Complete
  <2>. QED
    BY <2>7, <2>9
<1>6. CASE Flushes(R)
  <2>. DEFINE n == Head(df)  size == s[n].size
  <2>1. /\ df # <<>> /\ deferred'[R] = Tail(df)
        /\ UNCHANGED <<chunks[R], got[R], sent[R]>>
    BY <1>6 DEF Flushes
  <2>2. Complete
    BY <1>0, <1>6 DEF Flushes
  <2>3. /\ Len(df) > 0 /\ n = df[1] /\ 1 \in 1..Len(df) /\ Len(Tail(df)) = Len(df) - 1
        /\ \A i \in 1..(Len(df) - 1) : Tail(df)[i] = df[i + 1] /\ i + 1 \in 1..Len(df)
    BY <1>0, <2>1
  <2>4. n = LastRequest + 1 /\ n \in 1..Len(s)
    <3>1. \A i \in 1..Len(df) : df[i] \in 1..Len(s) /\ df[i] = LastRequest + i
      BY <1>0, <2>2 DEF AllOwned, Complete, Queued
    <3>. QED
      BY <2>3, <3>1
  <2>5. size \in Nat /\ n \in Nat
    <3>. HIDE DEF n
    <3>1. size \in Sizes
      BY <1>0, <2>4, DocumentsAre
    <3>2. size \in Nat
      BY <3>1, SizesAreNat
    <3>3. n \in Nat
      BY <1>0, <2>4
    <3>. QED
      BY <3>2, <3>3
  <2>6. PICK k \in 1..size, bytes \in {Bytes(n, size), Spoilt(n, size)} :
            stream'[R] = stream[R] \o SubSeq(bytes, 1, k)
    BY <1>6 DEF Flushes
  <2>. DEFINE piece == SubSeq(bytes, 1, k)
  <2>. HIDE DEF n, size
  <2>7. piece \in Pieces /\ Fragment(piece, n, size)
    BY <2>5, FragmentIs
  <2>. HIDE DEF piece
  <2>8. Requested' = Requested \o piece
    BY <2>1, <2>6, <2>7, StreamGrows DEF piece
  <2>9. LastRequest' = LastRequest + 1
    <3>. DEFINE i == Len(s)  j == Len(df)
    <3>1. LastRequest = i - j /\ LastRequest' = i - (j - 1)
      BY <2>1, <2>3 DEF LastRequest
    <3>2. i \in Nat /\ j \in Nat
      BY <1>0
    <3>. HIDE DEF i, j
    <3>3. i - (j - 1) = (i - j) + 1
      BY <3>2
    <3>. QED
      BY <3>1, <3>3
  <2>10. Queued(deferred'[R], LastRequest + 1)
    <3>. SUFFICES ASSUME NEW i \in 1..(Len(df) - 1) PROVE Tail(df)[i] = (LastRequest + 1) + i
      BY <2>1, <2>3 DEF Queued
    <3>1. df[i + 1] = LastRequest + (i + 1)
      BY <2>2, <2>3 DEF Complete, Queued
    <3>2. LastRequest \in Int
      BY <1>0 DEF LastRequest
    <3>. QED
      BY <2>3, <3>1, <3>2
  <2>11. Fragment(piece, LastRequest + 1, sent'[R][LastRequest + 1].size)
    BY <2>1, <2>4, <2>7 DEF size
  <2>. QED
    BY <2>1, <2>2, <2>7, <2>8, <2>9, <2>10, <2>11, LineContinues
<1>7. CASE Aborts(R)
  <2>1. Requested' = Requested /\ UNCHANGED <<got[R], sent[R]>> /\ ~(Up("client"))'
    BY <1>0, <1>1, <1>7 DEF Aborts
  <2>. QED
    BY <2>1 DEF Lined
<1>8. CASE Reads(R)
  <2>1. PICK k \in 1..Len(stream[R]) :
          /\ chunks'[R] = chunks[R] \cup {SubSeq(stream[R], 1, k)}
          /\ stream'[R] = SubSeq(stream[R], k + 1, Len(stream[R]))
    BY <1>8 DEF Reads
  <2>2. UNCHANGED <<got[R], deferred[R], sent[R]>> /\ listening[R] > 0
    BY <1>8 DEF Reads
  <2>3. chunks[R] = {} /\ Requested = stream[R]
    BY <2>2, RequestedIs
  <2>4. Requested' = SubSeq(stream[R], 1, k) \o SubSeq(stream[R], k + 1, Len(stream[R]))
    <3>1. chunks'[R] = {SubSeq(stream[R], 1, k)}
      BY <2>1, <2>3
    <3>. QED
      BY <2>1, <3>1, WholeIs DEF Requested
  <2>5. Requested' = Requested
    BY <1>0, <2>3, <2>4, CutAndJoined
  <2>. QED
    BY <2>2, <2>5 DEF Lined, Complete, LastRequest
<1>9. CASE Takes(R)
  <2>1. PICK c \in chunks[R] :
          /\ UNCHANGED <<stream[R], deferred[R], sent[R]>>
          /\ chunks'[R] = chunks[R] \ {c}
          /\ Parses(R, c) /\ got'[R] = Append(got[R], c[1][1])
    BY <1>0, <1>9 DEF Takes
  <2>2. chunks[R] = {c} /\ c \in Pieces /\ Requested = c \o stream[R]
    BY <2>1, RequestedIs
  <2>3. PICK n \in 1..Len(s) : c = Bytes(n, s[n].size) /\ s[n].size \in Nat \ {0}
    BY <1>0, <2>1, ParsedIsWhole
  <2>4. n \in Nat /\ Len(got[R]) \in Nat /\ Len(got'[R]) = Len(got[R]) + 1
    BY <1>0, <2>1
  <2>5. Requested' = stream[R]
    <3>1. chunks'[R] = {}
      BY <2>1, <2>2
    <3>. QED
      BY <2>1, <3>1, WholeIs DEF Requested
  <2>. HIDE DEF s
  <2>6. /\ Line(stream[R], s, Len(got[R]) + 1)
        /\ \A hi : Ends(c \o stream[R], Len(got[R]), hi) => Ends(stream[R], Len(got[R]) + 1, hi)
    <3>1. Line(c \o stream[R], s, Len(got[R]))
      BY <2>2 DEF Lined, s
    <3>. QED
      BY <1>0, <2>2, <2>3, <2>4, <3>1, LineTakes
  <2>7. Lined'
    BY <2>1, <2>4, <2>5, <2>6 DEF Lined, s
  <2>8. Complete => Complete'
    <3>1. LastRequest' = LastRequest
      BY <2>1 DEF LastRequest
    <3>. QED
      BY <2>1, <2>2, <2>4, <2>5, <2>6, <3>1 DEF Complete
  <2>. QED
    BY <2>7, <2>8
<1>. QED
  BY <1>3, <1>4, <1>5, <1>6, <1>7, <1>8, <1>9 DEF Moves

-----------------------------------------------------------------------------
(* The connection implements the two channels.                             *)

Delivery == Typed /\ AllOwned /\ InOnePlace /\ InOrder

LEMMA DeliveryInit == Init => Delivery
<1>. SUFFICES ASSUME Init PROVE Delivery
  OBVIOUS
<1>1. Typed /\ AllOwned
  BY TypedInit
<1>2. Len(<<>>) = 0 /\ 1..0 = {}
  OBVIOUS
<1>3. \A dir \in Dirs : /\ stream[dir] = <<>> /\ deferred[dir] = <<>> /\ chunks[dir] = {}
                        /\ got[dir] = <<>> /\ sent[dir] = <<>> /\ finished[dir] = 0
                        /\ listening[dir] = 1
  BY DEF Init
<1>4. InOnePlace
  BY <1>2, <1>3 DEF InOnePlace, OnePlace, In, Nowhere
<1>5. Chain
  BY <1>2, <1>3, DirsAre DEF Chain
<1>6. Requested = <<>> /\ LastRequest = 0
  <2>1. Requested = Whole(<<>>, {})
    BY <1>3, DirsAre DEF Requested
  <2>2. Len(sent["requests"]) = 0 /\ Len(deferred["requests"]) = 0
    BY <1>2, <1>3, DirsAre
  <2>3. Whole(<<>>, {}) = <<>>
    BY DEF Whole
  <2>4. LastRequest = 0
    BY <2>2 DEF LastRequest
  <2>. QED
    BY <2>1, <2>3, <2>4
<1>7. Lined /\ Complete
  <2>1. Len(got["requests"]) = 0 /\ Len(deferred["requests"]) = 0
    BY <1>2, <1>3, DirsAre
  <2>2. Lined
    BY <1>2, <1>6 DEF Lined, Line
  <2>3. Complete
    BY <1>2, <1>6, <2>1 DEF Complete, Ends, Queued
  <2>. QED
    BY <2>2, <2>3
<1>. QED
  BY <1>1, <1>4, <1>5, <1>7 DEF Delivery, InOrder

LEMMA DeliveryStep ==
  ASSUME Delivery, [Next]_vars
  PROVE  Delivery'
<1>1. Typed' /\ AllOwned' /\ \A d \in Dirs : Moves(d)
  BY EveryStepMoves, OwnedStep DEF Delivery
<1>2. InOnePlace'
  <2>1. \A d \in Dirs : OnePlace(stream'[d], deferred'[d], chunks'[d], got'[d], Len(sent'[d]))
    BY <1>1, PlaceStep DEF Delivery
  <2>. QED
    BY <2>1 DEF InOnePlace
<1>3. ASSUME (Up("server"))' PROVE (Chain /\ Lined /\ (Up("client") => Complete))'
  <2>1. Up("server") /\ ((Up("client"))' => Up("client"))
    BY <1>3, DownGrows
  <2>2. Chain /\ Lined /\ (Up("client") => Complete)
    BY <2>1 DEF Delivery, InOrder
  <2>3. Chain'
    BY <1>3, <2>2, ChainStep DEF Delivery
  <2>4. (Lined /\ (Up("client") => Complete))'
    BY <1>1, <1>3, <2>1, <2>2, DirsAre, LineStep DEF Delivery
  <2>. QED
    BY <2>3, <2>4
<1>4. InOrder'
  BY <1>3 DEF InOrder
<1>. QED
  BY <1>1, <1>2, <1>4 DEF Delivery

\* What a step may do to the documents sent and dispatched in a direction.
LEMMA StepDelivers ==
  ASSUME Delivery, [Next]_vars, NEW d \in Dirs
  PROVE  \/ Len(sent'[d]) = Len(sent[d]) + 1 /\ UNCHANGED got[d]
         \/ UNCHANGED <<sent[d], got[d]>>
         \/ \E n \in 1..Len(sent[d]) :
               /\ ~In(got[d], n) /\ got'[d] = Append(got[d], n) /\ UNCHANGED sent[d]
               /\ d = "requests" => n = Len(got[d]) + 1
<1>0. Typed /\ AllOwned /\ InOnePlace /\ InOrder /\ Moves(d)
  BY EveryStepMoves DEF Delivery
<1>1. sent[d] \in Seq(Documents(d)) /\ got[d] \in Seq(Nat) /\ Len(sent[d]) \in Nat
  BY <1>0 DEF Typed, DocumentsTyped
<1>2. CASE SendsNow(d) \/ Defers(d)
  <2>1. PICK doc : Sends(d, doc)
    BY <1>2 DEF SendsNow, Defers
  <2>. QED
    BY <1>1, <2>1 DEF Sends
<1>3. CASE Rests(d) \/ Flushes(d) \/ Aborts(d) \/ Reads(d)
  BY <1>3 DEF Rests, Flushes, Aborts, Reads
<1>4. CASE Takes(d)
  <2>1. PICK c \in chunks[d] :
          /\ Up(Receiver(d)) /\ UNCHANGED sent[d]
          /\ \/ Parses(d, c) /\ got'[d] = Append(got[d], c[1][1])
             \/ UNCHANGED got[d]
    BY <1>4 DEF Takes
  <2>2. CASE UNCHANGED got[d]
    BY <2>1, <2>2
  <2>3. CASE Parses(d, c) /\ got'[d] = Append(got[d], c[1][1])
    <3>1. PICK n \in 1..Len(sent[d]) :
             /\ n = c[1][1] /\ c = Bytes(n, sent[d][n].size)
             /\ sent[d][n].size \in Nat \ {0} /\ In(c, First(n))
      BY <1>0, <2>3, ParsedIsWhole
    <3>2. ~In(got[d], n)
      <4>1. OnePlace(stream[d], deferred[d], chunks[d], got[d], Len(sent[d]))
        BY <1>0 DEF InOnePlace
      <4>. QED
        BY <1>1, <3>1, <4>1, PlaceDispatches
    <3>3. ASSUME d = "requests" PROVE n = Len(got[d]) + 1
      <4>1. Up("server")
        BY <2>1, <3>3 DEF Receiver, Sender, Other
      <4>2. Chain /\ Line(Requested, sent[d], Len(got[d]))
        BY <1>0, <3>3, <4>1 DEF InOrder, Lined
      <4>3. c \in Pieces /\ Requested = c \o stream[d] /\ stream[d] \in Pieces
        BY <1>0, <3>3, <4>2, RequestedIs DEF Typed
      <4>4. n \in Nat /\ Len(got[d]) \in Nat
        BY <1>1
      <4>. DEFINE s == sent[d]  b == stream[d]  lo == Len(got[d])
      <4>5. /\ b \in Pieces /\ lo \in Nat /\ s[n].size \in Nat \ {0} /\ c = Bytes(n, s[n].size)
            /\ Line(c \o b, s, lo)
        BY <3>1, <4>2, <4>3, <4>4
      <4>. HIDE DEF s, b, lo
      <4>6. n = lo + 1
        BY <4>3, <4>4, <4>5, LineTakes
      <4>. QED
        BY <4>6 DEF lo
    <3>. QED
      BY <2>1, <2>3, <3>1, <3>2, <3>3
  <2>. QED
    BY <2>1, <2>2, <2>3
<1>. QED
  BY <1>0, <1>2, <1>3, <1>4 DEF Moves

\* Whole documents only, each once, and to the server in order (Receive,
\* resize, parse): the byte stream implements both channels.
THEOREM ChannelsAreImplemented == Spec => ImplementsChannels
<1>1. Init => Requests!Init /\ Replies!Init
  <2>1. Len(<<>>) = 0
    OBVIOUS
  <2>. QED
    BY <2>1, DirsAre DEF Init, Requests!Init, Replies!Init
<1>2. Delivery /\ [Next]_vars => /\ [Requests!Next]_<<Len(sent["requests"]), got["requests"]>>
                                 /\ [Replies!Next]_<<Len(sent["replies"]), got["replies"]>>
  <2>. SUFFICES ASSUME Delivery, [Next]_vars
                PROVE  /\ [Requests!Next]_<<Len(sent["requests"]), got["requests"]>>
                       /\ [Replies!Next]_<<Len(sent["replies"]), got["replies"]>>
    OBVIOUS
  <2>1. [Requests!Next]_<<Len(sent["requests"]), got["requests"]>>
    BY StepDelivers, DirsAre
       DEF Requests!Next, Requests!Send, Requests!Deliver, Requests!Contains, In
  <2>2. [Replies!Next]_<<Len(sent["replies"]), got["replies"]>>
    BY StepDelivers, DirsAre
       DEF Replies!Next, Replies!Send, Replies!Deliver, Replies!Contains, In
  <2>. QED
    BY <2>1, <2>2
<1>3. Delivery /\ [Next]_vars => Delivery'
  BY DeliveryStep
<1>4. Spec => []Delivery
  BY <1>3, DeliveryInit, PTL DEF Spec
<1>5. Spec => Requests!Spec /\ Replies!Spec
  BY <1>1, <1>2, <1>4, PTL DEF Spec, Requests!Spec, Replies!Spec
<1>. QED
  BY <1>5 DEF ImplementsChannels

-----------------------------------------------------------------------------
(* One call at a time over an undisturbed connection.                      *)

\* What disturbs a connection is not undone.
LEMMA StaysUndisturbed ==
  ASSUME Typed, AllOwned, [Next]_vars, Undisturbed'
  PROVE  Undisturbed
<1>1. splits \in Nat /\ cuts \in Nat /\ defers \in Nat /\ splits' = 0 /\ cuts' = 0 /\ defers' = 0
      /\ ~pipelined'
  BY DEF Typed, Undisturbed, Faultless
<1>2. ASSUME NEW dir, NEW buf, NEW size, Send(dir, buf, size)
      PROVE  cuts = 0 /\ defers = 0
  BY <1>1, <1>2 DEF Send
<1>3. ASSUME NEW x, NEW size, SendRequest(x, size), UNCHANGED splits
      PROVE  Faultless /\ ~pipelined
  <2>1. ~pipelined /\ cuts = 0 /\ defers = 0
    BY <1>1, <1>2, <1>3 DEF SendRequest
  <2>. QED
    BY <1>1, <1>3, <2>1 DEF Faultless
<1>4. ASSUME NEW c, NEW size, Dispatch(c, size) PROVE Faultless /\ ~pipelined
  <2>1. cuts = 0 /\ defers = 0
    BY <1>1, <1>2, <1>4 DEF Dispatch
  <2>. QED
    BY <1>1, <1>4, <2>1 DEF Faultless, Dispatch
<1>5. ASSUME NEW dir, Receive(dir) PROVE Faultless /\ ~pipelined
  <2>1. (splits' = splits \/ splits' = splits + 1) /\ UNCHANGED <<cuts, defers, pipelined>>
    BY <1>5 DEF Receive
  <2>. QED
    BY <1>1, <2>1 DEF Faultless
<1>6. ASSUME UNCHANGED countVars PROVE Faultless /\ ~pipelined
  BY <1>1, <1>6 DEF Faultless, countVars
<1>7. Faultless /\ ~pipelined
  <2>1. ASSUME NEW x \in Calls, Resend(x) \/ \E size \in Sizes : Call(x, size)
        PROVE  Faultless /\ ~pipelined
    BY <1>3, <2>1 DEF Resend, Call
  <2>2. ASSUME NEW c, GotPdu(c) PROVE Faultless /\ ~pipelined
    BY <1>6, <2>2 DEF GotPdu
  <2>3. ASSUME NEW dir, Flush(dir) \/ SendFinished(dir) PROVE Faultless /\ ~pipelined
    BY <1>6, <2>3 DEF Flush, SendFinished
  <2>4. CASE UNCHANGED vars
    BY <1>6, <2>4 DEF vars
  <2>. QED
    BY <1>4, <1>5, <2>1, <2>2, <2>3, <2>4 DEF Next, Client, Server, Transport
<1>8. ASSUME NEW d \in Dirs, NEW n \in 1..Len(sent[d])
      PROVE  sent[d][n].size <= DEFAULT_RPC_SZ
  <2>1. sent[d] \in Seq(Documents(d)) /\ Len(sent[d]) \in Nat
    BY DEF Typed, DocumentsTyped
  <2>2. UNCHANGED sent[d] \/ \E doc : sent'[d] = Append(sent[d], doc)
    BY EveryStepMoves DEF Moves, Rests, SendsNow, Defers, Flushes, Aborts, Reads, Takes, Sends
  <2>3. n \in 1..Len(sent'[d]) /\ sent'[d][n] = sent[d][n]
    <3>1. ASSUME NEW doc, sent'[d] = Append(sent[d], doc)
          PROVE  n \in 1..Len(sent'[d]) /\ sent'[d][n] = sent[d][n]
      BY <2>1, <3>1
    <3>. QED
      BY <2>2, <3>1
  <2>4. sent'[d][n].size <= DEFAULT_RPC_SZ
    BY <2>3 DEF Undisturbed
  <2>. QED
    BY <2>3, <2>4
<1>. QED
  BY <1>7, <1>8 DEF Undisturbed

\* Over an undisturbed connection Send puts the whole document on its way.
LEMMA SendsWhole ==
  ASSUME Typed, NEW dir \in Dirs, NEW buf, NEW size \in Sizes, Send(dir, buf, size),
         deferred[dir] = <<>>, stream[dir] = <<>>, Faultless, Faultless'
  PROVE  /\ stream'[dir] = (LastText(dir))' /\ UNCHANGED deferred
         /\ (LastIs(dir, buf))' /\ \A d \in Dirs \ {dir} : stream'[d] = stream[d]
<1>. DEFINE n == Len(sent[dir]) + 1  doc == [buf |-> buf, size |-> size]
<1>1. sent[dir] \in Seq(Documents(dir)) /\ Len(sent[dir]) \in Nat /\ DOMAIN sent = Dirs
  BY DEF Typed, DocumentsTyped
<1>2. sent'[dir] = Append(sent[dir], doc)
  BY <1>1 DEF Send
<1>3. Len(sent'[dir]) = n /\ sent'[dir][n] = doc /\ n \in Nat /\ n > 0
  BY <1>1, <1>2
<1>4. size \in Nat /\ size > 0
  BY SizesAreNat
<1>5. cuts = 0 /\ cuts' = 0 /\ defers = 0 /\ defers' = 0
  BY DEF Faultless
<1>6. PICK k \in 1..size :
        /\ Transmit(dir, Bytes(n, size), k)
        /\ cuts' = cuts + (IF k < size THEN 1 ELSE 0)
        /\ UNCHANGED <<deferred, defers>>
  BY <1>5 DEF Send
<1>7. k = size
  BY <1>4, <1>5, <1>6
<1>8. SubSeq(Bytes(n, size), 1, size) = Bytes(n, size)
  <2>1. Bytes(n, size) \in Seq(Nat \X Nat) /\ Len(Bytes(n, size)) = size
    BY <1>3, <1>4 DEF Bytes
  <2>. QED
    BY <2>1, SubSeqFull
<1>. HIDE DEF n
<1>9. stream' = [stream EXCEPT ![dir] = <<>> \o Bytes(n, size)]
  BY <1>6, <1>7, <1>8 DEF Transmit
<1>10. <<>> \o Bytes(n, size) = Bytes(n, size)
  <2>1. Bytes(n, size) \in Seq(Nat \X Nat)
    BY <1>3, <1>4 DEF Bytes
  <2>. QED
    BY <2>1, ConcatEmptySeq
<1>11. stream'[dir] = Bytes(n, size) /\ \A d \in Dirs \ {dir} : stream'[d] = stream[d]
  BY <1>9, <1>10 DEF Typed
<1>12. (LastText(dir))' = Bytes(n, size)
  BY <1>3 DEF LastText, Text
<1>13. (LastIs(dir, buf))'
  <2>1. sent'[dir] # <<>>
    BY <1>1, <1>2
  <2>. QED
    BY <1>3, <2>1 DEF LastIs
<1>. QED
  BY <1>6, <1>11, <1>12, <1>13

\* The last document is one, and it fits the buffer.
LEMMA LastTextIs ==
  ASSUME Typed, NEW dir \in Dirs, sent[dir] # <<>>
  PROVE  /\ LastText(dir) \in Pieces /\ Parses(dir, LastText(dir))
         /\ LastText(dir)[1][1] = Len(sent[dir]) /\ LastText(dir) # <<>>
         /\ Undisturbed => Len(LastText(dir)) <= DEFAULT_RPC_SZ
<1>. DEFINE n == Len(sent[dir])  size == sent[dir][n].size
<1>1. n \in 1..Len(sent[dir]) /\ n \in Nat
  BY DEF Typed, DocumentsTyped
<1>2. size \in Sizes
  BY <1>1, DocumentsAre
<1>3. size \in Nat /\ size > 0
  BY <1>2, SizesAreNat
<1>. HIDE DEF n, size
<1>4. LastText(dir) = Bytes(n, size)
  BY DEF LastText, Text, n, size
<1>5. /\ Bytes(n, size) \in Pieces /\ Len(Bytes(n, size)) = size
      /\ Bytes(n, size)[1] = <<n, 1>>
  BY <1>1, <1>3 DEF Bytes, Pieces
<1>6. LastText(dir) # <<>> /\ LastText(dir)[1][1] = n
  BY <1>3, <1>4, <1>5
<1>7. Parses(dir, LastText(dir))
  BY <1>6 DEF Parses, LastText, n
<1>8. Undisturbed => size <= DEFAULT_RPC_SZ
  BY <1>1 DEF Undisturbed, size, n
<1>. QED
  BY <1>4, <1>5, <1>6, <1>7, <1>8 DEF n

\* A call is made.
LEMMA CalmCall ==
  ASSUME Typed, Calm, Undisturbed, Undisturbed', NEW x \in Calls, NEW size \in Sizes, Call(x, size)
  PROVE  Calm'
<1>. DEFINE R == "requests"  P == "replies"
<1>0. R \in Dirs /\ P \in Dirs \ {R} /\ Other(R) = P
  BY DirsAre
<1>1. \A y \in Calls : call[y].pc # "sent"
  <2>1. pipelined' = (pipelined \/ \E y \in Calls : call[y].pc = "sent")
    BY DEF Call, SendRequest
  <2>. QED
    BY <2>1 DEF Undisturbed
<1>2. /\ down = {} /\ \A dir \in Dirs : deferred[dir] = <<>> /\ stream[dir] = <<>> /\ chunks[dir] = {}
  BY <1>1 DEF Calm, Waiting, Empty
<1>3. Send(R, RequestOf(x), size)
  BY DEF Call, SendRequest, RequestOf
<1>4. /\ stream'[R] = (LastText(R))' /\ UNCHANGED deferred
      /\ (LastIs(R, RequestOf(x)))' /\ stream'[P] = stream[P]
  BY <1>0, <1>2, <1>3, SendsWhole DEF Undisturbed
<1>5. UNCHANGED <<chunks, down>> /\ call' = [call EXCEPT ![x].pc = "sent"]
  BY DEF Call
<1>6. (Waiting(x))'
  <2>1. call'[x].pc = "sent" /\ \A y \in Calls \ {x} : call'[y] = call[y]
    BY <1>5 DEF Typed
  <2>. QED
    BY <1>1, <2>1 DEF Waiting
<1>7. (OnItsWay(R))'
  BY <1>0, <1>2, <1>4, <1>5 DEF OnItsWay, Empty
<1>. QED
  BY <1>2, <1>4, <1>5, <1>6, <1>7 DEF Calm

\* What is on its way.
LEMMA OnTheWay ==
  ASSUME Typed, Calm, NEW dir \in Dirs, stream[dir] # <<>> \/ chunks[dir] # {}
  PROVE  \E x \in Calls :
             /\ Waiting(x) /\ OnItsWay(dir) /\ sent[dir] # <<>>
             /\ LastIs(dir, IF dir = "requests" THEN RequestOf(x) ELSE ReplyTo(x))
<1>1. ~Empty(dir)
  BY DEF Empty
<1>2. PICK x \in Calls :
        /\ Waiting(x)
        /\ \/ LastIs("requests", RequestOf(x)) /\ OnItsWay("requests")
           \/ LastIs("replies", ReplyTo(x)) /\ OnItsWay("replies")
  BY <1>1 DEF Calm
<1>3. OnItsWay("requests") => dir = "requests"
  BY <1>1, DirsAre DEF OnItsWay
<1>4. OnItsWay("replies") => dir = "replies"
  BY <1>1, DirsAre DEF OnItsWay
<1>. QED
  BY <1>2, <1>3, <1>4, DirsAre DEF LastIs

\* A document is read.
LEMMA CalmReceive ==
  ASSUME Typed, Calm, Undisturbed, Undisturbed', NEW dir \in Dirs, Receive(dir)
  PROVE  Calm'
<1>. DEFINE all == Len(stream[dir])  text == LastText(dir)
            room == IF all < DEFAULT_RPC_SZ THEN all ELSE DEFAULT_RPC_SZ
<1>1. PICK k \in 1..room :
        /\ k = room \/ splits' = splits + 1
        /\ chunks' = [chunks EXCEPT ![dir] = chunks[dir] \cup {SubSeq(stream[dir], 1, k)}]
        /\ stream' = [stream EXCEPT ![dir] = SubSeq(stream[dir], k + 1, all)]
  BY DEF Receive
<1>2. UNCHANGED <<call, sent, deferred, down>>
  BY DEF Receive
<1>3. stream[dir] \in Seq(Nat \X Nat) /\ all \in Nat /\ DEFAULT_RPC_SZ \in Nat
  BY BufferAssumption DEF Typed, Pieces
<1>4. k = room
  <2>1. splits = 0 /\ splits' = 0
    BY DEF Undisturbed, Faultless
  <2>. QED
    BY <1>1, <2>1
<1>5. all > 0 /\ stream[dir] # <<>>
  <2>1. all > 0
    BY <1>3
  <2>. QED
    BY <2>1
<1>6. PICK x \in Calls :
        /\ Waiting(x) /\ OnItsWay(dir) /\ sent[dir] # <<>>
        /\ LastIs(dir, IF dir = "requests" THEN RequestOf(x) ELSE ReplyTo(x))
  BY <1>5, OnTheWay
<1>7. stream[dir] = text /\ chunks[dir] = {} /\ Empty(Other(dir))
  BY <1>5, <1>6 DEF OnItsWay
<1>8. all <= DEFAULT_RPC_SZ
  BY <1>6, <1>7, LastTextIs
<1>9. k = all
  BY <1>3, <1>4, <1>8
<1>10. SubSeq(stream[dir], 1, all) = text /\ SubSeq(stream[dir], all + 1, all) = <<>>
  <2>1. SubSeq(stream[dir], 1, all) = stream[dir]
    BY <1>3, SubSeqFull
  <2>2. SubSeq(stream[dir], all + 1, all) = <<>>
    BY <1>3, SubSeqEmpty
  <2>. QED
    BY <1>7, <2>1, <2>2
<1>. HIDE DEF all, text, room
<1>11. /\ chunks'[dir] = {text} /\ stream'[dir] = <<>>
       /\ chunks'[Other(dir)] = {} /\ stream'[Other(dir)] = <<>>
  <2>1. Other(dir) \in Dirs /\ Other(dir) # dir
    BY DirsAre
  <2>. QED
    BY <1>1, <1>7, <1>9, <1>10, <2>1 DEF Typed, Empty
<1>12. (LastText(dir))' = text
  BY <1>2 DEF LastText, Text, text
<1>13. (OnItsWay(dir))'
  BY <1>11, <1>12 DEF OnItsWay, Empty
<1>14. (Waiting(x))' /\ (LastIs(dir, IF dir = "requests" THEN RequestOf(x) ELSE ReplyTo(x)))'
  BY <1>2, <1>6 DEF Waiting, LastIs
<1>15. down' = {} /\ \A d \in Dirs : deferred'[d] = <<>>
  BY <1>2 DEF Calm
<1>16. CASE dir = "requests"
  BY <1>13, <1>14, <1>15, <1>16 DEF Calm
<1>17. CASE dir = "replies"
  BY <1>13, <1>14, <1>15, <1>17, DirsAre DEF Calm
<1>. QED
  BY <1>16, <1>17, DirsAre

\* The reply is taken.
LEMMA CalmGotPdu ==
  ASSUME Typed, AllOwned, Calm, NEW c \in chunks["replies"], GotPdu(c)
  PROVE  Calm'
<1>. DEFINE R == "requests"  P == "replies"
<1>0. R \in Dirs /\ P \in Dirs /\ R # P /\ Other(P) = R
  BY DirsAre
<1>1. PICK x \in Calls :
        Waiting(x) /\ OnItsWay(P) /\ sent[P] # <<>> /\ LastIs(P, ReplyTo(x))
  BY <1>0, OnTheWay
<1>2. chunks[P] = {LastText(P)} /\ stream[P] = <<>> /\ Empty(R) /\ c = LastText(P)
  BY <1>0, <1>1 DEF OnItsWay
<1>3. Parses(P, c) /\ c[1][1] = Len(sent[P])
  BY <1>0, <1>1, <1>2, LastTextIs
<1>4. sent[P][c[1][1]].buf = ReplyTo(x)
  BY <1>1, <1>3 DEF LastIs
<1>5. UNCHANGED down /\ call' = [call EXCEPT ![x] = [pc |-> "answered", result |-> Result(x)]]
  <2>. DEFINE u == Unmarshall(ReplyTo(x))
  <2>1. Answer(u)
    BY <1>3, <1>4 DEF GotPdu
  <2>2. Holds(u) /\ Value(u) = Result(x) /\ u.json.header.xid = x
    BY ReplyIs
  <2>. HIDE DEF u
  <2>. QED
    BY <1>1, <2>1, <2>2 DEF Answer, Waiting
<1>6. \A y \in Calls : call'[y].pc # "sent"
  <2>1. call'[x].pc = "answered" /\ \A y \in Calls \ {x} : call'[y] = call[y]
    BY <1>5 DEF Typed
  <2>. QED
    BY <1>1, <2>1 DEF Waiting
<1>7. chunks' = [chunks EXCEPT ![P] = chunks[P] \ {c}] /\ UNCHANGED <<stream, deferred>>
  BY DEF GotPdu, Handle, netVars
<1>8. chunks'[P] = {} /\ chunks'[R] = {} /\ stream'[P] = <<>> /\ stream'[R] = <<>>
  BY <1>0, <1>2, <1>7 DEF Typed, Empty
<1>9. \A d \in Dirs : (Empty(d))'
  BY <1>8, DirsAre DEF Empty
<1>10. down' = {} /\ \A d \in Dirs : deferred'[d] = <<>>
  BY <1>5, <1>7 DEF Calm
<1>. QED
  BY <1>6, <1>9, <1>10 DEF Calm

\* The request is answered.
LEMMA CalmDispatch ==
  ASSUME Typed, AllOwned, Calm, Undisturbed, Undisturbed', NEW c \in chunks["requests"],
         NEW size \in Sizes, Dispatch(c, size)
  PROVE  Calm'
<1>. DEFINE R == "requests"  P == "replies"
<1>0. R \in Dirs /\ P \in Dirs /\ R # P /\ Other(R) = P /\ Other(P) = R /\ R \in Dirs \ {P}
  BY DirsAre
<1>1. PICK x \in Calls :
        Waiting(x) /\ OnItsWay(R) /\ sent[R] # <<>> /\ LastIs(R, RequestOf(x))
  BY <1>0, OnTheWay
<1>2. chunks[R] = {LastText(R)} /\ stream[R] = <<>> /\ Empty(P) /\ c = LastText(R)
  BY <1>0, <1>1 DEF OnItsWay
<1>3. Parses(R, c) /\ c[1][1] = Len(sent[R])
  BY <1>0, <1>1, <1>2, LastTextIs
<1>4. sent[R][c[1][1]].buf = RequestOf(x)
  BY <1>1, <1>3 DEF LastIs
<1>5. Send(P, ReplyTo(x), size) /\ UNCHANGED <<down, call>>
  BY <1>3, <1>4, RequestIs DEF Dispatch
<1>6. down = {} /\ \A d \in Dirs : deferred[d] = <<>>
  BY DEF Calm
<1>7. /\ stream'[P] = (LastText(P))' /\ UNCHANGED deferred
      /\ (LastIs(P, ReplyTo(x)))' /\ stream'[R] = stream[R]
  BY <1>0, <1>2, <1>5, <1>6, SendsWhole DEF Undisturbed, Empty
<1>8. chunks' = [chunks EXCEPT ![R] = chunks[R] \ {c}]
  BY DEF Dispatch, Handle
<1>9. chunks'[R] = {} /\ chunks'[P] = {} /\ stream'[R] = <<>>
  BY <1>0, <1>2, <1>7, <1>8 DEF Typed, Empty
<1>10. (OnItsWay(P))'
  BY <1>0, <1>7, <1>9 DEF OnItsWay, Empty
<1>11. (Waiting(x))'
  BY <1>1, <1>5 DEF Waiting
<1>12. down' = {} /\ \A d \in Dirs : deferred'[d] = <<>>
  BY <1>5, <1>6, <1>7
<1>. QED
  BY <1>7, <1>10, <1>11, <1>12 DEF Calm

LEMMA CalmStep ==
  ASSUME Typed, AllOwned, StaysCalm, [Next]_vars
  PROVE  StaysCalm'
<1>. SUFFICES ASSUME Undisturbed' PROVE Calm'
  BY DEF StaysCalm
<1>1. Undisturbed /\ Calm
  BY StaysUndisturbed DEF StaysCalm
<1>2. ASSUME NEW x \in Calls PROVE ~Resend(x)
  BY DEF Resend, SendRequest, Undisturbed
<1>3. ASSUME NEW dir \in Dirs PROVE ~Flush(dir)
  BY <1>1 DEF Flush, Calm
<1>4. ASSUME UNCHANGED <<call, netVars, chunks, down>> PROVE Calm'
  BY <1>1, <1>4 DEF netVars, Calm, Waiting, LastIs, OnItsWay, Empty, LastText, Text
<1>5. ASSUME NEW dir \in Dirs, SendFinished(dir) PROVE Calm'
  BY <1>1, <1>5 DEF SendFinished, Calm, Waiting, LastIs, OnItsWay, Empty, LastText, Text
<1>6. CASE UNCHANGED vars
  BY <1>4, <1>6 DEF vars
<1>. QED
  BY <1>1, <1>2, <1>3, <1>5, <1>6, CalmCall, CalmReceive, CalmGotPdu, CalmDispatch
     DEF Next, Client, Server, Transport

\* With one call at a time, documents that fit and a transport that passes them
\* on in one piece, no io thread throws (TakeBuf, >>).
THEOREM OneCallIsSafe == Spec => []OneAtATimeIsSafe
<1>1. Init => Typed /\ AllOwned /\ StaysCalm
  <2>. SUFFICES ASSUME Init PROVE Typed /\ AllOwned /\ Calm
    BY DEF StaysCalm
  <2>1. \A dir \in Dirs : Empty(dir) /\ deferred[dir] = <<>>
    BY DEF Init, Empty
  <2>2. Calm
    BY <2>1 DEF Init, Calm
  <2>. QED
    BY <2>2, TypedInit
<1>2. Typed /\ AllOwned /\ StaysCalm /\ [Next]_vars => (Typed /\ AllOwned /\ StaysCalm)'
  BY EveryStepMoves, OwnedStep, CalmStep
<1>3. StaysCalm => OneAtATimeIsSafe
  BY DEF StaysCalm, Calm, OneAtATimeIsSafe
<1>. QED
  BY <1>1, <1>2, <1>3, PTL DEF Spec
=============================================================================
