-------------------------------- MODULE Wire --------------------------------
(***************************************************************************)
(* Client and server over one TCP connection, byte by byte.  Send hands a  *)
(* view of a buffer to async_send, which transmits what the kernel takes,  *)
(* now or when the socket is writable again; Receive reads what is there,  *)
(* at most DEFAULT_RPC_SZ bytes, and whatever it read is parsed as one     *)
(* document.  There are no lengths or delimiters.  A read that is not      *)
(* exactly one document throws on an io thread and ends that process.      *)
(***************************************************************************)
EXTENDS Marshalling, FiniteSets, SequencesExt

CONSTANTS
    Calls,          \* xids
    Sizes,          \* sizes a document may have, in units of bytes
    DEFAULT_RPC_SZ,
    MaxFaults,      \* bound: the three kinds of faults below together
    MaxResends      \* bound: retransmissions

ASSUME SizesAssumption == Sizes \subseteq Nat \ {0}
ASSUME BufferAssumption == DEFAULT_RPC_SZ \in Nat \ {0}

VARIABLES
    call,           \* per xid: the call, and the result its callback was given
    sent,           \* per direction: every document handed to Send
    stream,         \* per direction: bytes <<document, position>> on their way
    deferred,       \* per direction: sends that wait for the socket
    finished,       \* per direction: completed sends whose handler is to run
    listening,      \* per direction: posted Receives
    chunks,         \* per direction: what Receives have read, handlers to run
    got,            \* history: documents dispatched, per direction
    down,           \* processes that ended
    splits,         \* faults: reads of less than there is room and data for
    cuts,           \* faults: sends of which only a part is transmitted
    defers,         \* faults: sends the kernel does not take at once
    resends,        \* retransmissions so far
    pipelined       \* history: a request was sent while another was unanswered

countVars == <<splits, cuts, defers, resends, pipelined>>
netVars == <<sent, stream, deferred, finished>>
vars == <<call, netVars, listening, chunks, got, down, countVars>>

Faultless == splits = 0 /\ cuts = 0 /\ defers = 0
FaultsLeft == splits + cuts + defers < MaxFaults

Dirs == {"requests", "replies"}
Other(dir) == IF dir = "requests" THEN "replies" ELSE "requests"
Sender(dir) == IF dir = "requests" THEN "client" ELSE "server"
Receiver(dir) == Sender(Other(dir))
Up(p) == p \notin down

Init ==
    /\ call = [x \in Calls |-> [pc |-> "none", result |-> 0]]
    /\ sent = [dir \in Dirs |-> <<>>] /\ stream = [dir \in Dirs |-> <<>>]
    /\ deferred = [dir \in Dirs |-> <<>>] /\ finished = [dir \in Dirs |-> 0]
    /\ listening = [dir \in Dirs |-> 1] /\ chunks = [dir \in Dirs |-> {}]
    /\ got = [dir \in Dirs |-> <<>>] /\ down = {}
    /\ splits = 0 /\ cuts = 0 /\ defers = 0 /\ resends = 0 /\ pipelined = FALSE

-----------------------------------------------------------------------------
(* Send and Receive. *)

Bytes(n, size) == [i \in 1..size |-> <<n, i>>]
Text(dir, n) == Bytes(n, sent[dir][n].size)

\* As many bytes, which are no part of any document.
Spoilt(n, size) == [i \in 1..size |-> <<n, 0>>]

\* Faulty: whatever follows the first document is ignored.
Parses_Faulty(dir, chunk) ==
    IsPrefix(Text(dir, chunk[1][1]), chunk)
\* json::parse accepts the bytes of one document and nothing else.
Parses(dir, chunk) == chunk = Text(dir, chunk[1][1])

\* The kernel takes the first k bytes; the caller never looks at the length
\* it is told.
Transmit(dir, bytes, k) ==
    /\ stream' = [stream EXCEPT ![dir] = @ \o SubSeq(bytes, 1, k)]
    /\ finished' = [finished EXCEPT ![dir] = @ + 1]

\* async_send tries at once, unless earlier sends are waiting.
Send(dir, buf, size) ==
    LET n == Len(sent[dir]) + 1 IN
    /\ sent' = [sent EXCEPT ![dir] = Append(@, [buf |-> buf, size |-> size])]
    /\ \/ \E k \in 1..size :
              /\ deferred[dir] = <<>>
              /\ k < size => FaultsLeft
              /\ Transmit(dir, Bytes(n, size), k)
              /\ cuts' = cuts + (IF k < size THEN 1 ELSE 0)
              /\ UNCHANGED <<deferred, defers>>
       \/ /\ deferred[dir] = <<>> => FaultsLeft
          /\ defers' = defers + (IF deferred[dir] = <<>> THEN 1 ELSE 0)
          /\ deferred' = [deferred EXCEPT ![dir] = Append(@, n)]
          /\ UNCHANGED <<stream, cuts, finished>>

\* A request is sent from the Caller, which lives until its call is answered;
\* a reply from the temporary string rep->Buf(), which is gone.
BufferAlive(dir, n) ==
    dir = "requests" /\ call[sent[dir][n].buf.header.xid].pc = "sent"

\* The socket is writable again, perhaps for a part only.  A buffer that is
\* gone is undefined: abort, the old bytes, or anything else.
Flush(dir) ==
    LET n == Head(deferred[dir])
        size == sent[dir][n].size
    IN  /\ Up(Sender(dir)) /\ deferred[dir] # <<>>
        /\ deferred' = [deferred EXCEPT ![dir] = Tail(@)]
        /\ \/ \E k \in 1..size, bytes \in {Bytes(n, size), Spoilt(n, size)} :
                  /\ bytes = Spoilt(n, size) => ~BufferAlive(dir, n)
                  /\ Transmit(dir, bytes, k)
                  /\ UNCHANGED down
           \/ /\ ~BufferAlive(dir, n) /\ down' = down \cup {Sender(dir)}
              /\ UNCHANGED <<stream, finished>>
        /\ UNCHANGED <<call, sent, listening, chunks, got, countVars>>

\* Faulty: the server has answered and listens no more.
SendFinished_Faulty(dir) ==
    /\ Up(Sender(dir)) /\ finished[dir] > 0
    /\ finished' = [finished EXCEPT ![dir] = @ - 1]
    /\ listening' = [listening EXCEPT !["replies"] = @ + 1]
    /\ UNCHANGED <<call, sent, stream, deferred, chunks, got, down, countVars>>

\* Both OnSendFinished, told OK, listen for a message of the other side.
SendFinished(dir) ==
    /\ Up(Sender(dir)) /\ finished[dir] > 0
    /\ finished' = [finished EXCEPT ![dir] = @ - 1]
    /\ listening' = [listening EXCEPT ![Other(dir)] = @ + 1]
    /\ UNCHANGED <<call, sent, stream, deferred, chunks, got, down, countVars>>

\* async_read_some: all there is and fits, or less.
Receive(dir) ==
    LET all == Len(stream[dir])
        room == IF all < DEFAULT_RPC_SZ THEN all ELSE DEFAULT_RPC_SZ
    IN  /\ Up(Receiver(dir)) /\ listening[dir] > 0
        /\ listening' = [listening EXCEPT ![dir] = @ - 1]
        /\ \E k \in 1..room :
               /\ \/ k = room /\ UNCHANGED splits
                  \/ k < room /\ FaultsLeft /\ splits' = splits + 1
               /\ chunks' = [chunks EXCEPT ![dir] = @ \cup {SubSeq(stream[dir], 1, k)}]
               /\ stream' = [stream EXCEPT ![dir] = SubSeq(@, k + 1, all)]
        /\ UNCHANGED <<call, sent, deferred, finished, got, down, cuts, defers,
                       resends, pipelined>>

\* A handler takes what was read; when it is no document the process ends.
Handle(dir, chunk) ==
    /\ Up(Receiver(dir)) /\ chunks' = [chunks EXCEPT ![dir] = @ \ {chunk}]
    /\ IF Parses(dir, chunk)
       THEN got' = [got EXCEPT ![dir] = Append(@, chunk[1][1])]
       ELSE down' = down \cup {Receiver(dir)} /\ UNCHANGED got

-----------------------------------------------------------------------------
(* The client. *)

\* Each call passes an argument of its own, named like the call.
SendRequest(x, size) ==
    /\ pipelined' = (pipelined \/ \E y \in Calls : call[y].pc = "sent")
    /\ Send("requests", Buf(PutHeader(Put(Marshall, x), RequestHeader(x))), size)

Call(x, size) ==
    /\ Up("client") /\ call[x].pc = "none"
    /\ call' = [call EXCEPT ![x].pc = "sent"]
    /\ SendRequest(x, size)
    /\ UNCHANGED <<listening, chunks, got, down, splits, resends>>

\* OnTimerExpired.
Resend(x) ==
    /\ Up("client") /\ call[x].pc = "sent"
    /\ resends < MaxResends /\ resends' = resends + 1
    /\ \E n \in 1..Len(sent["requests"]) :
           /\ sent["requests"][n].buf.header.xid = x
           /\ SendRequest(x, sent["requests"][n].size)
    /\ UNCHANGED <<call, listening, chunks, got, down, splits>>

\* Faulty: replies are matched to calls in the order of the calls.
Answer_Faulty(u) ==
    \/ /\ \A x \in Calls : call[x].pc # "sent"
       /\ UNCHANGED <<call, down>>
    \/ \E x \in Calls :
           /\ call[x].pc = "sent" /\ \A y \in Calls : call[y].pc = "sent" => x <= y
           /\ call' = [call EXCEPT ![x] = [pc |-> "answered", result |-> Value(u)]]
           /\ UNCHANGED down

\* A header with a pending call and a result to extract is an answer.
Answer(u) ==
    LET x == u.json.header.xid IN
    IF call[x].pc # "sent" THEN UNCHANGED <<call, down>>
    ELSE IF ~Holds(u) THEN down' = down \cup {"client"} /\ UNCHANGED call
    ELSE /\ call' = [call EXCEPT ![x] = [pc |-> "answered", result |-> Value(u)]]
         /\ UNCHANGED down

\* The io threads run these handlers in any order.
GotPdu(chunk) ==
    /\ Handle("replies", chunk)
    /\ IF Parses("replies", chunk)
       THEN Answer(Unmarshall(sent["replies"][chunk[1][1]].buf))
       ELSE UNCHANGED call
    /\ UNCHANGED <<netVars, listening, countVars>>

-----------------------------------------------------------------------------
(* The server. *)

Result(arg) == arg + 10

\* Faulty: the reply carries its result under the key after the argument's.
Reply_Faulty(u) ==
    Buf(PutHeader(Put([Marshall EXCEPT !.id = Taken(u).id], Result(Value(u))),
                  ReplyHeader(u.json.header.xid)))
\* req >> header, req >> args; the handler; rep << result, rep << header.
Reply(u) ==
    Buf(PutHeader(Put(Marshall, Result(Value(u))), ReplyHeader(u.json.header.xid)))

\* Dispatch, with the handler of the procedure.
Dispatch(chunk, size) ==
    /\ Handle("requests", chunk)
    /\ IF Parses("requests", chunk)
       THEN /\ Send("replies", Reply(Unmarshall(sent["requests"][chunk[1][1]].buf)), size)
            /\ UNCHANGED down
       ELSE UNCHANGED <<netVars, cuts, defers>>
    /\ UNCHANGED <<call, listening, splits, resends, pipelined>>

-----------------------------------------------------------------------------
Client ==
    \/ \E x \in Calls : Resend(x) \/ \E size \in Sizes : Call(x, size)
    \/ \E chunk \in chunks["replies"] : GotPdu(chunk)

Server == \E chunk \in chunks["requests"], size \in Sizes : Dispatch(chunk, size)

Transport(dir) == Flush(dir) \/ Receive(dir) \/ SendFinished(dir)

Next == Client \/ Server \/ \E dir \in Dirs : Transport(dir)

Spec == Init /\ [][Next]_vars

\* io threads run and the kernel moves bytes; nobody has to call or resend.
FairSpec ==
    /\ Spec
    /\ \A dir \in Dirs : WF_vars(Flush(dir)) /\ WF_vars(Receive(dir)) /\ WF_vars(SendFinished(dir))
    /\ WF_vars(\E chunk \in chunks["replies"] : GotPdu(chunk)) /\ WF_vars(Server)

-----------------------------------------------------------------------------
\* However the bytes are cut, split, run together or spoilt, a process that is
\* up has dispatched whole documents only, each once, and the server in order
\* (Receive, resize, parse; one Receive at a time in the server's chain).
Requests == INSTANCE Channel WITH Ordered <- TRUE,
                sent <- Len(sent["requests"]), got <- got["requests"]
Replies == INSTANCE Channel WITH Ordered <- FALSE,
                sent <- Len(sent["replies"]), got <- got["replies"]
ImplementsChannels == Requests!Spec /\ Replies!Spec

\* A call gets the result of the procedure for its own argument, whatever was
\* resent or overtaken (<< and >> of arguments, results and both headers).
AnswersMatch ==
    \A x \in Calls : call[x].pc = "answered" => call[x].result = Result(x)

\* All the library asks of TCP and of its caller, having no framing.
Undisturbed ==
    /\ Faultless /\ ~pipelined
    /\ \A dir \in Dirs : \A n \in 1..Len(sent[dir]) : sent[dir][n].size <= DEFAULT_RPC_SZ

\* With one call at a time, documents that fit the buffer and a transport that
\* passes them on in one piece, no io thread throws (TakeBuf, >>).
OneAtATimeIsSafe == Undisturbed => down = {}

\* ... and the call is answered (the Receives that OnSendFinished posts).
UndisturbedCallsReturn ==
    \A x \in Calls : call[x].pc = "sent" ~> call[x].pc = "answered" \/ ~Undisturbed
=============================================================================
