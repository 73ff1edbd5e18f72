----------------------------- MODULE RpcServer -----------------------------
(***************************************************************************)
(* RpcServer: the read / dispatch / reply cycle of every connection, the   *)
(* at-most-once window per client nonce, and crash and restart of the      *)
(* server process.  The clients and the network are the environment: any   *)
(* request that was ever issued may arrive on any connection, any number   *)
(* of times and in any order.                                              *)
(***************************************************************************)
EXTENDS ReplyWindow

CONSTANTS
    Nonces,        \* clt_nonce_ values of the clients; 0: retrans is off
    Xids,          \* transaction ids clients use
    Procs,         \* procedure numbers clients call
    BIND,          \* the procedure every server registers itself
    HandlerErrs,   \* what registered methods may return; BIND returns "OK"
    Conns,         \* accepted connections
    MaxInstances,  \* bound: server processes started one after another
    SrvNonces      \* nonce_ of each: random(), which nobody seeds but a client
                   \* with retransmission in the same process, so equal ones
                   \* are what to expect, and nothing here relies on others

Instances == 1..MaxInstances

ASSUME NoncesAssumption == Nonces \subseteq Nat
ASSUME XidsAssumption == Xids \subseteq Nat \ {0}
ASSUME ProcsAssumption == BIND \in Procs
ASSUME HandlerErrsAssumption == "OK" \in HandlerErrs
ASSUME InstancesAssumption == MaxInstances \in Nat \ {0}
ASSUME SrvNoncesAssumption == SrvNonces \in [Instances -> Nat \ {0}]

VARIABLES
    instance,      \* which server process is running
    procs,         \* keys of procs_
    reply_window,  \* reply_window_, one sequence of ReplyT per nonce
    max_ack,       \* max_ackowledged_rep_
    task,          \* per connection: where its handler chain stands
    crashed,       \* an exception left a worker thread, or memory misuse
    issued,        \* environment: requests the clients have marshalled
    execs          \* history: handler runs per instance, nonce and xid; not
                   \* counted for nonce 0, to which nothing is promised

vars == <<instance, procs, reply_window, max_ack, task, crashed, issued, execs>>

Request(x, p, c, s, a) ==
    [xid |-> x, proc |-> p, clt_nonce |-> c, srv_nonce |-> s, xid_rep |-> a]
Requests == [xid: Xids, proc: Procs, clt_nonce: Nonces,
             srv_nonce: {0} \cup {SrvNonces[i] : i \in Instances},
             xid_rep: {0} \cup Xids]
NoRequest == Request(0, BIND, 0, 0, 0)

Errs == HandlerErrs \cup {"RESERVED", "OLDSERVER_FAILURE", "ATMOST_ONCE_FAILURE"}
Replies == [xid: {0} \cup Xids, err: Errs, result: Nat]
ReplyTs == [xid_: Xids, cb_present: BOOLEAN, buf_: Replies]

\* closed    not accepted yet             reading  a Receive is outstanding
\* new       handler is about to run      handled  ran, AddReply not yet done
\* reply     Send, read again if it works
\* replay    Send of *rep_buf             forgotten  Send of the error
\* dead      nothing outstanding any more
Pcs == {"closed", "reading", "new", "handled", "reply", "replay", "forgotten", "dead"}
Task(pc, req, rep) == [pc |-> pc, req |-> req, rep |-> rep]
Reading == Task("reading", NoRequest, NoReply)
Dead == Task("dead", NoRequest, NoReply)
Closed == Task("closed", NoRequest, NoReply)

Key(m) == <<instance, m.clt_nonce, m.xid>>
Nonce == SrvNonces[instance]

Init ==
    /\ instance = 1
    /\ procs = {BIND}
    /\ reply_window = [c \in Nonces |-> <<>>]
    /\ max_ack = [c \in Nonces |-> 0]
    /\ task = [k \in Conns |-> Closed]
    /\ crashed = FALSE
    /\ issued = {}
    /\ execs = [key \in Instances \X Nonces \X Xids |-> 0]

-----------------------------------------------------------------------------
(* The application and the environment. *)

\* Register: the assert demands a procedure that is not registered yet.
Register(p) ==
    /\ ~crashed /\ p \notin procs
    /\ procs' = procs \cup {p}
    /\ UNCHANGED <<instance, reply_window, max_ack, task, crashed, issued, execs>>

\* A client marshals a request.  Its buffer is kept and resent byte for byte,
\* so a client with retransmission issues one request per xid; only BIND may
\* carry srv_nonce 0, anything else the nonce a server answered.
Issue(m) ==
    /\ m.clt_nonce > 0 =>
          ~ \E n \in issued : n.clt_nonce = m.clt_nonce /\ n.xid = m.xid
    /\ \/ m.proc = BIND /\ m.srv_nonce = 0
       \/ m.srv_nonce \in {SrvNonces[i] : i \in 1..instance}
    /\ issued' = issued \cup {m}
    /\ UNCHANGED <<instance, procs, reply_window, max_ack, task, crashed, execs>>

\* The process dies and a new one starts; everything in memory is lost.
Restart ==
    /\ instance < MaxInstances
    /\ instance' = instance + 1
    /\ procs' = {BIND}
    /\ reply_window' = [c \in Nonces |-> <<>>]
    /\ max_ack' = [c \in Nonces |-> 0]
    /\ task' = [k \in Conns |-> Closed]
    /\ crashed' = FALSE
    /\ UNCHANGED <<issued, execs>>

-----------------------------------------------------------------------------
(* One connection. *)

Goto(k, t) == ~crashed /\ task' = [task EXCEPT ![k] = t]

OnNewConnection(k) ==
    /\ task[k].pc = "closed"
    /\ Goto(k, Reading)
    /\ UNCHANGED <<instance, procs, reply_window, max_ack, crashed, issued, execs>>

\* OnReceiveFinished with an error: the chain ends here.
ReceiveFails(k) ==
    /\ task[k].pc = "reading"
    /\ Goto(k, Dead)
    /\ UNCHANGED <<instance, procs, reply_window, max_ack, crashed, issued, execs>>

\* Faulty: only BIND is tested for an old instance.
OldServer_Faulty(m) == m.proc = BIND /\ m.srv_nonce # 0 /\ m.srv_nonce # Nonce

OldServer(m) == m.srv_nonce # 0 /\ m.srv_nonce # Nonce

\* Dispatch of a request meant for an earlier server process.
DispatchOldServer(k, m) ==
    /\ task[k].pc = "reading" /\ OldServer(m)
    /\ Goto(k, Task("reply", m, Reply(m.xid, "OLDSERVER_FAILURE", 0)))
    /\ UNCHANGED <<instance, procs, reply_window, max_ack, crashed, issued, execs>>

\* Dispatch throws for a procedure nobody registered; nothing catches it.
DispatchUnknownProc(k, m) ==
    /\ task[k].pc = "reading" /\ ~OldServer(m) /\ m.proc \notin procs
    /\ ~crashed /\ crashed' = TRUE
    /\ UNCHANGED <<instance, procs, reply_window, max_ack, task, issued, execs>>

\* Dispatch for a client without retransmission: no window, always NEW.
DispatchPlain(k, m) ==
    /\ task[k].pc = "reading" /\ ~OldServer(m) /\ m.proc \in procs
    /\ m.clt_nonce = 0
    /\ Goto(k, Task("new", m, NoReply))
    /\ UNCHANGED <<instance, procs, reply_window, max_ack, crashed, issued, execs>>

\* max_ackowledged_rep_ after the request's xid_rep_ has been looked at.
UpdatedAck(ack, m) == IF m.xid_rep > ack THEN m.xid_rep ELSE ack

\* Where the switch on State continues.
AfterCheck(state, m, w) ==
    CASE state = "NEW"        -> Task("new", m, NoReply)
      [] state = "INPROGRESS" -> Reading
      [] state = "DONE"       -> Task("replay", m, Remembered(w, m.xid))
      [] state = "FORGOTTEN"  ->
             Task("forgotten", m, Reply(m.xid, "ATMOST_ONCE_FAILURE", 0))

\* Dispatch with CheckDuplicateAndUpdate, which runs under rep_window_mu_.
DispatchTracked(k, m) ==
    LET c == m.clt_nonce
        w == reply_window[c]
        ack == UpdatedAck(max_ack[c], m)
    IN  /\ task[k].pc = "reading" /\ ~OldServer(m) /\ m.proc \in procs
        /\ c > 0
        /\ max_ack' = [max_ack EXCEPT ![c] = ack]
        /\ reply_window' = [reply_window EXCEPT ![c] = CheckedWindow(w, ack, m.xid)]
        /\ Goto(k, AfterCheck(DupState(w, ack, m.xid), m, w))
        /\ UNCHANGED <<instance, procs, crashed, issued, execs>>

Dispatch(k, m) ==
    \/ DispatchOldServer(k, m)
    \/ DispatchUnknownProc(k, m)
    \/ DispatchPlain(k, m)
    \/ DispatchTracked(k, m)

\* Faulty: the result is not marshalled.
Result_Faulty(m) == 0

\* What a handler marshals: BIND answers nonce_, any other method its result.
Result(m) == IF m.proc = BIND THEN Nonce ELSE 1

\* The registered method runs and its result and error are marshalled.  Only
\* replies to clients with retransmission are recorded.
Handle(k, e) ==
    LET m == task[k].req
        next == IF m.clt_nonce > 0 THEN "handled" ELSE "reply"
    IN  /\ task[k].pc = "new"
        /\ m.proc = BIND => e = "OK"
        /\ execs' = IF m.clt_nonce > 0 THEN [execs EXCEPT ![Key(m)] = @ + 1] ELSE execs
        /\ Goto(k, Task(next, m, Reply(m.xid, e, Result(m))))
        /\ UNCHANGED <<instance, procs, reply_window, max_ack, crashed, issued>>

\* AddReply; it throws when the window no longer has the entry.
AddReply(k) ==
    LET m == task[k].req
        c == m.clt_nonce
    IN  /\ task[k].pc = "handled"
        /\ \/ /\ Holds(reply_window[c], m.xid)
              /\ reply_window' = [reply_window EXCEPT
                                    ![c] = AddedReply(@, m.xid, task[k].rep)]
              /\ Goto(k, Task("reply", m, task[k].rep))
              /\ UNCHANGED crashed
           \/ /\ ~Holds(reply_window[c], m.xid)
              /\ ~crashed /\ crashed' = TRUE
              /\ UNCHANGED <<reply_window, task>>
        /\ UNCHANGED <<instance, procs, max_ack, issued, execs>>

\* Send of a fresh reply and OnSendFinished: only a successful send is
\* followed by another ReadIncomingPacket.
SendReply(k, ok) ==
    /\ task[k].pc = "reply"
    /\ Goto(k, IF ok THEN Reading ELSE Dead)
    /\ UNCHANGED <<instance, procs, reply_window, max_ack, crashed, issued, execs>>

\* Send of a remembered reply or of ATMOST_ONCE_FAILURE: the connection is
\* read again whatever became of the send.
SendOld(k) ==
    /\ task[k].pc \in {"replay", "forgotten"}
    /\ Goto(k, Reading)
    /\ UNCHANGED <<instance, procs, reply_window, max_ack, crashed, issued, execs>>

\* *rep_buf is read after rep_window_mu_ was released.  When the entry has
\* been trimmed meanwhile the read is undefined: SendOld with the bytes that
\* are still there, or an abort.
RepBufDangles(k) ==
    /\ task[k].pc = "replay"
    /\ ~Holds(reply_window[task[k].req.clt_nonce], task[k].req.xid)

SendDangling(k) ==
    /\ RepBufDangles(k)
    /\ ~crashed /\ crashed' = TRUE
    /\ UNCHANGED <<instance, procs, reply_window, max_ack, task, issued, execs>>

Connection(k) ==
    \/ OnNewConnection(k)
    \/ ReceiveFails(k)
    \/ \E m \in issued : Dispatch(k, m)
    \/ \E e \in HandlerErrs : Handle(k, e)
    \/ AddReply(k)
    \/ \E ok \in BOOLEAN : SendReply(k, ok)
    \/ SendOld(k)
    \/ SendDangling(k)

Next ==
    \/ \E p \in Procs : Register(p)
    \/ \E m \in Requests : Issue(m)
    \/ Restart
    \/ \E k \in Conns : Connection(k)

Spec == Init /\ [][Next]_vars

-----------------------------------------------------------------------------
TypeOK ==
    /\ instance \in Instances
    /\ procs \in SUBSET Procs
    /\ reply_window \in [Nonces -> Seq(ReplyTs)]
    /\ max_ack \in [Nonces -> Nat]
    /\ task \in [Conns -> [pc: Pcs, req: Requests \cup {NoRequest}, rep: Replies]]
    /\ crashed \in BOOLEAN
    /\ issued \in SUBSET Requests
    /\ execs \in [Instances \X Nonces \X Xids -> Nat]

\* At most once per server process: however often a request of a client with
\* a nonce is received, on however many connections at the same time, the
\* registered method runs for it once (Dispatch, CheckDuplicateAndUpdate).
AtMostOnce ==
    \A key \in Instances \X Nonces \X Xids : key[2] > 0 => execs[key] <= 1

\* A call other than BIND runs only in processes that have the nonce_ its
\* client bound to, so two processes that both ran it have the same: the
\* old-instance test of Dispatch keeps a request away from a process of another
\* nonce, however late and often it arrives, and from no other process.
RunsUnderOneNonce ==
    \A m \in issued : m.clt_nonce > 0 /\ m.proc # BIND =>
        \A i, j \in Instances :
            /\ execs[<<i, m.clt_nonce, m.xid>>] > 0
            /\ execs[<<j, m.clt_nonce, m.xid>>] > 0
            => SrvNonces[i] = SrvNonces[j]

\* A reply in the window, or on its way out again as a duplicate, is the reply
\* of a handler run that is over: nothing is answered from the window before
\* the one execution has finished (cb_present in AddReply).
ReplayedRepliesAreResults ==
    /\ \A c \in Nonces : \A i \in 1..Len(reply_window[c]) :
          LET r == reply_window[c][i] IN
          r.cb_present => /\ execs[<<instance, c, r.xid_>>] = 1
                          /\ r.buf_.xid = r.xid_ /\ r.buf_.result > 0
    /\ \A k \in Conns : task[k].pc = "replay" =>
          /\ execs[Key(task[k].req)] = 1
          /\ task[k].rep.xid = task[k].req.xid /\ task[k].rep.result > 0

\* The window is exactly what the client has not acknowledged, in order: every
\* trim reaches the first unacknowledged entry, so acknowledged replies do not
\* pile up behind it (the ON_SCOPE_EXIT loop stops at the first larger xid).
WindowTrimmed ==
    \A c \in Nonces :
        /\ Ascending(reply_window[c])
        /\ \A i \in 1..Len(reply_window[c]) : reply_window[c][i].xid_ > max_ack[c]
=============================================================================
