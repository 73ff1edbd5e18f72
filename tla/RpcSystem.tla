----------------------------- MODULE RpcSystem -----------------------------
(***************************************************************************)
(* One RpcClient and one RpcServer over a network.  The client is module   *)
(* RpcClient, the server module RpcServer; every action below is an action *)
(* of one of them together with what it does to the messages in flight.    *)
(* The network may reorder, the sender may be told SEND_FAILURE whether or *)
(* not the message went through, messages may be lost without notice, a    *)
(* connection may break with either end still believing in it, and the     *)
(* server process may be replaced.                                         *)
(***************************************************************************)
EXTENDS Integers, FiniteSets, Bags, Sequences

CONSTANTS
    CltNonce,     \* clt_nonce_; 0: the client does not retransmit
    CallProcs, BIND, Workers, SendErrs,
    HandlerErrs,
    SrvNonces,    \* nonce_ of each server process, any values
    MaxXid, MaxBinds, MaxFaults,
    MaxInstances,
    MaxConns,     \* bound: connections the client opens
    MaxBreaks,    \* bound: failed receives, failed replies, broken connections
    MaxLosses     \* bound: messages lost without an error

ASSUME NonceAssumption == CltNonce \in Nat
ASSUME BoundsAssumption == /\ MaxXid \in Nat \ {0, 1}
                           /\ MaxBinds \in Nat /\ MaxFaults \in Nat
                           /\ MaxInstances \in Nat \ {0} /\ MaxConns \in Nat \ {0}
ASSUME LossesAssumption == MaxBreaks \in Nat /\ MaxLosses \in Nat
ASSUME SendErrsAssumption == SendErrs \subseteq {"SEND_FAILURE", "BROKEN_PIPE"}
ASSUME ProcsAssumption == BIND \notin CallProcs
\* "none" and "pending" are no errors: Outcome says them of a call without one.
ASSUME HandlerErrsAssumption == "OK" \in HandlerErrs /\ HandlerErrs \cap {"none", "pending"} = {}
ASSUME SrvNoncesAssumption == SrvNonces \in [1..MaxInstances -> Nat \ {0}]

Xids == 2..MaxXid
Conns == 1..MaxConns

VARIABLES
    \* the client
    xid_, callers, call, caller, timer, sends, listening, io, bind_done,
    srv_nonce, xid_rep_window, clt_crashed, faults, got, cbs,
    \* the server
    instance, procs, reply_window, max_ack, task, srv_crashed, issued, execs,
    \* the network
    conn,         \* the connection the client's socket stands for
    open,         \* connections neither end of which has gone
    toServer,     \* per connection: bag of xids, each a marshalled request
    toClient,     \* per connection: bag of replies
    breaks, losses

Clt == INSTANCE RpcClient WITH
           Retrans <- CltNonce > 0, crashed <- clt_crashed,
           Results <- {1} \cup {SrvNonces[i] : i \in 1..MaxInstances}
Srv == INSTANCE RpcServer WITH
           Nonces <- {CltNonce}, Procs <- CallProcs \cup {BIND},
           crashed <- srv_crashed

netVars == <<conn, open, toServer, toClient, breaks, losses>>
cltVars == <<xid_, callers, call, caller, timer, sends, listening, io, bind_done,
             srv_nonce, xid_rep_window, clt_crashed, faults, got, cbs>>
srvVars == <<instance, procs, reply_window, max_ack, task, srv_crashed, issued, execs>>
vars == <<cltVars, srvVars, netVars>>

Init ==
    /\ Clt!Init /\ Srv!Init
    /\ conn = 1 /\ open = {1}
    /\ toServer = [k \in Conns |-> EmptyBag]
    /\ toClient = [k \in Conns |-> EmptyBag]
    /\ breaks = 0 /\ losses = 0

\* Faulty: the header is built anew for every send.
Request_Faulty(x) ==
    Srv!Request(x, call[x].proc, CltNonce, call[x].srv_nonce,
                Clt!ReceivedXid(xid_rep_window))

\* The bytes the Caller keeps and sends, again and again.
Request(x) ==
    Srv!Request(x, call[x].proc, CltNonce, call[x].srv_nonce, call[x].xid_rep)

Put(net, k, m) == [net EXCEPT ![k] = @ (+) SetToBag({m})]
Took(net, k, m) == [net EXCEPT ![k] = @ (-) SetToBag({m})]

-----------------------------------------------------------------------------
(* The client. *)

\* The application calls procedures the server has registered.
CallStart(proc) ==
    /\ proc \in procs
    /\ Clt!CallStart(proc)
    /\ UNCHANGED <<srvVars, netVars>>

CallSend(x) ==
    /\ Clt!CallSend(x)
    /\ issued' = issued \cup {Request(x)'}
    /\ UNCHANGED <<instance, procs, reply_window, max_ack, task, srv_crashed, execs>>
    /\ UNCHANGED netVars

AppThread(x) ==
    \/ CallSend(x)
    \/ /\ Clt!CallReadAck(x) \/ Clt!CallWait(x)
       /\ UNCHANGED <<srvVars, netVars>>

TimerExpires(x) == Clt!TimerExpires(x) /\ UNCHANGED <<srvVars, netVars>>

\* A completion handler, or the next stretch of one, on an io thread.
Worker(w) ==
    /\ \/ Clt!UpdateXidRep(w) \/ Clt!TakeCaller(w) \/ Clt!FinishCaller(w)
       \/ Clt!Callback(w) \/ Clt!Resend(w) \/ Clt!RetrySend(w)
       \/ Clt!GiveUp(w) \/ Clt!FailCallback(w) \/ Clt!Rebind(w)
       \/ \E x \in Xids : Clt!OnTimerExpired(w, x) \/ Clt!SendSucceeded(w, x)
       \/ \E x \in Xids, e \in SendErrs : Clt!SendFailed(w, x, e)
    /\ UNCHANGED <<srvVars, netVars>>

Receive(w) ==
    \E rep \in BagToSet(toClient[conn]) :
        /\ Clt!ReceiveReply(w, rep)
        /\ toClient' = Took(toClient, conn, rep)
        /\ UNCHANGED <<srvVars, conn, open, toServer, breaks, losses>>

\* On a connection that is gone it is the only thing a Receive can do.
ReceiveFails(w) ==
    /\ \/ conn \in open /\ breaks < MaxBreaks /\ breaks' = breaks + 1
       \/ conn \notin open /\ UNCHANGED breaks
    /\ Clt!ReceiveFails(w)
    /\ UNCHANGED <<srvVars, conn, open, toServer, toClient, losses>>

-----------------------------------------------------------------------------
(* The network. *)

\* Messages arrive, unless their connection is gone or the network loses them.
Lost ==
    /\ UNCHANGED toServer
    /\ \/ conn \notin open /\ UNCHANGED losses
       \/ conn \in open /\ losses < MaxLosses /\ losses' = losses + 1

\* async_send or the mock's Send completes for a request of x.
Transmit(x, e) ==
    /\ Clt!SendResolves(x, e)
    /\ \/ /\ e \in {"OK", "SEND_FAILURE"} /\ conn \in open
          /\ toServer' = Put(toServer, conn, x) /\ UNCHANGED losses
       \/ e = "OK" /\ Lost
       \/ e = "SEND_FAILURE" /\ UNCHANGED <<toServer, losses>>
       \/ e = "BROKEN_PIPE" /\ conn \notin open /\ UNCHANGED <<toServer, losses>>
    /\ UNCHANGED <<srvVars, conn, open, toClient, breaks>>

ReplyLost(k, rep) ==
    /\ rep \in BagToSet(toClient[k])
    /\ losses < MaxLosses /\ losses' = losses + 1
    /\ toClient' = Took(toClient, k, rep)
    /\ UNCHANGED <<cltVars, srvVars, conn, open, toServer, breaks>>

\* A connection dies on the way; neither end has noticed.
ConnectionBreaks ==
    /\ conn \in open
    /\ breaks < MaxBreaks /\ breaks' = breaks + 1
    /\ open' = open \ {conn}
    /\ UNCHANGED <<cltVars, srvVars, conn, toServer, toClient, losses>>

\* Connect after BROKEN_PIPE completes; a socket that another send has connected
\* again already cannot be connected.
Reconnected(x, ok) ==
    /\ Clt!Reconnected(x, ok)
    /\ IF ok THEN /\ conn \notin open /\ conn < MaxConns
                  /\ conn' = conn + 1
                  /\ open' = open \cup {conn + 1}
             ELSE UNCHANGED <<conn, open>>
    /\ UNCHANGED <<srvVars, toServer, toClient, breaks, losses>>

-----------------------------------------------------------------------------
(* The server. *)

RegisterProc(p) == Srv!Register(p) /\ UNCHANGED <<cltVars, netVars>>

OnNewConnection(k) ==
    /\ k \in open
    /\ Srv!OnNewConnection(k)
    /\ UNCHANGED <<cltVars, netVars>>

Dispatch(k, x) ==
    /\ x \in BagToSet(toServer[k])
    /\ Srv!Dispatch(k, Request(x))
    /\ toServer' = Took(toServer, k, x)
    /\ UNCHANGED <<cltVars, conn, open, toClient, breaks, losses>>

Execute(k) ==
    /\ (\E e \in HandlerErrs : Srv!Handle(k, e)) \/ Srv!AddReply(k)
    /\ UNCHANGED <<cltVars, netVars>>

\* A reply that is sent goes out with the success, and with the failure it may.
Answered(k) == toClient' = IF k \in open THEN Put(toClient, k, task[k].rep) ELSE toClient

SendReply(k) ==
    /\ Srv!SendReply(k, TRUE) \/ Srv!SendOld(k)
    /\ Answered(k)
    /\ UNCHANGED <<cltVars, conn, open, toServer, breaks, losses>>

SendReplyFails(k) ==
    /\ breaks < MaxBreaks /\ breaks' = breaks + 1
    /\ Srv!SendReply(k, FALSE) \/ Srv!SendOld(k)
    /\ Answered(k) \/ UNCHANGED toClient
    /\ open' = IF task'[k].pc = "dead" THEN open \ {k} ELSE open
    /\ UNCHANGED <<cltVars, conn, toServer, losses>>

SendDangling(k) == Srv!SendDangling(k) /\ UNCHANGED <<cltVars, netVars>>

\* The last reference to the socket goes with the failed Receive.
ServerReceiveFails(k) ==
    /\ breaks < MaxBreaks /\ breaks' = breaks + 1
    /\ Srv!ReceiveFails(k)
    /\ open' = open \ {k}
    /\ UNCHANGED <<cltVars, conn, toServer, toClient, losses>>

Restart ==
    /\ Srv!Restart
    /\ open' = {}
    /\ toServer' = [k \in Conns |-> EmptyBag]
    /\ toClient' = [k \in Conns |-> EmptyBag]
    /\ UNCHANGED <<cltVars, conn, breaks, losses>>

ServerThread(k) ==
    \/ OnNewConnection(k)
    \/ \E x \in Xids : Dispatch(k, x)
    \/ Execute(k)
    \/ SendReply(k)

-----------------------------------------------------------------------------
Next ==
    \/ \E proc \in CallProcs \cup {BIND} : CallStart(proc)
    \/ \E x \in Xids : AppThread(x) \/ TimerExpires(x)
    \/ \E w \in Workers : Worker(w) \/ Receive(w) \/ ReceiveFails(w)
    \/ \E x \in Xids, e \in {"OK"} \cup SendErrs : Transmit(x, e)
    \/ \E x \in Xids, ok \in BOOLEAN : Reconnected(x, ok)
    \/ \E k \in Conns : \E rep \in BagToSet(toClient[k]) : ReplyLost(k, rep)
    \/ ConnectionBreaks
    \/ \E p \in CallProcs : RegisterProc(p)
    \/ \E k \in Conns : \/ ServerThread(k) \/ SendReplyFails(k)
                        \/ SendDangling(k) \/ ServerReceiveFails(k)
    \/ Restart

\* Threads that can run do run, sends and timers complete, handlers return;
\* nothing forces a failure, a loss, a break, a restart or a new call.
Fairness ==
    /\ \A x \in Xids : WF_vars(AppThread(x)) /\ WF_vars(TimerExpires(x))
    /\ \A x \in Xids : WF_vars(\E e \in {"OK"} \cup SendErrs : Transmit(x, e))
    /\ \A x \in Xids : WF_vars(\E ok \in BOOLEAN : Reconnected(x, ok))
    /\ \A w \in Workers : WF_vars(Worker(w)) /\ WF_vars(Receive(w))
    /\ \A k \in Conns : WF_vars(ServerThread(k))

Spec == Init /\ [][Next]_vars
FairSpec == Spec /\ Fairness

-----------------------------------------------------------------------------
Outcome(x) ==
    CASE ~Clt!Started(x)   -> "none"
      [] Clt!Started(x) /\ cbs[x] = <<>> -> "pending"
      [] Len(cbs[x]) = 1   -> cbs[x][1]
      [] Len(cbs[x]) > 1   -> "called back again"

Once == INSTANCE ExactlyOnce WITH
            Calls <- Xids, Outcomes <- HandlerErrs, Processes <- 1..MaxInstances,
            process <- instance,
            runs <- [x \in Xids |-> [i \in 1..MaxInstances |-> execs[<<i, CltNonce, x>>]]],
            outcome <- [x \in Xids |-> Outcome(x)]

\* README: exactly-once semantics.  Client and server together, over a network
\* that reorders, duplicates by retransmission and loses, implement the abstract
\* call: one run of the method by one server process, then one callback with the
\* outcome of a run, whatever the method returns.
ImplementsExactlyOnce == Once!Spec

\* The same across server processes: a call that one process ran is not run by
\* the process that replaces it ("is the client sending to an old instane of
\* server?", Dispatch).  BIND is meant for every process.
AtMostOnceAcrossRestarts ==
    \A x \in Xids : call[x].proc # BIND =>
        Cardinality({i \in 1..MaxInstances : execs[<<i, CltNonce, x>>] > 0}) <= 1

\* The client and the network only do to the server what module RpcServer lets
\* its environment do, so what holds there holds here: one header per xid,
\* and never a call but BIND without the nonce of a server.
ImplementsServer == Srv!Spec

\* The server and the network only answer the client what module RpcClient
\* lets them: replies to requests that were sent, and a result with whatever the
\* method returned, but with neither refusal.
ImplementsClient == Clt!Spec

\* The server forgets a call only when its reply has arrived: however replies
\* overtake each other on their way to xid_rep_window_, what max_ackowledged_
\* rep_ covers the client has received (UpdateXidRep, CheckDuplicateAndUpdate).
ForgetsOnlyReceived ==
    \A x \in Xids : Clt!Started(x) /\ x <= max_ack[CltNonce] => x \in got

\* AddReply's "unreachable" is, and on a single connection the entry a duplicate
\* is answered from outlives the Send: an acknowledgement never removes what
\* the server still works on (CheckDuplicateAndUpdate, AddReply).
ServerUnharmed == ~srv_crashed

\* Over several connections a duplicate may be answered from an entry that the
\* next acknowledgement has removed; nothing else kills the process.  AddReply
\* finds its entry and Dispatch its procedure however the connections follow
\* each other.  That is said of the first server process, and of a later one
\* only if no process before it had its nonce_.
OwnNonce == \A i \in 1..(instance - 1) : SrvNonces[i] # SrvNonces[instance]
DiesOnlyOfRepBuf ==
    srv_crashed /\ OwnNonce => \E k \in Conns : Srv!RepBufDangles(k)

\* A reply that refuses a call reaches the callback of that call.
ErrorRepliesReachCallback == clt_crashed # "no result to extract"

\* When nothing more will happen on the client by itself, a reply that a call
\* still waits for finds a Receive posted, as long as its connection lives
\* (ListenFromServer, once per successful send; GotPdu posts none, and those of
\* the connection before have ended with an error).
ClientQuiet ==
    /\ \A w \in Workers : io[w] = Clt!Idle
    /\ \A x \in Xids : /\ call[x].pc \in {"none", "returned"}
                       /\ timer[x] \notin {"armed", "expired"}
                       /\ sends[x] = Clt!NoSends
RepliesAreHeard ==
    ClientQuiet /\ conn \in open =>
        \A rep \in BagToSet(toClient[conn]) : rep.xid \in callers => listening > 0

\* Every call returns: its callback runs, unless one of the two processes has
\* died (timers, resends, and a Receive for every reply).  No call waits again
\* once it has returned, so it is enough that no call waits at some later time.
Crashed == clt_crashed # "no" \/ srv_crashed
Waiting(x) == Clt!Started(x) /\ cbs[x] = <<>> /\ ~Crashed
EveryCallReturns == []<>(\A x \in Xids : ~Waiting(x))
=============================================================================
