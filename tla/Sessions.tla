------------------------------ MODULE Sessions ------------------------------
(***************************************************************************)
(* The lives of one RpcServer and of its clients: who starts, connects,    *)
(* accepts, stops, lets go and joins, in any order.                        *)
(***************************************************************************)
EXTENDS ServerLifecycle, ClientLifecycle

vars == <<connVars, srvVars, cltVars>>

Init == ConnInit /\ SrvInit /\ CltInit

\* async_connect completes: the kernel of the server accepts while the
\* acceptor is open, whether or not anyone calls async_accept.
ConnectCompletes(c) ==
    /\ CltUp(c) /\ connect[c] = "pending"
    /\ IF AcceptorOpen /\ SrvUp
       THEN /\ connect' = Set(connect, c, "ok")
            /\ clt' = Set(clt, c, "up") /\ srv' = Set(srv, c, "backlog")
       ELSE connect' = Set(connect, c, "error") /\ UNCHANGED <<clt, srv>>
    /\ UNCHANGED <<data, app, object, connected_, receives, clt_sent, clt_io,
                   clt_crashed, srvVars>>

Destructor(c) == CloseSocket(c) \/ StopIo(c) \/ Join(c)

Client(c) ==
    ConnectToServer(c) \/ WaitUntilConnected(c) \/ Call(c) \/ Drop(c) \/ Destructor(c)

CltThread(c) ==
    \/ ConnectFailed(c) \/ OnConnected(c) \/ ListenFromServer(c)
    \/ OnSendFinished(c) \/ OnReply(c) \/ OnEof(c) \/ CltExit(c)

SrvThread ==
    \/ AcceptEnds \/ OnNewConnection \/ SrvExit
    \/ \E c \in Clients : Serve(c) \/ Dispatch(c) \/ ReadOn(c) \/ ChainEnds(c)

Server == Start \/ StopAccepting \/ StopContext \/ CloseSockets \/ JoinWorkers \/ DropServer

Next ==
    \/ \E c \in Clients : ConnectCompletes(c)
    \/ \E c \in Clients : (Client(c) \/ CltThread(c)) /\ UNCHANGED srvVars
    \/ \E c \in Clients : Accepted(c) /\ UNCHANGED cltVars
    \/ AcceptFails /\ UNCHANGED cltVars
    \/ SrvThread /\ UNCHANGED cltVars
    \/ Server /\ UNCHANGED cltVars

Spec == Init /\ [][Next]_vars

\* What has begun goes on: io threads run, posted operations complete, a Stop or
\* a destructor ends.  Nobody has to start, connect, call, stop or let go.
GoesOn ==
    \/ \E c \in Clients : ConnectCompletes(c)
    \/ \E c \in Clients : (CltThread(c) \/ Destructor(c)) /\ UNCHANGED srvVars
    \/ (SrvThread \/ StopContext \/ CloseSockets \/ JoinWorkers) /\ UNCHANGED cltVars
    \/ (\E c \in Clients : Accepted(c)) /\ UNCHANGED cltVars

\* No process can go on for ever without new calls and connections, so it is
\* enough that one of them goes on when any can.
FairSpec == Spec /\ WF_vars(GoesOn)

-----------------------------------------------------------------------------
\* Stop closes the connections: when it has returned, the server's end of at
\* most one is still open, the one whose handler was between async_accept and
\* client_sockets_ (Stop, OnNewConnection, CloseAllClientSockets).
AtMostOneSurvivor ==
    stage = "stopped" => Cardinality({c \in Clients : srv[c] = "open"}) <= 1

\* The Connect handler holds no reference to its client; joining the io thread
\* is all that keeps it from running on a client that is gone (~RpcClient).
ConnectHandlerOutlived ==
    \A c \in Clients : object[c] = "destroyed" => clt_io[c] \notin {"idle", "listen"}

\* A call is made on a connection that was established, and is never written
\* into a socket still connecting (WaitUntilConnected, OnConnected).
CallsAreConnected ==
    \A c \in Clients : app[c] \in {"called", "answered"} => connect[c] = "done"

\* Stop and ~RpcClient return (closing, ctx_->Stop(), the joins), whatever the
\* handlers and the other process are doing.
StopReturns ==
    /\ stage = "closed" ~> stage = "stopped" \/ ~SrvUp
    /\ \A c \in Leavers : object[c] = "closing" ~> object[c] = "destroyed" \/ ~CltUp(c)

\* A client that stays is answered, although others come, go and die, unless it
\* was not accepted yet when an accept failed, the server is stopped, or one of
\* the two processes has died (the accept loop, the chains of other clients).
EveryClientServed ==
    \A c \in Clients \ Leavers : app[c] = "called" ~>
        \/ app[c] = "answered"
        \/ acceptFaults > 0 /\ srv[c] = "backlog"
        \/ stage # "running" \/ ~SrvUp \/ ~CltUp(c)
=============================================================================
