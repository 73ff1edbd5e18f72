-------------------------- MODULE ClientLifecycle --------------------------
(***************************************************************************)
(* RpcClient from ConnectToServer to its destructor: the application       *)
(* thread, the Connect handler, which holds no reference but the raw this, *)
(* and the Receive and Send handlers, each of which holds one.  Every      *)
(* client has one io thread here.  ConnectToServer spawns num_worker_, by  *)
(* default 2; what two of them do together is in RpcClient.                *)
(***************************************************************************)
EXTENDS Connections

CONSTANT Leavers     \* bound: clients whose wait may time out, or that are let go of

ASSUME LeaversAssumption == Leavers \subseteq Clients

VARIABLES
    app,          \* per client: where the application thread is
    object,       \* per client: how far ~RpcClient got
    connect,      \* per client: the Connect operation, or its handler
    connected_,
    receives,     \* per client: posted Receives
    clt_sent,     \* per client: the Send whose handler is to run, if any
    clt_io,       \* per client: what its io thread is running
    clt_crashed

cltVars == <<app, object, connect, connected_, receives, clt_sent, clt_io, clt_crashed>>

CltInit ==
    /\ app = [c \in Clients |-> "new"]
    /\ object = [c \in Clients |-> "alive"]
    /\ connect = [c \in Clients |-> "none"]
    /\ connected_ = [c \in Clients |-> FALSE]
    /\ receives = [c \in Clients |-> 0]
    /\ clt_sent = [c \in Clients |-> FALSE]
    /\ clt_io = [c \in Clients |-> "none"]
    /\ clt_crashed = [c \in Clients |-> "no"]

CltUp(c) == clt_crashed[c] = "no"
Stopping(c) == object[c] \in {"joining", "destroyed"}
Runs(c) == CltUp(c) /\ clt_io[c] = "idle" /\ ~Stopping(c)
\* The shared_ptrs to the client: the application's and those in handlers.
CltReferred(c) == app[c] # "dropped" \/ receives[c] > 0 \/ clt_sent[c]
HasWork(c) == connect[c] \in {"pending", "ok", "error"} \/ receives[c] > 0 \/ clt_sent[c]

\* A handler returns; ~RpcClient on the io thread joins that thread.
Released(c) ==
    clt_crashed' = IF CltReferred(c)' THEN clt_crashed ELSE Set(clt_crashed, c, "joins itself")

ConnectToServer(c) ==
    /\ CltUp(c) /\ app[c] = "new" /\ app' = Set(app, c, "waiting")
    /\ connect' = Set(connect, c, "pending") /\ clt_io' = Set(clt_io, c, "idle")
    /\ UNCHANGED <<object, connected_, receives, clt_sent, clt_crashed, connVars>>

\* The Connect handler with an error throws.
ConnectFailed(c) ==
    /\ Runs(c) /\ connect[c] = "error"
    /\ clt_crashed' = Set(clt_crashed, c, "cannot connect to server")
    /\ UNCHANGED <<app, object, connect, connected_, receives, clt_sent, clt_io, connVars>>

\* OnConnected, first part.
OnConnected(c) ==
    /\ Runs(c) /\ connect[c] = "ok"
    /\ connect' = Set(connect, c, "done")
    /\ connected_' = Set(connected_, c, TRUE)
    /\ clt_io' = Set(clt_io, c, "listen")
    /\ UNCHANGED <<app, object, receives, clt_sent, clt_crashed, connVars>>

\* ListenFromServer; shared_from_this throws when the destructor has begun.
ListenFromServer(c) ==
    /\ CltUp(c) /\ clt_io[c] = "listen" /\ clt_io' = Set(clt_io, c, "idle")
    /\ \/ /\ CltReferred(c)
          /\ receives' = Set(receives, c, receives[c] + 1) /\ UNCHANGED clt_crashed
       \/ /\ ~CltReferred(c)
          /\ clt_crashed' = Set(clt_crashed, c, "bad_weak_ptr") /\ UNCHANGED receives
    /\ UNCHANGED <<app, object, connect, connected_, clt_sent, connVars>>

\* Faulty: no predicate, so that a wake-up is taken for the connection.
WaitUntilConnected_Faulty(c) ==
    /\ CltUp(c) /\ app[c] = "waiting" /\ app' = Set(app, c, "ready")
    /\ UNCHANGED <<object, connect, connected_, receives, clt_sent, clt_io, clt_crashed, connVars>>

\* WaitUntilConnected: connected, or five seconds are over.
WaitUntilConnected(c) ==
    /\ CltUp(c) /\ app[c] = "waiting"
    /\ \/ connected_[c] /\ app' = Set(app, c, "ready")
       \/ ~connected_[c] /\ c \in Leavers /\ app' = Set(app, c, "timed out")
    /\ UNCHANGED <<object, connect, connected_, receives, clt_sent, clt_io, clt_crashed, connVars>>

\* Call: the Send is accepted by the socket at once.
Call(c) ==
    /\ CltUp(c) /\ app[c] = "ready" /\ app' = Set(app, c, "called")
    /\ clt_sent' = Set(clt_sent, c, TRUE)
    /\ data' = IF srv[c] \in {"backlog", "open"} THEN Set(data, c, "request") ELSE data
    /\ UNCHANGED <<object, connect, connected_, receives, clt_io, clt_crashed, clt, srv>>

\* OnSendFinished.
OnSendFinished(c) ==
    /\ Runs(c) /\ clt_sent[c] /\ clt_sent' = Set(clt_sent, c, FALSE)
    /\ receives' = Set(receives, c, receives[c] + 1)
    /\ UNCHANGED <<app, object, connect, connected_, clt_io, clt_crashed, connVars>>

\* OnReceiveFinished with the reply.
OnReply(c) ==
    /\ Runs(c) /\ receives[c] > 0 /\ data[c] = "reply"
    /\ receives' = Set(receives, c, receives[c] - 1)
    /\ data' = Set(data, c, "none")
    /\ app' = IF app[c] = "called" THEN Set(app, c, "answered") ELSE app
    /\ UNCHANGED <<object, connect, connected_, clt_sent, clt_io, clt, srv>>
    /\ Released(c)

\* OnReceiveFinished when the server's end is closed.
OnEof(c) ==
    /\ Runs(c) /\ receives[c] > 0 /\ data[c] # "reply" /\ srv[c] = "closed"
    /\ receives' = Set(receives, c, receives[c] - 1)
    /\ UNCHANGED <<app, object, connect, connected_, clt_sent, clt_io, connVars>>
    /\ Released(c)

\* io_context::run returns: stopped, or nothing left to wait for.
CltExit(c) ==
    /\ CltUp(c) /\ clt_io[c] = "idle" /\ (Stopping(c) \/ ~HasWork(c))
    /\ clt_io' = Set(clt_io, c, "exited")
    /\ UNCHANGED <<app, object, connect, connected_, receives, clt_sent, clt_crashed, connVars>>

\* The application lets go of the client, on its own thread.
Drop(c) ==
    /\ CltUp(c) /\ c \in Leavers
    /\ app[c] \in {"waiting", "timed out", "ready", "called", "answered"}
    /\ app' = Set(app, c, "dropped")
    /\ UNCHANGED <<connect, connected_, receives, clt_sent, clt_io, clt_crashed, connVars>>
    /\ object' = IF CltReferred(c)' THEN object ELSE Set(object, c, "closing")

\* ~RpcClient: close the socket, which ends a pending Connect, ...
CloseSocket(c) ==
    /\ CltUp(c) /\ object[c] = "closing" /\ object' = Set(object, c, "stopping")
    /\ clt' = Set(clt, c, "closed")
    /\ connect' = IF connect[c] = "pending" THEN Set(connect, c, "error") ELSE connect
    /\ UNCHANGED <<app, connected_, receives, clt_sent, clt_io, clt_crashed, srv, data>>

\* ... stop the io_context, ...
StopIo(c) ==
    /\ CltUp(c) /\ object[c] = "stopping" /\ object' = Set(object, c, "joining")
    /\ UNCHANGED <<app, connect, connected_, receives, clt_sent, clt_io, clt_crashed, connVars>>

\* Faulty: the threads are detached.
Join_Faulty(c) ==
    /\ CltUp(c) /\ object[c] = "joining" /\ object' = Set(object, c, "destroyed")
    /\ UNCHANGED <<app, connect, connected_, receives, clt_sent, clt_io, clt_crashed, connVars>>

\* ... and join the io thread.
Join(c) ==
    /\ CltUp(c) /\ object[c] = "joining" /\ clt_io[c] \in {"none", "exited"}
    /\ object' = Set(object, c, "destroyed")
    /\ UNCHANGED <<app, connect, connected_, receives, clt_sent, clt_io, clt_crashed, connVars>>
=============================================================================
