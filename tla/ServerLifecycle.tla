-------------------------- MODULE ServerLifecycle --------------------------
(***************************************************************************)
(* RpcServer from Start to Stop: the accept loop, one chain of handlers    *)
(* per connection, the io threads, the raw pointers in client_sockets_,    *)
(* and the references that keep the object alive.  Every posted operation  *)
(* and every handler holds one (me = shared_from_this()).                  *)
(***************************************************************************)
EXTENDS Connections, Sequences

CONSTANTS
    NumWorkers,        \* num_worker_
    MaxAcceptFaults    \* bound: accepts that fail

VARIABLES
    stage,             \* how far Start and Stop got
    owner,             \* the application holds its shared_ptr
    accept,            \* the accept operation, or its handler
    chain,             \* per client: the Receive or Send of its socket, or handler
    client_sockets_,   \* connections whose Socket* was pushed
    onNew,             \* the OnNewConnection that is running, if any
    threads,           \* number of workers_ in io_context::run
    acceptFaults, srv_crashed

srvVars == <<stage, owner, accept, chain, client_sockets_, onNew, threads, acceptFaults, srv_crashed>>

None == "none"

ASSUME ClientsAssumption == None \notin Clients

SrvInit ==
    /\ stage = "new" /\ owner = TRUE /\ accept = <<None>>
    /\ chain = [c \in Clients |-> None]
    /\ client_sockets_ = {}
    /\ onNew = <<None>> /\ threads = 0
    /\ acceptFaults = 0 /\ srv_crashed = "no"

SrvUp == srv_crashed = "no"
AcceptorOpen == stage \in {"new", "running"}
\* Faulty: ctx_->Stop() is not called.
CtxStopped_Faulty == FALSE
CtxStopped == stage \in {"ctxstopped", "joining", "stopped"}
Pending == {"reading", "sent"}
Work == accept # <<None>> \/ onNew # <<None>> \/ \E c \in Clients : chain[c] \in Pending
SrvReferred == owner \/ Work
\* A worker is free to run a handler; an OnNewConnection has one to itself.
Free == SrvUp /\ threads > (IF onNew = <<None>> THEN 0 ELSE 1)
SrvRuns == Free /\ ~CtxStopped

\* A handler returns.  If that drops the last reference, ~RpcServer runs here,
\* and Stop joins the thread it runs on.
Returns == srv_crashed' = IF SrvReferred' THEN srv_crashed ELSE "joins itself"

\* AcceptNewConnection; a closed acceptor answers with an error.
Listen == accept' = IF AcceptorOpen THEN <<"pending">> ELSE <<"error">>

Start ==
    /\ SrvUp /\ owner /\ stage = "new" /\ stage' = "running"
    /\ Listen
    /\ threads' = NumWorkers
    /\ UNCHANGED <<owner, chain, client_sockets_, onNew, acceptFaults, srv_crashed, connVars>>

\* async_accept completes.
Accepted(c) ==
    /\ SrvUp /\ accept = <<"pending">> /\ srv[c] = "backlog"
    /\ srv' = Set(srv, c, "open") /\ accept' = <<"ok", c>>
    /\ UNCHANGED <<clt, data, stage, owner, chain, client_sockets_, onNew, threads,
                   acceptFaults, srv_crashed>>

AcceptFails ==
    /\ SrvUp /\ accept = <<"pending">> /\ accept' = <<"error">>
    /\ acceptFaults < MaxAcceptFaults /\ acceptFaults' = acceptFaults + 1
    /\ UNCHANGED <<stage, owner, chain, client_sockets_, onNew, threads, srv_crashed,
                   connVars>>

\* OnNewConnection with an error: nothing is accepted any more.
AcceptEnds ==
    /\ SrvRuns /\ accept = <<"error">>
    /\ accept' = <<None>>
    /\ UNCHANGED <<stage, owner, chain, client_sockets_, onNew, threads, acceptFaults, connVars>>
    /\ Returns

\* OnNewConnection begins ...
OnNewConnection ==
    /\ SrvRuns
    /\ \E c \in Clients : accept = <<"ok", c>> /\ onNew' = <<c>>
    /\ accept' = <<None>>
    /\ UNCHANGED <<stage, owner, chain, client_sockets_, threads, acceptFaults,
                   srv_crashed, connVars>>

\* Faulty: the next connection is not waited for.
Serve_Faulty(c) ==
    /\ SrvUp /\ onNew = <<c>> /\ onNew' = <<None>>
    /\ client_sockets_' = client_sockets_ \cup {c}
    /\ chain' = Set(chain, c, "reading")
    /\ UNCHANGED <<stage, owner, accept, threads, acceptFaults, connVars>>
    /\ Returns

\* ... remembers the socket, ReadIncomingPacket, AcceptNewConnection.
Serve(c) ==
    /\ SrvUp /\ onNew = <<c>> /\ onNew' = <<None>>
    /\ client_sockets_' = client_sockets_ \cup {c}
    /\ chain' = Set(chain, c, "reading")
    /\ Listen
    /\ UNCHANGED <<stage, owner, threads, acceptFaults, connVars>>
    /\ Returns

\* A Receive brings a request: OnReceiveFinished, Dispatch, the handler, Send.
Dispatch(c) ==
    /\ SrvRuns /\ chain[c] = "reading" /\ srv[c] = "open" /\ data[c] = "request"
    /\ chain' = Set(chain, c, "sent") /\ data' = Set(data, c, "reply")
    /\ UNCHANGED <<clt, srv, stage, owner, accept, client_sockets_, onNew, threads,
                   acceptFaults, srv_crashed>>

\* OnSendFinished: read on.
ReadOn(c) ==
    /\ SrvRuns /\ chain[c] = "sent" /\ srv[c] = "open"
    /\ chain' = Set(chain, c, "reading")
    /\ UNCHANGED <<stage, owner, accept, client_sockets_, onNew, threads, acceptFaults,
                   srv_crashed, connVars>>

\* A failed Receive or Send ends the chain and destroys its Socket.
ChainEnds(c) ==
    /\ SrvRuns /\ chain[c] \in {"reading", "sent"}
    /\ srv[c] = "closed" \/ (clt[c] = "closed" /\ data[c] # "request")
    /\ chain' = Set(chain, c, "ended") /\ srv' = Set(srv, c, "closed")
    /\ UNCHANGED <<clt, data, stage, owner, accept, client_sockets_, onNew, threads, acceptFaults>>
    /\ Returns

\* io_context::run returns: stopped, or nothing left to wait for.
SrvExit ==
    /\ Free /\ (CtxStopped \/ ~Work)
    /\ threads' = threads - 1
    /\ UNCHANGED <<stage, owner, accept, chain, client_sockets_, onNew, acceptFaults,
                   srv_crashed, connVars>>

\* Stop, called by the application, or by ~RpcServer on its thread.
StopAccepting ==
    /\ SrvUp /\ stage = "running" /\ (owner \/ ~SrvReferred)
    /\ stage' = "closed"
    /\ accept' = IF accept = <<"pending">> THEN <<"error">> ELSE accept
    /\ srv' = [c \in Clients |-> IF srv[c] = "backlog" THEN "closed" ELSE srv[c]]
    /\ UNCHANGED <<clt, data, owner, chain, client_sockets_, onNew, threads, acceptFaults, srv_crashed>>

StopContext ==
    /\ SrvUp /\ stage = "closed" /\ stage' = "ctxstopped"
    /\ UNCHANGED <<owner, accept, chain, client_sockets_, onNew, threads, acceptFaults,
                   srv_crashed, connVars>>

\* Faulty: the sockets are left open.
ClosedBy_Faulty == {}
ClosedBy == client_sockets_

\* CloseAllClientSockets.  The Socket of a chain that has ended is gone:
\* AddressSanitizer aborts, a plain build may get away with it.
CloseSockets ==
    /\ SrvUp /\ stage = "ctxstopped" /\ stage' = "joining"
    /\ srv' = [c \in Clients |-> IF c \in ClosedBy THEN "closed" ELSE srv[c]]
    /\ \/ UNCHANGED srv_crashed
       \/ /\ \E c \in ClosedBy : chain[c] = "ended"
          /\ srv_crashed' = "use after free"
    /\ UNCHANGED <<clt, data, owner, accept, chain, client_sockets_, onNew, threads, acceptFaults>>

JoinWorkers ==
    /\ SrvUp /\ stage = "joining" /\ threads = 0
    /\ stage' = "stopped"
    /\ UNCHANGED <<owner, accept, chain, client_sockets_, onNew, threads, acceptFaults,
                   srv_crashed, connVars>>

\* The application lets go of a server it has not stopped.
DropServer ==
    /\ SrvUp /\ owner /\ stage = "running" /\ owner' = FALSE
    /\ UNCHANGED <<stage, accept, chain, client_sockets_, onNew, threads, acceptFaults,
                   srv_crashed, connVars>>
=============================================================================
