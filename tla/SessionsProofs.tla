--------------------------- MODULE SessionsProofs ---------------------------
(***************************************************************************)
(* The safety of Sessions, for any number of clients, leavers, io threads  *)
(* and failing accepts.  The client's side and the server's side have an   *)
(* inductive invariant each, which the steps of the other side leave alone.*)
(***************************************************************************)
EXTENDS Sessions, FiniteSetTheorems, TLAPS

-----------------------------------------------------------------------------
(* The client. *)

CltTypes ==
    /\ app \in [Clients -> {"new", "waiting", "timed out", "ready", "called",
                           "answered", "dropped"}]
    /\ object \in [Clients -> {"alive", "closing", "stopping", "joining", "destroyed"}]
    /\ connect \in [Clients -> {"none", "pending", "ok", "error", "done"}]
    /\ clt_io \in [Clients -> {"none", "idle", "listen", "exited"}]
    /\ connected_ \in [Clients -> BOOLEAN]

\* Where the application thread is tells what was established; a destructor
\* runs only after the application has let go; and the io thread of a client
\* that is destroyed has ended.
Established(c) ==
    /\ app[c] = "new" => connect[c] = "none" /\ ~connected_[c]
    /\ connected_[c] => connect[c] = "done"
    /\ app[c] \in {"ready", "called", "answered"} => connect[c] = "done"
LetGo(c) == object[c] # "alive" => app[c] = "dropped"
Ended(c) == object[c] = "destroyed" => clt_io[c] \notin {"idle", "listen"}

CltInv == CltTypes /\ \A c \in Clients : Established(c) /\ LetGo(c) /\ Ended(c)

LEMMA CltInvInit == Init => CltInv
BY DEF Init, CltInit, CltInv, CltTypes, Established, LetGo, Ended

\* The handlers of the io thread keep the client's invariant.
LEMMA CltInvThread ==
  ASSUME CltInv, NEW c \in Clients, CltThread(c)
  PROVE  CltInv'
<1> USE DEF CltInv, CltTypes, Established, LetGo, Ended, Set, Runs, Stopping
<1>1. CASE ConnectFailed(c)
  BY <1>1 DEF ConnectFailed
<1>2. CASE OnConnected(c)
  BY <1>2 DEF OnConnected
<1>3. CASE ListenFromServer(c)
  BY <1>3 DEF ListenFromServer
<1>4. CASE OnSendFinished(c)
  BY <1>4 DEF OnSendFinished
<1>5. CASE OnReply(c)
  BY <1>5 DEF OnReply
<1>6. CASE OnEof(c)
  BY <1>6 DEF OnEof
<1>7. CASE CltExit(c)
  BY <1>7 DEF CltExit
<1> QED
  BY <1>1, <1>2, <1>3, <1>4, <1>5, <1>6, <1>7 DEF CltThread

\* So do the application and the destructor.
LEMMA CltInvClient ==
  ASSUME CltInv, NEW c \in Clients, Client(c)
  PROVE  CltInv'
<1> USE DEF CltInv, CltTypes, Established, LetGo, Ended, Set
<1>1. CASE ConnectToServer(c)
  BY <1>1 DEF ConnectToServer
<1>2. CASE WaitUntilConnected(c)
  <2>1. CASE connected_[c] /\ app' = Set(app, c, "ready")
    BY <1>2, <2>1 DEF WaitUntilConnected
  <2>2. CASE app' = Set(app, c, "timed out")
    BY <1>2, <2>2 DEF WaitUntilConnected
  <2> QED
    BY <1>2, <2>1, <2>2 DEF WaitUntilConnected
<1>3. CASE Call(c)
  BY <1>3 DEF Call
<1>4. CASE Drop(c)
  <2>1. object' = object \/ object' = [object EXCEPT ![c] = "closing"]
    BY <1>4 DEF Drop
  <2> QED
    BY <1>4, <2>1 DEF Drop
<1>5. CASE CloseSocket(c)
  BY <1>5 DEF CloseSocket
<1>6. CASE StopIo(c)
  BY <1>6 DEF StopIo
<1>7. CASE Join(c)
  BY <1>7 DEF Join
<1> QED
  BY <1>1, <1>2, <1>3, <1>4, <1>5, <1>6, <1>7 DEF Client, Destructor

LEMMA CltInvStep == CltInv /\ [Next]_vars => CltInv'
<1> SUFFICES ASSUME CltInv, [Next]_vars PROVE CltInv'
  OBVIOUS
<1>1. CASE UNCHANGED cltVars
  BY <1>1 DEF cltVars, CltInv, CltTypes, Established, LetGo, Ended
<1>2. ASSUME NEW c \in Clients, ConnectCompletes(c) PROVE CltInv'
  <2>1. /\ connect[c] = "pending"
        /\ connect' = [connect EXCEPT ![c] = "ok"] \/ connect' = [connect EXCEPT ![c] = "error"]
        /\ UNCHANGED <<app, object, clt_io, connected_>>
    BY <1>2 DEF ConnectCompletes, Set
  <2> QED
    BY <2>1 DEF CltInv, CltTypes, Established, LetGo, Ended
<1>3. ASSUME NEW c \in Clients, Client(c) \/ CltThread(c) PROVE CltInv'
  BY <1>3, CltInvClient, CltInvThread
<1>4. CASE UNCHANGED vars
  BY <1>1, <1>4 DEF vars
<1> QED
  BY <1>1, <1>2, <1>3, <1>4 DEF Next

\* The Connect handler, which holds no reference to its client, never runs on
\* one that is destroyed: ~RpcClient has joined the io thread by then.
THEOREM ConnectHandlerIsOutlived == Spec => []ConnectHandlerOutlived
<1>1. CltInv => ConnectHandlerOutlived
  BY DEF CltInv, Ended, ConnectHandlerOutlived
<1> QED
  BY <1>1, CltInvInit, CltInvStep, PTL DEF Spec

\* Whoever calls has waited for the connection (WaitUntilConnected).
THEOREM CallersAreConnected == Spec => []CallsAreConnected
<1>1. CltInv => CallsAreConnected
  BY DEF CltInv, Established, CallsAreConnected
<1> QED
  BY <1>1, CltInvInit, CltInvStep, PTL DEF Spec

-----------------------------------------------------------------------------
(* The server. *)

\* Nothing is accepted once Stop has begun, and a connection that was accepted
\* is in client_sockets_ or in the hands of the one handler that will put it
\* there, of which there is never a second.
Accepting ==
    /\ stage = "new" => accept = <<None>> /\ onNew = <<None>>
    /\ accept = <<"pending">> => AcceptorOpen
    /\ onNew # <<None>> => accept = <<None>>
Tracked ==
    \A c \in Clients : srv[c] = "open" =>
        c \in client_sockets_ \/ accept = <<"ok", c>> \/ onNew = <<c>>
Alone == \A c, d \in Clients : srv[c] = "open" /\ srv[d] = "open" => c = d
Closed == stage \in {"joining", "stopped"}

SrvInv ==
    /\ srv \in [Clients -> {"none", "backlog", "open", "closed"}]
    /\ Accepting
    /\ ~Closed => Tracked
    /\ Closed => Alone

\* An accept operation is in one state at a time, and so is OnNewConnection.
LEMMA AcceptStates ==
  /\ <<"pending">> # <<None>> /\ <<"error">> # <<None>> /\ <<"pending">> # <<"error">>
  /\ \A c \in Clients : /\ <<"ok", c>> # <<None>> /\ <<"ok", c>> # <<"pending">>
                        /\ <<"ok", c>> # <<"error">> /\ <<c>> # <<None>>
  /\ \A c, d \in Clients : <<"ok", c>> = <<"ok", d>> => c = d
BY ClientsAssumption DEF None

LEMMA SrvInvInit == Init => SrvInv
BY DEF Init, ConnInit, SrvInit, SrvInv, Accepting, Tracked, Alone, Closed, AcceptorOpen

\* Steps of the server's io threads.
LEMMA SrvInvThread ==
  ASSUME SrvInv, SrvThread
  PROVE  SrvInv'
<1> USE DEF SrvInv, Accepting, Tracked, Alone, Closed, AcceptorOpen, Set
<1>1. CASE AcceptEnds
  BY <1>1, AcceptStates DEF AcceptEnds, connVars
<1>2. CASE OnNewConnection
  BY <1>2, AcceptStates DEF OnNewConnection, connVars
<1>3. CASE SrvExit
  BY <1>3 DEF SrvExit, connVars
<1>4. ASSUME NEW c \in Clients, Serve(c) PROVE SrvInv'
  <2>1. onNew # <<None>> /\ accept = <<None>>
    BY <1>4, ClientsAssumption DEF Serve
  <2> QED
    BY <1>4, <2>1 DEF Serve, Listen, connVars
<1>5. ASSUME NEW c \in Clients, Dispatch(c) \/ ReadOn(c) PROVE SrvInv'
  BY <1>5 DEF Dispatch, ReadOn, connVars
<1>6. ASSUME NEW c \in Clients, ChainEnds(c) PROVE SrvInv'
  BY <1>6 DEF ChainEnds
<1> QED
  BY <1>1, <1>2, <1>3, <1>4, <1>5, <1>6 DEF SrvThread

\* Start, Stop and letting go.
LEMMA SrvInvServer ==
  ASSUME SrvInv, Server
  PROVE  SrvInv'
<1> USE DEF SrvInv, Accepting, Tracked, Alone, Closed, AcceptorOpen
<1>1. CASE Start
  BY <1>1 DEF Start, Listen, connVars
<1>2. CASE StopAccepting
  BY <1>2, AcceptStates DEF StopAccepting
<1>3. CASE StopContext
  BY <1>3 DEF StopContext, connVars
<1>4. CASE CloseSockets
  \* What stays open is not in client_sockets_, so one handler has it.
  <2>1. Tracked /\ Accepting /\ ~AcceptorOpen
    BY <1>4 DEF CloseSockets
  <2>2. ASSUME NEW c \in Clients, NEW d \in Clients, srv'[c] = "open", srv'[d] = "open"
        PROVE  c = d
    <3>1. srv[c] = "open" /\ srv[d] = "open" /\ c \notin client_sockets_ /\ d \notin client_sockets_
      BY <1>4, <2>2 DEF CloseSockets, ClosedBy
    <3>2. /\ accept = <<"ok", c>> \/ onNew = <<c>>
          /\ accept = <<"ok", d>> \/ onNew = <<d>>
      BY <2>1, <3>1
    <3> QED
      BY <2>1, <3>2, AcceptStates DEF Accepting
  <2> QED
    BY <1>4, <2>1, <2>2 DEF CloseSockets
<1>5. CASE JoinWorkers
  BY <1>5 DEF JoinWorkers, connVars
<1>6. CASE DropServer
  BY <1>6 DEF DropServer, connVars
<1> QED
  BY <1>1, <1>2, <1>3, <1>4, <1>5, <1>6 DEF Server

LEMMA SrvInvStep == SrvInv /\ [Next]_vars => SrvInv'
<1> SUFFICES ASSUME SrvInv, [Next]_vars PROVE SrvInv'
  OBVIOUS
<1> USE DEF SrvInv, Accepting, Tracked, Alone, Closed, AcceptorOpen, Set
<1>1. ASSUME NEW c \in Clients, ConnectCompletes(c) PROVE SrvInv'
  BY <1>1 DEF ConnectCompletes, srvVars
<1>2. ASSUME NEW c \in Clients, Client(c) \/ CltThread(c), UNCHANGED srvVars PROVE SrvInv'
  <2>1. UNCHANGED srv
    BY <1>2 DEF Client, CltThread, Destructor, ConnectToServer, WaitUntilConnected, Call, Drop,
       CloseSocket, StopIo, Join, ConnectFailed, OnConnected, ListenFromServer, OnSendFinished,
       OnReply, OnEof, CltExit, connVars
  <2> QED
    BY <1>2, <2>1 DEF srvVars
<1>3. ASSUME NEW c \in Clients, Accepted(c) PROVE SrvInv'
  BY <1>3, AcceptStates DEF Accepted
<1>4. CASE AcceptFails
  BY <1>4, AcceptStates DEF AcceptFails, connVars
<1>5. CASE SrvThread
  BY <1>5, SrvInvThread
<1>6. CASE Server
  BY <1>6, SrvInvServer
<1>7. CASE UNCHANGED vars
  BY <1>7 DEF vars, connVars, srvVars
<1> QED
  BY <1>1, <1>2, <1>3, <1>4, <1>5, <1>6, <1>7 DEF Next

\* When Stop has returned the server's end of at most one connection is open,
\* whatever was accepted, served or closed while Stop ran.
THEOREM StopLeavesAtMostOne == Spec => []AtMostOneSurvivor
<1>1. ASSUME SrvInv PROVE AtMostOneSurvivor
  <2> SUFFICES ASSUME stage = "stopped"
               PROVE  Cardinality({c \in Clients : srv[c] = "open"}) <= 1
    BY DEF AtMostOneSurvivor
  <2>1. Alone
    BY <1>1 DEF SrvInv, Closed
  <2>2. CASE {c \in Clients : srv[c] = "open"} = {}
    BY <2>2, FS_EmptySet
  <2>3. ASSUME NEW d \in Clients, srv[d] = "open"
        PROVE  Cardinality({c \in Clients : srv[c] = "open"}) <= 1
    <3>1. {c \in Clients : srv[c] = "open"} = {d}
      BY <2>1, <2>3 DEF Alone
    <3>2. Cardinality({d}) = 1
      BY FS_Singleton
    <3> QED
      BY <3>1, <3>2
  <2> QED
    BY <2>2, <2>3
<1> QED
  BY <1>1, SrvInvInit, SrvInvStep, PTL DEF Spec
=============================================================================
