-------------------------- MODULE RpcSystemProofs --------------------------
(***************************************************************************)
(* Client and server together, over any number of connections, with any    *)
(* number of failures, losses, breaks and server processes: each is to the *)
(* other what its own module assumes, so what is proved of one alone holds *)
(* in the system.                                                          *)
(***************************************************************************)
EXTENDS RpcSystem, FiniteSetTheorems, TLAPS

CP == INSTANCE RpcClientProofs WITH
           Retrans <- CltNonce > 0, crashed <- clt_crashed,
           Results <- {1} \cup {SrvNonces[i] : i \in 1..MaxInstances}
SP == INSTANCE RpcServerProofs WITH
           Nonces <- {CltNonce}, Procs <- CallProcs \cup {BIND},
           crashed <- srv_crashed

-----------------------------------------------------------------------------
(* The two modules as they are instantiated for the specification and for  *)
(* their proofs are the same.                                              *)

LEMMA ClientAssumptions ==
    /\ CP!RetransAssumption /\ CP!BoundsAssumption /\ CP!SendErrsAssumption
    /\ CP!BindAssumption /\ CP!ResultsAssumption /\ CP!HandlerErrsAssumption
BY NonceAssumption, BoundsAssumption, SendErrsAssumption, ProcsAssumption, SrvNoncesAssumption,
   HandlerErrsAssumption
   DEF CP!RetransAssumption, CP!BoundsAssumption, CP!SendErrsAssumption, CP!BindAssumption,
       CP!ResultsAssumption, CP!HandlerErrsAssumption

LEMMA ServerAssumptions ==
    /\ SP!NoncesAssumption /\ SP!XidsAssumption /\ SP!ProcsAssumption
    /\ SP!InstancesAssumption /\ SP!SrvNoncesAssumption /\ SP!HandlerErrsAssumption
BY NonceAssumption, BoundsAssumption, SrvNoncesAssumption, HandlerErrsAssumption
   DEF SP!HandlerErrsAssumption, SP!NoncesAssumption, SP!XidsAssumption, SP!ProcsAssumption, SP!InstancesAssumption,
       SP!SrvNoncesAssumption, SP!Instances, Xids

LEMMA ClientNames ==
    /\ CP!Xids = Xids /\ Clt!Xids = Xids /\ Clt!AllProcs = CP!AllProcs
    /\ Clt!SendStates = CP!SendStates /\ Clt!NoSends = CP!NoSends
    /\ Clt!NoCall = CP!NoCall /\ Clt!NoCaller = CP!NoCaller /\ Clt!Idle = CP!Idle
    /\ Clt!callVars = CP!callVars /\ Clt!ioVars = CP!ioVars /\ Clt!auxVars = CP!auxVars
    /\ Clt!vars = CP!vars
BY DEF Clt!Xids, CP!Xids, Xids, Clt!AllProcs, CP!AllProcs, Clt!SendStates, CP!SendStates,
   Clt!NoSends, CP!NoSends, Clt!NoCall, CP!NoCall, Clt!NoCaller, CP!NoCaller,
   Clt!Idle, CP!Idle, Clt!Step, CP!Step, Clt!callVars, CP!callVars, Clt!ioVars,
   CP!ioVars, Clt!auxVars, CP!auxVars, Clt!vars, CP!vars

LEMMA ClientSteps ==
    \A op, x, e, r : Clt!Step(op, x, e, r) = CP!Step(op, x, e, r)
BY DEF Clt!Step, CP!Step

LEMMA ClientWindow ==
    \A w, x : /\ Clt!ReceivedXid(w) = CP!ReceivedXid(w)
              /\ Clt!UpdatedXidRep(w, x) = CP!UpdatedXidRep(w, x)
BY DEF Clt!ReceivedXid, CP!ReceivedXid, Clt!UpdatedXidRep, CP!UpdatedXidRep,
   Clt!Compressed, CP!Compressed, Clt!Inserted, CP!Inserted, Clt!Unbroken,
   CP!Unbroken, Clt!Min, CP!Min, Clt!Max, CP!Max, Clt!Range, CP!Range, Clt!InsertAt,
   CP!InsertAt

LEMMA ClientInit ==
    Clt!Init <=> CP!Init
BY ClientNames DEF Clt!Init, CP!Init

LEMMA RegisterIs ==
    \A p : Clt!Register(p) <=> CP!Register(p)
BY DEF Clt!NoCall, CP!NoCall, Clt!Register, CP!Register

LEMMA CallStartIs ==
    \A p : Clt!CallStart(p) <=> CP!CallStart(p)
BY RegisterIs DEF Clt!Xids, CP!Xids, Clt!ioVars, CP!ioVars, Clt!auxVars, CP!auxVars,
   Clt!Cardinality, CP!Cardinality, Clt!CallStart, CP!CallStart, Clt!Running, CP!Running

LEMMA AppThreadIs ==
    \A x : Clt!AppThread(x) <=> CP!AppThread(x)
BY DEF Clt!ioVars, CP!ioVars, Clt!auxVars, CP!auxVars, Clt!ReceivedXid, CP!ReceivedXid,
   Clt!AppThread, CP!AppThread, Clt!CallReadAck, CP!CallReadAck, Clt!CallSend,
   CP!CallSend, Clt!CallWait, CP!CallWait, Clt!Running, CP!Running, Clt!Queued,
   CP!Queued, Clt!Touch, CP!Touch

LEMMA GotPduIs ==
    \A w : /\ Clt!UpdateXidRep(w) <=> CP!UpdateXidRep(w)
           /\ Clt!TakeCaller(w) <=> CP!TakeCaller(w)
           /\ Clt!FinishCaller(w) <=> CP!FinishCaller(w)
           /\ Clt!Callback(w) <=> CP!Callback(w)
<1>. USE DEF Clt!Idle, CP!Idle, Clt!Step, CP!Step, Clt!callVars, CP!callVars, Clt!auxVars,
     CP!auxVars, Clt!Running, CP!Running, Clt!Goto, CP!Goto
<1>1. \A w : Clt!UpdateXidRep(w) <=> CP!UpdateXidRep(w)
  BY ClientWindow DEF Clt!UpdateXidRep, CP!UpdateXidRep
<1>2. \A w : Clt!TakeCaller(w) <=> CP!TakeCaller(w)
  BY DEF Clt!TakeCaller, CP!TakeCaller
<1>3. \A w : Clt!FinishCaller(w) <=> CP!FinishCaller(w)
  BY DEF Clt!FinishCaller, CP!FinishCaller, Clt!Destroy, CP!Destroy
<1>4. \A w : Clt!Callback(w) <=> CP!Callback(w)
  BY DEF Clt!Callback, CP!Callback, Clt!CalledBack, CP!CalledBack, Clt!Destroy, CP!Destroy,
         Clt!AfterError, CP!AfterError
<1>. QED
  BY <1>1, <1>2, <1>3, <1>4

LEMMA SenderIs ==
    \A w : /\ Clt!Resend(w) <=> CP!Resend(w)
           /\ Clt!RetrySend(w) <=> CP!RetrySend(w)
           /\ Clt!GiveUp(w) <=> CP!GiveUp(w)
           /\ Clt!FailCallback(w) <=> CP!FailCallback(w)
           /\ Clt!Rebind(w) <=> CP!Rebind(w)
BY DEF Clt!NoCall, CP!NoCall, Clt!Idle, CP!Idle, Clt!Step, CP!Step, Clt!callVars,
   CP!callVars, Clt!auxVars, CP!auxVars, Clt!Resend, CP!Resend, Clt!RetrySend,
   CP!RetrySend, Clt!GiveUp, CP!GiveUp, Clt!FailCallback, CP!FailCallback, Clt!Rebind,
   CP!Rebind, Clt!Register, CP!Register, Clt!Running, CP!Running, Clt!Goto, CP!Goto,
   Clt!CalledBack, CP!CalledBack, Clt!Queued, CP!Queued, Clt!Touch, CP!Touch,
   Clt!AfterError, CP!AfterError

LEMMA CompletionsAre ==
    \A w, x, e : /\ Clt!OnTimerExpired(w, x) <=> CP!OnTimerExpired(w, x)
                 /\ Clt!SendSucceeded(w, x) <=> CP!SendSucceeded(w, x)
                 /\ Clt!SendFailed(w, x, e) <=> CP!SendFailed(w, x, e)
BY DEF Clt!Idle, CP!Idle, Clt!Step, CP!Step, Clt!auxVars, CP!auxVars,
   Clt!OnTimerExpired, CP!OnTimerExpired, Clt!SendSucceeded, CP!SendSucceeded,
   Clt!SendFailed, CP!SendFailed, Clt!Running, CP!Running, Clt!Goto, CP!Goto,
   Clt!CalledBack, CP!CalledBack, Clt!Touch, CP!Touch, Clt!AfterError, CP!AfterError

LEMMA WorkerIs ==
    \A w : Clt!Worker(w) <=> CP!Worker(w)
BY ClientNames, GotPduIs, SenderIs, CompletionsAre DEF Clt!Worker, CP!Worker

LEMMA EnvironmentIs ==
    Clt!Environment <=> CP!Environment
BY DEF Clt!Xids, CP!Xids, Clt!Idle, CP!Idle, Clt!Step, CP!Step, Clt!callVars,
   CP!callVars, Clt!ioVars, CP!ioVars, Clt!auxVars, CP!auxVars, Clt!Environment,
   CP!Environment, Clt!TimerExpires, CP!TimerExpires, Clt!SendResolves, CP!SendResolves,
   Clt!Reconnected, CP!Reconnected, Clt!ReceiveFails, CP!ReceiveFails, Clt!ReceiveReply,
   CP!ReceiveReply, Clt!Refusals, CP!Refusals, Clt!Answers, CP!Answers, Clt!AnyReply, CP!AnyReply, Clt!Running,
   CP!Running, Clt!Moved, CP!Moved, Clt!Touch, CP!Touch, Clt!Goto, CP!Goto

LEMMA ClientNext ==
    Clt!Next <=> CP!Next
BY ClientNames, CallStartIs, AppThreadIs, WorkerIs, EnvironmentIs DEF Clt!Next,
   CP!Next

LEMMA ClientVars == UNCHANGED Clt!vars <=> UNCHANGED CP!vars
BY DEF Clt!vars, CP!vars, Clt!callVars, CP!callVars, Clt!ioVars, CP!ioVars, Clt!auxVars,
       CP!auxVars

LEMMA ServerVars == UNCHANGED Srv!vars <=> UNCHANGED SP!vars
BY DEF Srv!vars, SP!vars

LEMMA ServerInit ==
    Srv!vars = SP!vars /\ Srv!vars = srvVars /\ (Srv!Init <=> SP!Init)
BY DEF Srv!vars, SP!vars, srvVars, Srv!Init, SP!Init, Srv!Closed, SP!Closed, Srv!Task, SP!Task,
   Srv!NoRequest, SP!NoRequest, Srv!NoReply, SP!NoReply, Srv!Reply, SP!Reply,
   Srv!Request, SP!Request, Srv!Instances, SP!Instances

LEMMA ServerNext ==
    Srv!Next <=> SP!Next
BY DEF Srv!Next, SP!Next, Srv!Register, SP!Register, Srv!Requests, SP!Requests,
   Srv!Issue, SP!Issue, Srv!Restart, SP!Restart, Srv!Closed, SP!Closed, Srv!Task,
   SP!Task, Srv!NoRequest, SP!NoRequest, Srv!NoReply, SP!NoReply, Srv!Reply, SP!Reply,
   Srv!Request, SP!Request, Srv!Instances, SP!Instances, Srv!Connection,
   SP!Connection, Srv!OnNewConnection, SP!OnNewConnection, Srv!Goto, SP!Goto,
   Srv!Reading, SP!Reading, Srv!ReceiveFails, SP!ReceiveFails, Srv!Dead, SP!Dead,
   Srv!Dispatch, SP!Dispatch, Srv!DispatchOldServer, SP!DispatchOldServer,
   Srv!OldServer, SP!OldServer, Srv!Nonce, SP!Nonce, Srv!DispatchUnknownProc,
   SP!DispatchUnknownProc, Srv!DispatchPlain, SP!DispatchPlain, Srv!DispatchTracked,
   SP!DispatchTracked, Srv!UpdatedAck, SP!UpdatedAck, Srv!AfterCheck, SP!AfterCheck,
   Srv!CheckedWindow, SP!CheckedWindow, Srv!DupState, SP!DupState, Srv!Remembered,
   SP!Remembered, Srv!FirstAtLeast, SP!FirstAtLeast, Srv!Trim, SP!Trim, Srv!Remember,
   SP!Remember, Srv!ReplyT, SP!ReplyT, Srv!InsertAt, SP!InsertAt, Srv!Min, SP!Min,
   Srv!Handle, SP!Handle, Srv!Key, SP!Key, Srv!Result, SP!Result, Srv!AddReply,
   SP!AddReply, Srv!Holds, SP!Holds, Srv!AddedReply, SP!AddedReply, Srv!SendReply,
   SP!SendReply, Srv!SendOld, SP!SendOld, Srv!SendDangling, SP!SendDangling,
   Srv!RepBufDangles, SP!RepBufDangles

LEMMA ServerChecks ==
    \A k, m : Srv!DispatchTracked(k, m) <=> SP!DispatchTracked(k, m)
<1>1. \A w, x : Srv!FirstAtLeast(w, x) = SP!FirstAtLeast(w, x)
  BY DEF Srv!FirstAtLeast, SP!FirstAtLeast, Srv!Min, SP!Min
<1>2. \A w, a, x : Srv!DupState(w, a, x) = SP!DupState(w, a, x)
  BY <1>1 DEF Srv!DupState, SP!DupState
<1>3. \A w, a, x : Srv!CheckedWindow(w, a, x) = SP!CheckedWindow(w, a, x)
  <2>1. \A w, x : Srv!Remember(w, x) = SP!Remember(w, x)
    BY <1>1 DEF Srv!Remember, SP!Remember, Srv!ReplyT, SP!ReplyT, Srv!InsertAt, SP!InsertAt,
                Srv!NoReply, SP!NoReply, Srv!Reply, SP!Reply
  <2>2. \A w, a : Srv!Trim(w, a) = SP!Trim(w, a)
    BY <1>1 DEF Srv!Trim, SP!Trim
  <2>. QED
    BY <1>2, <2>1, <2>2 DEF Srv!CheckedWindow, SP!CheckedWindow
<1>4. \A state, m, w : Srv!AfterCheck(state, m, w) = SP!AfterCheck(state, m, w)
  BY <1>1 DEF Srv!AfterCheck, SP!AfterCheck, Srv!Task, SP!Task, Srv!Reading, SP!Reading,
              Srv!Remembered, SP!Remembered, Srv!NoRequest, SP!NoRequest, Srv!NoReply,
              SP!NoReply, Srv!Reply, SP!Reply, Srv!Request, SP!Request
<1>5. \A ack, m : Srv!UpdatedAck(ack, m) = SP!UpdatedAck(ack, m)
  BY DEF Srv!UpdatedAck, SP!UpdatedAck
<1>6. \A m : Srv!OldServer(m) <=> SP!OldServer(m)
  BY DEF Srv!OldServer, SP!OldServer, Srv!Nonce, SP!Nonce
<1>7. \A k, t : Srv!Goto(k, t) <=> SP!Goto(k, t)
  BY DEF Srv!Goto, SP!Goto
<1>. QED
  BY <1>2, <1>3, <1>4, <1>5, <1>6, <1>7 DEF Srv!DispatchTracked, SP!DispatchTracked
-----------------------------------------------------------------------------
(* What the two have to agree on. *)

\* The server has been asked what the client has sent, and nothing else.
IssuedAreSent == issued = {Request(x) : x \in {y \in Xids : CP!Sent(y)}}

NetTyped == /\ conn \in Conns
            /\ toServer = [k \in Conns |-> toServer[k]]
            /\ toClient = [k \in Conns |-> toClient[k]]

RequestsSent == \A k \in Conns : \A x \in BagToSet(toServer[k]) \cap Xids : CP!Sent(x)

\* A reply on its way, or in the hands of an io thread, is an answer the
\* server gave to a request.
Answer(rep) == \E m \in issued : SP!Honest(rep, m)
RepliesHonest == \A k \in Conns : \A rep \in BagToSet(toClient[k]) : Answer(rep)
HandlersHonest == \A w \in Workers : io[w].op \in CP!ReplyOps => Answer(io[w])

\* A client that is bound knows the nonce of a server process that was there.
Known == IF bind_done THEN \E i \in 1..instance : srv_nonce = SrvNonces[i] ELSE srv_nonce = 0

Agreed == /\ IssuedAreSent /\ NetTyped /\ RequestsSent /\ RepliesHonest
          /\ HandlersHonest /\ Known
Parts == CP!Shape /\ CP!Orderly /\ SP!Shape /\ SP!Bound /\ SP!HonestReplies
SysInv == Parts /\ Agreed

LEMMA RequestIs ==
    ASSUME NEW x
    PROVE  LET m == Request(x) IN
           /\ m.xid = x /\ m.proc = call[x].proc /\ m.clt_nonce = CltNonce
           /\ m.srv_nonce = call[x].srv_nonce /\ m.xid_rep = call[x].xid_rep
BY DEF Request, Srv!Request

\* Replies with the same contents are answers to the same requests.
LEMMA SameAnswer ==
    ASSUME NEW r, NEW s, r.xid = s.xid, r.err = s.err, r.result = s.result, Answer(s)
    PROVE  Answer(r)
BY DEF Answer, SP!Honest, SP!HonestIn

\* An answer is to the request of the xid it carries.
LEMMA AnswerTo ==
    ASSUME IssuedAreSent, NEW rep, Answer(rep)
    PROVE  rep.xid \in Xids /\ CP!Sent(rep.xid) /\ SP!Honest(rep, Request(rep.xid))
<1>1. PICK m \in issued : SP!Honest(rep, m)
  BY DEF Answer
<1>2. PICK x \in Xids : CP!Sent(x) /\ m = Request(x)
  BY <1>1 DEF IssuedAreSent
<1>3. rep.xid = x
  BY <1>1, <1>2, RequestIs DEF SP!Honest, SP!HonestIn
<1>. QED
  BY <1>1, <1>2, <1>3

\* What a handler returned, with its result, and the two refusals of Dispatch,
\* without one, are all the client is prepared for.
LEMMA AnswerIsExpected ==
    ASSUME SP!Shape, IssuedAreSent, NEW rep, Answer(rep)
    PROVE  /\ rep.result \in {0} \cup ({1} \cup {SrvNonces[i] : i \in 1..MaxInstances})
           /\ \/ rep.err \in HandlerErrs /\ rep.result > 0
              \/ rep.err \in {"OLDSERVER_FAILURE", "ATMOST_ONCE_FAILURE"} /\ rep.result = 0
           /\ rep.result > 0 /\ call[rep.xid].proc = BIND =>
                 rep.err = "OK" /\ \E i \in 1..instance : rep.result = SrvNonces[i]
<1>1. PICK m : m = Request(rep.xid)
  OBVIOUS
<1>2. SP!Honest(rep, m) /\ m.proc = call[rep.xid].proc
  BY <1>1, AnswerTo, RequestIs
<1>3. instance \in 1..MaxInstances
  BY DEF SP!Shape, SP!TypeOK, SP!Instances
<1>4. \A i \in 1..instance : i \in 1..MaxInstances /\ SrvNonces[i] \in Nat \ {0}
  BY <1>3, SrvNoncesAssumption, BoundsAssumption
<1>5. CASE rep.err \in {"OLDSERVER_FAILURE", "ATMOST_ONCE_FAILURE"} /\ rep.result = 0
  BY <1>5
<1>6. CASE /\ rep.err \in HandlerErrs
           /\ m.proc = BIND => rep.err = "OK"
           /\ m.proc = BIND => \E i \in 1..instance : rep.result = SrvNonces[i]
           /\ m.proc # BIND => rep.result = 1
  <2>2. CASE m.proc = BIND
    <3>1. PICK i \in 1..instance : rep.result = SrvNonces[i]
      BY <1>6, <2>2
    <3>. QED
      BY <1>2, <1>4, <1>6, <2>2, <3>1
  <2>3. CASE m.proc # BIND
    <3>1. rep.result = 1
      BY <1>6, <2>3
    <3>. QED
      BY <1>2, <1>6, <2>3, <3>1
  <2>. QED
    BY <2>2, <2>3
<1>. QED
  BY <1>2, <1>5, <1>6 DEF SP!Honest, SP!HonestIn

LEMMA SysInit == Init => SysInv
<1>. SUFFICES ASSUME Init PROVE SysInv
  OBVIOUS
<1>1. CP!Init /\ SP!Init
  BY ClientInit, ServerInit DEF Init
<1>2. CP!Shape /\ CP!Orderly
  BY <1>1, CP!ShapeInit, CP!OrderlyInit, ClientAssumptions
<1>3. SP!Shape /\ SP!Bound /\ SP!HonestReplies
  BY <1>1, SP!ShapeInit, SP!BoundInit, SP!HonestInit, ServerAssumptions
<1>4. issued = {} /\ ~bind_done /\ srv_nonce = 0
  BY DEF Init, Srv!Init, Clt!Init
<1>5. \A x \in Xids : ~CP!Sent(x)
  BY <1>1, ClientNames DEF CP!Init, CP!Sent, CP!NoCall
<1>6. \A w \in Workers : io[w].op \notin CP!ReplyOps
  BY <1>1 DEF CP!Init, CP!ReplyOps, CP!Idle, CP!Step
<1>7. BagToSet(EmptyBag) = {}
  BY DEF BagToSet, EmptyBag, SetToBag
<1>8. NetTyped /\ RequestsSent /\ RepliesHonest
  BY <1>7, BoundsAssumption DEF Init, NetTyped, RequestsSent, RepliesHonest, Conns
<1>9. IssuedAreSent /\ HandlersHonest /\ Known
  BY <1>4, <1>5, <1>6 DEF IssuedAreSent, HandlersHonest, Known
<1>. QED
  BY <1>2, <1>3, <1>8, <1>9 DEF SysInv, Parts, Agreed

-----------------------------------------------------------------------------
(* Every step is a step of the client or leaves it alone, and the same for *)
(* the server.                                                             *)

LEMMA WorkerDoes ==
    ASSUME NEW w \in Workers, Worker(w)
    PROVE  Clt!Worker(w)
BY ClientNames DEF Worker, Clt!Worker

LEMMA ClientDoes ==
    ASSUME SP!Shape, Agreed, [Next]_vars
    PROVE  [Clt!Next]_(Clt!vars)
<1>0. UNCHANGED cltVars => UNCHANGED Clt!vars
  BY DEF cltVars, Clt!vars, Clt!callVars, Clt!ioVars, Clt!auxVars
<1>1. ASSUME NEW proc \in CallProcs \cup {BIND}, CallStart(proc) PROVE Clt!Next
  BY <1>1 DEF CallStart, Clt!Next, Clt!AllProcs
<1>2. ASSUME NEW x \in Xids, AppThread(x) PROVE Clt!Next
  BY <1>2, ClientNames DEF AppThread, CallSend, Clt!Next, Clt!AppThread
<1>3. ASSUME NEW x \in Xids, TimerExpires(x) PROVE Clt!Next
  BY <1>3, ClientNames DEF TimerExpires, Clt!Next, Clt!Environment
<1>4. CASE \E w \in Workers : Worker(w)
  BY <1>4, WorkerDoes DEF Clt!Next
<1>5. ASSUME NEW w \in Workers, Receive(w) PROVE Clt!Next
  <2>1. PICK rep \in BagToSet(toClient[conn]) : Clt!ReceiveReply(w, rep)
    BY <1>5 DEF Receive
  <2>2. Answer(rep)
    BY <2>1 DEF Agreed, RepliesHonest, NetTyped
  <2>. DEFINE r == [xid |-> rep.xid, err |-> rep.err, result |-> rep.result]
  <2>3. Clt!ReceiveReply(w, r)
    BY <2>1 DEF Clt!ReceiveReply
  <2>4. r \in Clt!Answers /\ Clt!AnyReply(r)
    <3>1. rep.xid \in Xids /\ call[rep.xid].pc \in {"sent", "returned"}
      BY <2>2, AnswerTo DEF Agreed, CP!Sent
    <3>2. /\ rep.result \in {0} \cup ({1} \cup {SrvNonces[i] : i \in 1..MaxInstances})
          /\ \/ rep.err \in HandlerErrs /\ rep.result > 0
             \/ rep.err \in Clt!Refusals /\ rep.result = 0
          /\ rep.result > 0 /\ call[rep.xid].proc = BIND => rep.err = "OK"
      BY <2>2, AnswerIsExpected DEF Agreed, Clt!Refusals
    <3>3. rep.xid \in {y \in Clt!Xids : call[y].pc \in {"sent", "returned"}}
      BY <3>1, ClientNames
    <3>. DEFINE X == {y \in Clt!Xids : call[y].pc \in {"sent", "returned"}}
                E == HandlerErrs \cup Clt!Refusals
                R == {0} \cup ({1} \cup {SrvNonces[i] : i \in 1..MaxInstances})
    <3>4. r \in Clt!Answers
      <4>1. Clt!Answers = {[xid |-> x, err |-> e, result |-> q] : x \in X, e \in E, q \in R}
        BY DEF Clt!Answers
      <4>2. rep.xid \in X /\ rep.err \in E /\ rep.result \in R
        BY <3>2, <3>3
      <4>. HIDE DEF X, E, R
      <4>. QED
        BY <4>1, <4>2
    <3>. QED
      BY <3>2, <3>4 DEF Clt!AnyReply
  <2>. HIDE DEF r
  <2>. QED
    BY <2>3, <2>4 DEF Clt!Next, Clt!Environment
<1>6. ASSUME NEW w \in Workers, ReceiveFails(w) PROVE Clt!Next
  BY <1>6 DEF ReceiveFails, Clt!Next, Clt!Environment
<1>7. ASSUME NEW x \in Xids, NEW e \in {"OK"} \cup SendErrs, Transmit(x, e) PROVE Clt!Next
  BY <1>7, ClientNames DEF Transmit, Clt!Next, Clt!Environment
<1>8. ASSUME NEW x \in Xids, NEW ok \in BOOLEAN, Reconnected(x, ok) PROVE Clt!Next
  BY <1>8, ClientNames DEF Reconnected, Clt!Next, Clt!Environment
<1>9. ASSUME NEW k \in Conns, NEW rep, ReplyLost(k, rep) PROVE UNCHANGED cltVars
  BY <1>9 DEF ReplyLost
<1>10. CASE ConnectionBreaks
  BY <1>0, <1>10 DEF ConnectionBreaks
<1>11. ASSUME NEW p \in CallProcs, RegisterProc(p) PROVE UNCHANGED cltVars
  BY <1>11 DEF RegisterProc
<1>12. ASSUME NEW k \in Conns,
              ServerThread(k) \/ SendReplyFails(k) \/ SendDangling(k) \/ ServerReceiveFails(k)
       PROVE  UNCHANGED cltVars
  BY <1>12 DEF ServerThread, OnNewConnection, Dispatch, Execute, SendReply, SendReplyFails,
               SendDangling, ServerReceiveFails
<1>13. CASE Restart
  BY <1>0, <1>13 DEF Restart
<1>14. CASE UNCHANGED vars
  BY <1>0, <1>14 DEF vars
<1>. QED
  BY <1>0, <1>1, <1>2, <1>3, <1>4, <1>5, <1>6, <1>7, <1>8, <1>9, <1>10, <1>11, <1>12, <1>13,
     <1>14 DEF Next

\* A request that is sent is one a client may issue: it has an xid of its own,
\* and names a server process unless it is the BIND that asks for it.
LEMMA SendIssues ==
    ASSUME Parts, Agreed, NEW x \in Xids, CallSend(x)
    PROVE  \E m \in SP!Requests : SP!Issue(m)
<1>. DEFINE m == Srv!Request(x, call[x].proc, CltNonce, srv_nonce, call[x].xid_rep)
<1>1. /\ call \in [Xids -> [pc: CP!CallPcs, proc: CP!AllProcs, xid_rep: Nat, srv_nonce: Nat]]
      /\ call[x].pc = "acked"
  BY ClientNames DEF CallSend, Clt!CallSend, Parts, CP!Shape, CP!CallTypes, CP!CallRecords
<1>2. call' = [call EXCEPT ![x].pc = "sent", ![x].srv_nonce = srv_nonce]
  BY DEF CallSend, Clt!CallSend
<1>3. Request(x)' = m
  BY <1>1, <1>2 DEF Request
<1>4. issued' = issued \cup {m}
  BY <1>3 DEF CallSend
<1>5. /\ m.xid = x /\ m.proc = call[x].proc /\ m.clt_nonce = CltNonce
      /\ m.srv_nonce = srv_nonce /\ m.xid_rep = call[x].xid_rep
  BY DEF Srv!Request
<1>6. call[x].proc \in CallProcs \cup {BIND} /\ call[x].xid_rep \in {0} \cup Xids
  BY <1>1, ClientNames DEF CP!AllProcs, Parts, CP!Orderly, CP!AcksTyped
<1>7. call[x].proc # BIND => bind_done
  BY <1>1, ClientNames DEF Parts, CP!Orderly, CP!CallsBound, CP!Started
<1>8. instance \in 1..MaxInstances
  BY DEF Parts, SP!Shape, SP!TypeOK, SP!Instances
<1>9. 1..instance \subseteq 1..MaxInstances
  BY <1>8, BoundsAssumption
<1>10. /\ \/ call[x].proc = BIND /\ srv_nonce = 0
          \/ srv_nonce \in {SrvNonces[i] : i \in 1..instance}
       /\ srv_nonce \in {0} \cup {SrvNonces[i] : i \in SP!Instances}
  <2>1. CASE bind_done
    BY <1>9, <2>1 DEF Agreed, Known, SP!Instances
  <2>2. CASE ~bind_done
    BY <1>7, <2>2 DEF Agreed, Known
  <2>. QED
    BY <2>1, <2>2
<1>11. m \in SP!Requests
  BY <1>6, <1>10 DEF SP!Requests, Srv!Request
<1>12. ~ \E n \in issued : n.xid = m.xid
  <2>. SUFFICES ASSUME NEW n \in issued, n.xid = m.xid PROVE FALSE
    OBVIOUS
  <2>1. PICK y \in Xids : CP!Sent(y) /\ n = Request(y)
    BY DEF Agreed, IssuedAreSent
  <2>2. y = x
    BY <1>5, <2>1, RequestIs
  <2>. QED
    BY <1>1, <2>1, <2>2 DEF CP!Sent
<1>13. UNCHANGED <<instance, procs, reply_window, max_ack, task, srv_crashed, execs>>
  BY DEF CallSend
<1>14. SP!Issue(m)
  <2>. HIDE DEF m
  <2>. QED
    BY <1>4, <1>5, <1>10, <1>12, <1>13 DEF SP!Issue
<1>. QED
  BY <1>11, <1>14

LEMMA ServerDoes ==
    ASSUME Parts, Agreed, [Next]_vars
    PROVE  [Srv!Next]_(Srv!vars)
<1>0. UNCHANGED srvVars => UNCHANGED Srv!vars
  BY DEF srvVars, Srv!vars
<1>1. ASSUME NEW proc \in CallProcs \cup {BIND}, CallStart(proc) PROVE UNCHANGED srvVars
  BY <1>1 DEF CallStart
<1>2. ASSUME NEW x \in Xids, CallSend(x) PROVE Srv!Next
  BY <1>2, SendIssues, ServerNext DEF SP!Next
<1>3. ASSUME NEW x \in Xids, AppThread(x) PROVE Srv!Next \/ UNCHANGED srvVars
  BY <1>2, <1>3 DEF AppThread
<1>4. ASSUME NEW x \in Xids, TimerExpires(x) PROVE UNCHANGED srvVars
  BY <1>4 DEF TimerExpires
<1>5. ASSUME NEW w \in Workers, Worker(w) \/ Receive(w) \/ ReceiveFails(w) PROVE UNCHANGED srvVars
  BY <1>5 DEF Worker, Receive, ReceiveFails
<1>6. ASSUME NEW x \in Xids, NEW e \in {"OK"} \cup SendErrs, Transmit(x, e) PROVE UNCHANGED srvVars
  BY <1>6 DEF Transmit
<1>7. ASSUME NEW x \in Xids, NEW ok \in BOOLEAN, Reconnected(x, ok) PROVE UNCHANGED srvVars
  BY <1>7 DEF Reconnected
<1>8. ASSUME NEW k \in Conns, NEW rep, ReplyLost(k, rep) PROVE UNCHANGED srvVars
  BY <1>8 DEF ReplyLost
<1>9. CASE ConnectionBreaks
  BY <1>0, <1>9 DEF ConnectionBreaks
<1>10. ASSUME NEW p \in CallProcs, RegisterProc(p) PROVE Srv!Next
  BY <1>10 DEF RegisterProc, Srv!Next
<1>11. ASSUME NEW k \in Conns, ServerThread(k) PROVE Srv!Connection(k)
  <2>1. ASSUME NEW x \in Xids, Dispatch(k, x) PROVE Srv!Connection(k)
    <3>1. Srv!Dispatch(k, Request(x)) /\ CP!Sent(x)
      BY <2>1 DEF Dispatch, Agreed, RequestsSent
    <3>2. Request(x) \in issued
      BY <3>1 DEF Agreed, IssuedAreSent
    <3>. QED
      BY <3>1, <3>2 DEF Srv!Connection
  <2>2. CASE OnNewConnection(k)
    BY <2>2 DEF OnNewConnection, Srv!Connection
  <2>3. CASE Execute(k)
    BY <2>3 DEF Execute, Srv!Connection
  <2>4. CASE SendReply(k)
    BY <2>4 DEF SendReply, Srv!Connection
  <2>. QED
    BY <1>11, <2>1, <2>2, <2>3, <2>4 DEF ServerThread
<1>12. ASSUME NEW k \in Conns, SendReplyFails(k) \/ SendDangling(k) \/ ServerReceiveFails(k)
       PROVE  Srv!Connection(k)
  BY <1>12 DEF SendReplyFails, SendDangling, ServerReceiveFails, Srv!Connection
<1>13. CASE Restart
  BY <1>13 DEF Restart, Srv!Next
<1>14. CASE UNCHANGED vars
  BY <1>0, <1>14 DEF vars
<1>15. CASE \E k \in Conns : Srv!Connection(k)
  BY <1>15 DEF Srv!Next
<1>. QED
  BY <1>0, <1>1, <1>3, <1>4, <1>5, <1>6, <1>7, <1>8, <1>9, <1>10, <1>11, <1>12, <1>13, <1>14,
     <1>15 DEF Next

LEMMA PartsStep ==
    ASSUME Parts, Agreed, [Next]_vars
    PROVE  /\ Parts' /\ [CP!Next]_(CP!vars) /\ [SP!Next]_(SP!vars)
           /\ SP!Grows /\ issued \subseteq issued'
<1>1. [CP!Next]_(CP!vars)
  BY ClientDoes, ClientNext, ClientVars DEF Parts
<1>2. [SP!Next]_(SP!vars)
  BY ServerDoes, ServerNext, ServerVars
<1>3. CP!Shape' /\ CP!Orderly'
  BY <1>1, CP!ShapeStep, CP!OrderlyStep, ClientAssumptions DEF Parts
<1>4. SP!Shape' /\ SP!Bound' /\ SP!HonestReplies'
  BY <1>2, SP!ShapeNext, SP!BoundNext, SP!HonestNext, ServerAssumptions DEF Parts
<1>5. SP!Grows /\ issued \subseteq issued'
  BY <1>2, SP!RunsGrow, ServerAssumptions DEF Parts
<1>. QED
  BY <1>1, <1>2, <1>3, <1>4, <1>5 DEF Parts

-----------------------------------------------------------------------------
(* And every step keeps them agreed. *)

LEMMA NetworkIs ==
    ASSUME NEW net, net = [k \in Conns |-> net[k]], NEW k \in Conns, NEW m
    PROVE  /\ LET p == Put(net, k, m) IN
              /\ p = [j \in Conns |-> p[j]]
              /\ \A j \in Conns : j # k => p[j] = net[j]
              /\ BagToSet(p[k]) = BagToSet(net[k]) \cup {m}
           /\ LET t == Took(net, k, m) IN
              /\ t = [j \in Conns |-> t[j]]
              /\ \A j \in Conns : j # k => t[j] = net[j]
              /\ BagToSet(t[k]) \subseteq BagToSet(net[k])
<1>1. \A B : /\ DOMAIN (B (+) SetToBag({m})) = DOMAIN B \cup {m}
             /\ DOMAIN (B (-) SetToBag({m})) \subseteq DOMAIN B
  BY DEF (+), (-), SetToBag
<1>. DEFINE b == net[k] (+) SetToBag({m})
            c == net[k] (-) SetToBag({m})
<1>2. Put(net, k, m) = [net EXCEPT ![k] = b] /\ Took(net, k, m) = [net EXCEPT ![k] = c]
  BY DEF Put, Took
<1>3. DOMAIN b = DOMAIN net[k] \cup {m} /\ DOMAIN c \subseteq DOMAIN net[k]
  BY <1>1
<1>. HIDE DEF b, c
<1>. QED
  BY <1>2, <1>3 DEF BagToSet

LEMMA TookFrom ==
    ASSUME NEW net, net = [k \in Conns |-> net[k]], NEW k \in Conns, NEW m,
           NEW new, new = Took(net, k, m)
    PROVE  /\ new = [j \in Conns |-> new[j]]
           /\ \A j \in Conns : BagToSet(new[j]) \subseteq BagToSet(net[j])
<1>1. /\ new = [j \in Conns |-> new[j]]
      /\ \A j \in Conns : j # k => new[j] = net[j]
      /\ BagToSet(new[k]) \subseteq BagToSet(net[k])
  BY NetworkIs
<1>. QED
  BY <1>1, Zenon

LEMMA PutInto ==
    ASSUME NEW net, net = [k \in Conns |-> net[k]], NEW k \in Conns, NEW m,
           NEW new, new = Put(net, k, m)
    PROVE  /\ new = [j \in Conns |-> new[j]]
           /\ \A j \in Conns : BagToSet(new[j]) \subseteq BagToSet(net[j]) \cup {m}
<1>1. /\ new = [j \in Conns |-> new[j]]
      /\ \A j \in Conns : j # k => new[j] = net[j]
      /\ BagToSet(new[k]) = BagToSet(net[k]) \cup {m}
  BY NetworkIs
<1>2. ASSUME NEW j \in Conns PROVE BagToSet(new[j]) \subseteq BagToSet(net[j]) \cup {m}
  <2>1. CASE j = k
    BY <1>1, <2>1
  <2>2. CASE j # k
    BY <1>1, <2>2
  <2>. QED
    BY <2>1, <2>2
<1>. QED
  BY <1>1, <1>2

LEMMA AnswersStay ==
    ASSUME SP!Shape, SP!Grows, issued \subseteq issued', NEW rep, Answer(rep)
    PROVE  Answer(rep)'
<1>1. PICK m \in issued : SP!Honest(rep, m)
  BY DEF Answer
<1>2. m \in SP!Requests
  BY <1>1 DEF SP!Shape, SP!TypeOK
<1>3. SP!HonestIn(rep, m, instance', execs')
  BY <1>1, <1>2, SP!HonestStays, ServerAssumptions
<1>. QED
  BY <1>1, <1>3 DEF Answer, SP!Honest

\* What a step is to the server.
ServerStep(k) == \/ Srv!OnNewConnection(k) \/ Srv!ReceiveFails(k) \/ Srv!AddReply(k)
                 \/ \E x \in Xids : x \in BagToSet(toServer[k]) /\ Srv!Dispatch(k, Request(x))
                 \/ \E e \in HandlerErrs : Srv!Handle(k, e)
                 \/ \E ok \in BOOLEAN : Srv!SendReply(k, ok)
                 \/ Srv!SendOld(k) \/ Srv!SendDangling(k)

LEMMA ServerSteps ==
    ASSUME [Next]_vars
    PROVE  \/ UNCHANGED srvVars
           \/ \E x \in Xids : CallSend(x)
           \/ /\ UNCHANGED cltVars
              /\ \/ \E p \in CallProcs : Srv!Register(p)
                 \/ \E k \in Conns : ServerStep(k)
                 \/ Srv!Restart
<1>1. ASSUME NEW k \in Conns,
             ServerThread(k) \/ SendReplyFails(k) \/ SendDangling(k) \/ ServerReceiveFails(k)
      PROVE  UNCHANGED cltVars /\ ServerStep(k)
  BY <1>1 DEF ServerThread, OnNewConnection, Dispatch, Execute, SendReply, SendReplyFails,
              SendDangling, ServerReceiveFails, ServerStep
<1>2. ASSUME NEW w \in Workers, Worker(w) \/ Receive(w) \/ ReceiveFails(w)
      PROVE  UNCHANGED srvVars
  BY <1>2 DEF Worker, Receive, ReceiveFails
<1>3. ASSUME NEW x \in Xids, AppThread(x) \/ TimerExpires(x)
      PROVE  UNCHANGED srvVars \/ CallSend(x)
  BY <1>3 DEF AppThread, TimerExpires
<1>4. ASSUME NEW x \in Xids, NEW e, Transmit(x, e) PROVE UNCHANGED srvVars
  BY <1>4 DEF Transmit
<1>5. ASSUME NEW x \in Xids, NEW ok, Reconnected(x, ok) PROVE UNCHANGED srvVars
  BY <1>5 DEF Reconnected
<1>6. ASSUME NEW k, NEW rep, ReplyLost(k, rep) PROVE UNCHANGED srvVars
  BY <1>6 DEF ReplyLost
<1>7. ASSUME NEW proc, CallStart(proc) PROVE UNCHANGED srvVars
  BY <1>7 DEF CallStart
<1>8. ConnectionBreaks => UNCHANGED srvVars
  BY DEF ConnectionBreaks
<1>9. Restart => UNCHANGED cltVars /\ Srv!Restart
  BY DEF Restart
<1>10. ASSUME NEW p, RegisterProc(p) PROVE UNCHANGED cltVars /\ Srv!Register(p)
  BY <1>10 DEF RegisterProc
<1>11. UNCHANGED vars => UNCHANGED srvVars
  BY DEF vars
<1>. QED
  BY <1>1, <1>2, <1>3, <1>4, <1>5, <1>6, <1>7, <1>8, <1>9, <1>10, <1>11 DEF Next


\* Requests are issued as they are sent.
LEMMA IssuedStep ==
    ASSUME Parts, Agreed, [Next]_vars
    PROVE  /\ IssuedAreSent'
           /\ \A x \in Xids : CP!Sent(x) => CP!Sent(x)'
<1>1. \A x \in Xids :
         /\ CP!Sent(x) => /\ CP!Sent(x)' /\ call'[x].proc = call[x].proc
                          /\ call'[x].xid_rep = call[x].xid_rep
                          /\ call'[x].srv_nonce = call[x].srv_nonce
         /\ CP!Sent(x)' => CP!Sent(x) \/ CP!CallSend(x)
  BY PartsStep, CP!SentStays, ClientAssumptions, ClientNames DEF Parts
<1>2. \A x \in Xids : CP!Sent(x) => Request(x)' = Request(x)
  BY <1>1 DEF Request, Srv!Request
<1>3. ASSUME NEW x \in Xids, CallSend(x) PROVE IssuedAreSent'
  <2>1. /\ call \in [Xids -> [pc: CP!CallPcs, proc: CP!AllProcs, xid_rep: Nat, srv_nonce: Nat]]
        /\ call' = [call EXCEPT ![x].pc = "sent", ![x].srv_nonce = srv_nonce]
    BY <1>3, ClientNames DEF CallSend, Clt!CallSend, Parts, CP!Shape, CP!CallTypes, CP!CallRecords
  <2>2. \A y \in Xids : CP!Sent(y)' <=> (CP!Sent(y) \/ y = x)
    BY <2>1 DEF CP!Sent
  <2>3. issued' = issued \cup {Request(x)'}
    BY <1>3 DEF CallSend
  <2>. QED
    BY <1>2, <2>2, <2>3 DEF Agreed, IssuedAreSent
<1>4. (\E x \in Xids : CallSend(x)) \/ \A x \in Xids : CP!Sent(x)' => CP!Sent(x)
  <2>0. call \in [Xids -> [pc: CP!CallPcs, proc: CP!AllProcs, xid_rep: Nat, srv_nonce: Nat]]
    BY ClientNames DEF Parts, CP!Shape, CP!CallTypes, CP!CallRecords
  <2>1. UNCHANGED call => \A x \in Xids : CP!Sent(x)' => CP!Sent(x)
    BY DEF CP!Sent
  <2>2. ASSUME NEW p \in CP!AllProcs, CP!Register(p)
        PROVE  \A x \in Xids : CP!Sent(x)' => CP!Sent(x)
    BY <2>2, CP!RegisterDisturbsNone, ClientAssumptions, ClientNames DEF Parts
  <2>3. ASSUME NEW p \in CallProcs \cup {BIND}, CallStart(p)
        PROVE  \A x \in Xids : CP!Sent(x)' => CP!Sent(x)
    <3>1. CP!Register(p) /\ p \in CP!AllProcs
      BY <2>3, CallStartIs DEF CallStart, CP!CallStart, CP!AllProcs
    <3>. QED
      BY <2>2, <3>1
  <2>4. ASSUME NEW y \in Xids, Clt!CallReadAck(y) \/ Clt!CallWait(y)
        PROVE  \A x \in Xids : CP!Sent(x)' => CP!Sent(x)
    BY <2>0, <2>4 DEF Clt!CallReadAck, Clt!CallWait, CP!Sent
  <2>5. ASSUME NEW w \in Workers, Worker(w) PROVE \A x \in Xids : CP!Sent(x)' => CP!Sent(x)
    <3>1. CP!Worker(w)
      BY <2>5, WorkerDoes, WorkerIs
    <3>2. UNCHANGED call \/ CP!Register(BIND)
      BY <3>1, CP!WorkerHandsOn, ClientAssumptions DEF Parts
    <3>3. BIND \in CP!AllProcs
      BY DEF CP!AllProcs
    <3>. QED
      BY <2>1, <2>2, <3>2, <3>3
  <2>6. \/ \E x \in Xids : CallSend(x)
        \/ \E p \in CallProcs \cup {BIND} : CallStart(p)
        \/ \E y \in Xids : Clt!CallReadAck(y) \/ Clt!CallWait(y)
        \/ \E w \in Workers : Worker(w)
        \/ UNCHANGED call
    BY DEF Next, AppThread, TimerExpires, Receive, ReceiveFails, Transmit, Reconnected,
           ReplyLost, ConnectionBreaks, RegisterProc, ServerThread, OnNewConnection,
           Dispatch, Execute, SendReply, SendReplyFails, SendDangling, ServerReceiveFails,
           Restart, vars, cltVars, Clt!callVars, Clt!TimerExpires, Clt!ReceiveReply,
           Clt!ReceiveFails, Clt!SendResolves, Clt!Reconnected
  <2>. QED
    BY <2>1, <2>3, <2>4, <2>5, <2>6
<1>5. CASE UNCHANGED issued /\ \A x \in Xids : CP!Sent(x)' => CP!Sent(x)
  BY <1>1, <1>2, <1>5 DEF Agreed, IssuedAreSent
<1>6. UNCHANGED issued \/ \E x \in Xids : CallSend(x)
  <2>1. ASSUME NEW k \in Conns, ServerStep(k) PROVE UNCHANGED issued
    <3>1. ASSUME NEW m, Srv!Dispatch(k, m) PROVE UNCHANGED issued
      BY <3>1 DEF Srv!Dispatch, Srv!DispatchOldServer, Srv!DispatchUnknownProc,
                  Srv!DispatchPlain, Srv!DispatchTracked
    <3>2. ASSUME NEW e, Srv!Handle(k, e) PROVE UNCHANGED issued
      BY <3>2 DEF Srv!Handle
    <3>3. Srv!AddReply(k) => UNCHANGED issued
      BY DEF Srv!AddReply
    <3>. QED
      BY <2>1, <3>1, <3>2, <3>3 DEF ServerStep, Srv!OnNewConnection, Srv!ReceiveFails,
                                    Srv!SendReply, Srv!SendOld, Srv!SendDangling
  <2>2. ASSUME NEW p, Srv!Register(p) PROVE UNCHANGED issued
    BY <2>2 DEF Srv!Register
  <2>. QED
    BY <2>1, <2>2, ServerSteps DEF srvVars, Srv!Restart
<1>. QED
  BY <1>1, <1>3, <1>4, <1>5, <1>6

\* What a step may do to the messages in flight.
LEMMA NetworkDoes ==
    ASSUME [Next]_vars
    PROVE  /\ conn' = conn \/ (conn < MaxConns /\ conn' = conn + 1)
           /\ \/ UNCHANGED toServer
              \/ toServer' = [k \in Conns |-> EmptyBag]
              \/ \E k \in Conns, x \in Xids : toServer' = Took(toServer, k, x)
              \/ \E x \in Xids : /\ sends[x]["queued"] > 0
                                 /\ toServer' = Put(toServer, conn, x)
           /\ \/ UNCHANGED toClient
              \/ toClient' = [k \in Conns |-> EmptyBag]
              \/ \E rep : toClient' = Took(toClient, conn, rep)
              \/ \E k \in Conns : \E rep : toClient' = Took(toClient, k, rep)
              \/ \E k \in Conns : /\ task[k].pc \in {"reply", "replay", "forgotten"}
                                  /\ toClient' = Put(toClient, k, task[k].rep)
<1>1. conn' = conn \/ (conn < MaxConns /\ conn' = conn + 1)
  BY DEF Next, CallStart, AppThread, CallSend, TimerExpires, Worker, Receive, ReceiveFails,
         Transmit, Lost, Reconnected, ReplyLost, ConnectionBreaks, RegisterProc,
         ServerThread, OnNewConnection, Dispatch, Execute, SendReply, SendReplyFails,
         SendDangling, ServerReceiveFails, Restart, vars, netVars
<1>2. \/ UNCHANGED toServer
      \/ toServer' = [k \in Conns |-> EmptyBag]
      \/ \E k \in Conns, x \in Xids : toServer' = Took(toServer, k, x)
      \/ \E x \in Xids : /\ sends[x]["queued"] > 0
                         /\ toServer' = Put(toServer, conn, x)
  BY DEF Next, CallStart, AppThread, CallSend, TimerExpires, Worker, Receive, ReceiveFails,
         Transmit, Lost, Clt!SendResolves, Reconnected, ReplyLost, ConnectionBreaks,
         RegisterProc, ServerThread, OnNewConnection, Dispatch, Execute, SendReply,
         SendReplyFails, SendDangling, ServerReceiveFails, Restart, vars, netVars
<1>3. \/ UNCHANGED toClient
      \/ toClient' = [k \in Conns |-> EmptyBag]
      \/ \E rep : toClient' = Took(toClient, conn, rep)
      \/ \E k \in Conns : \E rep : toClient' = Took(toClient, k, rep)
      \/ \E k \in Conns : /\ task[k].pc \in {"reply", "replay", "forgotten"}
                          /\ toClient' = Put(toClient, k, task[k].rep)
  BY DEF Next, CallStart, AppThread, CallSend, TimerExpires, Worker, Receive, ReceiveFails,
         Transmit, Reconnected, ReplyLost, ConnectionBreaks, RegisterProc,
         ServerThread, OnNewConnection, Dispatch, Execute, SendReply, SendReplyFails,
         Answered, Srv!SendReply, Srv!SendOld, SendDangling, ServerReceiveFails, Restart,
         vars, netVars
<1>. QED
  BY <1>1, <1>2, <1>3

LEMMA NetworkStep ==
    ASSUME Parts, Agreed, [Next]_vars
    PROVE  NetTyped' /\ RequestsSent' /\ RepliesHonest'
<1>1. conn' \in Conns
  BY NetworkDoes, BoundsAssumption DEF Agreed, NetTyped, Conns
<1>2. \A x \in Xids : CP!Sent(x) => CP!Sent(x)'
  BY IssuedStep
<1>3. \A rep : Answer(rep) => Answer(rep)'
  BY PartsStep, AnswersStay DEF Parts
<1>4. BagToSet(EmptyBag) = {}
  BY DEF BagToSet, EmptyBag, SetToBag
<1>. DEFINE ToServerOk == /\ toServer' = [k \in Conns |-> toServer'[k]] /\ RequestsSent'
            ToClientOk == /\ toClient' = [k \in Conns |-> toClient'[k]] /\ RepliesHonest'
<1>5. ToServerOk
  <2>1. CASE UNCHANGED toServer
    BY <1>2, <2>1 DEF Agreed, NetTyped, RequestsSent
  <2>2. CASE toServer' = [k \in Conns |-> EmptyBag]
    BY <1>4, <2>2 DEF RequestsSent
  <2>3. ASSUME NEW k \in Conns, NEW x \in Xids, toServer' = Took(toServer, k, x) PROVE ToServerOk
    <3>1. /\ toServer' = [j \in Conns |-> toServer'[j]]
          /\ \A j \in Conns : BagToSet(toServer'[j]) \subseteq BagToSet(toServer[j])
      <4>1. toServer = [j \in Conns |-> toServer[j]]
        BY DEF Agreed, NetTyped
      <4>2. PICK t : t = Took(toServer, k, x)
        OBVIOUS
      <4>3. /\ t = [j \in Conns |-> t[j]]
            /\ \A j \in Conns : BagToSet(t[j]) \subseteq BagToSet(toServer[j])
        BY <4>1, <4>2, TookFrom
      <4>. QED
        BY <2>3, <4>2, <4>3, Zenon
    <3>2. RequestsSent'
      BY <1>2, <3>1 DEF Agreed, RequestsSent
    <3>. QED
      BY <3>1, <3>2
  <2>4. ASSUME NEW x \in Xids, sends[x]["queued"] > 0, toServer' = Put(toServer, conn, x)
        PROVE  ToServerOk
    <3>1. CP!Sent(x)
      <4>1. "queued" \in CP!SendStates
        BY DEF CP!SendStates
      <4>. QED
        BY <2>4, <4>1, CP!SendsAreOfSent, ClientAssumptions, ClientNames DEF Parts
    <3>2. conn \in Conns
      BY DEF Agreed, NetTyped
    <3>3. LET p == Put(toServer, conn, x) IN
          /\ p = [j \in Conns |-> p[j]]
          /\ \A j \in Conns : j # conn => p[j] = toServer[j]
          /\ BagToSet(p[conn]) = BagToSet(toServer[conn]) \cup {x}
      BY <3>2, NetworkIs DEF Agreed, NetTyped
    <3>4. \A j \in Conns : BagToSet(toServer'[j]) \subseteq BagToSet(toServer[j]) \cup {x}
      BY <2>4, <3>3
    <3>5. RequestsSent'
      BY <1>2, <3>1, <3>4 DEF Agreed, RequestsSent
    <3>. QED
      BY <2>4, <3>3, <3>5
  <2>. QED
    BY <2>1, <2>2, <2>3, <2>4, NetworkDoes
<1>6. ToClientOk
  <2>1. CASE UNCHANGED toClient
    BY <1>3, <2>1 DEF Agreed, NetTyped, RepliesHonest
  <2>2. CASE toClient' = [k \in Conns |-> EmptyBag]
    BY <1>4, <2>2 DEF RepliesHonest
  <2>3. ASSUME NEW k \in Conns, NEW m, toClient' = Took(toClient, k, m) PROVE ToClientOk
    <3>1. /\ toClient' = [j \in Conns |-> toClient'[j]]
          /\ \A j \in Conns : BagToSet(toClient'[j]) \subseteq BagToSet(toClient[j])
      <4>1. toClient = [j \in Conns |-> toClient[j]]
        BY DEF Agreed, NetTyped
      <4>2. PICK t : t = Took(toClient, k, m)
        OBVIOUS
      <4>3. /\ t = [j \in Conns |-> t[j]]
            /\ \A j \in Conns : BagToSet(t[j]) \subseteq BagToSet(toClient[j])
        BY <4>1, <4>2, TookFrom
      <4>. QED
        BY <2>3, <4>2, <4>3, Zenon
    <3>2. \A j \in Conns : \A rep \in BagToSet(toClient'[j]) : Answer(rep)'
      BY <1>3, <3>1 DEF Agreed, RepliesHonest
    <3>. QED
      BY <3>1, <3>2 DEF RepliesHonest
  <2>4. ASSUME NEW k \in Conns, task[k].pc \in {"reply", "replay", "forgotten"},
               toClient' = Put(toClient, k, task[k].rep)
        PROVE  ToClientOk
    <3>1. PICK rep : rep = task[k].rep
      OBVIOUS
    <3>2. SP!Honest(rep, task[k].req) /\ task[k].req \in issued
      BY <2>4, <3>1 DEF Parts, SP!HonestReplies, SP!TasksHonest, SP!Shape, SP!TasksIssued
    <3>3. Answer(rep)
      BY <3>2 DEF Answer
    <3>4. toClient = [j \in Conns |-> toClient[j]] /\ toClient' = Put(toClient, k, rep)
      BY <2>4, <3>1 DEF Agreed, NetTyped
    <3>5. /\ toClient' = [j \in Conns |-> toClient'[j]]
          /\ \A j \in Conns : BagToSet(toClient'[j]) \subseteq BagToSet(toClient[j]) \cup {rep}
      <4>1. PICK p : p = Put(toClient, k, rep)
        OBVIOUS
      <4>2. /\ p = [j \in Conns |-> p[j]]
            /\ \A j \in Conns : BagToSet(p[j]) \subseteq BagToSet(toClient[j]) \cup {rep}
        BY <3>4, <4>1, PutInto
      <4>. QED
        BY <3>4, <4>1, <4>2, Zenon
    <3>6. \A j \in Conns : \A r \in BagToSet(toClient'[j]) : Answer(r)'
      BY <1>3, <3>3, <3>5 DEF Agreed, RepliesHonest
    <3>. QED
      BY <3>5, <3>6 DEF RepliesHonest
  <2>5. conn \in Conns
    BY DEF Agreed, NetTyped
  <2>. QED
    BY <2>1, <2>2, <2>3, <2>4, <2>5, NetworkDoes
<1>. QED
  BY <1>1, <1>5, <1>6 DEF NetTyped

\* A reply is handed on as it came, and Bind's callback takes the nonce from it.
LEMMA HandlersStep ==
    ASSUME Parts, Agreed, [Next]_vars
    PROVE  HandlersHonest' /\ Known'
<1>0. /\ io \in [Workers -> CP!IoRecords]
      /\ instance \in Nat /\ instance' \in Nat /\ instance <= instance'
  BY PartsStep DEF Parts, CP!Shape, CP!IoTypes, SP!Grows
<1>1. \A rep : Answer(rep) => Answer(rep)'
  BY PartsStep, AnswersStay DEF Parts
<1>2. ASSUME UNCHANGED <<bind_done, srv_nonce>> PROVE Known'
  BY <1>0, <1>2 DEF Agreed, Known
<1>3. ASSUME \A w \in Workers : io'[w].op \in CP!ReplyOps =>
                \E rep : /\ Answer(rep) /\ io'[w].xid = rep.xid
                         /\ io'[w].err = rep.err /\ io'[w].result = rep.result
      PROVE  HandlersHonest'
  <2>. SUFFICES ASSUME NEW w \in Workers, io'[w].op \in CP!ReplyOps
                PROVE  \E m \in issued' : SP!HonestIn(io'[w], m, instance', execs')
    BY DEF HandlersHonest, Answer, SP!Honest, CP!ReplyOps
  <2>1. PICK rep : /\ Answer(rep) /\ io'[w].xid = rep.xid
                   /\ io'[w].err = rep.err /\ io'[w].result = rep.result
    BY <1>3
  <2>2. PICK m \in issued' : SP!HonestIn(rep, m, instance', execs')
    BY <1>1, <2>1 DEF Answer, SP!Honest
  <2>. QED
    BY <2>1, <2>2 DEF SP!HonestIn
<1>4. UNCHANGED io => HandlersHonest'
  BY <1>3 DEF Agreed, HandlersHonest
<1>5. ASSUME NEW w \in Workers, Worker(w) PROVE HandlersHonest' /\ Known'
  <2>1. CP!Worker(w)
    BY <1>5, WorkerDoes, WorkerIs
  <2>2. /\ \A u \in Workers : io'[u].op \in CP!ReplyOps =>
              /\ io[u].op \in CP!ReplyOps /\ io'[u].xid = io[u].xid
              /\ io'[u].err = io[u].err /\ io'[u].result = io[u].result
        /\ \/ UNCHANGED <<bind_done, srv_nonce>>
           \/ /\ io[w].op = "callback" /\ io[w].err = "OK" /\ call[io[w].xid].proc = BIND
              /\ bind_done' /\ srv_nonce' = io[w].result
    BY <2>1, CP!WorkerHandsOn, ClientAssumptions DEF Parts
  <2>3. HandlersHonest'
    BY <1>3, <2>2 DEF Agreed, HandlersHonest
  <2>4. ASSUME io[w].op = "callback", io[w].err = "OK", call[io[w].xid].proc = BIND,
               bind_done', srv_nonce' = io[w].result
        PROVE  Known'
    <3>1. PICK rep : rep = io[w]
      OBVIOUS
    <3>2. Answer(rep)
      BY <2>4, <3>1 DEF Agreed, HandlersHonest, CP!ReplyOps
    <3>3. rep.result > 0 => \E i \in 1..instance : rep.result = SrvNonces[i]
      BY <2>4, <3>1, <3>2, AnswerIsExpected DEF Parts, Agreed
    <3>4. rep.result > 0
      BY <2>4, <3>1, <3>2, AnswerIsExpected DEF Parts, Agreed
    <3>. QED
      BY <1>0, <2>4, <3>1, <3>3, <3>4 DEF Known
  <2>. QED
    BY <1>2, <2>2, <2>3, <2>4
<1>6. ASSUME NEW w \in Workers, Receive(w) PROVE HandlersHonest' /\ Known'
  <2>1. PICK rep \in BagToSet(toClient[conn]) : Clt!ReceiveReply(w, rep)
    BY <1>6 DEF Receive
  <2>2. Answer(rep)
    BY <2>1 DEF Agreed, RepliesHonest, NetTyped
  <2>. DEFINE s == Clt!Step("update", rep.xid, rep.err, rep.result)
  <2>3. io' = [io EXCEPT ![w] = s] /\ UNCHANGED <<bind_done, srv_nonce>>
    BY <2>1 DEF Clt!ReceiveReply, Clt!Goto
  <2>4. s.xid = rep.xid /\ s.err = rep.err /\ s.result = rep.result
    BY DEF Clt!Step
  <2>. HIDE DEF s
  <2>5. \A u \in Workers : io'[u] = IF u = w THEN s ELSE io[u]
    BY <1>0, <2>3
  <2>6. HandlersHonest'
    BY <1>3, <2>2, <2>4, <2>5 DEF Agreed, HandlersHonest
  <2>. QED
    BY <1>2, <2>3, <2>6
<1>7. \/ \E w \in Workers : Worker(w) \/ Receive(w)
      \/ UNCHANGED <<io, bind_done, srv_nonce>>
  BY DEF Next, CallStart, AppThread, CallSend, TimerExpires, ReceiveFails, Transmit,
         Reconnected, ReplyLost, ConnectionBreaks, RegisterProc, ServerThread,
         OnNewConnection, Dispatch, Execute, SendReply, SendReplyFails, SendDangling,
         ServerReceiveFails, Restart, vars, cltVars, Clt!ioVars, Clt!CallStart,
         Clt!CallSend, Clt!CallReadAck, Clt!CallWait, Clt!TimerExpires,
         Clt!ReceiveFails, Clt!SendResolves, Clt!Reconnected
<1>. QED
  BY <1>2, <1>4, <1>5, <1>6, <1>7

LEMMA SysStep ==
    SysInv /\ [Next]_vars => SysInv'
BY PartsStep, IssuedStep, NetworkStep, HandlersStep DEF SysInv, Agreed

LEMMA SysAlways ==
    Spec => []SysInv
BY SysInit, SysStep, PTL DEF Spec

\* The client and the network do to the server nothing that module RpcServer
\* does not let its environment do: one header per xid, never a call but BIND
\* without the nonce of a server (Call, Bind).  So what is proved of the server
\* alone - at most once in each process - holds for it here.
THEOREM ServerIsImplemented ==
    Spec => ImplementsServer
<1>1. Init => Srv!Init
  BY DEF Init
<1>2. SysInv /\ [Next]_vars => [Srv!Next]_(Srv!vars)
  BY ServerDoes DEF SysInv
<1>. QED
  BY <1>1, <1>2, SysAlways, PTL DEF Spec, ImplementsServer, Srv!Spec

\* The server and the network answer the client nothing that module RpcClient
\* does not let them: replies to requests that were sent, a result with whatever
\* the method returned and none with a refusal (Dispatch, AddReply).  So what is proved of the client
\* alone - one callback, one thread to finish a call - holds for it here.
THEOREM ClientIsImplemented ==
    Spec => ImplementsClient
<1>1. Init => Clt!Init
  BY DEF Init
<1>2. SysInv /\ [Next]_vars => [Clt!Next]_(Clt!vars)
  BY ClientDoes DEF SysInv, Parts
<1>. QED
  BY <1>1, <1>2, SysAlways, PTL DEF Spec, ImplementsClient, Clt!Spec

-----------------------------------------------------------------------------
(* What the server has forgotten, the client has received. *)

\* The server believes the acknowledgement of some request it was sent.
AckIsSent == /\ max_ack \in [{CltNonce} -> Nat]
             /\ \/ max_ack[CltNonce] = 0
                \/ CltNonce > 0 /\ \E m \in issued : max_ack[CltNonce] = m.xid_rep

\* And that acknowledgement is true.
AckIsTrue == CltNonce > 0 => CP!AckInv

LEMMA AckIsSentStep ==
    SysInv /\ AckIsSent /\ [Next]_vars => AckIsSent'
<1>. SUFFICES ASSUME SysInv, AckIsSent, [Next]_vars PROVE AckIsSent'
  OBVIOUS
<1>1. [SP!Next]_(SP!vars) /\ issued \subseteq issued'
  BY PartsStep DEF SysInv
<1>2. max_ack' \in [{CltNonce} -> Nat]
  BY PartsStep DEF SysInv, Parts, SP!Shape, SP!TypeOK
<1>3. UNCHANGED max_ack => AckIsSent'
  BY <1>1 DEF AckIsSent
<1>4. max_ack' = [c \in {CltNonce} |-> 0] => AckIsSent'
  BY <1>2 DEF AckIsSent
<1>5. ASSUME NEW k \in Conns, NEW m \in issued, SP!DispatchTracked(k, m) PROVE AckIsSent'
  <2>1. m.clt_nonce = CltNonce
    BY DEF SysInv, Parts, SP!Shape, SP!TypeOK, SP!Requests
  <2>2. /\ CltNonce > 0
        /\ max_ack' = [max_ack EXCEPT ![CltNonce] = SP!UpdatedAck(max_ack[CltNonce], m)]
    BY <1>5, <2>1 DEF SP!DispatchTracked
  <2>3. max_ack'[CltNonce] = max_ack[CltNonce] \/ max_ack'[CltNonce] = m.xid_rep
    BY <2>2 DEF SP!UpdatedAck, AckIsSent
  <2>. QED
    BY <1>1, <1>2, <2>2, <2>3 DEF AckIsSent
<1>6. \/ UNCHANGED max_ack
      \/ max_ack' = [c \in {CltNonce} |-> 0]
      \/ \E k \in Conns : \E m \in issued : SP!DispatchTracked(k, m)
  BY <1>1 DEF SP!Next, SP!vars, SP!Register, SP!Issue, SP!Restart, SP!Connection,
              SP!OnNewConnection, SP!ReceiveFails, SP!Dispatch, SP!DispatchOldServer,
              SP!DispatchUnknownProc, SP!DispatchPlain, SP!Handle, SP!AddReply,
              SP!SendReply, SP!SendOld, SP!SendDangling
<1>. QED
  BY <1>3, <1>4, <1>5, <1>6

\* However replies overtake each other on their way to xid_rep_window_, what
\* max_ackowledged_rep_ covers the client has received (UpdateXidRep,
\* CheckDuplicateAndUpdate).  One Bind is made: the client's list starts at the
\* first reply that arrives and claims every xid below it, and with one Bind no
\* second call is made before that reply.
THEOREM ForgottenIsReceived ==
    ASSUME MaxBinds <= 1
    PROVE  Spec => []ForgetsOnlyReceived
<1>1. Init => AckIsSent
  BY DEF Init, Srv!Init, AckIsSent
<1>2. Init => AckIsTrue
  BY ClientInit, CP!AckInit, ClientAssumptions DEF Init, AckIsTrue
<1>3. SysInv /\ AckIsTrue /\ [Next]_vars => AckIsTrue'
  BY PartsStep, CP!AckStep, ClientAssumptions DEF SysInv, Parts, AckIsTrue
<1>4. SysInv /\ AckIsSent /\ AckIsTrue => ForgetsOnlyReceived
  <2>. SUFFICES ASSUME SysInv, AckIsSent, AckIsTrue,
                       NEW x \in Xids, x <= max_ack[CltNonce]
                PROVE  x \in got
    BY DEF ForgetsOnlyReceived
  <2>1. x \in Nat /\ x >= 2
    BY BoundsAssumption DEF Xids
  <2>2. CltNonce > 0 /\ \E m \in issued : max_ack[CltNonce] = m.xid_rep
    BY <2>1 DEF AckIsSent
  <2>3. PICK y \in Xids : CP!Sent(y) /\ max_ack[CltNonce] = Request(y).xid_rep
    BY <2>2 DEF SysInv, Agreed, IssuedAreSent
  <2>4. max_ack[CltNonce] = call[y].xid_rep
    BY <2>3, RequestIs
  <2>5. 2..call[y].xid_rep \subseteq got
    BY <2>2, <2>3, ClientNames DEF AckIsTrue, CP!AckInv, CP!AckSound, CP!Sent
  <2>6. x \in 2..call[y].xid_rep
    BY <2>1, <2>4 DEF AckIsSent
  <2>. QED
    BY <2>5, <2>6
<1>5. SysInv /\ AckIsSent /\ [Next]_vars => AckIsSent'
  BY AckIsSentStep
<1>. QED
  BY <1>1, <1>2, <1>3, <1>4, <1>5, SysAlways, PTL DEF Spec

-----------------------------------------------------------------------------
(* Exactly once. *)

\* Some server process ran the call.
Ran(x) == \E i \in 1..MaxInstances : execs[<<i, CltNonce, x>>] > 0

\* No callback is told of a run that never was, or of anything but the outcome
\* of a run.
Told == \A x \in Xids : cbs[x] # <<>> => Ran(x) /\ \E e \in HandlerErrs : cbs[x] = <<e>>

OnceInv == SysInv /\ SP!Memory /\ CP!Taken /\ Told

LEMMA ExecsTyped ==
    ASSUME SP!Shape
    PROVE  \A i \in 1..MaxInstances, x \in Xids : execs[<<i, CltNonce, x>>] \in Nat
BY DEF SP!Shape, SP!TypeOK, SP!Instances

\* No process runs a call twice.
RunsAre ==
    \A x \in Xids, i \in 1..MaxInstances : execs[<<i, CltNonce, x>>] \in {0, 1}

LEMMA RunsOnce ==
    ASSUME CltNonce > 0
    PROVE  OnceInv => RunsAre
<1>. SUFFICES ASSUME OnceInv, NEW x \in Xids, NEW i \in 1..MaxInstances
              PROVE  execs[<<i, CltNonce, x>>] \in {0, 1}
  BY DEF RunsAre
<1>1. execs[<<i, CltNonce, x>>] \in Nat
  BY ExecsTyped DEF OnceInv, SysInv, Parts
<1>2. <<i, CltNonce, x>> \in SP!Instances \X {CltNonce} \X Xids /\ <<i, CltNonce, x>>[2] = CltNonce
  BY DEF SP!Instances
<1>3. execs[<<i, CltNonce, x>>] <= 1
  BY <1>2 DEF OnceInv, SP!Memory, SP!AtMostOnce
<1>. QED
  BY <1>1, <1>3

\* What the application sees of a call.
OutcomesAre ==
    \A x \in Xids :
        /\ ~CP!Started(x) => Outcome(x) = "none"
        /\ CP!Started(x) /\ cbs[x] = <<>> => Outcome(x) = "pending"
        /\ \A e : CP!Started(x) /\ cbs[x] = <<e>> => Outcome(x) = e

LEMMA OutcomeIs == OnceInv => OutcomesAre
<1>. SUFFICES ASSUME OnceInv, NEW x \in Xids
              PROVE  /\ ~CP!Started(x) => Outcome(x) = "none"
                     /\ CP!Started(x) /\ cbs[x] = <<>> => Outcome(x) = "pending"
                     /\ \A e : CP!Started(x) /\ cbs[x] = <<e>> => Outcome(x) = e
  BY DEF OutcomesAre
<1>1. Clt!Started(x) <=> CP!Started(x)
  BY DEF Clt!Started, CP!Started
<1>2. ~CP!Started(x) => cbs[x] = <<>>
  BY ClientNames DEF OnceInv, SysInv, Parts, CP!Shape, CP!Fresh
<1>3. Len(<<>>) = 0 /\ \A e : Len(<<e>>) = 1 /\ <<e>>[1] = e /\ <<e>> # <<>>
  OBVIOUS
<1>4. ASSUME ~CP!Started(x) PROVE Outcome(x) = "none"
  BY <1>1, <1>2, <1>3, <1>4 DEF Outcome
<1>5. ASSUME CP!Started(x), cbs[x] = <<>> PROVE Outcome(x) = "pending"
  BY <1>1, <1>3, <1>5 DEF Outcome
<1>6. ASSUME NEW e, CP!Started(x), cbs[x] = <<e>> PROVE Outcome(x) = e
  <2>1. Len(cbs[x]) = 1 /\ cbs[x] # <<>> /\ cbs[x][1] = e
    BY <1>3, <1>6
  <2>. QED
    BY <1>1, <1>6, <2>1 DEF Outcome
<1>. QED
  BY <1>4, <1>5, <1>6

\* A callback is given the outcome of a run: the reply it is made from is an
\* answer, and an answer with a result comes from a method that ran.
LEMMA EndsRan ==
    ASSUME CltNonce > 0, SysInv,
           NEW w \in Workers, NEW x \in Xids, CP!Ends(w, x)
    PROVE  Ran(x) /\ io[w].err \in HandlerErrs
<1>1. PICK rep : rep = io[w]
  OBVIOUS
<1>2. Answer(rep) /\ rep.xid = x /\ rep.result > 0
  BY <1>1 DEF CP!Ends, SysInv, Agreed, HandlersHonest, CP!ReplyOps
<1>3. SP!Honest(rep, Request(x)) /\ Request(x).xid = x /\ Request(x).clt_nonce = CltNonce
  BY <1>2, AnswerTo, RequestIs DEF SysInv, Agreed
<1>4. PICK m : m = Request(x)
  OBVIOUS
<1>5. /\ rep.err \in HandlerErrs
      /\ \E i \in SP!Instances : execs[<<i, m.clt_nonce, m.xid>>] > 0
  BY <1>2, <1>3, <1>4 DEF SP!Honest, SP!HonestIn
<1>. QED
  BY <1>1, <1>3, <1>4, <1>5 DEF Ran, SP!Instances

LEMMA RanStays ==
    ASSUME SP!Grows
    PROVE  \A x \in Xids : Ran(x) => Ran(x)'
BY DEF SP!Grows, SP!Instances, Ran

LEMMA OnceInvStep ==
    ASSUME CltNonce > 0
    PROVE  OnceInv /\ [Next]_vars => OnceInv'
<1>. SUFFICES ASSUME OnceInv, [Next]_vars PROVE OnceInv'
  OBVIOUS
<1>1. /\ [CP!Next]_(CP!vars) /\ [SP!Next]_(SP!vars) /\ SP!Grows
      /\ CP!Shape /\ SP!Shape /\ CP!Taken /\ SP!Memory
  BY PartsStep DEF OnceInv, SysInv, Parts
<1>2. SysInv'
  BY SysStep DEF OnceInv
<1>3. SP!Memory'
  BY <1>1, SP!MemoryNext, ServerAssumptions
<1>4. CP!Taken'
  BY <1>1, CP!TakenStep, ClientAssumptions
<1>5. Told'
  <2>. SUFFICES ASSUME NEW x \in Xids, cbs'[x] # <<>>
                PROVE  Ran(x)' /\ \E e \in HandlerErrs : cbs'[x] = <<e>>
    BY DEF Told
  <2>1. CP!SameForCaller(x) \/ CP!Begins(x) \/ \E w \in Workers : CP!Ends(w, x)
    <3>1. \/ \A y \in Xids : CP!SameForCaller(y)
          \/ \E z \in Xids : /\ \A y \in Xids \ {z} : CP!SameForCaller(y)
                             /\ CP!Begins(z) \/ \E w \in Workers : CP!Ends(w, z)
      BY <1>1, CP!CallersSee, ClientAssumptions, ClientNames
    <3>. QED
      BY <3>1
  <2>2. CASE CP!SameForCaller(x)
    BY <1>1, <2>2, RanStays DEF CP!SameForCaller, OnceInv, Told
  <2>3. ~CP!Begins(x)
    BY DEF CP!Begins
  <2>4. ASSUME NEW w \in Workers, CP!Ends(w, x)
        PROVE  Ran(x)' /\ \E e \in HandlerErrs : cbs'[x] = <<e>>
    BY <1>1, <2>4, EndsRan, RanStays DEF OnceInv, CP!Ends
  <2>. QED
    BY <2>1, <2>2, <2>3, <2>4
<1>. QED
  BY <1>2, <1>3, <1>4, <1>5 DEF OnceInv

\* The server process runs a method, or no run is counted; it is replaced, or
\* stays.
LEMMA RunsChange ==
    ASSUME SysInv, CltNonce > 0, [Next]_vars
    PROVE  \/ UNCHANGED execs
           \/ /\ UNCHANGED <<cltVars, instance>>
              /\ \E x \in Xids : /\ CP!Sent(x)
                                 /\ execs' = [execs EXCEPT ![<<instance, CltNonce, x>>] = @ + 1]
<1>1. \/ UNCHANGED execs
      \/ UNCHANGED cltVars /\ \E k \in Conns, e \in HandlerErrs : Srv!Handle(k, e)
  BY ServerSteps DEF CallSend, srvVars, Srv!Register, Srv!OnNewConnection,
         Srv!Dispatch, Srv!DispatchOldServer, Srv!DispatchUnknownProc, Srv!DispatchPlain,
         Srv!DispatchTracked, Srv!AddReply, Srv!SendReply, Srv!SendOld, Srv!SendDangling,
         Srv!ReceiveFails, Srv!Restart, ServerStep
<1>2. ASSUME NEW k \in Conns, NEW e \in HandlerErrs, Srv!Handle(k, e)
      PROVE  /\ UNCHANGED instance
             /\ \E x \in Xids : /\ CP!Sent(x)
                                /\ execs' = [execs EXCEPT ![<<instance, CltNonce, x>>] = @ + 1]
  <2>1. PICK m : m = task[k].req
    OBVIOUS
  <2>2. m \in issued
    BY <1>2, <2>1 DEF Srv!Handle, SysInv, Parts, SP!Shape, SP!TasksIssued
  <2>3. PICK x \in Xids : CP!Sent(x) /\ m = Request(x)
    BY <2>2 DEF SysInv, Agreed, IssuedAreSent
  <2>4. m.xid = x /\ m.clt_nonce = CltNonce
    BY <2>3, RequestIs
  <2>5. execs' = [execs EXCEPT ![<<instance, CltNonce, x>>] = @ + 1] /\ UNCHANGED instance
    BY <1>2, <2>1, <2>4 DEF Srv!Handle, Srv!Key
  <2>. QED
    BY <2>3, <2>5
<1>. QED
  BY <1>1, <1>2

LEMMA ProcessesChange ==
    ASSUME [Next]_vars
    PROVE  \/ UNCHANGED instance
           \/ /\ UNCHANGED <<cltVars, execs>>
              /\ instance < MaxInstances /\ instance' = instance + 1
BY ServerSteps DEF CallSend, srvVars, Srv!Register, Srv!OnNewConnection,
   Srv!Dispatch, Srv!DispatchOldServer, Srv!DispatchUnknownProc, Srv!DispatchPlain,
   Srv!DispatchTracked, Srv!AddReply, Srv!SendReply, Srv!SendOld, Srv!SendDangling,
   Srv!ReceiveFails, Srv!Restart, Srv!Handle, ServerStep

\* Every step is a step of ExactlyOnce, or none.
LEMMA OnceStep ==
    ASSUME CltNonce > 0, OnceInv, RunsAre, OutcomesAre, RunsAre', OutcomesAre', [Next]_vars
    PROVE  [Once!Next]_(Once!vars)
<1>. DEFINE ran == [x \in Xids |-> [i \in 1..MaxInstances |-> execs[<<i, CltNonce, x>>]]]
            out == [x \in Xids |-> Outcome(x)]
<1>0. /\ [CP!Next]_(CP!vars) /\ CP!Shape /\ SP!Shape /\ CP!Taken
      /\ instance \in 1..MaxInstances
      /\ execs \in [(1..MaxInstances) \X {CltNonce} \X Xids -> Nat]
  BY PartsStep DEF OnceInv, SysInv, Parts, SP!Shape, SP!TypeOK, SP!Instances
<1>1. /\ ran \in [Xids -> [1..MaxInstances -> {0, 1}]]
      /\ ran' \in [Xids -> [1..MaxInstances -> {0, 1}]]
      /\ \A x \in Xids, i \in 1..MaxInstances : /\ ran[x][i] = execs[<<i, CltNonce, x>>]
                                                /\ ran'[x][i] = execs'[<<i, CltNonce, x>>]
      /\ UNCHANGED execs => ran' = ran
  BY DEF RunsAre
<1>2. \A x \in Xids : out[x] = Outcome(x) /\ out'[x] = Outcome(x)'
  OBVIOUS
<1>3. out = [x \in Xids |-> out[x]] /\ out' = [x \in Xids |-> out'[x]]
  OBVIOUS
<1>4. \A x \in Xids : CP!SameForCaller(x) => out'[x] = out[x]
  <2>1. \A x \in Xids : CP!SameForCaller(x) => Outcome(x)' = Outcome(x)
    BY DEF Outcome, CP!SameForCaller, CP!Started, Clt!Started
  <2>. QED
    BY <1>2, <2>1
<1>5. /\ Once!vars = <<instance, ran, out>>
      /\ UNCHANGED <<instance, ran, out>> => UNCHANGED Once!vars
  BY DEF Once!vars
<1>. HIDE DEF ran, out
<1>6. (\A x \in Xids : CP!SameForCaller(x)) => out' = out
  BY <1>3, <1>4
<1>7. UNCHANGED cltVars => out' = out
  BY <1>6 DEF cltVars, CP!SameForCaller, CP!Started
<1>8. CASE ~UNCHANGED execs
  <2>1. PICK x \in Xids : /\ CP!Sent(x) /\ UNCHANGED <<cltVars, instance>>
                          /\ execs' = [execs EXCEPT ![<<instance, CltNonce, x>>] = @ + 1]
    BY <1>8, RunsChange DEF OnceInv
  <2>2. \A y \in Xids, i \in 1..MaxInstances :
           execs'[<<i, CltNonce, y>>] = IF y = x /\ i = instance THEN execs[<<i, CltNonce, y>>] + 1
                                        ELSE execs[<<i, CltNonce, y>>]
    BY <1>0, <2>1
  <2>3. ran[x][instance] = 0 /\ ran'[x][instance] = 1
    <3>1. ran'[x][instance] = ran[x][instance] + 1
      BY <1>0, <1>1, <2>2
    <3>2. ran[x][instance] \in {0, 1} /\ ran'[x][instance] \in {0, 1}
      BY <1>0, <1>1
    <3>. QED
      BY <3>1, <3>2
  <2>4. \A y \in Xids, i \in 1..MaxInstances :
           ran'[y][i] = IF y = x /\ i = instance THEN 1 ELSE ran[y][i]
    <3>. SUFFICES ASSUME NEW y \in Xids, NEW i \in 1..MaxInstances
                  PROVE  ran'[y][i] = IF y = x /\ i = instance THEN 1 ELSE ran[y][i]
      OBVIOUS
    <3>1. CASE y = x /\ i = instance
      BY <2>3, <3>1
    <3>2. CASE ~(y = x /\ i = instance)
      <4>1. execs'[<<i, CltNonce, y>>] = execs[<<i, CltNonce, y>>]
        BY <2>2, <3>2
      <4>. QED
        BY <1>1, <3>2, <4>1
    <3>. QED
      BY <3>1, <3>2
  <2>5. ran' = [ran EXCEPT ![x][instance] = 1]
    <3>. DEFINE new == [ran EXCEPT ![x][instance] = 1]
    <3>1. /\ new \in [Xids -> [1..MaxInstances -> {0, 1}]]
          /\ \A y \in Xids, i \in 1..MaxInstances :
                new[y][i] = IF y = x /\ i = instance THEN 1 ELSE ran[y][i]
      BY <1>0, <1>1
    <3>. HIDE DEF new
    <3>2. \A y \in Xids : ran'[y] = new[y]
      <4>. SUFFICES ASSUME NEW y \in Xids PROVE ran'[y] = new[y]
        OBVIOUS
      <4>1. ran'[y] \in [1..MaxInstances -> {0, 1}] /\ new[y] \in [1..MaxInstances -> {0, 1}]
        BY <1>1, <3>1
      <4>2. \A i \in 1..MaxInstances : ran'[y][i] = new[y][i]
        BY <2>4, <3>1
      <4>3. ran'[y] = [i \in 1..MaxInstances |-> ran'[y][i]]
        BY <4>1
      <4>4. new[y] = [i \in 1..MaxInstances |-> new[y][i]]
        BY <4>1
      <4>. QED
        BY <4>2, <4>3, <4>4
    <3>3. ran' = new
      BY <1>1, <3>1, <3>2
    <3>. QED
      BY <3>3 DEF new
  <2>6. out[x] # "none"
    <3>1. CP!Started(x)
      BY <2>1 DEF CP!Sent, CP!Started
    <3>2. CASE cbs[x] = <<>>
      BY <1>2, <3>1, <3>2 DEF OutcomesAre
    <3>3. ASSUME cbs[x] # <<>> PROVE out[x] \in HandlerErrs
      BY <1>2, <3>1, <3>3 DEF OutcomesAre, OnceInv, Told
    <3>. QED
      BY <3>2, <3>3, HandlerErrsAssumption
  <2>7. out' = out
    BY <1>7, <2>1
  <2>8. Once!Run(x)
    BY <2>1, <2>3, <2>5, <2>6, <2>7 DEF Once!Run, ran, out
  <2>. QED
    BY <2>8 DEF Once!Next
<1>9. CASE ~UNCHANGED instance
  <2>1. /\ UNCHANGED <<cltVars, execs>> /\ instance < MaxInstances /\ instance' = instance + 1
    BY <1>9, ProcessesChange
  <2>2. ran' = ran /\ out' = out /\ instance + 1 \in 1..MaxInstances
    BY <1>0, <1>1, <1>7, <2>1, BoundsAssumption
  <2>3. Once!Replace
    BY <2>1, <2>2 DEF Once!Replace, ran, out
  <2>. QED
    BY <2>3 DEF Once!Next
<1>10. CASE UNCHANGED execs /\ UNCHANGED instance
  <2>0. ran' = ran /\ instance' = instance
    BY <1>1, <1>10
  <2>1. CASE \A x \in Xids : CP!SameForCaller(x)
    BY <1>5, <1>6, <2>0, <2>1
  <2>2. ASSUME NEW x \in Xids, \A y \in Xids \ {x} : CP!SameForCaller(y), CP!Begins(x)
        PROVE  Once!Start(x)
    <3>1. out[x] = "none" /\ out'[x] = "pending"
      BY <1>2, <2>2 DEF OutcomesAre, CP!Begins
    <3>2. out' = [out EXCEPT ![x] = "pending"]
      BY <1>3, <1>4, <2>2, <3>1
    <3>. QED
      BY <2>0, <3>1, <3>2 DEF Once!Start, ran, out
  <2>3. ASSUME NEW x \in Xids, \A y \in Xids \ {x} : CP!SameForCaller(y),
               NEW w \in Workers, CP!Ends(w, x)
        PROVE  \E o \in HandlerErrs : Once!Finish(x, o)
    <3>1. PICK o : o = io[w].err
      OBVIOUS
    <3>2. Ran(x) /\ o \in HandlerErrs
      BY <2>3, <3>1, EndsRan DEF OnceInv
    <3>3. out[x] = "pending" /\ out'[x] = o
      BY <1>2, <2>3, <3>1 DEF OutcomesAre, CP!Ends
    <3>4. out' = [out EXCEPT ![x] = o]
      BY <1>3, <1>4, <2>3, <3>3
    <3>5. \E i \in 1..MaxInstances : ran[x][i] = 1
      <4>1. PICK i \in 1..MaxInstances : execs[<<i, CltNonce, x>>] > 0
        BY <3>2 DEF Ran
      <4>2. ran[x][i] \in {0, 1} /\ ran[x][i] > 0
        BY <1>1, <4>1
      <4>. QED
        BY <4>2
    <3>6. Once!Finish(x, o)
      BY <2>0, <3>3, <3>4, <3>5 DEF Once!Finish, ran, out
    <3>. QED
      BY <3>2, <3>6
  <2>4. \/ \A x \in Xids : CP!SameForCaller(x)
        \/ \E x \in Xids : /\ \A y \in Xids \ {x} : CP!SameForCaller(y)
                           /\ CP!Begins(x) \/ \E w \in Workers : CP!Ends(w, x)
    BY <1>0, CP!CallersSee, ClientAssumptions, ClientNames
  <2>5. ASSUME NEW x \in Xids, Once!Start(x) PROVE Once!Next
    BY <2>5 DEF Once!Next
  <2>6. ASSUME NEW x \in Xids, NEW o \in HandlerErrs, Once!Finish(x, o) PROVE Once!Next
    BY <2>6 DEF Once!Next
  <2>7. CASE \E x \in Xids : /\ \A y \in Xids \ {x} : CP!SameForCaller(y)
                             /\ CP!Begins(x) \/ \E w \in Workers : CP!Ends(w, x)
    <3>1. PICK x \in Xids : /\ \A y \in Xids \ {x} : CP!SameForCaller(y)
                            /\ CP!Begins(x) \/ \E w \in Workers : CP!Ends(w, x)
      BY <2>7
    <3>2. CASE CP!Begins(x)
      BY <2>2, <2>5, <3>1, <3>2
    <3>3. CASE \E w \in Workers : CP!Ends(w, x)
      BY <2>3, <2>6, <3>1, <3>3
    <3>. QED
      BY <3>1, <3>2, <3>3
  <2>. QED
    BY <2>1, <2>4, <2>7
<1>. QED
  BY <1>8, <1>9, <1>10

\* README: exactly-once semantics, as far as the memory of a server process
\* goes.  With retransmission client and server implement the abstract call
\* over any number of connections, losses, failing sends, breaks and restarts:
\* one run of the method by one process, a second one only by a process that
\* replaces it, and one callback with the outcome of a run, whatever the method
\* returns (GotPdu, CheckDuplicateAndUpdate).
THEOREM RunsExactlyOnce ==
    ASSUME CltNonce > 0
    PROVE  Spec => ImplementsExactlyOnce
<1>1. Init => OnceInv
  <2>. SUFFICES ASSUME Init PROVE OnceInv
    OBVIOUS
  <2>1. SysInv
    BY SysInit
  <2>2. SP!Memory
    BY ServerInit, SP!MemoryInit, ServerAssumptions DEF Init
  <2>3. CP!Taken
    BY ClientInit, CP!TakenInit, ClientAssumptions DEF Init
  <2>4. Told
    BY ClientNames DEF Init, Clt!Init, Told
  <2>. QED
    BY <2>1, <2>2, <2>3, <2>4 DEF OnceInv
<1>2. OnceInv /\ [Next]_vars => OnceInv'
  BY OnceInvStep
<1>3. OnceInv => RunsAre /\ OutcomesAre
  BY RunsOnce, OutcomeIs
<1>4. Init => Once!Init
  <2>. SUFFICES ASSUME Init PROVE Once!Init
    OBVIOUS
  <2>1. OutcomesAre
    BY <1>1, <1>3
  <2>2. \A x \in Xids : ~CP!Started(x)
    BY ClientNames DEF Init, Clt!Init, Clt!NoCall, CP!Started
  <2>3. \A i \in 1..MaxInstances, x \in Xids : execs[<<i, CltNonce, x>>] = 0
    BY DEF Init, Srv!Init, Srv!Instances
  <2>4. instance = 1
    BY DEF Init, Srv!Init
  <2>. QED
    BY <2>1, <2>2, <2>3, <2>4 DEF Once!Init, OutcomesAre
<1>5. OnceInv /\ (RunsAre /\ OutcomesAre) /\ (RunsAre /\ OutcomesAre)' /\ [Next]_vars
        => [Once!Next]_(Once!vars)
  BY OnceStep
<1>. QED
  BY <1>1, <1>2, <1>3, <1>4, <1>5, PTL DEF Spec, ImplementsExactlyOnce, Once!Spec

-----------------------------------------------------------------------------
(* On a single connection the server never dies.                           *)

\* A client with one connection loses it with the process it was made to: the
\* processes after the first have no connection at all.
OutOfReach == instance > 1 => /\ open = {}
                              /\ \A k \in Conns : task[k].pc = "closed"

\* What is called is registered.
CallsRegistered == /\ BIND \in procs
                   /\ instance = 1 => \A x \in Xids : CP!Started(x) => call[x].proc \in procs

Alone == OutOfReach /\ CallsRegistered /\ SP!Held /\ ~srv_crashed

\* The server process is replaced, or one of its chains moves, or none.
LEMMA ServerMoves ==
    ASSUME [Next]_vars
    PROVE  \/ Restart
           \/ UNCHANGED <<instance, task>>
           \/ \E k \in Conns :
                 /\ ServerThread(k) \/ SendReplyFails(k) \/ SendDangling(k) \/ ServerReceiveFails(k)
                 /\ UNCHANGED instance
<1>1. ASSUME NEW k \in Conns,
             ServerThread(k) \/ SendReplyFails(k) \/ SendDangling(k) \/ ServerReceiveFails(k)
      PROVE  UNCHANGED instance
  BY <1>1 DEF ServerThread, OnNewConnection, Dispatch, Execute, SendReply, SendReplyFails,
              SendDangling, ServerReceiveFails, Srv!OnNewConnection, Srv!Dispatch,
              Srv!DispatchOldServer, Srv!DispatchUnknownProc, Srv!DispatchPlain,
              Srv!DispatchTracked, Srv!Handle, Srv!AddReply, Srv!SendReply, Srv!SendOld,
              Srv!SendDangling, Srv!ReceiveFails
<1>2. \/ Restart
      \/ UNCHANGED <<instance, task>>
      \/ \E k \in Conns : ServerThread(k) \/ SendReplyFails(k)
                          \/ SendDangling(k) \/ ServerReceiveFails(k)
  <2>1. UNCHANGED srvVars => UNCHANGED <<instance, task>>
    BY DEF srvVars
  <2>2. ASSUME NEW w \in Workers, Worker(w) \/ Receive(w) \/ ReceiveFails(w)
        PROVE  UNCHANGED srvVars
    BY <2>2 DEF Worker, Receive, ReceiveFails
  <2>3. ASSUME NEW x \in Xids, AppThread(x) \/ TimerExpires(x) PROVE UNCHANGED <<instance, task>>
    BY <2>1, <2>3 DEF AppThread, CallSend, TimerExpires
  <2>4. ASSUME NEW x \in Xids, NEW e, Transmit(x, e) PROVE UNCHANGED srvVars
    BY <2>4 DEF Transmit
  <2>5. ASSUME NEW p, RegisterProc(p) PROVE UNCHANGED <<instance, task>>
    BY <2>5 DEF RegisterProc, Srv!Register
  <2>. QED
    BY <2>1, <2>2, <2>3, <2>4, <2>5
       DEF Next, CallStart, Reconnected, ReplyLost, ConnectionBreaks, vars
<1>. QED
  BY <1>1, <1>2

LEMMA OutOfReachStep ==
    ASSUME MaxConns = 1, SysInv, OutOfReach, [Next]_vars
    PROVE  OutOfReach'
<1>0. conn = 1 /\ instance \in 1..MaxInstances /\ instance \in Nat
  BY BoundsAssumption DEF SysInv, Agreed, NetTyped, Conns, Parts, SP!Shape, SP!TypeOK, SP!Instances
<1>1. open' \subseteq open
  <2>1. ASSUME NEW x \in Xids, NEW ok \in BOOLEAN, Reconnected(x, ok) PROVE UNCHANGED open
    BY <1>0, <2>1 DEF Reconnected
  <2>2. ASSUME NEW k \in Conns,
               ServerThread(k) \/ SendReplyFails(k) \/ SendDangling(k) \/ ServerReceiveFails(k)
        PROVE  open' \subseteq open
    BY <2>2 DEF ServerThread, OnNewConnection, Dispatch, Execute, SendReply, SendReplyFails,
                SendDangling, ServerReceiveFails, netVars
  <2>3. ASSUME NEW w \in Workers, Worker(w) \/ Receive(w) \/ ReceiveFails(w)
        PROVE  UNCHANGED open
    BY <2>3 DEF Worker, Receive, ReceiveFails, netVars
  <2>4. ASSUME NEW x \in Xids, AppThread(x) \/ TimerExpires(x) PROVE UNCHANGED open
    BY <2>4 DEF AppThread, CallSend, TimerExpires, netVars
  <2>5. ASSUME NEW x \in Xids, NEW e, Transmit(x, e) PROVE UNCHANGED open
    BY <2>5 DEF Transmit
  <2>. QED
    BY <2>1, <2>2, <2>3, <2>4, <2>5
       DEF Next, CallStart, ReplyLost, ConnectionBreaks, RegisterProc, Restart, vars, netVars
<1>2. CASE Restart
  <2>1. open' = {} /\ task' = [k \in Conns |-> Srv!Closed]
    BY <1>2 DEF Restart, Srv!Restart
  <2>. QED
    BY <2>1 DEF OutOfReach, Srv!Closed, Srv!Task
<1>3. CASE UNCHANGED <<instance, task>>
  BY <1>1, <1>3 DEF OutOfReach
<1>4. ASSUME instance > 1, NEW k \in Conns,
             ServerThread(k) \/ SendReplyFails(k) \/ SendDangling(k) \/ ServerReceiveFails(k)
      PROVE  FALSE
  <2>1. task[k].pc = "closed" /\ k \notin open
    BY <1>4 DEF OutOfReach
  <2>2. ASSUME NEW m, Srv!Dispatch(k, m) PROVE FALSE
    BY <2>1, <2>2 DEF Srv!Dispatch, Srv!DispatchOldServer, Srv!DispatchUnknownProc,
                      Srv!DispatchPlain, Srv!DispatchTracked
  <2>3. ~Execute(k)
    BY <2>1 DEF Execute, Srv!Handle, Srv!AddReply
  <2>4. ~SendReply(k) /\ ~SendReplyFails(k)
    BY <2>1 DEF SendReply, SendReplyFails, Srv!SendReply, Srv!SendOld
  <2>5. ~SendDangling(k) /\ ~ServerReceiveFails(k) /\ ~OnNewConnection(k)
    BY <2>1 DEF SendDangling, Srv!SendDangling, Srv!RepBufDangles, ServerReceiveFails,
                Srv!ReceiveFails, OnNewConnection
  <2>. QED
    BY <1>4, <2>2, <2>3, <2>4, <2>5 DEF ServerThread, Dispatch
<1>. QED
  BY <1>2, <1>3, <1>4, ServerMoves DEF OutOfReach

\* A call that starts is to a procedure the server has; one that has started
\* keeps its procedure.
LEMMA StartsRegistered ==
    ASSUME SysInv, [Next]_vars, NEW x \in Xids, CP!Started(x)'
    PROVE  \/ CP!Started(x) /\ call'[x].proc = call[x].proc
           \/ ~CP!Started(x) /\ call'[x].proc \in procs \cup {BIND}
<1>. DEFINE Goal == \/ CP!Started(x) /\ call'[x].proc = call[x].proc
                    \/ ~CP!Started(x) /\ call'[x].proc \in procs \cup {BIND}
<1>. SUFFICES Goal
  OBVIOUS
<1>0. call \in [Xids -> [pc: CP!CallPcs, proc: CP!AllProcs, xid_rep: Nat, srv_nonce: Nat]]
  BY ClientNames DEF SysInv, Parts, CP!Shape, CP!CallTypes, CP!CallRecords
<1>1. UNCHANGED call => Goal
  BY DEF CP!Started
<1>2. ASSUME NEW p, CP!Register(p), p \in procs \cup {BIND} PROVE Goal
  <2>0. xid_ \in Xids => ~CP!Started(xid_)
    BY ClientNames, BoundsAssumption DEF SysInv, Parts, CP!Shape, CP!Fresh, Xids
  <2>. DEFINE c == [CP!NoCall EXCEPT !.pc = "registered", !.proc = p]
  <2>1. call' = [call EXCEPT ![xid_] = c] /\ c.proc = p
    BY <1>2 DEF CP!Register, CP!NoCall
  <2>. HIDE DEF c
  <2>2. CASE x = xid_
    BY <1>0, <1>2, <2>0, <2>1, <2>2
  <2>3. CASE x # xid_
    BY <1>0, <2>1, <2>3 DEF CP!Started
  <2>. QED
    BY <2>2, <2>3
<1>3. ASSUME NEW p \in CallProcs \cup {BIND}, CallStart(p) PROVE Goal
  BY <1>2, <1>3, CallStartIs DEF CallStart, CP!CallStart
<1>4. ASSUME NEW y \in Xids, Clt!CallReadAck(y) \/ Clt!CallWait(y) \/ Clt!CallSend(y) PROVE Goal
  <2>1. call[y].pc # "none" /\ call'[x].proc = call[x].proc /\ (x # y => call'[x].pc = call[x].pc)
    BY <1>0, <1>4 DEF Clt!CallReadAck, Clt!CallWait, Clt!CallSend
  <2>. QED
    BY <2>1 DEF CP!Started
<1>5. ASSUME NEW w \in Workers, Worker(w) PROVE Goal
  <2>1. CP!Worker(w)
    BY <1>5, WorkerDoes, WorkerIs
  <2>2. UNCHANGED call \/ CP!Register(BIND)
    BY <2>1, CP!WorkerHandsOn, ClientAssumptions DEF SysInv, Parts
  <2>. QED
    BY <1>1, <1>2, <2>2
<1>6. \/ \E p \in CallProcs \cup {BIND} : CallStart(p)
      \/ \E y \in Xids : Clt!CallReadAck(y) \/ Clt!CallWait(y) \/ Clt!CallSend(y)
      \/ \E w \in Workers : Worker(w)
      \/ UNCHANGED call
  BY DEF Next, AppThread, CallSend, TimerExpires, Receive, ReceiveFails, Transmit, Reconnected,
         ReplyLost, ConnectionBreaks, RegisterProc, ServerThread, OnNewConnection,
         Dispatch, Execute, SendReply, SendReplyFails, SendDangling, ServerReceiveFails,
         Restart, vars, cltVars, Clt!callVars, Clt!TimerExpires, Clt!ReceiveReply,
         Clt!ReceiveFails, Clt!SendResolves, Clt!Reconnected
<1>. QED
  BY <1>1, <1>3, <1>4, <1>5, <1>6

\* A process only registers procedures; the next one starts with BIND.
LEMMA ProcsGrow ==
    ASSUME SysInv, [Next]_vars
    PROVE  \/ instance' = instance /\ procs \subseteq procs'
           \/ instance' = instance + 1 /\ BIND \in procs'
<1>1. ASSUME NEW k \in Conns, ServerStep(k) PROVE UNCHANGED <<instance, procs>>
  BY <1>1 DEF ServerStep, Srv!OnNewConnection, Srv!Dispatch,
              Srv!DispatchOldServer, Srv!DispatchUnknownProc, Srv!DispatchPlain,
              Srv!DispatchTracked, Srv!Handle, Srv!AddReply, Srv!SendReply, Srv!SendOld,
              Srv!SendDangling, Srv!ReceiveFails
<1>2. ASSUME NEW p, Srv!Register(p) PROVE instance' = instance /\ procs \subseteq procs'
  BY <1>2 DEF Srv!Register
<1>3. ASSUME NEW x, CallSend(x) PROVE UNCHANGED <<instance, procs>>
  BY <1>3 DEF CallSend
<1>. QED
  BY <1>1, <1>2, <1>3, ServerSteps DEF srvVars, Srv!Restart

LEMMA CallsRegisteredStep ==
    ASSUME SysInv, CallsRegistered, [Next]_vars
    PROVE  CallsRegistered'
<1>0. instance \in Nat \ {0}
  BY BoundsAssumption DEF SysInv, Parts, SP!Shape, SP!TypeOK, SP!Instances
<1>1. BIND \in procs'
  BY ProcsGrow DEF CallsRegistered
<1>2. ASSUME instance' = 1, NEW x \in Xids, CP!Started(x)' PROVE call'[x].proc \in procs'
  <2>1. instance = 1 /\ procs \subseteq procs'
    BY <1>0, <1>2, ProcsGrow
  <2>. QED
    BY <1>1, <1>2, <2>1, StartsRegistered DEF CallsRegistered
<1>. QED
  BY <1>1, <1>2 DEF CallsRegistered

LEMMA AloneStep ==
    ASSUME MaxConns = 1
    PROVE  SysInv /\ Alone /\ [Next]_vars => Alone'
<1>. SUFFICES ASSUME SysInv, Alone, [Next]_vars PROVE Alone'
  OBVIOUS
<1>0. \A j, k \in Conns : j = k
  BY DEF Conns
<1>1. [SP!Next]_(SP!vars) /\ SP!Shape
  BY PartsStep DEF SysInv, Parts
<1>2. SP!Held'
  BY <1>0, <1>1, SP!HeldStep, ServerAssumptions DEF Alone
<1>3. ASSUME srv_crashed' PROVE FALSE
  <2>1. \/ \E k \in Conns : \E m \in issued : SP!DispatchUnknownProc(k, m)
        \/ \E k \in Conns : task[k].pc = "handled" /\ ~SP!Kept(k)
        \/ \E k \in Conns : SP!RepBufDangles(k)
    BY <1>1, <1>3, SP!DiesOf, ServerAssumptions DEF Alone
  <2>2. ~ \E k \in Conns : task[k].pc = "handled" /\ ~SP!Kept(k)
    BY DEF Alone, SP!Held, SP!NeedsEntry
  <2>3. ~ \E k \in Conns : SP!RepBufDangles(k)
    BY DEF Alone, SP!Held, SP!NeedsEntry, SP!Kept, SP!RepBufDangles
  <2>4. ASSUME NEW k \in Conns, NEW m \in issued, SP!DispatchUnknownProc(k, m) PROVE FALSE
    <3>1. PICK x \in Xids : CP!Sent(x) /\ m = Request(x)
      BY DEF SysInv, Agreed, IssuedAreSent
    <3>2. CP!Started(x) /\ m.proc = call[x].proc
      BY <3>1, RequestIs DEF CP!Sent, CP!Started
    <3>3. task[k].pc = "reading" /\ m.proc \notin procs
      BY <2>4 DEF SP!DispatchUnknownProc
    <3>4. instance = 1
      <4>1. instance \in Nat \ {0}
        BY BoundsAssumption DEF SysInv, Parts, SP!Shape, SP!TypeOK, SP!Instances
      <4>. QED
        BY <3>3, <4>1 DEF Alone, OutOfReach
    <3>. QED
      BY <3>2, <3>3, <3>4 DEF Alone, CallsRegistered
  <2>. QED
    BY <2>1, <2>2, <2>3, <2>4
<1>. QED
  BY <1>2, <1>3, OutOfReachStep, CallsRegisteredStep DEF Alone

\* AddReply's "unreachable" is, the procedure a request names is registered and
\* the entry a duplicate is answered from outlives the Send: over one connection
\* no acknowledgement overtakes the handler that holds it, whatever is lost,
\* repeated or reordered on the way (Dispatch, CheckDuplicateAndUpdate, AddReply).
THEOREM NothingKillsTheServer ==
    ASSUME MaxConns = 1
    PROVE  Spec => []ServerUnharmed
<1>1. Init => Alone
  <2>. SUFFICES ASSUME Init PROVE Alone
    OBVIOUS
  <2>1. /\ instance = 1 /\ procs = {BIND} /\ ~srv_crashed
        /\ task = [k \in Conns |-> Srv!Closed]
    BY DEF Init, Srv!Init
  <2>2. \A x \in Xids : ~CP!Started(x)
    BY ClientNames DEF Init, Clt!Init, Clt!NoCall, CP!Started
  <2>3. \A k \in Conns : task[k].pc = "closed"
    BY <2>1 DEF Srv!Closed, Srv!Task
  <2>. QED
    BY <2>1, <2>2, <2>3 DEF Alone, OutOfReach, CallsRegistered, SP!Held, SP!NeedsEntry
<1>2. SysInv /\ Alone /\ [Next]_vars => Alone'
  BY AloneStep
<1>3. Alone => ServerUnharmed
  BY DEF Alone, ServerUnharmed
<1>. QED
  BY <1>1, <1>2, <1>3, SysAlways, PTL DEF Spec

-----------------------------------------------------------------------------
(* Over several connections the server dies only of reading a reply that   *)
(* was trimmed.  An acknowledgement can only cover a call that is settled  *)
(* in this process: the client that sends it is bound to this process, and *)
(* what it has received it has received from it.                           *)

IsOld(x) == call[x].srv_nonce # 0 /\ call[x].srv_nonce # SP!Nonce

\* The present process will not start a handler for x any more.
Settled(x) == \/ IsOld(x)
              \/ x <= max_ack[CltNonce]
              \/ SP!Replied(reply_window[CltNonce], x)

Working(k) == task[k].pc \in {"new", "handled"}
Answering(k) == task[k].pc \in {"reply", "replay", "forgotten"}

\* A handler works on a call that is not settled, has its entry in the window,
\* and is the only one.
WorkHeld == \A k \in Conns : Working(k) => ~Settled(task[k].req.xid) /\ SP!Kept(k)
WorkAlone == \A j, k \in Conns :
                Working(j) /\ Working(k) /\ task[j].req.xid = task[k].req.xid => j = k

\* What is answered is settled: while it is sent, on its way, and received.
TasksSettled == \A k \in Conns : Answering(k) => Settled(task[k].req.xid)
RepliesSettled == \A k \in Conns : \A rep \in BagToSet(toClient[k]) : Settled(rep.xid)

\* A client that is bound to this process, or holds the reply that will bind it.
BoundHere == bind_done /\ srv_nonce = SP!Nonce
Learns(w) == /\ call[io[w].xid].proc = BIND /\ io[w].err = "OK" /\ io[w].result = SP!Nonce
GotSettled == BoundHere => \A x \in got : Settled(x)
HandlersSettled == \A w \in Workers :
    io[w].op \in CP!ReplyOps /\ (BoundHere \/ Learns(w)) => Settled(io[w].xid)

\* It has only called what this process has registered.
ProcsKnown == /\ BIND \in procs
              /\ BoundHere => \A x \in Xids : CP!Started(x) => call[x].proc \in procs

BoundInv == SysInv /\ CP!AckInv /\ CP!Taken /\ CP!OneBind
ChainInv == WorkHeld /\ WorkAlone /\ TasksSettled
HeardInv == RepliesSettled /\ GotSettled /\ HandlersSettled

LEMMA IssuedIs ==
    ASSUME SysInv, NEW m \in issued
    PROVE  /\ m.xid \in Xids /\ CP!Sent(m.xid) /\ m.clt_nonce = CltNonce
           /\ m.proc = call[m.xid].proc /\ m.srv_nonce = call[m.xid].srv_nonce
           /\ m.xid_rep = call[m.xid].xid_rep
           /\ SP!OldServer(m) <=> IsOld(m.xid)
<1>1. PICK x \in Xids : CP!Sent(x) /\ m = Request(x)
  BY DEF SysInv, Agreed, IssuedAreSent
<1>. QED
  BY <1>1, RequestIs DEF SP!OldServer, IsOld

\* A request that is meant for this process, other than the first, comes from
\* a client that is bound to it.
LEMMA MeantIsBound ==
    ASSUME BoundInv, NEW m \in issued, ~SP!OldServer(m), m.xid # 2
    PROVE  BoundHere
<1>1. bind_done /\ m.srv_nonce = srv_nonce
  BY IssuedIs, ClientNames DEF BoundInv, CP!OneBind, CP!BoundOnce
<1>2. instance \in 1..MaxInstances
  BY DEF BoundInv, SysInv, Parts, SP!Shape, SP!TypeOK, SP!Instances
<1>3. srv_nonce # 0
  <2>1. PICK i \in 1..instance : srv_nonce = SrvNonces[i]
    BY <1>1 DEF BoundInv, SysInv, Agreed, Known
  <2>. QED
    BY <1>2, <2>1, BoundsAssumption, SrvNoncesAssumption
<1>. QED
  BY <1>1, <1>3 DEF SP!OldServer, BoundHere

\* So what it acknowledges is settled here.
LEMMA AckCovers ==
    ASSUME CltNonce > 0, BoundInv, GotSettled, NEW m \in issued, ~SP!OldServer(m),
           NEW y \in 2..m.xid_rep
    PROVE  Settled(y)
<1>1. m.xid # 2
  BY IssuedIs, BoundsAssumption DEF BoundInv, CP!OneBind, CP!FirstHeader
<1>2. 2..m.xid_rep \subseteq got
  BY IssuedIs, ClientNames DEF BoundInv, CP!AckInv, CP!AckSound, CP!Sent
<1>. QED
  BY <1>1, <1>2, MeantIsBound DEF GotSettled

\* Requests name registered procedures.
LEMMA ProcIsKnown ==
    ASSUME BoundInv, ProcsKnown, NEW m \in issued, ~SP!OldServer(m)
    PROVE  m.proc \in procs
<1>1. CASE m.proc = BIND
  BY <1>1 DEF ProcsKnown
<1>2. CASE m.proc # BIND
  <2>1. m.srv_nonce # 0
    BY <1>2 DEF BoundInv, SysInv, Parts, SP!Bound, SP!IssuedBound
  <2>2. m.xid # 2
    BY <2>1, IssuedIs DEF BoundInv, CP!OneBind, CP!FirstHeader
  <2>3. CP!Started(m.xid)
    BY IssuedIs DEF BoundInv, CP!Sent, CP!Started
  <2>. QED
    BY <2>2, <2>3, IssuedIs, MeantIsBound DEF ProcsKnown, BoundInv
<1>. QED
  BY <1>1, <1>2

\* What a step may do to the calls the process has settled, and to one chain.
Entry(x) == SP!Holds(reply_window[CltNonce], x)
Keeps == \A y \in Xids : CP!Sent(y) => /\ Settled(y) => Settled(y)'
                                       /\ Entry(y) /\ ~Settled(y)' => Entry(y)'
SettlesNone == \A y \in Xids : CP!Sent(y) /\ Settled(y)' => Settled(y)
Others(k) == \A j \in Conns : j # k => task'[j] = task[j]

Rests(k) == task'[k].pc \in {"reading", "dead"}
Carries(k) == Working(k) /\ Working(k)' /\ task'[k].req = task[k].req
Accepts(k) == /\ task'[k].pc = "new" /\ task'[k].req \in issued
              /\ \E x \in Xids : /\ x = task'[k].req.xid
                                /\ ~Entry(x) /\ Entry(x)' /\ ~Settled(x)'
Answers(k) == Answering(k)' /\ Settled(task[k].req.xid)'
Finishes(k) == /\ Working(k) /\ task'[k].req = task[k].req /\ Answers(k)
               /\ \A y \in Xids : CP!Sent(y) /\ Settled(y)' => Settled(y) \/ y = task[k].req.xid

LEMMA CallsKeepNonce ==
    ASSUME SysInv, [Next]_vars
    PROVE  \A y \in Xids : CP!Sent(y) => /\ CP!Sent(y)' /\ call'[y].proc = call[y].proc
                                         /\ instance' = instance => (IsOld(y)' <=> IsOld(y))
<1>1. [CP!Next]_(CP!vars) /\ CP!Shape
  BY PartsStep DEF SysInv, Parts
<1>2. \A y \in Xids : CP!Sent(y) => /\ CP!Sent(y)' /\ call'[y].proc = call[y].proc
                                    /\ call'[y].srv_nonce = call[y].srv_nonce
  BY <1>1, CP!SentStays, ClientAssumptions, ClientNames
<1>. QED
  BY <1>2 DEF IsOld, SP!Nonce

LEMMA ChainDoes ==
    ASSUME CltNonce > 0, BoundInv, GotSettled, [Next]_vars
    PROVE  \/ SP!Restart
           \/ /\ instance' = instance /\ Keeps
              /\ \/ SettlesNone /\ UNCHANGED task
                 \/ \E k \in Conns :
                       /\ Others(k)
                       /\ \/ SettlesNone /\ (Rests(k) \/ Carries(k) \/ Accepts(k) \/ Answers(k))
                          \/ Finishes(k)
<1>0. /\ SysInv /\ SP!Shape /\ [SP!Next]_(SP!vars)
      /\ \A c \in {CltNonce} : c > 0
      /\ \A x \in Xids : x \in Nat /\ x >= 2
  BY PartsStep, BoundsAssumption DEF BoundInv, SysInv, Parts, Xids
<1>1. /\ reply_window \in [{CltNonce} -> Seq(SP!ReplyTs)]
      /\ max_ack[CltNonce] \in Nat
  BY <1>0 DEF SP!Shape, SP!TypeOK
<1>2. \A y \in Xids : CP!Sent(y) /\ instance' = instance => (IsOld(y)' <=> IsOld(y))
  BY <1>0, CallsKeepNonce
<1>3. ASSUME UNCHANGED <<instance, reply_window, max_ack>> PROVE Keeps /\ SettlesNone
  BY <1>2, <1>3 DEF Keeps, SettlesNone, Settled, Entry
<1>4. ASSUME NEW k \in Conns, NEW m \in issued, SP!DispatchTracked(k, m)
      PROVE  /\ instance' = instance /\ Keeps /\ SettlesNone /\ Others(k)
             /\ Rests(k) \/ Accepts(k) \/ Answers(k)
  <2>1. instance' = instance
    BY <1>4 DEF SP!DispatchTracked
  <2>2. /\ m.clt_nonce = CltNonce /\ m.xid \in Xids /\ CP!Sent(m.xid)
        /\ ~SP!OldServer(m) /\ ~IsOld(m.xid) /\ ~IsOld(m.xid)'
    BY <1>0, <1>2, <1>4, <2>1, IssuedIs DEF SP!DispatchTracked
  <2>. DEFINE w == reply_window[CltNonce]
              v == reply_window'[CltNonce]
              a == max_ack'[CltNonce]
  <2>3. /\ a \in Nat /\ a >= max_ack[CltNonce]
        /\ a = max_ack[CltNonce] \/ (m.xid_rep > 0 /\ a = m.xid_rep)
        /\ \A y \in Xids : SP!Replied(v, y) <=> SP!Replied(w, y) /\ y > a
        /\ \A y \in Xids : SP!Holds(w, y) /\ y > a => SP!Holds(v, y)
        /\ \A j \in Conns : j # k => task'[j] = task[j]
        /\ \/ task'[k].pc = "reading"
           \/ /\ task'[k].pc = "new" /\ task'[k].req = m
              /\ m.xid > a /\ ~SP!Holds(w, m.xid) /\ SP!Holds(v, m.xid)
           \/ /\ task'[k].pc = "replay" /\ task'[k].req = m
              /\ m.xid > a /\ SP!Replied(w, m.xid) /\ SP!Holds(v, m.xid)
           \/ /\ task'[k].pc = "forgotten" /\ task'[k].req = m
              /\ m.xid <= a
    BY <1>0, <1>4, <2>2, SP!TrackedDoes, ServerAssumptions
  <2>4. \A y \in Xids : y <= a => Settled(y)
    <3>. SUFFICES ASSUME NEW y \in Xids, y <= a PROVE Settled(y)
      OBVIOUS
    <3>1. CASE a = max_ack[CltNonce]
      BY <3>1 DEF Settled
    <3>2. CASE a = m.xid_rep
      <4>1. y \in 2..m.xid_rep
        BY <1>0, <2>3, <3>2
      <4>. QED
        BY <2>2, <4>1, AckCovers
    <3>. QED
      BY <2>3, <3>1, <3>2
  <2>. HIDE DEF w, v, a
  <2>5. \A y \in Xids : CP!Sent(y) =>
           (Settled(y)' <=> IsOld(y) \/ y <= a \/ SP!Replied(v, y))
    BY <1>2, <2>1 DEF Settled, v, a
  <2>6. \A y \in Xids : Settled(y) <=> IsOld(y) \/ y <= max_ack[CltNonce] \/ SP!Replied(w, y)
    BY DEF Settled, w
  <2>7. \A y \in Xids : y <= max_ack[CltNonce] => y <= a
    BY <1>0, <1>1, <2>3
  <2>8. \A y \in Xids : y <= a \/ y > a
    BY <1>0, <2>3
  <2>9. SettlesNone
    BY <2>3, <2>4, <2>5, <2>6 DEF SettlesNone
  <2>10. Keeps
    <3>1. \A y \in Xids : (Entry(y) <=> SP!Holds(w, y)) /\ (Entry(y)' <=> SP!Holds(v, y))
      BY DEF Entry, w, v
    <3>. QED
      BY <2>3, <2>5, <2>6, <2>7, <2>8, <3>1 DEF Keeps
  <2>11. CASE task'[k].pc = "new" /\ task'[k].req = m
              /\ m.xid > a /\ ~SP!Holds(w, m.xid) /\ SP!Holds(v, m.xid)
    <3>1. ~SP!Replied(w, m.xid)
      BY <2>11 DEF SP!Replied, SP!Holds
    <3>2. ~(m.xid <= a)
      BY <1>0, <2>2, <2>3, <2>11
    <3>3. ~Settled(m.xid)'
      BY <2>2, <2>3, <2>5, <3>1, <3>2
    <3>4. Accepts(k)
      BY <2>2, <2>11, <3>3 DEF Accepts, Entry, w, v
    <3>. QED
      BY <2>1, <2>3, <2>9, <2>10, <3>4 DEF Others
  <2>12. CASE task'[k].pc = "replay" /\ task'[k].req = m
              /\ m.xid > a /\ SP!Replied(w, m.xid)
    <3>1. Settled(m.xid)'
      BY <2>2, <2>3, <2>5, <2>12
    <3>. QED
      BY <2>1, <2>3, <2>9, <2>10, <2>12, <3>1 DEF Answers, Answering, Others
  <2>13. CASE task'[k].pc = "forgotten" /\ task'[k].req = m /\ m.xid <= a
    <3>1. Settled(m.xid)'
      BY <2>2, <2>5, <2>13
    <3>. QED
      BY <2>1, <2>3, <2>9, <2>10, <2>13, <3>1 DEF Answers, Answering, Others
  <2>. QED
    BY <2>1, <2>3, <2>9, <2>10, <2>11, <2>12, <2>13 DEF Rests, Others
<1>5. ASSUME NEW k \in Conns, SP!AddReply(k), SP!Kept(k)
      PROVE  instance' = instance /\ Keeps /\ Others(k) /\ Finishes(k)
  <2>. DEFINE m == task[k].req
              w == reply_window[CltNonce]
              v == reply_window'[CltNonce]
  <2>1. m \in issued /\ task[k].pc = "handled"
    BY <1>0, <1>5 DEF SP!AddReply, SP!Shape, SP!TasksIssued
  <2>2. m.clt_nonce = CltNonce /\ m.xid \in Xids /\ CP!Sent(m.xid)
    BY <1>0, <2>1, IssuedIs
  <2>3. /\ \A y \in Xids : /\ SP!Holds(v, y) <=> SP!Holds(w, y)
                           /\ SP!Replied(v, y) <=> SP!Replied(w, y) \/ y = m.xid
        /\ task'[k].pc = "reply" /\ task'[k].req = m
        /\ \A j \in Conns : j # k => task'[j] = task[j]
        /\ UNCHANGED <<instance, max_ack>>
    BY <1>0, <1>5, <2>2, SP!AddReplyDoes, ServerAssumptions DEF SP!Kept
  <2>. HIDE DEF m, w, v
  <2>4. \A y \in Xids : CP!Sent(y) => (Settled(y)' <=> Settled(y) \/ y = m.xid)
    BY <1>2, <2>3 DEF Settled, w, v
  <2>5. Keeps
    BY <2>3, <2>4 DEF Keeps, Entry, w, v
  <2>6. Finishes(k)
    BY <2>1, <2>2, <2>3, <2>4 DEF Finishes, Answers, Working, Answering, m
  <2>. QED
    BY <2>3, <2>5, <2>6 DEF Others
<1>6. ASSUME NEW k \in Conns,
             UNCHANGED <<instance, reply_window, max_ack>>,
             task'[k].pc = "reply", task'[k].req \in issued, SP!OldServer(task'[k].req)
      PROVE  Answers(k)
  <2>1. LET x == task'[k].req.xid IN x \in Xids /\ CP!Sent(x) /\ IsOld(x)
    BY <1>0, <1>6, IssuedIs
  <2>2. Settled(task[k].req.xid)'
    BY <1>2, <1>6, <2>1 DEF Settled
  <2>. QED
    BY <1>6, <2>2 DEF Answers, Answering
<1>7. ASSUME NEW k \in Conns, task[k].pc = "new", task'[k].pc = "handled",
             task'[k].req = task[k].req
      PROVE  Carries(k)
  BY <1>7 DEF Carries, Working
<1>8. \/ SP!Restart
      \/ UNCHANGED <<instance, reply_window, max_ack, task>>
      \/ \E k \in Conns : \E m \in issued : SP!DispatchTracked(k, m)
      \/ \E k \in Conns : SP!AddReply(k) /\ SP!Kept(k)
      \/ \E k \in Conns :
            /\ UNCHANGED <<instance, reply_window, max_ack>>
            /\ \A j \in Conns : j # k => task'[j] = task[j]
            /\ \/ task'[k].pc \in {"reading", "dead"}
               \/ /\ task[k].pc = "new" /\ task'[k].pc = "handled"
                  /\ task'[k].req = task[k].req
               \/ /\ task'[k].pc = "reply" /\ task'[k].req \in issued
                  /\ SP!OldServer(task'[k].req)
  BY <1>0, SP!ChainsMove, ServerAssumptions
<1>9. ASSUME NEW k \in Conns,
             UNCHANGED <<instance, reply_window, max_ack>>,
             \A j \in Conns : j # k => task'[j] = task[j],
             \/ task'[k].pc \in {"reading", "dead"}
             \/ /\ task[k].pc = "new" /\ task'[k].pc = "handled"
                /\ task'[k].req = task[k].req
             \/ /\ task'[k].pc = "reply" /\ task'[k].req \in issued
                /\ SP!OldServer(task'[k].req)
      PROVE  /\ instance' = instance /\ Keeps /\ SettlesNone /\ Others(k)
             /\ Rests(k) \/ Carries(k) \/ Answers(k)
  BY <1>3, <1>6, <1>7, <1>9 DEF Rests, Others
<1>. QED
  BY <1>3, <1>4, <1>5, <1>8, <1>9

\* The request of a chain is one that was sent.
LEMMA ChainsOfSent ==
    ASSUME SysInv, NEW k \in Conns, Working(k) \/ Answering(k)
    PROVE  /\ task[k].req \in issued /\ task[k].req.xid \in Xids
           /\ CP!Sent(task[k].req.xid)
           /\ SP!Kept(k) <=> Entry(task[k].req.xid)
<1>1. task[k].req \in issued
  BY DEF SysInv, Parts, SP!Shape, SP!TasksIssued, Working, Answering
<1>. QED
  BY <1>1, IssuedIs DEF SP!Kept, Entry

LEMMA ChainStep ==
    ASSUME CltNonce > 0, BoundInv, GotSettled, ChainInv, ~SP!Restart, [Next]_vars
    PROVE  ChainInv'
<1>0. SysInv /\ SysInv'
  BY SysStep DEF BoundInv
<1>1. \A k \in Conns : (Working(k) \/ Answering(k))' =>
         /\ task'[k].req.xid \in Xids
         /\ SP!Kept(k)' <=> Entry(task[k].req.xid)'
  <2>. SUFFICES ASSUME NEW k \in Conns, (Working(k) \/ Answering(k))'
                PROVE  /\ task'[k].req.xid \in Xids
                       /\ SP!Kept(k)' <=> Entry(task[k].req.xid)'
    OBVIOUS
  <2>1. task'[k].req \in issued' /\ task'[k].req.xid \in Xids /\ task'[k].req.clt_nonce = CltNonce
    <3>1. task'[k].req \in issued'
      BY <1>0 DEF SysInv, Parts, SP!Shape, SP!TasksIssued, Working, Answering
    <3>2. issued' \subseteq SP!Requests
      BY <1>0 DEF SysInv, Parts, SP!Shape, SP!TypeOK
    <3>. QED
      BY <3>1, <3>2, SP!RequestsTyped, ServerAssumptions
  <2>. QED
    BY <2>1 DEF SP!Kept, Entry
<1>3. \A k \in Conns : Working(k) \/ Answering(k) =>
         LET x == task[k].req.xid IN
         x \in Xids /\ CP!Sent(x) /\ (SP!Kept(k) <=> Entry(x))
  BY <1>0, ChainsOfSent
\* A chain that does not move keeps what it has.
<1>4. ASSUME Keeps, NEW j \in Conns, task'[j] = task[j]
      PROVE  /\ Answering(j)' => Settled(task[j].req.xid)'
             /\ Working(j)' /\ ~Settled(task[j].req.xid)' => SP!Kept(j)'
  <2>1. Answering(j)' => Answering(j)
    BY <1>4 DEF Answering
  <2>2. Working(j)' => Working(j)
    BY <1>4 DEF Working
  <2>3. PICK x : x = task[j].req.xid
    OBVIOUS
  <2>4. Answering(j)' => Settled(x)'
    BY <1>3, <1>4, <2>1, <2>3 DEF ChainInv, TasksSettled, Keeps
  <2>5. Working(j)' /\ ~Settled(x)' => Entry(x)'
    BY <1>3, <1>4, <2>2, <2>3 DEF ChainInv, WorkHeld, Keeps
  <2>. QED
    BY <1>1, <1>4, <2>3, <2>4, <2>5 DEF Settled, Entry
<1>5. ASSUME SettlesNone, NEW j \in Conns, task'[j].req = task[j].req, Working(j)
      PROVE  ~Settled(task[j].req.xid)'
  <2>1. PICK x : x = task[j].req.xid
    OBVIOUS
  <2>2. ~Settled(x)'
    BY <1>3, <1>5, <2>1 DEF ChainInv, WorkHeld, SettlesNone
  <2>. QED
    BY <1>5, <2>1, <2>2 DEF Settled
<1>6. CASE Keeps /\ SettlesNone /\ UNCHANGED task
  <2>1. \A j \in Conns : Working(j)' <=> Working(j)
    BY <1>6 DEF Working
  <2>2. WorkHeld' /\ TasksSettled'
    BY <1>4, <1>5, <1>6, <2>1 DEF WorkHeld, TasksSettled
  <2>3. WorkAlone'
    BY <1>6, <2>1 DEF ChainInv, WorkAlone
  <2>. QED
    BY <2>2, <2>3 DEF ChainInv
<1>7. ASSUME NEW k \in Conns, Keeps, Others(k),
             \/ SettlesNone /\ (Rests(k) \/ Carries(k) \/ Accepts(k) \/ Answers(k))
             \/ Finishes(k)
      PROVE  ChainInv'
  <2>1. \A j \in Conns \ {k} : /\ task'[j] = task[j]
                               /\ Working(j)' <=> Working(j)
    BY <1>7 DEF Others, Working
  <2>2. ASSUME NEW j \in Conns \ {k}, Working(j) PROVE ~Settled(task[j].req.xid)'
    <3>1. CASE SettlesNone
      BY <1>5, <2>1, <2>2, <3>1
    <3>2. CASE Finishes(k)
      <4>1. PICK x : x = task[j].req.xid
        OBVIOUS
      <4>2. x # task[k].req.xid
        BY <2>2, <3>2, <4>1 DEF ChainInv, WorkAlone, Finishes
      <4>3. ~Settled(x)'
        BY <1>3, <2>2, <3>2, <4>1, <4>2 DEF ChainInv, WorkHeld, Finishes
      <4>. QED
        BY <2>1, <4>1, <4>3 DEF Settled
    <3>. QED
      BY <1>7, <3>1, <3>2
  <2>3. \A j \in Conns \ {k} : /\ Working(j)' => ~Settled(task[j].req.xid)' /\ SP!Kept(j)'
                               /\ Answering(j)' => Settled(task[j].req.xid)'
    BY <1>4, <1>7, <2>1, <2>2
  <2>4. CASE Rests(k)
    <3>1. ~Working(k)' /\ ~Answering(k)'
      BY <2>4 DEF Rests, Working, Answering
    <3>2. WorkHeld' /\ TasksSettled'
      BY <2>3, <3>1 DEF WorkHeld, TasksSettled
    <3>3. WorkAlone'
      BY <2>1, <3>1 DEF ChainInv, WorkAlone
    <3>. QED
      BY <3>2, <3>3 DEF ChainInv
  <2>5. CASE Answers(k)
    <3>1. ~Working(k)'
      BY <2>5 DEF Answers, Working, Answering
    <3>2. WorkHeld' /\ TasksSettled'
      BY <2>3, <2>5, <3>1 DEF WorkHeld, TasksSettled, Answers
    <3>3. WorkAlone'
      BY <2>1, <3>1 DEF ChainInv, WorkAlone
    <3>. QED
      BY <3>2, <3>3 DEF ChainInv
  <2>6. CASE SettlesNone /\ Carries(k)
    <3>1. Working(k) /\ Working(k)' /\ task'[k].req = task[k].req /\ ~Answering(k)'
      BY <2>6 DEF Carries, Working, Answering
    <3>2. PICK x : x = task[k].req.xid
      OBVIOUS
    <3>3. ~Settled(x)'
      BY <1>3, <2>6, <3>1, <3>2 DEF ChainInv, WorkHeld, SettlesNone
    <3>4. Entry(x)'
      BY <1>3, <1>7, <3>1, <3>2, <3>3 DEF ChainInv, WorkHeld, Keeps
    <3>5. ~Settled(task[k].req.xid)' /\ SP!Kept(k)'
      BY <1>1, <3>1, <3>2, <3>3, <3>4 DEF Settled, Entry
    <3>6. WorkHeld' /\ TasksSettled'
      BY <2>3, <3>1, <3>5 DEF WorkHeld, TasksSettled
    <3>7. WorkAlone'
      BY <2>1, <3>1 DEF ChainInv, WorkAlone
    <3>. QED
      BY <3>6, <3>7 DEF ChainInv
  <2>7. CASE Accepts(k)
    <3>1. PICK x \in Xids : /\ x = task'[k].req.xid
                            /\ ~Entry(x) /\ Entry(x)' /\ ~Settled(x)'
      BY <2>7 DEF Accepts
    <3>2. Working(k)' /\ ~Answering(k)'
      BY <2>7 DEF Accepts, Working, Answering
    <3>3. ~Settled(task[k].req.xid)' /\ SP!Kept(k)'
      BY <1>1, <3>1, <3>2 DEF Settled, Entry
    <3>4. WorkHeld' /\ TasksSettled'
      BY <2>3, <3>2, <3>3 DEF WorkHeld, TasksSettled
    <3>5. ASSUME NEW j \in Conns \ {k}, Working(j)' PROVE task'[j].req.xid # x
      <4>1. Working(j) /\ task'[j] = task[j]
        BY <2>1, <3>5
      <4>2. Entry(task[j].req.xid)
        BY <1>3, <4>1 DEF ChainInv, WorkHeld
      <4>. QED
        BY <3>1, <4>1, <4>2
    <3>6. WorkAlone'
      BY <2>1, <3>1, <3>5 DEF ChainInv, WorkAlone
    <3>. QED
      BY <3>4, <3>6 DEF ChainInv
  <2>. QED
    BY <1>7, <2>4, <2>5, <2>6, <2>7 DEF Finishes
<1>. QED
  BY <1>6, <1>7, ChainDoes

\* What a step does to the replies the client has, and to the nonce it holds.
LEMMA ClientHears ==
    ASSUME CltNonce > 0, BoundInv, [Next]_vars
    PROVE  /\ \A x \in got' : x \in got \/ \E w \in Workers : io[w].op = "update" /\ io[w].xid = x
           /\ \A u \in Workers : io'[u].op \in CP!ReplyOps =>
                 \/ /\ io[u].op \in CP!ReplyOps /\ io'[u].xid = io[u].xid
                    /\ io'[u].err = io[u].err /\ io'[u].result = io[u].result
                 \/ \E rep \in BagToSet(toClient[conn]) : io'[u].xid = rep.xid
           /\ \/ UNCHANGED <<bind_done, srv_nonce>>
              \/ \E w \in Workers :
                    /\ io[w].op = "callback" /\ io[w].xid = 2 /\ call[2].proc = BIND
                    /\ io[w].err = "OK" /\ ~bind_done /\ srv_nonce' = io[w].result
<1>. DEFINE Goal ==
           /\ \A x \in got' : x \in got \/ \E w \in Workers : io[w].op = "update" /\ io[w].xid = x
           /\ \A u \in Workers : io'[u].op \in CP!ReplyOps =>
                 \/ /\ io[u].op \in CP!ReplyOps /\ io'[u].xid = io[u].xid
                    /\ io'[u].err = io[u].err /\ io'[u].result = io[u].result
                 \/ \E rep \in BagToSet(toClient[conn]) : io'[u].xid = rep.xid
           /\ \/ UNCHANGED <<bind_done, srv_nonce>>
              \/ \E w \in Workers :
                    /\ io[w].op = "callback" /\ io[w].xid = 2 /\ call[2].proc = BIND
                    /\ io[w].err = "OK" /\ ~bind_done /\ srv_nonce' = io[w].result
<1>. SUFFICES Goal
  OBVIOUS
<1>0. /\ io \in [Workers -> CP!IoRecords] /\ CP!Shape /\ CP!Orderly
  BY DEF BoundInv, SysInv, Parts, CP!Shape, CP!IoTypes
<1>1. ASSUME NEW w \in Workers, Worker(w) PROVE Goal
  <2>1. CP!Worker(w)
    BY <1>1, WorkerDoes, WorkerIs
  <2>2. /\ \A x \in got' : x \in got \/ (io[w].op = "update" /\ io[w].xid = x)
        /\ \A u \in Workers : io'[u].op \in CP!ReplyOps =>
              /\ io[u].op \in CP!ReplyOps /\ io'[u].xid = io[u].xid
              /\ io'[u].err = io[u].err /\ io'[u].result = io[u].result
    BY <1>0, <2>1, CP!WorkerKeepsBind, CP!WorkerHandsOn, ClientAssumptions
       DEF BoundInv, CP!OneBind
  <2>3. \/ UNCHANGED <<bind_done, srv_nonce>>
        \/ /\ io[w].op = "callback" /\ io[w].xid = 2 /\ call[2].proc = BIND /\ io[w].err = "OK"
           /\ ~bind_done /\ bind_done' /\ srv_nonce' = io[w].result
    BY <1>0, <2>1, CP!BindsOnce, ClientAssumptions DEF BoundInv
  <2>. QED
    BY <2>2, <2>3
<1>2. ASSUME NEW w \in Workers, Receive(w) PROVE Goal
  <2>1. PICK rep \in BagToSet(toClient[conn]) : Clt!ReceiveReply(w, rep)
    BY <1>2 DEF Receive
  <2>. DEFINE s == Clt!Step("update", rep.xid, rep.err, rep.result)
  <2>2. io' = [io EXCEPT ![w] = s] /\ UNCHANGED <<bind_done, srv_nonce, got>>
    BY <2>1 DEF Clt!ReceiveReply, Clt!Goto, Clt!auxVars
  <2>3. s.xid = rep.xid
    BY DEF Clt!Step
  <2>. HIDE DEF s
  <2>4. \A u \in Workers : io'[u] = IF u = w THEN s ELSE io[u]
    BY <1>0, <2>2
  <2>. QED
    BY <2>2, <2>3, <2>4
<1>3. \/ \E w \in Workers : Worker(w) \/ Receive(w)
      \/ UNCHANGED <<io, bind_done, srv_nonce, got>>
  BY DEF Next, CallStart, AppThread, CallSend, TimerExpires, ReceiveFails, Transmit,
         Reconnected, ReplyLost, ConnectionBreaks, RegisterProc, ServerThread,
         OnNewConnection, Dispatch, Execute, SendReply, SendReplyFails, SendDangling,
         ServerReceiveFails, Restart, vars, cltVars, Clt!ioVars, Clt!auxVars, Clt!CallStart,
         Clt!CallSend, Clt!CallReadAck, Clt!CallWait, Clt!TimerExpires,
         Clt!ReceiveFails, Clt!SendResolves, Clt!Reconnected
<1>. QED
  BY <1>1, <1>2, <1>3

\* A message to the client was there, or is the answer of a chain.
LEMMA RepliesCome ==
    ASSUME SysInv, [Next]_vars, NEW k \in Conns, NEW rep \in BagToSet(toClient'[k])
    PROVE  /\ ~Restart
           /\ \/ \E j \in Conns : rep \in BagToSet(toClient[j])
              \/ \E j \in Conns : Answering(j) /\ rep = task[j].rep
<1>0. toClient = [j \in Conns |-> toClient[j]] /\ conn \in Conns
  BY DEF SysInv, Agreed, NetTyped
<1>1. BagToSet(EmptyBag) = {}
  BY DEF BagToSet, EmptyBag, SetToBag
<1>2. toClient' # [j \in Conns |-> EmptyBag]
  BY <1>1
<1>3. ~Restart
  BY <1>2 DEF Restart
<1>4. ASSUME NEW j \in Conns, NEW m, toClient' = Took(toClient, j, m)
      PROVE  \E i \in Conns : rep \in BagToSet(toClient[i])
  <2>1. LET t == Took(toClient, j, m) IN
        /\ t = [i \in Conns |-> t[i]]
        /\ \A i \in Conns : i # j => t[i] = toClient[i]
        /\ BagToSet(t[j]) \subseteq BagToSet(toClient[j])
    BY <1>0, NetworkIs
  <2>. QED
    BY <1>4, <2>1
<1>5. ASSUME NEW j \in Conns, Answering(j), toClient' = Put(toClient, j, task[j].rep)
      PROVE  \/ \E i \in Conns : rep \in BagToSet(toClient[i])
             \/ rep = task[j].rep
  <2>1. PICK r : r = task[j].rep
    OBVIOUS
  <2>2. LET p == Put(toClient, j, r) IN
        /\ p = [i \in Conns |-> p[i]]
        /\ \A i \in Conns : i # j => p[i] = toClient[i]
        /\ BagToSet(p[j]) = BagToSet(toClient[j]) \cup {r}
    BY <1>0, NetworkIs
  <2>. QED
    BY <1>5, <2>1, <2>2
<1>. QED
  BY <1>0, <1>2, <1>3, <1>4, <1>5, NetworkDoes DEF Answering

\* Nobody is bound to a process that has just started, if no process before it
\* had its nonce_.
LEMMA RestartUnbinds ==
    ASSUME OwnNonce', SysInv, SP!Restart, [Next]_vars
    PROVE  /\ Restart /\ UNCHANGED cltVars
           /\ ~BoundHere'
           /\ \A w \in Workers : io[w].op \in CP!ReplyOps => ~Learns(w)'
<1>1. /\ instance \in 1..MaxInstances /\ instance \in Nat
      /\ instance' = instance + 1 /\ instance' \in 1..MaxInstances
  BY BoundsAssumption DEF SP!Restart, SysInv, Parts, SP!Shape, SP!TypeOK, SP!Instances
<1>2. Restart
  BY <1>1, ServerMoves
<1>3. UNCHANGED cltVars
  BY <1>2 DEF Restart
<1>4. ASSUME NEW i \in 1..instance PROVE SrvNonces[i] # SP!Nonce'
  <2>1. i \in 1..(instance' - 1)
    BY <1>1
  <2>. QED
    BY <2>1 DEF OwnNonce, SP!Nonce
<1>5. ~BoundHere'
  <2>. SUFFICES ASSUME bind_done PROVE srv_nonce # SP!Nonce'
    BY <1>3 DEF BoundHere, cltVars
  <2>1. PICK i \in 1..instance : srv_nonce = SrvNonces[i]
    BY DEF SysInv, Agreed, Known
  <2>. QED
    BY <1>4, <2>1
<1>6. ASSUME NEW w \in Workers, io[w].op \in CP!ReplyOps PROVE ~Learns(w)'
  <2>. SUFFICES ASSUME call[io[w].xid].proc = BIND, io[w].err = "OK"
                PROVE  io[w].result # SP!Nonce'
    BY <1>3 DEF Learns, cltVars
  <2>1. PICK rep : rep = io[w]
    OBVIOUS
  <2>2. Answer(rep)
    BY <1>6, <2>1 DEF SysInv, Agreed, HandlersHonest
  <2>3. PICK i \in 1..instance : rep.result = SrvNonces[i]
    BY <2>1, <2>2, AnswerIsExpected DEF SysInv, Parts, Agreed
  <2>. QED
    BY <1>4, <2>1, <2>3
<1>. QED
  BY <1>2, <1>3, <1>5, <1>6

\* So it starts with nothing under way and nothing heard of it.
LEMMA RestartSettles ==
    ASSUME OwnNonce', SysInv, Restart, [Next]_vars
    PROVE  ChainInv' /\ HeardInv' /\ ProcsKnown'
<1>0. SP!Restart
  BY DEF Restart, Srv!Restart, SP!Restart, Srv!Closed, SP!Closed, Srv!Task, SP!Task,
         Srv!NoRequest, SP!NoRequest, Srv!NoReply, SP!NoReply, Srv!Reply, SP!Reply,
         Srv!Request, SP!Request
<1>1. /\ UNCHANGED cltVars /\ ~BoundHere'
      /\ \A w \in Workers : io[w].op \in CP!ReplyOps => ~Learns(w)'
  BY <1>0, RestartUnbinds
<1>2. RepliesSettled'
  BY RepliesCome DEF RepliesSettled
<1>3. HandlersSettled'
  <2>1. io' = io
    BY <1>1 DEF cltVars
  <2>. QED
    BY <1>1, <2>1 DEF HandlersSettled
<1>4. \A k \in Conns : task'[k].pc = "closed"
  BY <1>0 DEF SP!Restart, SP!Closed, SP!Task
<1>5. ChainInv'
  BY <1>4 DEF ChainInv, WorkHeld, WorkAlone, TasksSettled, Working, Answering
<1>6. BIND \in procs'
  BY <1>0 DEF SP!Restart
<1>. QED
  BY <1>1, <1>2, <1>3, <1>5, <1>6 DEF HeardInv, GotSettled, ProcsKnown

LEMMA HeardStep ==
    ASSUME CltNonce > 0, BoundInv, HeardInv, ChainInv, ~SP!Restart, [Next]_vars
    PROVE  HeardInv'
<1>0. /\ SysInv /\ CP!Orderly
      /\ \A x \in Xids : CP!Sent(x) => call'[x].proc = call[x].proc
  BY CallsKeepNonce DEF BoundInv, SysInv, Parts
<1>2. CASE instance' = instance /\ Keeps
  <2>1. RepliesSettled'
    <3>. SUFFICES ASSUME NEW k \in Conns, NEW rep \in BagToSet(toClient'[k])
                  PROVE  Settled(rep.xid)'
      BY DEF RepliesSettled
    <3>1. CASE \E j \in Conns : rep \in BagToSet(toClient[j])
      <4>1. Answer(rep) /\ Settled(rep.xid)
        BY <1>0, <3>1 DEF SysInv, Agreed, RepliesHonest, HeardInv, RepliesSettled
      <4>2. rep.xid \in Xids /\ CP!Sent(rep.xid)
        BY <1>0, <4>1, AnswerTo DEF SysInv, Agreed
      <4>. QED
        BY <1>2, <4>1, <4>2 DEF Keeps
    <3>2. ASSUME NEW j \in Conns, Answering(j), rep = task[j].rep PROVE Settled(rep.xid)'
      <4>1. PICK x : x = task[j].req.xid
        OBVIOUS
      <4>2. rep.xid = x
        BY <1>0, <3>2, <4>1 DEF Answering, SysInv, Parts, SP!HonestReplies, SP!TasksHonest,
                                SP!Honest, SP!HonestIn
      <4>3. Settled(x)
        BY <3>2, <4>1 DEF ChainInv, TasksSettled
      <4>4. x \in Xids /\ CP!Sent(x)
        BY <1>0, <3>2, <4>1, ChainsOfSent
      <4>. QED
        BY <1>2, <4>2, <4>3, <4>4 DEF Keeps
    <3>. QED
      BY <1>0, <3>1, <3>2, RepliesCome
\* Who is bound by this step has so far only called Bind, and holds its reply.
  <2>2. BoundHere' /\ ~BoundHere => \A x \in Xids : CP!Sent(x) => Settled(x)
    <3>. SUFFICES ASSUME BoundHere', ~BoundHere, NEW x \in Xids, CP!Sent(x) PROVE Settled(x)
      OBVIOUS
    <3>1. SP!Nonce' = SP!Nonce
      BY <1>2 DEF SP!Nonce
    <3>2. ~UNCHANGED <<bind_done, srv_nonce>> /\ srv_nonce' = SP!Nonce
      BY <3>1 DEF BoundHere
    <3>3. PICK w \in Workers :
             /\ io[w].op = "callback" /\ io[w].xid = 2 /\ call[2].proc = BIND
             /\ io[w].err = "OK" /\ ~bind_done /\ srv_nonce' = io[w].result
      BY <3>2, ClientHears
    <3>4. x = 2
      BY <3>3, ClientNames DEF BoundInv, CP!OneBind, CP!BoundOnce
    <3>5. Settled(io[w].xid)
      BY <3>2, <3>3 DEF HeardInv, HandlersSettled, Learns, CP!ReplyOps
    <3>. QED
      BY <3>3, <3>4, <3>5
  <2>3. \A w \in Workers : io[w].op \in CP!ReplyOps => io[w].xid \in Xids /\ CP!Sent(io[w].xid)
    <3>. SUFFICES ASSUME NEW w \in Workers, io[w].op \in CP!ReplyOps
                  PROVE  io[w].xid \in Xids /\ CP!Sent(io[w].xid)
      OBVIOUS
    <3>1. Answer(io[w])
      BY <1>0 DEF SysInv, Agreed, HandlersHonest
    <3>. QED
      BY <1>0, <3>1, AnswerTo DEF SysInv, Agreed
  <2>4. GotSettled'
    <3>. SUFFICES ASSUME BoundHere', NEW x \in got' PROVE Settled(x)'
      BY DEF GotSettled
    <3>1. x \in Xids /\ CP!Sent(x) /\ (BoundHere => Settled(x))
      <4>1. CASE x \in got
        <5>1. got \in SUBSET Xids
          BY <1>0, ClientNames DEF SysInv, Parts, CP!Shape, CP!WindowTypes
        <5>. QED
          BY <4>1, <5>1 DEF BoundInv, CP!OneBind, CP!GotSent, HeardInv, GotSettled
      <4>2. ASSUME NEW w \in Workers, io[w].op = "update", io[w].xid = x
            PROVE  x \in Xids /\ CP!Sent(x) /\ (BoundHere => Settled(x))
        BY <2>3, <4>2 DEF HeardInv, HandlersSettled, CP!ReplyOps
      <4>. QED
        BY <4>1, <4>2, ClientHears
    <3>2. Settled(x)
      BY <2>2, <3>1
    <3>. QED
      BY <1>2, <3>1, <3>2 DEF Keeps
  <2>5. HandlersSettled'
    <3>. SUFFICES ASSUME NEW u \in Workers, io'[u].op \in CP!ReplyOps, BoundHere' \/ Learns(u)'
                  PROVE  Settled(io[u].xid)'
      BY DEF HandlersSettled, CP!ReplyOps
    <3>1. PICK x : x = io'[u].xid
      OBVIOUS
    <3>2. x \in Xids /\ CP!Sent(x) /\ Settled(x)
      <4>1. CASE /\ io[u].op \in CP!ReplyOps /\ io'[u].xid = io[u].xid
                 /\ io'[u].err = io[u].err /\ io'[u].result = io[u].result
        <5>1. x = io[u].xid /\ x \in Xids /\ CP!Sent(x)
          BY <2>3, <3>1, <4>1
        <5>2. Learns(u)' => Learns(u)
          BY <1>0, <1>2, <4>1, <5>1 DEF Learns, SP!Nonce
        <5>3. BoundHere \/ Learns(u) => Settled(x)
          BY <4>1, <5>1 DEF HeardInv, HandlersSettled
        <5>. QED
          BY <2>2, <5>1, <5>2, <5>3
      <4>2. ASSUME NEW rep \in BagToSet(toClient[conn]), io'[u].xid = rep.xid
            PROVE  x \in Xids /\ CP!Sent(x) /\ Settled(x)
        <5>1. conn \in Conns
          BY <1>0 DEF SysInv, Agreed, NetTyped
        <5>2. Answer(rep) /\ Settled(rep.xid)
          BY <1>0, <5>1 DEF SysInv, Agreed, RepliesHonest, HeardInv, RepliesSettled
        <5>3. rep.xid \in Xids /\ CP!Sent(rep.xid)
          BY <1>0, <5>2, AnswerTo DEF SysInv, Agreed
        <5>. QED
          BY <3>1, <4>2, <5>2, <5>3
      <4>. QED
        BY <4>1, <4>2, ClientHears
    <3>3. Settled(x)'
      BY <1>2, <3>2 DEF Keeps
    <3>. QED
      BY <3>1, <3>3 DEF Settled, IsOld
  <2>. QED
    BY <2>1, <2>4, <2>5 DEF HeardInv
<1>. QED
  BY <1>2, ChainDoes DEF HeardInv

LEMMA BoundInvStep ==
    ASSUME CltNonce > 0, MaxBinds <= 1, BoundInv, [Next]_vars
    PROVE  BoundInv'
<1>1. [CP!Next]_(CP!vars) /\ CP!Shape /\ CP!Orderly
  BY PartsStep DEF BoundInv, SysInv, Parts
<1>2. CP!AckInv'
  BY <1>1, CP!AckStep, ClientAssumptions DEF BoundInv
<1>3. CP!Taken'
  BY <1>1, CP!TakenStep, ClientAssumptions DEF BoundInv
<1>4. CP!OneBind'
  BY <1>1, CP!OneBindStep, ClientAssumptions DEF BoundInv
<1>. QED
  BY <1>2, <1>3, <1>4, SysStep DEF BoundInv

LEMMA ProcsKnownStep ==
    ASSUME CltNonce > 0, BoundInv, GotSettled, ProcsKnown, ~SP!Restart, [Next]_vars
    PROVE  ProcsKnown'
<1>0. SysInv /\ CP!Orderly
  BY DEF BoundInv, SysInv, Parts
<1>1. /\ BIND \in procs'
      /\ instance' = instance => procs \subseteq procs'
  <2>1. instance \in Nat
    BY <1>0, BoundsAssumption DEF SysInv, Parts, SP!Shape, SP!TypeOK, SP!Instances
  <2>. QED
    BY <1>0, <2>1, ProcsGrow DEF ProcsKnown
<1>3. CASE instance' = instance
  <2>. SUFFICES ASSUME BoundHere', NEW x \in Xids, CP!Started(x)' PROVE call'[x].proc \in procs'
    BY <1>1 DEF ProcsKnown
  <2>1. CASE ~CP!Started(x) /\ call'[x].proc \in procs \cup {BIND}
    BY <1>1, <1>3, <2>1
  <2>2. CASE CP!Started(x) /\ call'[x].proc = call[x].proc
    <3>1. CASE BoundHere
      BY <1>1, <1>3, <2>2, <3>1 DEF ProcsKnown
    <3>2. CASE ~BoundHere
      <4>1. ~UNCHANGED <<bind_done, srv_nonce>>
        BY <1>3, <3>2 DEF BoundHere, SP!Nonce
      <4>2. ~bind_done
        BY <4>1, ClientHears
      <4>3. call[x].proc = BIND
        BY <1>0, <2>2, <4>2, ClientNames DEF CP!Orderly, CP!CallsBound
      <4>. QED
        BY <1>1, <2>2, <4>3
    <3>. QED
      BY <3>1, <3>2
  <2>. QED
    BY <1>0, <2>1, <2>2, StartsRegistered
<1>. QED
  BY <1>3, ChainDoes

CrowdInv == /\ BoundInv
            /\ OwnNonce => ChainInv /\ HeardInv /\ ProcsKnown
            /\ DiesOnlyOfRepBuf

LEMMA RepBufIs == \A k : Srv!RepBufDangles(k) <=> SP!RepBufDangles(k)
BY DEF Srv!RepBufDangles, SP!RepBufDangles, Srv!Holds, SP!Holds

LEMMA DiesOfRepBufStep ==
    ASSUME CltNonce > 0, CrowdInv, [Next]_vars
    PROVE  DiesOnlyOfRepBuf'
<1>. SUFFICES ASSUME srv_crashed', OwnNonce' PROVE \E k \in Conns : SP!RepBufDangles(k)'
  BY RepBufIs DEF DiesOnlyOfRepBuf, Srv!RepBufDangles, SP!RepBufDangles, Srv!Holds, SP!Holds
<1>0. [SP!Next]_(SP!vars) /\ SysInv
  BY PartsStep DEF CrowdInv, BoundInv, SysInv
<1>. OwnNonce
  <2>1. ~Restart
    BY DEF Restart, Srv!Restart
  <2>2. instance' = instance
    BY <2>1, ServerMoves
  <2>. QED
    BY <2>2 DEF OwnNonce
<1>1. /\ \E k \in Conns : SP!RepBufDangles(k)
      /\ UNCHANGED <<reply_window, task>>
  <2>1. CASE srv_crashed
    <3>1. UNCHANGED <<reply_window, task>>
      BY <1>0, <2>1, SP!DeadStays, ServerAssumptions
    <3>. QED
      BY <2>1, <3>1, RepBufIs DEF CrowdInv, DiesOnlyOfRepBuf
  <2>2. CASE ~srv_crashed
    <3>1. /\ \/ \E k \in Conns : \E m \in issued : SP!DispatchUnknownProc(k, m)
             \/ \E k \in Conns : task[k].pc = "handled" /\ ~SP!Kept(k)
             \/ \E k \in Conns : SP!RepBufDangles(k)
          /\ UNCHANGED <<reply_window, task>>
      BY <1>0, <2>2, SP!DiesOf, ServerAssumptions
    <3>2. ~ \E k \in Conns : task[k].pc = "handled" /\ ~SP!Kept(k)
      BY DEF CrowdInv, ChainInv, WorkHeld, Working
    <3>3. ASSUME NEW k \in Conns, NEW m \in issued, SP!DispatchUnknownProc(k, m) PROVE FALSE
      <4>1. ~SP!OldServer(m) /\ m.proc \notin procs
        BY <3>3 DEF SP!DispatchUnknownProc
      <4>. QED
        BY <4>1, ProcIsKnown DEF CrowdInv
    <3>. QED
      BY <3>1, <3>2, <3>3
  <2>. QED
    BY <2>1, <2>2
<1>2. PICK k \in Conns : SP!RepBufDangles(k)
  BY <1>1
<1>3. SP!RepBufDangles(k)'
  BY <1>1, <1>2 DEF SP!RepBufDangles
<1>. QED
  BY <1>3

\* Over any number of connections AddReply's "unreachable" is, and Dispatch is
\* never asked for a procedure that is not there: the one way to die is *rep_buf,
\* read after rep_window_mu_ was released.  That holds for every server process
\* whose nonce_ none before it had - the first always, the next ones not, as
\* long as all draw the same - and takes one Bind: with two under way the later
\* one's reply can open xid_rep_window_, which then acknowledges the earlier one,
\* still with its handler (UpdateXidRep, CheckDuplicateAndUpdate, AddReply).
THEOREM DeathIsRepBuf ==
    ASSUME CltNonce > 0, MaxBinds <= 1
    PROVE  Spec => []DiesOnlyOfRepBuf
<1>1. Init => CrowdInv
  <2>. SUFFICES ASSUME Init PROVE CrowdInv
    OBVIOUS
  <2>1. BoundInv
    BY SysInit, ClientInit, CP!AckInit, CP!TakenInit, CP!OneBindInit, ClientAssumptions
       DEF Init, BoundInv
  <2>2. /\ task = [k \in Conns |-> Srv!Closed] /\ procs = {BIND} /\ ~srv_crashed
        /\ ~bind_done /\ toClient = [k \in Conns |-> EmptyBag]
        /\ io = [w \in Workers |-> CP!Idle]
    BY ClientNames DEF Init, Srv!Init, Clt!Init
  <2>3. ChainInv
    BY <2>2 DEF ChainInv, WorkHeld, WorkAlone, TasksSettled, Working, Answering, Srv!Closed,
                Srv!Task
  <2>4. BagToSet(EmptyBag) = {}
    BY DEF BagToSet, EmptyBag, SetToBag
  <2>5. \A w \in Workers : io[w].op \notin CP!ReplyOps
    BY <2>2 DEF CP!Idle, CP!Step, CP!ReplyOps
  <2>6. HeardInv /\ ProcsKnown
    BY <2>2, <2>4, <2>5 DEF HeardInv, RepliesSettled, GotSettled, HandlersSettled, BoundHere,
                            ProcsKnown
  <2>. QED
    BY <2>1, <2>2, <2>3, <2>6 DEF CrowdInv, DiesOnlyOfRepBuf
<1>2. CrowdInv /\ [Next]_vars => CrowdInv'
  <2>. SUFFICES ASSUME CrowdInv, [Next]_vars PROVE CrowdInv'
    OBVIOUS
  <2>1. BoundInv' /\ DiesOnlyOfRepBuf'
    BY BoundInvStep, DiesOfRepBufStep DEF CrowdInv
  <2>2. ASSUME OwnNonce' PROVE ChainInv' /\ HeardInv' /\ ProcsKnown'
    <3>1. CASE Restart
      BY <2>2, <3>1, RestartSettles DEF CrowdInv, BoundInv
    <3>2. CASE ~Restart
      <4>1. instance' = instance /\ instance \in Nat
        BY <3>2, ServerMoves
           DEF CrowdInv, BoundInv, SysInv, Parts, SP!Shape, SP!TypeOK, SP!Instances
      <4>2. OwnNonce /\ ~SP!Restart
        BY <2>2, <4>1 DEF OwnNonce, SP!Restart
      <4>. QED
        BY <4>2, ChainStep, HeardStep, ProcsKnownStep DEF CrowdInv, HeardInv
    <3>. QED
      BY <3>1, <3>2
  <2>. QED
    BY <2>1, <2>2 DEF CrowdInv
<1>3. CrowdInv => DiesOnlyOfRepBuf
  BY DEF CrowdInv
<1>. QED
  BY <1>1, <1>2, <1>3, PTL DEF Spec
-----------------------------------------------------------------------------
(* Posted receives.  A Receive is posted for every send that succeeded and *)
(* for none that failed, and every message to come was started by a send.  *)
(* Seen from a call that waits: what is posted, or will be by a completion *)
(* still queued, falls short of the replies to come to other calls, and of *)
(* the sends the call itself was started with, by no more than there were  *)
(* faults and breaks.  A new connection starts with no Receive and no      *)
(* message, and it took a failed send and a break, or a new process, to    *)
(* come to it.                                                             *)

OkTokens == UNION {{<<x, i>> : i \in 1..sends[x]["OK"]} : x \in Xids}
Tokens(net) == UNION {UNION {{<<k, m, i>> : i \in 1..net[k][m]} : m \in DOMAIN net[k]} : k \in Conns}

\* The messages in flight on connection k that are none of own.
Beyond(net, k, own) == {t \in Tokens(net) : t[1] = k /\ t[2] \notin own}
About(y) == {rep \in SP!Replies : rep.xid = y}

\* The chain at work on the client's connection, if for another call than y.
Busies(y) == {k \in Conns : /\ k = conn /\ task[k].req.xid # y
                            /\ Working(k) \/ Answering(k)}

\* Every connection carries a bag, and finitely many messages are in flight.
InBags(net) == \A k \in Conns : \A m \in DOMAIN net[k] : net[k][m] \in Nat \ {0}
Counted == /\ InBags(toServer) /\ IsFiniteSet(Tokens(toServer))
           /\ InBags(toClient) /\ IsFiniteSet(Tokens(toClient))
           /\ IsFiniteSet(OkTokens)
           /\ breaks \in 0..MaxBreaks

Posted == listening + Cardinality(OkTokens) + faults + breaks
Own(y) == sends[y]["queued"] + Cardinality(CP!Handlers(y))
\* No call is 0: all that is to come is to others.
Names == Xids \cup {0}
ToOthers(y) == Cardinality(Beyond(toServer, conn, {y})) + Cardinality(Busies(y))
               + Cardinality(Beyond(toClient, conn, About(y)))
CoveredFor(y) == /\ IsFiniteSet(CP!Handlers(y))
                 /\ Posted + Own(y) >= ToOthers(y) + CP!Issued(y) + 1
Covered == conn = 1 /\ conn \in open => \A y \in Xids : CP!Awaited(y) => CoveredFor(y)
Reopened == conn > 1 /\ conn \in open => Posted + instance >= ToOthers(0) + 3

\* Only the newest connection is ever open, on the next ones nothing has
\* happened; one that is gone was broken or went with its server.
NetFresh == /\ open \subseteq {conn}
            /\ \A k \in Conns : k > conn => /\ BagToSet(toServer[k]) = {}
                                          /\ BagToSet(toClient[k]) = {}
                                          /\ task[k].pc = "closed"
            /\ conn \notin open => breaks + instance >= 2
            /\ CltNonce = 0 => conn = 1

\* With retransmission the timer of a call that waits does resend it.
Resends == CltNonce > 0 => CP!Taken /\ CP!Waits

\* A message more in flight, or one less.
LEMMA PutOne ==
    ASSUME NEW net, net = [k \in Conns |-> net[k]], InBags(net),
           NEW k \in Conns, NEW m
    PROVE  LET p == Put(net, k, m) IN
           InBags(p) /\ \E t : /\ t \notin Tokens(net) /\ t[1] = k /\ t[2] = m
                            /\ Tokens(p) = Tokens(net) \cup {t}
<1>. DEFINE p == Put(net, k, m)
            n == IF m \in DOMAIN net[k] THEN net[k][m] ELSE 0
<1>1. /\ p = [j \in Conns |-> p[j]]
      /\ \A j \in Conns : j # k => p[j] = net[j]
      /\ p[k] = net[k] (+) SetToBag({m})
  BY DEF Put
<1>2. \A B : /\ DOMAIN (B (+) SetToBag({m})) = DOMAIN B \cup {m}
             /\ \A o \in DOMAIN B \cup {m} :
                   (B (+) SetToBag({m}))[o] = (IF o \in DOMAIN B THEN B[o] ELSE 0)
                                              + (IF o = m THEN 1 ELSE 0)
  BY DEF (+), SetToBag
<1>3. n \in Nat
  BY DEF InBags
<1>4. /\ DOMAIN p[k] = DOMAIN net[k] \cup {m}
      /\ p[k][m] = n + 1
      /\ \A o \in DOMAIN net[k] : o # m => p[k][o] = net[k][o]
  <2>. HIDE DEF p
  <2>1. DOMAIN p[k] = DOMAIN net[k] \cup {m}
    BY <1>1, <1>2
  <2>2. \A o \in DOMAIN net[k] \cup {m} :
           p[k][o] = (IF o \in DOMAIN net[k] THEN net[k][o] ELSE 0) + (IF o = m THEN 1 ELSE 0)
    BY <1>1, <1>2, ZenonT(60)
  <2>. QED
    BY <2>1, <2>2 DEF InBags
<1>. HIDE DEF p, n
<1>5. InBags(p)
  <2>1. \A o \in DOMAIN p[k] : p[k][o] \in Nat \ {0}
    BY <1>3, <1>4 DEF InBags
  <2>. QED
    BY <1>1, <2>1 DEF InBags
<1>6. Tokens(p) = Tokens(net) \cup {<<k, m, n + 1>>} /\ <<k, m, n + 1>> \notin Tokens(net)
  <2>1. ASSUME NEW t PROVE t \in Tokens(p) <=> t \in Tokens(net) \/ t = <<k, m, n + 1>>
    <3>1. \A q : t \in Tokens(q) <=> \E j \in Conns : \E o \in DOMAIN q[j] :
                                        \E i \in 1..q[j][o] : t = <<j, o, i>>
      BY DEF Tokens
    <3>2. \A i : i \in 1..(n + 1) <=> i \in 1..n \/ i = n + 1
      BY <1>3
    <3>4. m \notin DOMAIN net[k] => 1..n = {}
      BY DEF n
    <3>5. m \in DOMAIN net[k] => n = net[k][m]
      BY DEF n
    <3>6. (\E o \in DOMAIN p[k] : \E i \in 1..p[k][o] : t = <<k, o, i>>)
          <=> \/ \E o \in DOMAIN net[k] : \E i \in 1..net[k][o] : t = <<k, o, i>>
              \/ t = <<k, m, n + 1>>
      BY <1>4, <3>2, <3>4, <3>5
    <3>7. \A j \in Conns : j # k => p[j] = net[j]
      BY <1>1
    <3>8. ASSUME NEW j \in Conns
          PROVE  (\E o \in DOMAIN p[j] : \E i \in 1..p[j][o] : t = <<j, o, i>>)
                 <=> \/ \E o \in DOMAIN net[j] : \E i \in 1..net[j][o] : t = <<j, o, i>>
                     \/ j = k /\ t = <<k, m, n + 1>>
      BY <3>6, <3>7
    <3>. QED
      BY <3>1, <3>8
  <2>2. <<k, m, n + 1>> \notin Tokens(net)
    <3>1. m \in DOMAIN net[k] => n = net[k][m]
      BY DEF n
    <3>2. n + 1 \notin 1..n
      BY <1>3
    <3>. QED
      BY <3>1, <3>2 DEF Tokens
  <2>. QED
    BY <2>1, <2>2
<1>. QED
  BY <1>5, <1>6 DEF p

LEMMA TookOne ==
    ASSUME NEW net, net = [k \in Conns |-> net[k]], InBags(net),
           NEW k \in Conns, NEW m \in BagToSet(net[k])
    PROVE  LET p == Took(net, k, m) IN
           InBags(p) /\ \E t \in Tokens(net) : t[1] = k /\ t[2] = m /\ Tokens(p) = Tokens(net) \ {t}
<1>. DEFINE p == Took(net, k, m)
            n == net[k][m]
            c(o) == IF o = m THEN net[k][o] - 1 ELSE net[k][o]
<1>1. /\ p = [j \in Conns |-> p[j]]
      /\ \A j \in Conns : j # k => p[j] = net[j]
      /\ p[k] = net[k] (-) SetToBag({m})
  BY DEF Took
<1>2. \A B : LET d(o) == IF o = m THEN B[o] - 1 ELSE B[o] IN
             /\ DOMAIN (B (-) SetToBag({m})) = {o \in DOMAIN B : d(o) > 0}
             /\ \A o \in DOMAIN B : d(o) > 0 => (B (-) SetToBag({m}))[o] = d(o)
  BY DEF (-), SetToBag
<1>3. m \in DOMAIN net[k] /\ n \in Nat \ {0}
  BY DEF InBags, BagToSet
<1>4. /\ DOMAIN p[k] = {o \in DOMAIN net[k] : c(o) > 0}
      /\ \A o \in DOMAIN net[k] : c(o) > 0 => p[k][o] = c(o)
  BY <1>1, <1>2
<1>5. \A o \in DOMAIN net[k] : c(o) \in Nat /\ (o # m => c(o) = net[k][o] /\ c(o) > 0)
  BY <1>3 DEF InBags
<1>6. c(m) = n - 1
  OBVIOUS
<1>. HIDE DEF p, n, c
<1>7. InBags(p)
  BY <1>1, <1>4, <1>5 DEF InBags
<1>8. Tokens(p) = Tokens(net) \ {<<k, m, n>>} /\ <<k, m, n>> \in Tokens(net)
  <2>1. ASSUME NEW t PROVE t \in Tokens(p) <=> t \in Tokens(net) /\ t # <<k, m, n>>
    <3>1. \A q : t \in Tokens(q) <=> \E j \in Conns : \E o \in DOMAIN q[j] :
                                        \E i \in 1..q[j][o] : t = <<j, o, i>>
      BY DEF Tokens
    <3>2. \A i : i \in 1..(n - 1) <=> i \in 1..n /\ i # n
      BY <1>3
    <3>3. ASSUME NEW o \in DOMAIN net[k], NEW i
          PROVE  o \in DOMAIN p[k] /\ i \in 1..p[k][o]
                 <=> i \in 1..net[k][o] /\ <<o, i>> # <<m, n>>
      <4>1. CASE o = m
        <5>1. i \in 1..c(m) <=> i \in 1..n /\ i # n
          BY <1>6, <3>2
        <5>2. ~(c(m) > 0) => 1..c(m) = {}
          BY <1>3, <1>5
        <5>3. n = net[k][m]
          BY DEF n
        <5>. QED
          BY <4>1, <1>4, <5>1, <5>2, <5>3
      <4>2. CASE o # m
        BY <4>2, <1>4, <1>5
      <4>. QED
        BY <4>1, <4>2
    <3>4. DOMAIN p[k] \subseteq DOMAIN net[k]
      BY <1>4
    <3>5. (\E o \in DOMAIN p[k] : \E i \in 1..p[k][o] : t = <<k, o, i>>)
          <=> (\E o \in DOMAIN net[k] : \E i \in 1..net[k][o] : t = <<k, o, i>>) /\ t # <<k, m, n>>
      BY <3>3, <3>4
    <3>7. \A j \in Conns : j # k => p[j] = net[j]
      BY <1>1
    <3>8. ASSUME NEW j \in Conns
          PROVE  (\E o \in DOMAIN p[j] : \E i \in 1..p[j][o] : t = <<j, o, i>>)
                 <=> /\ \E o \in DOMAIN net[j] : \E i \in 1..net[j][o] : t = <<j, o, i>>
                     /\ t # <<k, m, n>>
      BY <3>5, <3>7
    <3>. QED
      BY <3>1, <3>8
  <2>2. <<k, m, n>> \in Tokens(net)
    <3>1. n \in 1..net[k][m]
      BY <1>3 DEF n
    <3>. QED
      BY <1>3, <3>1 DEF Tokens
  <2>. QED
    BY <2>1, <2>2
<1>. QED
  BY <1>7, <1>8 DEF p

LEMMA PutBeyond ==
    ASSUME NEW net, net = [k \in Conns |-> net[k]], InBags(net), IsFiniteSet(Tokens(net)),
           NEW k \in Conns, NEW m
    PROVE  LET p == Put(net, k, m) IN
           /\ InBags(p) /\ IsFiniteSet(Tokens(p))
           /\ \A c, own : Cardinality(Beyond(p, c, own)) = Cardinality(Beyond(net, c, own))
                              + (IF m \in own \/ c # k THEN 0 ELSE 1)
<1>. DEFINE p == Put(net, k, m)
<1>1. PICK t : t \notin Tokens(net) /\ t[1] = k /\ t[2] = m /\ Tokens(p) = Tokens(net) \cup {t}
  BY PutOne
<1>2. InBags(p)
  BY PutOne
<1>. HIDE DEF p
<1>3. IsFiniteSet(Tokens(p))
  BY <1>1, FS_AddElement
<1>4. ASSUME NEW c, NEW own
      PROVE  Cardinality(Beyond(p, c, own)) = Cardinality(Beyond(net, c, own))
                                              + (IF m \in own \/ c # k THEN 0 ELSE 1)
  <2>1. IsFiniteSet(Beyond(net, c, own)) /\ Cardinality(Beyond(net, c, own)) \in Nat
    BY FS_Subset, FS_CardinalityType DEF Beyond
  <2>2. CASE m \in own \/ c # k
    <3>1. Beyond(p, c, own) = Beyond(net, c, own)
      BY <1>1, <2>2 DEF Beyond
    <3>. QED
      BY <2>1, <2>2, <3>1
  <2>3. CASE m \notin own /\ c = k
    <3>1. Beyond(p, c, own) = Beyond(net, c, own) \cup {t} /\ t \notin Beyond(net, c, own)
      BY <1>1, <2>3 DEF Beyond
    <3>. QED
      BY <2>1, <2>3, <3>1, FS_AddElement
  <2>. QED
    BY <2>2, <2>3
<1>. QED
  BY <1>2, <1>3, <1>4 DEF p

LEMMA TookBeyond ==
    ASSUME NEW net, net = [k \in Conns |-> net[k]], InBags(net), IsFiniteSet(Tokens(net)),
           NEW k \in Conns, NEW m \in BagToSet(net[k])
    PROVE  LET p == Took(net, k, m) IN
           /\ InBags(p) /\ IsFiniteSet(Tokens(p))
           /\ \A c, own : Cardinality(Beyond(p, c, own)) = Cardinality(Beyond(net, c, own))
                              - (IF m \in own \/ c # k THEN 0 ELSE 1)
<1>. DEFINE p == Took(net, k, m)
<1>1. PICK t \in Tokens(net) : t[1] = k /\ t[2] = m /\ Tokens(p) = Tokens(net) \ {t}
  BY TookOne
<1>2. InBags(p)
  BY TookOne
<1>. HIDE DEF p
<1>3. IsFiniteSet(Tokens(p))
  BY <1>1, FS_RemoveElement
<1>4. ASSUME NEW c, NEW own
      PROVE  Cardinality(Beyond(p, c, own)) = Cardinality(Beyond(net, c, own))
                                              - (IF m \in own \/ c # k THEN 0 ELSE 1)
  <2>1. IsFiniteSet(Beyond(net, c, own)) /\ Cardinality(Beyond(net, c, own)) \in Nat
    BY FS_Subset, FS_CardinalityType DEF Beyond
  <2>2. CASE m \in own \/ c # k
    <3>1. Beyond(p, c, own) = Beyond(net, c, own)
      BY <1>1, <2>2 DEF Beyond
    <3>. QED
      BY <2>1, <2>2, <3>1
  <2>3. CASE m \notin own /\ c = k
    <3>1. Beyond(p, c, own) = Beyond(net, c, own) \ {t} /\ t \in Beyond(net, c, own)
      BY <1>1, <2>3 DEF Beyond
    <3>. QED
      BY <2>1, <2>3, <3>1, FS_RemoveElement
  <2>. QED
    BY <2>2, <2>3
<1>. QED
  BY <1>2, <1>3, <1>4 DEF p

\* A send that succeeded more, whose completion is queued, or one less.
OkAs == \A x \in Xids : sends'[x]["OK"] = sends[x]["OK"]
OkMore == \E x \in Xids : /\ sends'[x]["OK"] = sends[x]["OK"] + 1
                          /\ \A y \in Xids : y # x => sends'[y]["OK"] = sends[y]["OK"]
OkLess == \E x \in Xids : /\ sends[x]["OK"] > 0 /\ sends'[x]["OK"] = sends[x]["OK"] - 1
                          /\ \A y \in Xids : y # x => sends'[y]["OK"] = sends[y]["OK"]

LEMMA OkOne ==
    ASSUME IsFiniteSet(OkTokens), \A x \in Xids : sends[x]["OK"] \in Nat
    PROVE  /\ OkAs => OkTokens' = OkTokens
           /\ OkMore => /\ IsFiniteSet(OkTokens')
                        /\ Cardinality(OkTokens') = Cardinality(OkTokens) + 1
           /\ OkLess => /\ IsFiniteSet(OkTokens')
                        /\ Cardinality(OkTokens') = Cardinality(OkTokens) - 1
<1>0. \A t : /\ t \in OkTokens <=> \E x \in Xids : \E i \in 1..sends[x]["OK"] : t = <<x, i>>
             /\ t \in OkTokens' <=> \E x \in Xids : \E i \in 1..sends'[x]["OK"] : t = <<x, i>>
  BY DEF OkTokens
<1>1. ASSUME OkAs PROVE OkTokens' = OkTokens
  BY <1>0, <1>1 DEF OkAs
<1>2. ASSUME OkMore
      PROVE  IsFiniteSet(OkTokens') /\ Cardinality(OkTokens') = Cardinality(OkTokens) + 1
  <2>1. PICK x \in Xids : /\ sends'[x]["OK"] = sends[x]["OK"] + 1
                          /\ \A y \in Xids : y # x => sends'[y]["OK"] = sends[y]["OK"]
    BY <1>2 DEF OkMore
  <2>. DEFINE n == sends[x]["OK"]
  <2>2. /\ \A i : i \in 1..(n + 1) <=> i \in 1..n \/ i = n + 1
        /\ n + 1 \in 1..(n + 1) /\ n + 1 \notin 1..n
    OBVIOUS
  <2>3. ASSUME NEW t PROVE t \in OkTokens' <=> t \in OkTokens \/ t = <<x, n + 1>>
    BY <1>0, <2>1, <2>2
  <2>4. <<x, n + 1>> \notin OkTokens
    BY <1>0, <2>2
  <2>5. OkTokens' = OkTokens \cup {<<x, n + 1>>}
    BY <2>3
  <2>. QED
    BY <2>4, <2>5, FS_AddElement
<1>3. ASSUME OkLess
      PROVE  IsFiniteSet(OkTokens') /\ Cardinality(OkTokens') = Cardinality(OkTokens) - 1
  <2>1. PICK x \in Xids : /\ sends[x]["OK"] > 0 /\ sends'[x]["OK"] = sends[x]["OK"] - 1
                          /\ \A y \in Xids : y # x => sends'[y]["OK"] = sends[y]["OK"]
    BY <1>3 DEF OkLess
  <2>. DEFINE n == sends[x]["OK"]
  <2>2. /\ \A i : i \in 1..(n - 1) <=> i \in 1..n /\ i # n
        /\ n \in 1..n
    BY <2>1
  <2>3. ASSUME NEW t PROVE t \in OkTokens' <=> t \in OkTokens /\ t # <<x, n>>
    BY <1>0, <2>1, <2>2
  <2>4. <<x, n>> \in OkTokens
    BY <1>0, <2>2
  <2>5. OkTokens' = OkTokens \ {<<x, n>>}
    BY <2>3
  <2>. QED
    BY <2>4, <2>5, FS_RemoveElement
<1>. QED
  BY <1>1, <1>2, <1>3

LEMMA BusiesFinite == \A y : IsFiniteSet(Busies(y)) /\ IsFiniteSet(Busies(y)')
<1>1. IsFiniteSet(Conns)
  BY BoundsAssumption, FS_Interval DEF Conns
<1>. QED
  BY <1>1, FS_Subset DEF Busies

LEMMA BusiesCount ==
    ASSUME NEW y, NEW k \in Conns
    PROVE  /\ Busies(y)' \subseteq Busies(y) \cup {k}
                 => Cardinality(Busies(y)') <= Cardinality(Busies(y)) + 1
           /\ Busies(y)' \subseteq Busies(y) => Cardinality(Busies(y)') <= Cardinality(Busies(y))
           /\ k \in Busies(y) /\ Busies(y)' \subseteq Busies(y) \ {k}
                 => Cardinality(Busies(y)') <= Cardinality(Busies(y)) - 1
           /\ Cardinality(Busies(y)) \in Nat /\ Cardinality(Busies(y)') \in Nat
<1>. DEFINE B == Busies(y)
            C == Busies(y)'
<1>1. IsFiniteSet(B) /\ IsFiniteSet(C)
  BY BusiesFinite
<1>. HIDE DEF B, C
<1>0. \A S, T : IsFiniteSet(T) /\ S \subseteq T => /\ IsFiniteSet(S)
                                                   /\ Cardinality(S) <= Cardinality(T)
  BY FS_Subset
<1>2. Cardinality(B) \in Nat /\ Cardinality(C) \in Nat
  BY <1>1, FS_CardinalityType
<1>3. ASSUME C \subseteq B \cup {k} PROVE Cardinality(C) <= Cardinality(B) + 1
  <2>1. IsFiniteSet(B \cup {k}) /\ Cardinality(B \cup {k}) \in Nat
    BY <1>1, FS_AddElement, FS_CardinalityType
  <2>2. Cardinality(B \cup {k}) = IF k \in B THEN Cardinality(B) ELSE Cardinality(B) + 1
    BY <1>1, FS_AddElement
  <2>3. Cardinality(C) <= Cardinality(B \cup {k})
    BY <1>0, <1>3, <2>1
  <2>. QED
    BY <1>2, <2>1, <2>2, <2>3
<1>4. C \subseteq B => Cardinality(C) <= Cardinality(B)
  BY <1>0, <1>1
<1>5. ASSUME k \in B, C \subseteq B \ {k} PROVE Cardinality(C) <= Cardinality(B) - 1
  <2>1. IsFiniteSet(B \ {k}) /\ Cardinality(B \ {k}) = Cardinality(B) - 1
    BY <1>1, <1>5, FS_RemoveElement
  <2>2. Cardinality(C) <= Cardinality(B \ {k})
    BY <1>0, <1>5, <2>1
  <2>. QED
    BY <2>1, <2>2
<1>. QED
  BY <1>2, <1>3, <1>4, <1>5 DEF B, C

\* Dispatch may put a chain to work, a Send ends its work, nothing else does;
\* what is sent is the reply to the request the chain works on.
LEMMA BusyDoes ==
    ASSUME SysInv, NEW y, NEW k \in Conns, UNCHANGED conn
    PROVE  /\ \/ Srv!OnNewConnection(k) \/ Srv!AddReply(k) \/ Srv!SendDangling(k)
              \/ Srv!ReceiveFails(k) \/ \E e \in HandlerErrs : Srv!Handle(k, e)
              => Busies(y)' \subseteq Busies(y)
           /\ \A x \in Xids : Request(x) \in issued /\ Srv!Dispatch(k, Request(x)) =>
                 Busies(y)' \subseteq IF x = y \/ k # conn THEN Busies(y) ELSE Busies(y) \cup {k}
           /\ (\E ok \in BOOLEAN : Srv!SendReply(k, ok)) \/ Srv!SendOld(k) =>
                 IF task[k].rep \in About(y) \/ k # conn
                 THEN Busies(y)' \subseteq Busies(y)
                 ELSE k \in Busies(y) /\ Busies(y)' \subseteq Busies(y) \ {k}
<1>. USE DEF Busies, Working, Answering
<1>0. task \in [Conns -> [pc: SP!Pcs, req: SP!Requests \cup {SP!NoRequest}, rep: SP!Replies]]
  BY DEF SysInv, Parts, SP!Shape, SP!TypeOK
<1>1. ASSUME NEW t, Srv!Goto(k, t)
      PROVE  task'[k] = t /\ \A j \in Conns : j # k => task'[j] = task[j]
  BY <1>0, <1>1 DEF Srv!Goto
<1>2. ASSUME \/ Srv!OnNewConnection(k) \/ Srv!AddReply(k) \/ Srv!SendDangling(k)
             \/ Srv!ReceiveFails(k) \/ \E e \in HandlerErrs : Srv!Handle(k, e)
      PROVE  Busies(y)' \subseteq Busies(y)
  <2>1. CASE Srv!OnNewConnection(k) \/ Srv!ReceiveFails(k)
    BY <1>1, <2>1 DEF Srv!OnNewConnection, Srv!ReceiveFails, Srv!Reading, Srv!Dead, Srv!Task
  <2>2. CASE Srv!AddReply(k) \/ Srv!SendDangling(k)
    BY <1>1, <2>2 DEF Srv!AddReply, Srv!SendDangling, Srv!Task
  <2>3. CASE \E e \in HandlerErrs : Srv!Handle(k, e)
    BY <1>1, <2>3 DEF Srv!Handle, Srv!Task
  <2>. QED
    BY <1>2, <2>1, <2>2, <2>3
<1>3. ASSUME NEW x \in Xids, Request(x) \in issued, Srv!Dispatch(k, Request(x))
      PROVE  Busies(y)' \subseteq IF x = y \/ k # conn THEN Busies(y) ELSE Busies(y) \cup {k}
  <2>. DEFINE m == Request(x)
  <2>0. m.xid = x /\ SP!Shape /\ m \in issued
    BY <1>3, RequestIs DEF SysInv, Parts
  <2>. HIDE DEF m
  <2>1. CASE Srv!DispatchTracked(k, m)
    <3>1. SP!DispatchTracked(k, m)
      BY <2>1, ServerChecks
    <3>2. /\ \A j \in Conns : j # k => task'[j] = task[j]
          /\ task'[k].pc = "reading" \/ task'[k].req = m
      BY <2>0, <3>1, SP!TrackedDoes, ServerAssumptions
    <3>. QED
      BY <2>0, <3>2
  <2>2. CASE Srv!DispatchOldServer(k, m) \/ Srv!DispatchUnknownProc(k, m) \/ Srv!DispatchPlain(k, m)
    <3>1. \/ UNCHANGED task
          \/ Srv!Goto(k, Srv!Task("reply", m, Srv!Reply(m.xid, "OLDSERVER_FAILURE", 0)))
          \/ Srv!Goto(k, Srv!Task("new", m, Srv!NoReply))
      BY <2>2 DEF Srv!DispatchOldServer, Srv!DispatchUnknownProc, Srv!DispatchPlain
    <3>2. \/ task' = task
          \/ /\ \A j \in Conns : j # k => task'[j] = task[j]
             /\ task'[k].req = m
      BY <1>1, <3>1 DEF Srv!Task
    <3>. QED
      BY <2>0, <3>2
  <2>. QED
    BY <1>3, <2>1, <2>2 DEF Srv!Dispatch, m
<1>4. ASSUME (\E ok \in BOOLEAN : Srv!SendReply(k, ok)) \/ Srv!SendOld(k)
      PROVE  IF task[k].rep \in About(y) \/ k # conn
             THEN Busies(y)' \subseteq Busies(y)
             ELSE k \in Busies(y) /\ Busies(y)' \subseteq Busies(y) \ {k}
  <2>1. /\ task[k].pc \in {"reply", "replay", "forgotten"}
        /\ Srv!Goto(k, Srv!Reading) \/ Srv!Goto(k, Srv!Dead)
    BY <1>4 DEF Srv!SendReply, Srv!SendOld
  <2>2. /\ task'[k].pc \in {"reading", "dead"}
        /\ \A j \in Conns : j # k => task'[j] = task[j]
    BY <1>1, <2>1 DEF Srv!Reading, Srv!Dead, Srv!Task
  <2>3. task[k].rep.xid = task[k].req.xid
    BY <2>1 DEF SysInv, Parts, SP!HonestReplies, SP!TasksHonest, SP!Honest, SP!HonestIn
  <2>4. task[k].rep \in About(y) <=> task[k].req.xid = y
    BY <1>0, <2>3 DEF About
  <2>. QED
    BY <2>1, <2>2, <2>4
<1>. QED
  BY <1>2, <1>3, <1>4

\* What is counted, as numbers.
LEMMA Numbers ==
    ASSUME SysInv, Counted
    PROVE  /\ listening \in Nat /\ faults \in Nat /\ faults <= MaxFaults
           /\ breaks \in Nat /\ breaks <= MaxBreaks /\ Cardinality(OkTokens) \in Nat
           /\ \A k, own : /\ Cardinality(Beyond(toServer, k, own)) \in Nat
                          /\ Cardinality(Beyond(toClient, k, own)) \in Nat
           /\ \A y \in Xids : /\ sends[y]["OK"] \in Nat /\ sends[y]["queued"] \in Nat
                              /\ CP!Issued(y) \in Nat
           /\ \A y : Cardinality(Busies(y)) \in Nat /\ Cardinality(Busies(y)') \in Nat
           /\ conn \in Conns
           /\ toServer = [k \in Conns |-> toServer[k]] /\ toClient = [k \in Conns |-> toClient[k]]
<1>1. \A k, own : IsFiniteSet(Beyond(toServer, k, own)) /\ IsFiniteSet(Beyond(toClient, k, own))
  BY FS_Subset DEF Counted, Beyond
<1>2. \A y \in Xids : sends[y]["OK"] \in Nat /\ sends[y]["queued"] \in Nat
  BY ClientNames DEF SysInv, Parts, CP!Shape, CP!SendTypes, CP!SendStates
<1>3. \A y : CP!Issued(y) \in Nat
  BY DEF CP!Issued
<1>4. /\ Cardinality(OkTokens) \in Nat
      /\ \A k, own : /\ Cardinality(Beyond(toServer, k, own)) \in Nat
                     /\ Cardinality(Beyond(toClient, k, own)) \in Nat
  BY <1>1, FS_CardinalityType DEF Counted
<1>5. /\ listening \in Nat /\ faults \in Nat /\ faults <= MaxFaults
      /\ breaks \in Nat /\ breaks <= MaxBreaks
  BY LossesAssumption, BoundsAssumption
     DEF SysInv, Parts, CP!Shape, CP!FaultTypes, Counted
<1>6. \A y : Cardinality(Busies(y)) \in Nat /\ Cardinality(Busies(y)') \in Nat
  BY BusiesFinite, FS_CardinalityType
<1>. QED
  BY <1>2, <1>3, <1>4, <1>5, <1>6 DEF SysInv, Agreed, NetTyped

LEMMA EmptyNet ==
    LET net == [k \in Conns |-> EmptyBag] IN
    /\ InBags(net) /\ IsFiniteSet(Tokens(net))
    /\ \A k, own : Cardinality(Beyond(net, k, own)) = 0
<1>. DEFINE net == [k \in Conns |-> EmptyBag]
<1>1. \A k \in Conns : DOMAIN net[k] = {}
  BY DEF EmptyBag, SetToBag
<1>. HIDE DEF net
<1>2. Tokens(net) = {}
  BY <1>1 DEF Tokens
<1>3. \A k, own : Beyond(net, k, own) = {}
  BY <1>2 DEF Beyond
<1>. QED
  BY <1>1, <1>2, <1>3, FS_EmptySet DEF InBags, net

\* Most of what the client does posts no Receive and ends no Send.
LEMMA PostsNone ==
    ASSUME SysInv,
           \/ \E proc \in CallProcs \cup {BIND} : CallStart(proc)
           \/ \E x \in Xids : AppThread(x) \/ TimerExpires(x)
           \/ \E w \in Workers : /\ Worker(w)
                                 /\ ~ \E x \in Xids : Clt!SendSucceeded(w, x)
           \/ \E x \in Xids : Reconnected(x, FALSE)
           \/ \E p \in CallProcs : RegisterProc(p)
           \/ UNCHANGED vars
    PROVE  OkAs /\ UNCHANGED <<listening, faults, breaks, toServer, toClient, task, conn>>
<1>0. /\ sends \in [Xids -> [CP!SendStates -> Nat]]
      /\ {"queued", "connecting", "OK"} \subseteq CP!SendStates /\ SendErrs \subseteq CP!SendStates
      /\ "OK" \notin SendErrs
  BY ClientNames, SendErrsAssumption
     DEF SysInv, Parts, CP!Shape, CP!SendTypes, CP!SendStates
<1>1. ASSUME NEW x \in Xids, NEW s \in CP!SendStates \ {"OK"}, NEW n,
             sends' = [sends EXCEPT ![x][s] = n]
      PROVE  OkAs
  BY <1>0, <1>1 DEF OkAs
<1>2. UNCHANGED sends => OkAs
  BY DEF OkAs
<1>4. ASSUME NEW proc, Clt!Register(proc) PROVE UNCHANGED sends
  BY <1>4 DEF Clt!Register
<1>5. ASSUME NEW proc, CallStart(proc)
      PROVE  OkAs /\ UNCHANGED <<listening, faults, breaks, toServer, toClient, task, conn>>
  BY <1>2, <1>4, <1>5 DEF CallStart, Clt!CallStart, Clt!ioVars, Clt!auxVars, srvVars, netVars
<1>6. ASSUME NEW x \in Xids, AppThread(x) \/ TimerExpires(x)
      PROVE  OkAs /\ UNCHANGED <<listening, faults, breaks, toServer, toClient, task, conn>>
  <2>1. sends' = [sends EXCEPT ![x]["queued"] = sends[x]["queued"] + 1] \/ UNCHANGED sends
    BY <1>6 DEF AppThread, CallSend, TimerExpires, Clt!CallSend, Clt!CallReadAck,
                Clt!CallWait, Clt!TimerExpires, Clt!Queued
  <2>2. UNCHANGED <<listening, faults, breaks, toServer, toClient, task, conn>>
    BY <1>6 DEF AppThread, CallSend, TimerExpires, Clt!CallSend, Clt!CallReadAck,
                Clt!CallWait, Clt!TimerExpires, Clt!ioVars, Clt!auxVars, srvVars, netVars
  <2>. QED
    BY <1>0, <1>1, <1>2, <2>1, <2>2
<1>7. ASSUME NEW w \in Workers, Worker(w), ~ \E x \in Xids : Clt!SendSucceeded(w, x)
      PROVE  OkAs /\ UNCHANGED <<listening, faults, breaks, toServer, toClient, task, conn>>
  <2>1. UNCHANGED <<breaks, toServer, toClient, task, conn>>
    BY <1>7 DEF Worker, srvVars, netVars
  <2>2. CASE \/ Clt!UpdateXidRep(w) \/ Clt!TakeCaller(w) \/ Clt!FinishCaller(w)
             \/ Clt!Callback(w) \/ Clt!GiveUp(w) \/ Clt!FailCallback(w) \/ Clt!Rebind(w)
             \/ \E x \in Xids : Clt!OnTimerExpired(w, x)
    <3>1. UNCHANGED <<sends, listening, faults>>
      BY <1>4, <2>2 DEF Clt!UpdateXidRep, Clt!TakeCaller, Clt!FinishCaller, Clt!Callback,
           Clt!GiveUp, Clt!FailCallback, Clt!Rebind, Clt!OnTimerExpired, Clt!callVars,
           Clt!auxVars
    <3>. QED
      BY <1>2, <2>1, <3>1
  <2>3. CASE Clt!Resend(w) \/ Clt!RetrySend(w)
    <3>1. io[w].op \in {"resend", "sendfailed"} /\ UNCHANGED <<listening, faults>>
      BY <2>3 DEF Clt!Resend, Clt!RetrySend
    <3>2. io[w].xid \in Xids
      BY <3>1, ClientNames DEF SysInv, Parts, CP!Shape, CP!HandlersWork, CP!GoodStep
    <3>3. \E s \in {"queued", "connecting"} :
             sends' = [sends EXCEPT ![io[w].xid][s] = sends[io[w].xid][s] + 1]
      BY <2>3 DEF Clt!Resend, Clt!RetrySend, Clt!Queued
    <3>. QED
      BY <1>0, <1>1, <2>1, <3>1, <3>2, <3>3
  <2>4. CASE \E x \in Xids, e \in SendErrs : Clt!SendFailed(w, x, e)
    <3>1. PICK x \in Xids, e \in SendErrs : Clt!SendFailed(w, x, e)
      BY <2>4
    <3>2. /\ sends' = [sends EXCEPT ![x][e] = sends[x][e] - 1]
          /\ UNCHANGED <<listening, faults>>
      BY <3>1 DEF Clt!SendFailed, Clt!auxVars
    <3>. QED
      BY <1>0, <1>1, <2>1, <3>2
  <2>. QED
    BY <1>7, <2>2, <2>3, <2>4 DEF Worker
<1>8. ASSUME NEW x \in Xids, Reconnected(x, FALSE)
      PROVE  OkAs /\ UNCHANGED <<listening, faults, breaks, toServer, toClient, task, conn>>
  BY <1>2, <1>8
     DEF Reconnected, Clt!Reconnected, Clt!ioVars, srvVars
<1>9. ASSUME NEW p, RegisterProc(p)
      PROVE  OkAs /\ UNCHANGED <<listening, faults, breaks, toServer, toClient, task, conn>>
  BY <1>2, <1>9 DEF RegisterProc, Srv!Register, cltVars, netVars
<1>10. ASSUME UNCHANGED vars
       PROVE  OkAs /\ UNCHANGED <<listening, faults, breaks, toServer, toClient, task, conn>>
  BY <1>2, <1>10 DEF vars, cltVars, srvVars, netVars
<1>. QED
  BY <1>5, <1>6, <1>7, <1>8, <1>9, <1>10

LEMMA ClientEventsAre ==
    \A x, e, w, rep : /\ Clt!TimerExpires(x) <=> CP!TimerExpires(x)
                      /\ Clt!SendResolves(x, e) <=> CP!SendResolves(x, e)
                      /\ Clt!Reconnected(x, e) <=> CP!Reconnected(x, e)
                      /\ Clt!ReceiveFails(w) <=> CP!ReceiveFails(w)
                      /\ Clt!ReceiveReply(w, rep) <=> CP!ReceiveReply(w, rep)
BY DEF Clt!Idle, CP!Idle, Clt!Step, CP!Step, Clt!callVars, CP!callVars, Clt!ioVars,
   CP!ioVars, Clt!auxVars, CP!auxVars, Clt!TimerExpires, CP!TimerExpires,
   Clt!SendResolves, CP!SendResolves, Clt!Reconnected, CP!Reconnected,
   Clt!ReceiveFails, CP!ReceiveFails, Clt!ReceiveReply, CP!ReceiveReply,
   Clt!Running, CP!Running, Clt!Moved, CP!Moved, Clt!Touch, CP!Touch, Clt!Goto, CP!Goto

\* What a call has under way gains on the sends it was started with by d, what
\* is posted gains on what is to come for others by as much as the call lost.
Gains(y, d) == /\ IsFiniteSet(CP!Handlers(y)')
               /\ Own(y)' + CP!Issued(y) >= Own(y) + CP!Issued(y)' + d
KeepsUp(y, d) == Posted' + d + ToOthers(y) >= Posted + ToOthers(y)'

LEMMA SetsAre ==
    \A S : /\ CP!IsFiniteSet(S) <=> IsFiniteSet(S)
           /\ CP!Cardinality(S) = Cardinality(S)
BY DEF CP!IsFiniteSet, IsFiniteSet, CP!Cardinality, Cardinality

LEMMA OwnGains ==
    ASSUME SysInv, SysInv', Resends, NEW y \in Xids, CP!Awaited(y), CP!Awaited(y)',
           IsFiniteSet(CP!Handlers(y))
    PROVE  /\ \/ UNCHANGED cltVars
              \/ \E proc \in CallProcs \cup {BIND} : CallStart(proc)
              \/ \E x \in Xids : AppThread(x) \/ TimerExpires(x)
              \/ \E w \in Workers : Worker(w) \/ ReceiveFails(w)
              \/ \E x \in Xids, ok \in BOOLEAN : Reconnected(x, ok)
              => Gains(y, 0)
           /\ \A w \in Workers : \A rep : Clt!ReceiveReply(w, rep) =>
                 Gains(y, IF rep.xid = y THEN 1 ELSE 0)
           /\ \A x \in Xids, e \in {"OK"} \cup SendErrs : Clt!SendResolves(x, e) =>
                 Gains(y, IF x = y THEN -1 ELSE 0)
<1>0. /\ CP!Shape /\ CP!Xids = Xids /\ (CltNonce > 0 => CP!Taken)
      /\ sends[y]["queued"] \in Nat /\ sends'[y]["queued"] \in Nat
  <2>1. CP!SendTypes /\ CP!SendTypes' /\ "queued" \in CP!SendStates
    BY DEF SysInv, Parts, CP!Shape, CP!SendStates
  <2>. QED
    BY <2>1, ClientNames DEF SysInv, Parts, Resends, CP!SendTypes
<1>1. CP!Issued(y) \in Nat /\ CP!Issued(y)' \in Nat /\ Cardinality(CP!Handlers(y)) \in Nat
  BY FS_CardinalityType DEF CP!Issued
<1>2. ASSUME CP!OwnMoves(y) PROVE Gains(y, 0)
  <2>1. /\ IsFiniteSet(CP!Handlers(y)')
        /\ sends'[y]["queued"] + Cardinality(CP!Handlers(y)') + CP!Issued(y)
              >= sends[y]["queued"] + Cardinality(CP!Handlers(y)) + CP!Issued(y)'
    BY <1>0, <1>2, SetsAre, CP!OwnBalances, ClientAssumptions
  <2>2. Cardinality(CP!Handlers(y)') \in Nat
    BY <2>1, FS_CardinalityType
  <2>. QED
    BY <1>0, <1>1, <2>1, <2>2 DEF Gains, Own
<1>3. ASSUME UNCHANGED cltVars PROVE CP!OwnMoves(y)
  <2>1. UNCHANGED <<call, timer, sends, io>>
    BY <1>3 DEF cltVars
  <2>. QED
    BY <1>0, <1>1, <2>1 DEF CP!OwnMoves, CP!OwnStays, CP!Handlers, CP!Issued, CP!Sent
<1>4. ASSUME \/ \E proc \in CallProcs \cup {BIND} : CallStart(proc)
             \/ \E x \in Xids : AppThread(x) \/ TimerExpires(x)
      PROVE  CP!OwnMoves(y)
  <2>1. \/ \E proc \in CP!AllProcs : CP!CallStart(proc)
        \/ \E x \in CP!Xids : CP!AppThread(x) \/ CP!TimerExpires(x)
    BY <1>0, <1>4, CallStartIs, AppThreadIs, ClientEventsAre
       DEF CallStart, AppThread, CallSend, TimerExpires, CP!AllProcs, Clt!AppThread
  <2>. QED
    BY <1>0, <2>1, CP!CallOwns, ClientAssumptions DEF CP!OwnMoves
<1>5. ASSUME NEW w \in Workers, Worker(w) PROVE CP!OwnMoves(y)
  <2>1. CP!Worker(w)
    BY <1>5, WorkerIs, ClientNames DEF Worker, Clt!Worker
  <2>. QED
    BY <1>0, <2>1, CP!WorkerOwns, ClientAssumptions
<1>6. ASSUME \/ \E x \in Xids, ok \in BOOLEAN : Reconnected(x, ok)
             \/ \E w \in Workers : ReceiveFails(w)
      PROVE  CP!OwnMoves(y)
  <2>1. \/ \E x \in Xids, ok \in BOOLEAN : CP!Reconnected(x, ok)
        \/ \E w \in Workers : CP!ReceiveFails(w)
    BY <1>6, ClientEventsAre DEF Reconnected, ReceiveFails
  <2>. QED
    BY <1>0, <2>1, CP!EnvironmentOwns, ClientAssumptions DEF CP!OwnMoves
<1>7. ASSUME NEW w \in Workers, NEW rep, Clt!ReceiveReply(w, rep)
      PROVE  Gains(y, IF rep.xid = y THEN 1 ELSE 0)
  <2>1. /\ IF rep.xid = y
           THEN w \notin CP!Handlers(y) /\ CP!Handlers(y)' = CP!Handlers(y) \cup {w}
           ELSE CP!Handlers(y)' = CP!Handlers(y)
        /\ UNCHANGED sends /\ CP!Issued(y)' <= CP!Issued(y)
    BY <1>0, <1>7, ClientEventsAre, CP!EnvironmentOwns, ClientAssumptions
  <2>2. /\ IsFiniteSet(CP!Handlers(y)')
        /\ Cardinality(CP!Handlers(y)') = Cardinality(CP!Handlers(y)) + (IF rep.xid = y THEN 1 ELSE 0)
    BY <1>1, <2>1, FS_AddElement
  <2>. QED
    BY <1>0, <1>1, <2>1, <2>2 DEF Gains, Own
<1>8. ASSUME NEW x \in Xids, NEW e \in {"OK"} \cup SendErrs, Clt!SendResolves(x, e)
      PROVE  Gains(y, IF x = y THEN -1 ELSE 0)
  <2>1. /\ CP!Handlers(y)' = CP!Handlers(y) /\ CP!Issued(y)' <= CP!Issued(y)
        /\ sends'[y]["queued"] = IF y = x THEN sends[y]["queued"] - 1 ELSE sends[y]["queued"]
    BY <1>0, <1>8, ClientEventsAre, CP!EnvironmentOwns, ClientAssumptions
  <2>. QED
    BY <1>0, <1>1, <2>1 DEF Gains, Own
<1>. QED
  BY <1>2, <1>3, <1>4, <1>5, <1>6, <1>7, <1>8

LEMMA Numerals ==
    ASSUME SysInv, Counted, SysInv', Counted', NEW y
    PROVE  ToOthers(y) \in Nat /\ ToOthers(y)' \in Nat /\ Posted \in Nat /\ Posted' \in Nat
<1>1. \A k, own : /\ IsFiniteSet(Beyond(toServer, k, own)) /\ IsFiniteSet(Beyond(toClient, k, own))
                  /\ IsFiniteSet(Beyond(toServer, k, own)') /\ IsFiniteSet(Beyond(toClient, k, own)')
  BY FS_Subset DEF Counted, Beyond
<1>2. IsFiniteSet(Busies(y)) /\ IsFiniteSet(Busies(y)')
  BY BusiesFinite
<1>3. ToOthers(y) \in Nat /\ ToOthers(y)' \in Nat
  <2>1. \A k, own : /\ Cardinality(Beyond(toServer, k, own)) \in Nat
                    /\ Cardinality(Beyond(toClient, k, own)) \in Nat
                    /\ Cardinality(Beyond(toServer, k, own)') \in Nat
                    /\ Cardinality(Beyond(toClient, k, own)') \in Nat
    BY <1>1, FS_CardinalityType
  <2>2. Cardinality(Busies(y)) \in Nat /\ Cardinality(Busies(y)') \in Nat
    BY <1>2, FS_CardinalityType
  <2>. QED
    BY <2>1, <2>2 DEF ToOthers
<1>4. Posted \in Nat /\ Posted' \in Nat
  <2>1. /\ listening \in Nat /\ listening' \in Nat /\ faults \in Nat /\ faults' \in Nat
        /\ breaks \in Nat /\ breaks' \in Nat
    BY BoundsAssumption, LossesAssumption DEF SysInv, Parts, CP!Shape, CP!FaultTypes, Counted
  <2>2. Cardinality(OkTokens) \in Nat /\ Cardinality(OkTokens') \in Nat
    BY FS_CardinalityType DEF Counted
  <2>. QED
    BY <2>1, <2>2 DEF Posted
<1>. QED
  BY <1>3, <1>4

\* The two together keep a call covered.
LEMMA StaysCovered ==
    ASSUME SysInv, Counted, SysInv', Counted', NEW y \in Xids, CoveredFor(y),
           NEW d \in {-1, 0, 1}, Gains(y, d), KeepsUp(y, d)
    PROVE  CoveredFor(y)'
<1>1. CP!Issued(y) \in Nat /\ CP!Issued(y)' \in Nat
  BY DEF CP!Issued
<1>2. /\ Own(y) \in Nat /\ Own(y)' \in Nat
  <2>1. CP!SendTypes /\ CP!SendTypes' /\ "queued" \in CP!SendStates
    BY DEF SysInv, Parts, CP!Shape, CP!SendStates
  <2>2. sends[y]["queued"] \in Nat /\ sends'[y]["queued"] \in Nat
    BY <2>1, ClientNames DEF CP!SendTypes
  <2>3. Cardinality(CP!Handlers(y)) \in Nat /\ Cardinality(CP!Handlers(y)') \in Nat
    BY FS_CardinalityType DEF CoveredFor, Gains
  <2>. QED
    BY <2>2, <2>3 DEF Own
<1>. QED
  BY <1>1, <1>2, Numerals DEF CoveredFor, Gains, KeepsUp

\* What a step has to show of a call that waits before and after it.
Upheld(y) == CP!Awaited(y) /\ CP!Awaited(y)' /\ CoveredFor(y) =>
                \E d \in {-1, 0, 1} : Gains(y, d) /\ KeepsUp(y, d)
Upholds == /\ Counted' /\ UNCHANGED conn
           /\ conn \in open => KeepsUp(0, 0) /\ \A y \in Xids : Upheld(y)

\* The client's part: a Receive used up brings a reply or is a break, a send
\* that succeeds or that a fault reports is the request it may have delivered.
LEMMA ClientUpholds ==
    ASSUME SysInv, SysInv', Counted, Resends,
           \/ \E w \in Workers : \/ \E x \in Xids : Worker(w) /\ Clt!SendSucceeded(w, x)
                                 \/ Receive(w) \/ ReceiveFails(w)
           \/ \E x \in Xids, e \in {"OK"} \cup SendErrs : Transmit(x, e)
           \/ \E k \in Conns : \E rep \in BagToSet(toClient[k]) : ReplyLost(k, rep)
           \/ ConnectionBreaks
    PROVE  Upholds
<1>. USE Numbers DEF Names
<1>. 0 \notin Xids
  BY DEF Xids
<1>0. UNCHANGED <<task, conn>> => \A y : Busies(y)' = Busies(y)
  BY DEF Busies, Working, Answering
<1>1. UNCHANGED sends => OkTokens' = OkTokens
  BY DEF OkTokens
<1>2. UNCHANGED toServer => /\ Tokens(toServer)' = Tokens(toServer) /\ InBags(toServer)' = InBags(toServer)
                            /\ \A k, own : Beyond(toServer, k, own)' = Beyond(toServer, k, own)
  BY DEF Tokens, InBags, Beyond
<1>3. UNCHANGED toClient => /\ Tokens(toClient)' = Tokens(toClient) /\ InBags(toClient)' = InBags(toClient)
                            /\ \A k, own : Beyond(toClient, k, own)' = Beyond(toClient, k, own)
  BY DEF Tokens, InBags, Beyond
<1>4. CASE \E w \in Workers : \E x \in Xids : Worker(w) /\ Clt!SendSucceeded(w, x)
  <2>1. PICK w \in Workers, x \in Xids : Worker(w) /\ Clt!SendSucceeded(w, x)
    BY <1>4
  <2>2. /\ sends[x]["OK"] > 0 /\ sends' = [sends EXCEPT ![x]["OK"] = sends[x]["OK"] - 1]
        /\ listening' = listening + 1
        /\ UNCHANGED <<faults, task, toServer, toClient, breaks, conn>>
    BY <2>1 DEF Worker, Clt!SendSucceeded, Clt!auxVars, srvVars, netVars
  <2>3. sends \in [Xids -> [CP!SendStates -> Nat]] /\ "OK" \in CP!SendStates
    BY ClientNames DEF SysInv, Parts, CP!Shape, CP!SendTypes, CP!SendStates
  <2>4. OkLess
    BY <2>2, <2>3 DEF OkLess
  <2>5. IsFiniteSet(OkTokens') /\ Cardinality(OkTokens') = Cardinality(OkTokens) - 1
    BY <2>4, OkOne DEF Counted
  <2>6. Counted'
    BY <1>2, <1>3, <2>2, <2>5 DEF Counted
  <2>7. ASSUME NEW y \in Names PROVE KeepsUp(y, 0)
    BY <1>0, <1>2, <1>3, <2>2, <2>5 DEF KeepsUp, Posted, ToOthers
  <2>. QED
    BY <2>1, <2>2, <2>6, <2>7, OwnGains DEF Upholds, Upheld, CoveredFor
<1>5. CASE \E w \in Workers : Receive(w)
  <2>1. PICK w \in Workers : Receive(w)
    BY <1>5
  <2>2. PICK rep \in BagToSet(toClient[conn]) :
           Clt!ReceiveReply(w, rep) /\ toClient' = Took(toClient, conn, rep)
    BY <2>1 DEF Receive
  <2>3. /\ listening > 0 /\ listening' = listening - 1
        /\ UNCHANGED <<sends, faults, task, toServer, breaks, conn>>
    BY <2>1, <2>2 DEF Receive, Clt!ReceiveReply, Clt!callVars, Clt!auxVars, srvVars
  <2>4. /\ InBags(toClient)' /\ IsFiniteSet(Tokens(toClient)')
        /\ \A own : Cardinality(Beyond(toClient, conn, own)') = Cardinality(Beyond(toClient, conn, own))
                                                                - (IF rep \in own THEN 0 ELSE 1)
    BY <2>2, <2>3, TookBeyond DEF Counted
  <2>5. Counted'
    BY <1>1, <1>2, <2>3, <2>4 DEF Counted
  <2>6. ASSUME NEW y \in Names PROVE KeepsUp(y, IF rep.xid = y THEN 1 ELSE 0)
    <3>1. rep.xid # y => rep \notin About(y)
      BY DEF About
    <3>2. Cardinality(Beyond(toClient, conn, About(y))') <= Cardinality(Beyond(toClient, conn, About(y)))
                                                      - (IF rep.xid = y THEN 0 ELSE 1)
      BY <2>4, <3>1
    <3>3. Cardinality(Beyond(toClient, conn, About(y))') \in Int
      BY <2>4
    <3>. QED
      BY <1>0, <1>1, <1>2, <2>3, <3>2, <3>3 DEF KeepsUp, Posted, ToOthers
  <2>7. rep.xid \in Xids
    BY AnswerTo DEF SysInv, Agreed, RepliesHonest
  <2>. QED
    BY <2>2, <2>3, <2>5, <2>6, <2>7, OwnGains DEF Upholds, Upheld, CoveredFor
<1>6. CASE \E w \in Workers : ReceiveFails(w)
  <2>1. /\ listening > 0 /\ listening' = listening - 1
        /\ breaks' = breaks \/ (breaks < MaxBreaks /\ breaks' = breaks + 1)
        /\ conn \in open => breaks' = breaks + 1
        /\ UNCHANGED <<sends, faults, task, toServer, toClient, conn>>
    BY <1>6 DEF ReceiveFails, Clt!ReceiveFails, Clt!callVars, Clt!auxVars, srvVars
  <2>2. Counted'
    BY <1>1, <1>2, <1>3, <2>1, LossesAssumption DEF Counted
  <2>3. ASSUME conn \in open, NEW y \in Names PROVE KeepsUp(y, 0)
    BY <1>0, <1>1, <1>2, <1>3, <2>1, <2>3 DEF KeepsUp, Posted, ToOthers
  <2>. QED
    BY <1>6, <2>1, <2>2, <2>3, OwnGains DEF Upholds, Upheld, CoveredFor
<1>7. CASE \E x \in Xids, e \in {"OK"} \cup SendErrs : Transmit(x, e)
  <2>1. PICK x \in Xids, e \in {"OK"} \cup SendErrs : Transmit(x, e)
    BY <1>7
  <2>2. /\ sends' = Clt!Moved(x, "queued", e)
        /\ (e = "OK" /\ UNCHANGED faults) \/ (e \in SendErrs /\ faults' = faults + 1)
        /\ UNCHANGED <<listening, task, toClient, breaks, conn>>
    BY <2>1 DEF Transmit, Clt!SendResolves, Clt!ioVars, srvVars
  <2>3. /\ sends \in [Xids -> [CP!SendStates -> Nat]]
        /\ {"OK", "queued"} \subseteq CP!SendStates /\ SendErrs \subseteq CP!SendStates
        /\ "OK" \notin SendErrs
    BY ClientNames, SendErrsAssumption DEF SysInv, Parts, CP!Shape, CP!SendTypes, CP!SendStates
  <2>4. IF e = "OK" THEN OkMore ELSE OkAs
    BY <2>2, <2>3 DEF OkMore, OkAs, Clt!Moved
  <2>5. /\ IsFiniteSet(OkTokens')
        /\ Cardinality(OkTokens') + faults' = Cardinality(OkTokens) + faults + 1
    <3>1. CASE e = "OK"
      <4>1. IsFiniteSet(OkTokens') /\ Cardinality(OkTokens') = Cardinality(OkTokens) + 1
        BY <2>4, <3>1, OkOne DEF Counted
      <4>2. UNCHANGED faults
        BY <2>2, <2>3, <3>1
      <4>. QED
        BY <4>1, <4>2
    <3>2. CASE e # "OK"
      <4>1. OkTokens' = OkTokens
        BY <2>4, <3>2, OkOne DEF Counted
      <4>2. faults' = faults + 1
        BY <2>2, <3>2
      <4>. QED
        BY <4>1, <4>2 DEF Counted
    <3>. QED
      BY <3>1, <3>2
  <2>6. UNCHANGED toServer \/ toServer' = Put(toServer, conn, x)
    BY <2>1 DEF Transmit, Lost
  <2>7. /\ InBags(toServer)' /\ IsFiniteSet(Tokens(toServer)')
        /\ \A own : \/ Cardinality(Beyond(toServer, conn, own)') = Cardinality(Beyond(toServer, conn, own))
                                                             + (IF x \in own THEN 0 ELSE 1)
                    \/ Cardinality(Beyond(toServer, conn, own)') = Cardinality(Beyond(toServer, conn, own))
    BY <1>2, <2>2, <2>6, PutBeyond DEF Counted
  <2>8. Cardinality(OkTokens') \in Nat /\ faults' \in Nat
    BY <2>2, <2>5, FS_CardinalityType
  <2>9. Counted'
    BY <1>3, <2>2, <2>5, <2>7 DEF Counted
  <2>10. ASSUME NEW y \in Names PROVE KeepsUp(y, IF x = y THEN -1 ELSE 0)
    <3>1. /\ Cardinality(Beyond(toServer, conn, {y})') <= Cardinality(Beyond(toServer, conn, {y}))
                                                    + (IF x = y THEN 0 ELSE 1)
          /\ Cardinality(Beyond(toServer, conn, {y})') \in Nat
      BY <2>7
    <3>. QED
      BY <1>0, <1>3, <2>2, <2>5, <2>8, <3>1 DEF KeepsUp, Posted, ToOthers
  <2>11. Clt!SendResolves(x, e)
    BY <2>1 DEF Transmit
  <2>. QED
    BY <2>2, <2>9, <2>10, <2>11, OwnGains DEF Upholds, Upheld, CoveredFor
<1>8. CASE \E k \in Conns : \E rep \in BagToSet(toClient[k]) : ReplyLost(k, rep)
  <2>0. PICK k \in Conns : \E rep \in BagToSet(toClient[k]) : ReplyLost(k, rep)
    BY <1>8
  <2>1. PICK rep \in BagToSet(toClient[k]) : ReplyLost(k, rep)
    BY <2>0
  <2>2. /\ toClient' = Took(toClient, k, rep) /\ UNCHANGED cltVars
        /\ UNCHANGED <<sends, listening, faults, task, toServer, breaks, conn>>
    BY <2>1 DEF ReplyLost, cltVars, srvVars
  <2>3. /\ InBags(toClient)' /\ IsFiniteSet(Tokens(toClient)')
        /\ \A own : Cardinality(Beyond(toClient, conn, own)')
                       = Cardinality(Beyond(toClient, conn, own)) - (IF rep \in own \/ conn # k THEN 0 ELSE 1)
    BY <2>2, TookBeyond DEF Counted
  <2>4. Counted'
    BY <1>1, <1>2, <2>2, <2>3 DEF Counted
  <2>5. ASSUME NEW y \in Names PROVE KeepsUp(y, 0)
    <3>1. /\ Cardinality(Beyond(toClient, conn, About(y))') <= Cardinality(Beyond(toClient, conn, About(y)))
          /\ Cardinality(Beyond(toClient, conn, About(y))') \in Int
      BY <2>3
    <3>. QED
      BY <1>0, <1>1, <1>2, <2>2, <3>1 DEF KeepsUp, Posted, ToOthers
  <2>. QED
    BY <2>2, <2>4, <2>5, OwnGains DEF Upholds, Upheld, CoveredFor
<1>9. CASE ConnectionBreaks
  <2>1. /\ breaks < MaxBreaks /\ breaks' = breaks + 1 /\ UNCHANGED cltVars
        /\ UNCHANGED <<sends, listening, faults, task, toServer, toClient, conn>>
    BY <1>9 DEF ConnectionBreaks, cltVars, srvVars
  <2>2. Counted'
    BY <1>1, <1>2, <1>3, <2>1, LossesAssumption DEF Counted
  <2>3. ASSUME NEW y \in Names PROVE KeepsUp(y, 0)
    BY <1>0, <1>1, <1>2, <1>3, <2>1 DEF KeepsUp, Posted, ToOthers
  <2>. QED
    BY <2>1, <2>2, <2>3, OwnGains DEF Upholds, Upheld, CoveredFor
<1>. QED
  BY <1>4, <1>5, <1>6, <1>7, <1>8, <1>9

\* The server's part: a request becomes a chain at work, that a reply.
LEMMA ServerUpholds ==
    ASSUME SysInv, SysInv', Counted, Resends,
           \/ \E k \in Conns : ServerThread(k) \/ SendReplyFails(k) \/ SendDangling(k)
                               \/ ServerReceiveFails(k)
           \/ Restart
    PROVE  Upholds
<1>. USE Numbers DEF Names
<1>. 0 \notin Xids
  BY DEF Xids
<1>0. UNCHANGED cltVars /\ UNCHANGED conn
  BY DEF netVars, ServerThread, OnNewConnection, Dispatch, Execute, SendReply, SendReplyFails,
         SendDangling, ServerReceiveFails, Restart
<1>1. UNCHANGED <<sends, listening, faults>>
  BY <1>0 DEF cltVars
<1>2. OkTokens' = OkTokens
  BY <1>1 DEF OkTokens
<1>3. UNCHANGED toServer => /\ Tokens(toServer)' = Tokens(toServer) /\ InBags(toServer)' = InBags(toServer)
                            /\ \A k, own : Beyond(toServer, k, own)' = Beyond(toServer, k, own)
  BY DEF Tokens, InBags, Beyond
<1>4. UNCHANGED toClient => /\ Tokens(toClient)' = Tokens(toClient) /\ InBags(toClient)' = InBags(toClient)
                            /\ \A k, own : Beyond(toClient, k, own)' = Beyond(toClient, k, own)
  BY DEF Tokens, InBags, Beyond
<1>5. ASSUME Counted', \A y \in Names : KeepsUp(y, 0) PROVE Upholds
  BY <1>0, <1>5, OwnGains DEF Upholds, Upheld, CoveredFor
<1>6. CASE \E k \in Conns : \/ OnNewConnection(k) \/ Execute(k) \/ SendDangling(k)
                            \/ ServerReceiveFails(k)
  <2>1. PICK k \in Conns : \/ OnNewConnection(k) \/ Execute(k) \/ SendDangling(k)
                           \/ ServerReceiveFails(k)
    BY <1>6
  <2>2. /\ UNCHANGED <<toServer, toClient>>
        /\ UNCHANGED breaks \/ (breaks < MaxBreaks /\ breaks' = breaks + 1)
    BY <2>1 DEF OnNewConnection, Execute, SendDangling, ServerReceiveFails, netVars
  <2>3. Counted'
    BY <1>2, <1>3, <1>4, <2>2, LossesAssumption DEF Counted
  <2>4. ASSUME NEW y \in Names PROVE KeepsUp(y, 0)
    <3>1. Busies(y)' \subseteq Busies(y)
      BY <1>0, <2>1, BusyDoes DEF OnNewConnection, Execute, SendDangling, ServerReceiveFails
    <3>2. Cardinality(Busies(y)') <= Cardinality(Busies(y))
      BY <3>1, BusiesCount
    <3>. QED
      BY <1>0, <1>1, <1>2, <1>3, <1>4, <2>2, <3>2 DEF KeepsUp, Posted, ToOthers
  <2>. QED
    BY <1>5, <2>3, <2>4
<1>7. CASE \E k \in Conns : \E x \in Xids : Dispatch(k, x)
  <2>1. PICK k \in Conns, x \in Xids : Dispatch(k, x)
    BY <1>7
  <2>2. /\ x \in BagToSet(toServer[k]) /\ toServer' = Took(toServer, k, x)
        /\ Srv!Dispatch(k, Request(x)) /\ UNCHANGED <<toClient, breaks>>
    BY <2>1 DEF Dispatch
  <2>3. Request(x) \in issued
    BY <2>2 DEF SysInv, Agreed, RequestsSent, IssuedAreSent
  <2>4. /\ InBags(toServer)' /\ IsFiniteSet(Tokens(toServer)')
        /\ \A own : Cardinality(Beyond(toServer, conn, own)')
                       = Cardinality(Beyond(toServer, conn, own)) - (IF x \in own \/ conn # k THEN 0 ELSE 1)
    BY <1>0, <2>2, TookBeyond DEF Counted
  <2>5. Counted'
    BY <1>2, <1>4, <2>2, <2>4 DEF Counted
  <2>6. ASSUME NEW y \in Names PROVE KeepsUp(y, 0)
    <3>1. Busies(y)' \subseteq IF x = y \/ k # conn THEN Busies(y) ELSE Busies(y) \cup {k}
      BY <1>0, <2>2, <2>3, BusyDoes
    <3>2. Cardinality(Busies(y)') <= Cardinality(Busies(y)) + (IF x = y \/ k # conn THEN 0 ELSE 1)
      BY <3>1, BusiesCount
    <3>3. Cardinality(Beyond(toServer, conn, {y})') = Cardinality(Beyond(toServer, conn, {y}))
                                                      - (IF x = y \/ k # conn THEN 0 ELSE 1)
      BY <2>4
    <3>. QED
      BY <1>0, <1>1, <1>2, <1>4, <2>2, <3>2, <3>3 DEF KeepsUp, Posted, ToOthers
  <2>. QED
    BY <1>5, <2>5, <2>6
<1>8. CASE \E k \in Conns : SendReply(k) \/ SendReplyFails(k)
  <2>1. PICK k \in Conns : SendReply(k) \/ SendReplyFails(k)
    BY <1>8
  <2>2. /\ (\E ok \in BOOLEAN : Srv!SendReply(k, ok)) \/ Srv!SendOld(k)
        /\ Answered(k) \/ UNCHANGED toClient
        /\ UNCHANGED toServer
        /\ UNCHANGED breaks \/ (breaks < MaxBreaks /\ breaks' = breaks + 1)
    BY <2>1 DEF SendReply, SendReplyFails
  <2>3. UNCHANGED toClient \/ toClient' = Put(toClient, k, task[k].rep)
    BY <2>2 DEF Answered
  <2>4. /\ InBags(toClient)' /\ IsFiniteSet(Tokens(toClient)')
        /\ \A own : \/ Cardinality(Beyond(toClient, conn, own)')
                          = Cardinality(Beyond(toClient, conn, own))
                            + (IF task[k].rep \in own \/ conn # k THEN 0 ELSE 1)
                    \/ Cardinality(Beyond(toClient, conn, own)') = Cardinality(Beyond(toClient, conn, own))
    BY <1>0, <1>4, <2>3, PutBeyond DEF Counted
  <2>5. Counted'
    BY <1>2, <1>3, <2>2, <2>4, LossesAssumption DEF Counted
  <2>6. ASSUME NEW y \in Names PROVE KeepsUp(y, 0)
    <3>. DEFINE own == task[k].rep \in About(y) \/ k # conn
    <3>1. IF own THEN Busies(y)' \subseteq Busies(y)
          ELSE k \in Busies(y) /\ Busies(y)' \subseteq Busies(y) \ {k}
      BY <1>0, <2>2, BusyDoes
    <3>2. Cardinality(Busies(y)') <= Cardinality(Busies(y)) - (IF own THEN 0 ELSE 1)
      BY <3>1, BusiesCount
    <3>3. /\ Cardinality(Beyond(toClient, conn, About(y))') <= Cardinality(Beyond(toClient, conn, About(y)))
                                                        + (IF own THEN 0 ELSE 1)
          /\ Cardinality(Beyond(toClient, conn, About(y))') \in Nat
      BY <2>4
    <3>. QED
      BY <1>0, <1>1, <1>2, <1>3, <2>2, <3>2, <3>3 DEF KeepsUp, Posted, ToOthers
  <2>. QED
    BY <1>5, <2>5, <2>6
<1>9. CASE Restart
  <2>1. /\ toServer' = [k \in Conns |-> EmptyBag] /\ toClient' = [k \in Conns |-> EmptyBag]
        /\ task' = [k \in Conns |-> Srv!Closed] /\ UNCHANGED breaks
    BY <1>9 DEF Restart, Srv!Restart
  <2>2. \A y : Busies(y)' = {}
    BY <2>1 DEF Busies, Working, Answering, Srv!Closed, Srv!Task
  <2>3. \A y : Cardinality(Busies(y)') = 0
    BY <2>2, FS_EmptySet
  <2>4. /\ InBags(toServer)' /\ IsFiniteSet(Tokens(toServer)')
        /\ InBags(toClient)' /\ IsFiniteSet(Tokens(toClient)')
        /\ \A own : /\ Cardinality(Beyond(toServer, conn, own)') = 0
                    /\ Cardinality(Beyond(toClient, conn, own)') = 0
    BY <1>0, <2>1, EmptyNet
  <2>5. Counted'
    BY <1>2, <2>1, <2>4 DEF Counted
  <2>6. ASSUME NEW y \in Names PROVE KeepsUp(y, 0)
    BY <1>0, <1>1, <1>2, <2>1, <2>3, <2>4 DEF KeepsUp, Posted, ToOthers
  <2>. QED
    BY <1>5, <2>5, <2>6
<1>. QED
  BY <1>6, <1>7, <1>8, <1>9 DEF ServerThread

\* The client connects again, or stays where it is.
LEMMA Reconnects ==
    ASSUME [Next]_vars
    PROVE  /\ breaks' \in {breaks, breaks + 1}
           /\ \/ \E x \in Xids : Reconnected(x, TRUE)
              \/ /\ UNCHANGED conn /\ open' \subseteq open
                 /\ open' # open => breaks' = breaks + 1 \/ Restart
<1>1. ASSUME NEW k \in Conns, ServerThread(k) \/ SendReplyFails(k) \/ SendDangling(k)
                              \/ ServerReceiveFails(k)
      PROVE  /\ UNCHANGED conn /\ open' \subseteq open
             /\ breaks' \in {breaks, breaks + 1}
             /\ open' # open => breaks' = breaks + 1
  BY <1>1 DEF ServerThread, OnNewConnection, Dispatch, Execute, SendReply, SendReplyFails,
              SendDangling, ServerReceiveFails, netVars
<1>2. ASSUME NEW w \in Workers, Worker(w) \/ Receive(w) \/ ReceiveFails(w)
      PROVE  UNCHANGED <<conn, open>> /\ breaks' \in {breaks, breaks + 1}
  BY <1>2 DEF Worker, Receive, ReceiveFails, netVars
<1>3. ASSUME NEW x \in Xids, AppThread(x) \/ TimerExpires(x) PROVE UNCHANGED <<conn, open, breaks>>
  BY <1>3 DEF AppThread, CallSend, TimerExpires, netVars
<1>4. ASSUME NEW x \in Xids, NEW e, Transmit(x, e) PROVE UNCHANGED <<conn, open, breaks>>
  BY <1>4 DEF Transmit
<1>5. ASSUME NEW x \in Xids, NEW ok \in BOOLEAN, Reconnected(x, ok)
      PROVE  UNCHANGED breaks /\ (Reconnected(x, TRUE) \/ UNCHANGED <<conn, open>>)
  <2>1. CASE ok = TRUE
    BY <1>5, <2>1 DEF Reconnected
  <2>2. CASE ok = FALSE
    BY <1>5, <2>2 DEF Reconnected
  <2>. QED
    BY <2>1, <2>2
<1>. QED
  BY <1>1, <1>2, <1>3, <1>4, <1>5
     DEF Next, CallStart, ReplyLost, ConnectionBreaks, RegisterProc, Restart, vars, netVars

LEMMA OneChain ==
    ASSUME SysInv, NEW k \in Conns, ServerStep(k)
    PROVE  \A j \in Conns : j # k => task'[j] = task[j]
<1>0. task \in [Conns -> [pc: SP!Pcs, req: SP!Requests \cup {SP!NoRequest}, rep: SP!Replies]]
  BY DEF SysInv, Parts, SP!Shape, SP!TypeOK
<1>1. \A t : Srv!Goto(k, t) => \A j \in Conns : j # k => task'[j] = task[j]
  BY <1>0 DEF Srv!Goto
<1>2. ASSUME NEW m, Srv!Dispatch(k, m) PROVE UNCHANGED task \/ \E t : Srv!Goto(k, t)
  BY <1>2 DEF Srv!Dispatch, Srv!DispatchOldServer, Srv!DispatchUnknownProc, Srv!DispatchPlain,
              Srv!DispatchTracked
<1>3. UNCHANGED task \/ \E t : Srv!Goto(k, t)
  BY <1>2 DEF ServerStep, Srv!OnNewConnection, Srv!ReceiveFails, Srv!AddReply, Srv!Handle,
              Srv!SendReply, Srv!SendOld, Srv!SendDangling
<1>. QED
  BY <1>1, <1>3

LEMMA NetFreshStep ==
    ASSUME SysInv, Counted, NetFresh, CP!Faultless, [Next]_vars
    PROVE  NetFresh'
<1>0. /\ conn \in Conns /\ conn' \in Conns /\ conn' >= conn /\ Conns \subseteq Nat
      /\ toServer = [k \in Conns |-> toServer[k]] /\ toClient = [k \in Conns |-> toClient[k]]
      /\ breaks \in Nat /\ instance \in Nat \ {0}
  <2>1. conn \in Conns /\ conn' \in Conns /\ (conn' = conn \/ conn' = conn + 1)
    BY SysStep, NetworkDoes DEF SysInv, Agreed, NetTyped
  <2>. QED
    BY <2>1, BoundsAssumption, LossesAssumption
       DEF SysInv, Agreed, NetTyped, Conns, Parts, SP!Shape, SP!TypeOK, SP!Instances, Counted
<1>1. BagToSet(EmptyBag) = {}
  BY DEF BagToSet, EmptyBag, SetToBag
<1>2. ASSUME NEW k \in Conns, k > conn'
      PROVE  BagToSet(toServer'[k]) = {} /\ BagToSet(toClient'[k]) = {} /\ task'[k].pc = "closed"
  <2>0. /\ k > conn /\ k # conn /\ k \notin open
        /\ BagToSet(toServer[k]) = {} /\ BagToSet(toClient[k]) = {} /\ task[k].pc = "closed"
    BY <1>0, <1>2 DEF NetFresh
  <2>1. ASSUME NEW j \in Conns, NEW m
        PROVE  /\ BagToSet(Took(toServer, j, m)[k]) = {} /\ BagToSet(Took(toClient, j, m)[k]) = {}
               /\ j # k => /\ BagToSet(Put(toServer, j, m)[k]) = {}
                           /\ BagToSet(Put(toClient, j, m)[k]) = {}
    <3>1. LET t == Took(toServer, j, m) IN
          /\ t = [i \in Conns |-> t[i]]
          /\ \A i \in Conns : i # j => t[i] = toServer[i]
          /\ BagToSet(t[j]) \subseteq BagToSet(toServer[j])
      BY <1>0, NetworkIs
    <3>2. LET p == Put(toServer, j, m) IN
          /\ p = [i \in Conns |-> p[i]]
          /\ \A i \in Conns : i # j => p[i] = toServer[i]
          /\ BagToSet(p[j]) = BagToSet(toServer[j]) \cup {m}
      BY <1>0, NetworkIs
    <3>3. LET t == Took(toClient, j, m) IN
          /\ t = [i \in Conns |-> t[i]]
          /\ \A i \in Conns : i # j => t[i] = toClient[i]
          /\ BagToSet(t[j]) \subseteq BagToSet(toClient[j])
      BY <1>0, NetworkIs
    <3>4. LET p == Put(toClient, j, m) IN
          /\ p = [i \in Conns |-> p[i]]
          /\ \A i \in Conns : i # j => p[i] = toClient[i]
          /\ BagToSet(p[j]) = BagToSet(toClient[j]) \cup {m}
      BY <1>0, NetworkIs
    <3>5. CASE j = k
      BY <2>0, <3>1, <3>3, <3>5
    <3>6. CASE j # k
      BY <2>0, <3>1, <3>2, <3>3, <3>4, <3>6
    <3>. QED
      BY <3>5, <3>6
  <2>2. BagToSet(toServer'[k]) = {}
    BY <1>0, <1>1, <2>0, <2>1, NetworkDoes
  <2>3. BagToSet(toClient'[k]) = {}
    BY <1>0, <1>1, <2>0, <2>1, NetworkDoes
  <2>4. task'[k].pc = "closed"
    <3>1. ASSUME NEW j \in Conns,
                 ServerThread(j) \/ SendReplyFails(j) \/ SendDangling(j) \/ ServerReceiveFails(j)
          PROVE  task'[k] = task[k]
      <4>1. ServerStep(j)
        BY <3>1 DEF ServerThread, OnNewConnection, Dispatch, Execute, SendReply, SendReplyFails,
                    SendDangling, ServerReceiveFails, ServerStep
      <4>2. j # k
        <5>. SUFFICES ASSUME j = k PROVE FALSE
          OBVIOUS
        <5>1. ~OnNewConnection(k) /\ ~ \E x \in Xids : Dispatch(k, x)
          BY <2>0 DEF OnNewConnection, Dispatch
        <5>2. ~Execute(k) /\ ~SendReply(k) /\ ~SendReplyFails(k)
          BY <2>0 DEF Execute, Srv!Handle, Srv!AddReply, SendReply, SendReplyFails,
                      Srv!SendReply, Srv!SendOld
        <5>3. ~SendDangling(k) /\ ~ServerReceiveFails(k)
          BY <2>0 DEF SendDangling, Srv!SendDangling, Srv!RepBufDangles, ServerReceiveFails,
                      Srv!ReceiveFails
        <5>. QED
          BY <3>1, <5>1, <5>2, <5>3 DEF ServerThread
      <4>. QED
        BY <4>1, <4>2, OneChain
    <3>2. Restart => task'[k].pc = "closed"
      BY DEF Restart, Srv!Restart, Srv!Closed, Srv!Task
    <3>. QED
      BY <2>0, <3>1, <3>2, ServerMoves
  <2>. QED
    BY <2>2, <2>3, <2>4
<1>3. ASSUME NEW x \in Xids, Reconnected(x, TRUE)
      PROVE  CltNonce # 0 /\ conn \notin open /\ open' = open \cup {conn'}
  <2>1. /\ sends[x]["connecting"] > 0 /\ conn \notin open
        /\ conn' = conn + 1 /\ open' = open \cup {conn + 1}
    BY <1>3 DEF Reconnected, Clt!Reconnected
  <2>. QED
    BY <2>1, ClientNames, NonceAssumption DEF CP!Faultless
<1>4. open' \subseteq {conn'} /\ (CltNonce = 0 => conn' = 1)
  BY <1>3, Reconnects DEF NetFresh
<1>5. conn' \notin open' => breaks' + instance' >= 2
  <2>. SUFFICES ASSUME conn' \notin open' PROVE breaks' + instance' >= 2
    OBVIOUS
  <2>1. breaks' \in Nat /\ breaks' >= breaks
    <3>1. breaks' \in {breaks, breaks + 1}
      BY Reconnects
    <3>. QED
      BY <1>0, <3>1
  <2>2. instance' \in Nat /\ instance' >= instance /\ (Restart => instance' = instance + 1)
    <3>1. Restart => instance' = instance + 1
      BY DEF Restart, Srv!Restart
    <3>. QED
      BY <1>0, <3>1, ServerMoves
  <2>3. /\ UNCHANGED conn
        /\ open' # open => breaks' = breaks + 1 \/ Restart
    BY <1>3, Reconnects
  <2>4. CASE conn \in open
    BY <1>0, <2>1, <2>2, <2>3, <2>4
  <2>5. CASE conn \notin open
    BY <1>0, <2>1, <2>2, <2>5 DEF NetFresh
  <2>. QED
    BY <2>4, <2>5
<1>. QED
  BY <1>2, <1>4, <1>5 DEF NetFresh

\* A connection that was just opened has nothing on it, and its cost is paid.
LEMMA ReopenedAnew ==
    ASSUME SysInv, Counted, NetFresh, CP!Faultless, NEW x \in Xids, Reconnected(x, TRUE)
    PROVE  Counted' /\ conn' > 1 /\ Reopened'
<1>0. /\ sends \in [Xids -> [CP!SendStates -> Nat]]
      /\ {"queued", "connecting", "OK"} \subseteq CP!SendStates
      /\ Clt!SendStates = CP!SendStates
      /\ faults \in Nat /\ breaks \in Nat /\ instance \in Nat /\ conn \in Nat \ {0}
  <2>1. /\ sends \in [Xids -> [CP!SendStates -> Nat]]
        /\ {"queued", "connecting", "OK"} \subseteq CP!SendStates
        /\ Clt!SendStates = CP!SendStates
    BY ClientNames DEF SysInv, Parts, CP!Shape, CP!SendTypes, CP!SendStates, Clt!SendStates
  <2>2. instance \in Nat
    BY DEF SysInv, Parts, SP!Shape, SP!TypeOK, SP!Instances
  <2>3. conn \in Nat \ {0} /\ faults \in Nat /\ breaks \in Nat
    BY Numbers DEF Conns
  <2>. QED
    BY <2>1, <2>2, <2>3
<1>1. /\ sends[x]["connecting"] > 0 /\ sends' = Clt!Moved(x, "connecting", "queued")
      /\ listening' = 0 /\ conn \notin open /\ conn < MaxConns /\ conn' = conn + 1
      /\ UNCHANGED <<faults, breaks, instance, task, toServer, toClient>>
  BY DEF Reconnected, Clt!Reconnected, srvVars
<1>2. OkTokens' = OkTokens
  <2>1. OkAs
    BY <1>0, <1>1 DEF Clt!Moved, OkAs
  <2>. QED
    BY <1>0, <2>1, OkOne DEF Counted
<1>3. Counted'
  <2>1. /\ Tokens(toServer)' = Tokens(toServer) /\ Tokens(toClient)' = Tokens(toClient)
        /\ InBags(toServer)' = InBags(toServer) /\ InBags(toClient)' = InBags(toClient)
    BY <1>1 DEF Tokens, InBags
  <2>. QED
    BY <1>1, <1>2, <2>1 DEF Counted
<1>4. ToOthers(0)' = 0
  <2>1. /\ conn' \in Conns /\ BagToSet(toServer'[conn']) = {} /\ BagToSet(toClient'[conn']) = {}
        /\ task'[conn'].pc = "closed"
    <3>1. PICK k : k = conn + 1
      OBVIOUS
    <3>2. k \in Conns /\ k > conn
      BY <1>0, <1>1, <3>1, BoundsAssumption DEF Conns
    <3>3. BagToSet(toServer[k]) = {} /\ BagToSet(toClient[k]) = {} /\ task[k].pc = "closed"
      BY <3>2 DEF NetFresh
    <3>. QED
      BY <1>1, <3>1, <3>2, <3>3
  <2>2. ASSUME NEW net, NEW k \in Conns, BagToSet(net[k]) = {}, NEW own
        PROVE  Cardinality(Beyond(net, k, own)) = 0
    <3>1. Beyond(net, k, own) = {}
      BY <2>2 DEF Beyond, Tokens, BagToSet
    <3>. QED
      BY <3>1, FS_EmptySet
  <2>3. Busies(0)' = {}
    BY <2>1 DEF Busies, Working, Answering
  <2>. QED
    BY <2>1, <2>2, <2>3, FS_EmptySet DEF ToOthers
<1>5. faults >= 1
  BY <1>0, <1>1, ClientNames DEF CP!Faultless, CP!Undisturbed, CP!Troubles
<1>6. breaks + instance >= 2
  BY <1>1 DEF NetFresh
<1>7. Cardinality(OkTokens) \in Nat
  BY FS_CardinalityType DEF Counted
<1>8. Posted' + instance' >= 3
  BY <1>0, <1>1, <1>2, <1>5, <1>6, <1>7 DEF Posted
<1>. QED
  BY <1>0, <1>1, <1>3, <1>4, <1>8 DEF Reopened

ListenInv == Counted /\ Covered /\ Reopened /\ NetFresh /\ Resends /\ CP!Faultless

LEMMA CoveredStep ==
    ASSUME SysInv, ListenInv, [Next]_vars
    PROVE  SysInv' /\ ListenInv'
<1>. DEFINE Starts == \/ \E proc \in CallProcs \cup {BIND} : CallStart(proc)
                      \/ \E x \in Xids : AppThread(x) \/ TimerExpires(x)
            Quiet == \/ Starts
                     \/ \E w \in Workers : /\ Worker(w)
                                           /\ ~ \E x \in Xids : Clt!SendSucceeded(w, x)
                     \/ \E x \in Xids : Reconnected(x, FALSE)
                     \/ \E p \in CallProcs : RegisterProc(p)
                     \/ UNCHANGED vars
            Client == \/ \E w \in Workers : \/ \E x \in Xids : Worker(w) /\ Clt!SendSucceeded(w, x)
                                            \/ Receive(w) \/ ReceiveFails(w)
                      \/ \E x \in Xids, e \in {"OK"} \cup SendErrs : Transmit(x, e)
                      \/ \E k \in Conns : \E rep \in BagToSet(toClient[k]) : ReplyLost(k, rep)
                      \/ ConnectionBreaks
            Server == \/ \E k \in Conns : ServerThread(k) \/ SendReplyFails(k) \/ SendDangling(k)
                                          \/ ServerReceiveFails(k)
                      \/ Restart
<1>. USE DEF ListenInv
<1>0. Quiet \/ Client \/ Server \/ \E x \in Xids : Reconnected(x, TRUE)
  BY DEF Next
<1>2. SysInv' /\ [CP!Next]_(CP!vars) /\ CP!Shape
  BY SysStep, PartsStep DEF SysInv, Parts
<1>3. Resends'
  <2>1. CltNonce > 0 /\ CP!Taken /\ CP!Waits => CP!Taken' /\ CP!Waits'
    BY <1>2, CP!TakenStep, CP!WaitsStep, ClientAssumptions
  <2>. QED
    BY <2>1 DEF Resends
<1>4. ASSUME Quiet PROVE Upholds
  <2>1. OkAs /\ UNCHANGED <<listening, faults, breaks, toServer, toClient, task, conn>>
    BY <1>4, PostsNone
  <2>2. OkTokens' = OkTokens
    BY <2>1, OkOne, Numbers DEF Counted
  <2>3. /\ Tokens(toServer)' = Tokens(toServer) /\ Tokens(toClient)' = Tokens(toClient)
        /\ \A k, own : /\ Beyond(toServer, k, own)' = Beyond(toServer, k, own)
                       /\ Beyond(toClient, k, own)' = Beyond(toClient, k, own)
        /\ \A y : Busies(y)' = Busies(y)
    BY <2>1 DEF Busies, Working, Answering, Tokens, Beyond
  <2>4. InBags(toServer)' /\ InBags(toClient)'
    BY <2>1 DEF InBags, Counted
  <2>5. Counted'
    BY <2>1, <2>2, <2>3, <2>4 DEF Counted
  <2>6. ASSUME NEW y \in Names PROVE KeepsUp(y, 0)
    BY <2>1, <2>2, <2>3, Numbers DEF KeepsUp, Posted, ToOthers
  <2>7. ASSUME NEW y \in Xids, CP!Awaited(y), CP!Awaited(y)', IsFiniteSet(CP!Handlers(y))
        PROVE  Gains(y, 0)
    BY <1>2, <1>4, <2>7, OwnGains DEF RegisterProc, vars
  <2>. QED
    BY <2>1, <2>5, <2>6, <2>7 DEF Upholds, Upheld, CoveredFor, Names
<1>5. Client => Upholds
  BY <1>2, ClientUpholds
<1>6. Server => Upholds
  BY <1>2, ServerUpholds
<1>7. NetFresh'
  BY NetFreshStep
<1>8. CP!Faultless'
  BY <1>2, CP!FaultlessStep, ClientAssumptions
<1>9. CASE \E x \in Xids : Reconnected(x, TRUE)
  <2>1. Counted' /\ conn' > 1 /\ Reopened'
    BY <1>9, ReopenedAnew
  <2>. QED
    BY <1>2, <1>3, <1>7, <1>8, <2>1 DEF Covered
<1>10. CASE Upholds
  <2>0. Counted' /\ UNCHANGED conn
    BY <1>10 DEF Upholds
  <2>1. conn' \in open' => conn \in open /\ UNCHANGED instance
    <3>1. Restart => open' = {}
      BY DEF Restart
    <3>2. ~ \E x \in Xids : Reconnected(x, TRUE)
      <4>1. conn \in Nat
        BY DEF SysInv, Agreed, NetTyped, Conns
      <4>2. ASSUME NEW x \in Xids, Reconnected(x, TRUE) PROVE FALSE
        <5>1. conn' = conn + 1
          BY <4>2 DEF Reconnected
        <5>. QED
          BY <2>0, <4>1, <5>1
      <4>. QED
        BY <4>2
    <3>. QED
      BY <2>0, <3>1, <3>2, Reconnects, ServerMoves
  <2>2. Covered'
    <3>. SUFFICES ASSUME conn = 1, conn \in open, NEW y \in Xids, CP!Awaited(y)'
                  PROVE  CoveredFor(y)'
      BY <2>0, <2>1 DEF Covered
    <3>1. CP!Awaited(y)
      BY <1>2, CP!AwaitedBefore, ClientAssumptions, ClientNames
    <3>2. CoveredFor(y)
      BY <3>1 DEF Covered
    <3>3. PICK d \in {-1, 0, 1} : Gains(y, d) /\ KeepsUp(y, d)
      BY <1>10, <3>1, <3>2 DEF Upholds, Upheld
    <3>. QED
      BY <1>2, <2>0, <3>2, <3>3, StaysCovered
  <2>3. Reopened'
    <3>. SUFFICES ASSUME conn > 1, conn \in open, UNCHANGED instance
                  PROVE  Posted' + instance >= ToOthers(0)' + 3
      BY <2>0, <2>1 DEF Reopened
    <3>1. KeepsUp(0, 0)
      BY <1>10 DEF Upholds
    <3>2. instance \in Nat
      BY DEF SysInv, Parts, SP!Shape, SP!TypeOK, SP!Instances
    <3>. QED
      BY <1>2, <2>0, <3>1, <3>2, Numerals DEF Reopened, KeepsUp
  <2>. QED
    BY <1>2, <1>3, <1>7, <1>8, <2>0, <2>2, <2>3
<1>. QED
  BY <1>0, <1>4, <1>5, <1>6, <1>9, <1>10

\* A reply a quiet client still waits for finds a Receive posted, over however
\* many connections and whatever is lost on the way: with retransmission as long
\* as at most two times in all a send fails, a connection breaks or the server
\* process is replaced, without it as long as one send fails or one connection
\* breaks.  Each of those may cost the Receive that was to read a reply
\* (OnSendFinished, ListenFromServer), the resend of the timer posts one more;
\* a new connection, which begins without a Receive, takes two of them.  With
\* one failure more than that a reply may arrive unheard.
THEOREM WaitingRepliesAreHeard ==
    ASSUME IF CltNonce > 0 THEN MaxFaults + MaxBreaks + MaxInstances <= 3
                           ELSE MaxFaults + MaxBreaks <= 1
    PROVE  Spec => []RepliesAreHeard
<1>. DEFINE Inv == SysInv /\ ListenInv
<1>1. Init => Inv
  <2>. SUFFICES ASSUME Init PROVE Inv
    OBVIOUS
  <2>1. /\ listening = 1 /\ faults = 0 /\ breaks = 0 /\ sends = [x \in Xids |-> Clt!NoSends]
        /\ toServer = [k \in Conns |-> EmptyBag] /\ toClient = [k \in Conns |-> EmptyBag]
        /\ task = [k \in Conns |-> Srv!Closed] /\ io = [w \in Workers |-> CP!Idle]
        /\ call = [x \in Xids |-> CP!NoCall] /\ timer = [x \in Xids |-> "none"]
    BY ClientNames DEF Init, Clt!Init, Srv!Init
  <2>2. OkTokens = {} /\ \A y : Busies(y) = {} /\ CP!Handlers(y) = {}
    BY <2>1 DEF OkTokens, Busies, Working, Answering, Clt!NoSends, Clt!SendStates, Srv!Closed,
                Srv!Task, CP!Handlers, CP!InHand, CP!Idle, CP!Step
  <2>3. SysInv
    BY SysInit
  <2>4. Counted
    BY <2>1, <2>2, EmptyNet, FS_EmptySet, LossesAssumption DEF Counted
  <2>5. ASSUME NEW y \in Xids PROVE CoveredFor(y)
    <3>1. sends[y]["queued"] = 0 /\ CP!Issued(y) = 0
      BY <2>1 DEF Clt!NoSends, Clt!SendStates, CP!Issued, CP!Sent, CP!NoCall
    <3>2. Posted = 1 /\ Own(y) = 0
      <4>1. Cardinality(OkTokens) = 0 /\ Cardinality(CP!Handlers(y)) = 0
        BY <2>2, FS_EmptySet
      <4>. QED
        BY <2>1, <3>1, <4>1 DEF Posted, Own
    <3>3. ToOthers(y) = 0
      <4>1. \A k, own : /\ Cardinality(Beyond(toServer, k, own)) = 0
                        /\ Cardinality(Beyond(toClient, k, own)) = 0
        BY <2>1, EmptyNet
      <4>. QED
        BY <2>2, <4>1, FS_EmptySet DEF ToOthers
    <3>. QED
      BY <2>2, <3>1, <3>2, <3>3, FS_EmptySet DEF CoveredFor
  <2>6. Resends
    BY ClientInit, CP!TakenInit, CP!WaitsInit, ClientAssumptions DEF Init, Resends
  <2>7. CP!Faultless
    BY ClientInit, CP!FaultlessInit, ClientAssumptions DEF Init
  <2>8. conn = 1 /\ open = {1} /\ BagToSet(EmptyBag) = {}
    BY DEF Init, BagToSet, EmptyBag, SetToBag
  <2>9. NetFresh
    BY <2>1, <2>8 DEF NetFresh, Srv!Closed, Srv!Task
  <2>. QED
    BY <2>3, <2>4, <2>5, <2>6, <2>7, <2>8, <2>9 DEF Covered, Reopened, ListenInv
<1>2. Inv /\ [Next]_vars => Inv'
  BY CoveredStep
<1>3. Inv => RepliesAreHeard
  <2>. SUFFICES ASSUME Inv, ClientQuiet, conn \in open, NEW rep \in BagToSet(toClient[conn]),
                       rep.xid \in callers
                PROVE  listening > 0
    BY DEF RepliesAreHeard
  <2>. DEFINE y == rep.xid
  <2>0. y \in Xids /\ CP!Started(y) /\ call[y].pc \in {"none", "returned"}
    <3>1. callers \subseteq Xids /\ \A x \in callers : CP!Started(x)
      BY ClientNames DEF SysInv, Parts, CP!Shape, CP!CallTypes, CP!Fresh
    <3>. QED
      BY <3>1 DEF ClientQuiet
  <2>1. call[y].pc = "returned"
    BY <2>0 DEF CP!Started
  <2>2. /\ \A x \in Xids : sends[x]["OK"] = 0 /\ sends[x]["queued"] = 0
        /\ \A w \in Workers : io[w].op = "idle"
    BY ClientNames DEF ClientQuiet, CP!NoSends, CP!SendStates, CP!Idle, CP!Step
  <2>3. OkTokens = {} /\ CP!Handlers(y) = {}
    BY <2>2 DEF OkTokens, CP!Handlers, CP!InHand
  <2>4. Cardinality(OkTokens) = 0 /\ Own(y) = 0
    BY <2>0, <2>2, <2>3, FS_EmptySet DEF Own
  <2>5. /\ listening \in Nat /\ faults \in Nat /\ breaks \in Nat /\ instance \in Nat \ {0}
        /\ faults <= MaxFaults /\ breaks <= MaxBreaks /\ instance <= MaxInstances
        /\ conn \in Nat \ {0} /\ \A z : ToOthers(z) \in Nat
    <3>1. instance \in Nat \ {0} /\ instance <= MaxInstances
      BY BoundsAssumption DEF SysInv, Parts, SP!Shape, SP!TypeOK, SP!Instances
    <3>2. conn \in Nat \ {0} /\ \A z : ToOthers(z) \in Nat
      BY Numbers DEF ListenInv, ToOthers, Conns
    <3>. QED
      BY <3>1, <3>2, Numbers DEF ListenInv
  <2>6. CASE conn = 1
    <3>1. CP!Issued(y) = IF CltNonce > 0 THEN 2 ELSE 1
      <4>1. CltNonce > 0 => timer[y] = "ran"
        BY <2>0, <2>1 DEF ClientQuiet, ListenInv, Resends, CP!Waits
      <4>. QED
        BY <2>1, <4>1 DEF CP!Issued, CP!Sent
    <3>2. Posted + Own(y) >= ToOthers(y) + CP!Issued(y) + 1
      BY <2>0, <2>6 DEF ListenInv, Covered, CoveredFor, CP!Awaited
    <3>3. faults + breaks <= IF CltNonce > 0 THEN 2 ELSE 1
      BY <2>5, BoundsAssumption, LossesAssumption
    <3>. QED
      BY <2>4, <2>5, <3>1, <3>2, <3>3 DEF Posted
  <2>7. CASE conn > 1
    <3>1. Posted + instance >= ToOthers(0) + 3
      BY <2>7 DEF ListenInv, Reopened
    <3>2. ToOthers(0) >= 1
      <4>1. rep \in DOMAIN toClient[conn] /\ conn \in Conns
        BY DEF BagToSet, SysInv, Agreed, NetTyped
      <4>2. <<conn, rep, 1>> \in Tokens(toClient)
        <5>1. 1 \in 1..toClient[conn][rep]
          BY <4>1 DEF ListenInv, Counted, InBags
        <5>. QED
          BY <4>1, <5>1 DEF Tokens
      <4>3. rep \notin About(0)
        BY <2>0 DEF About, Xids
      <4>4. Beyond(toClient, conn, About(0)) # {}
        BY <4>2, <4>3 DEF Beyond
      <4>5. IsFiniteSet(Beyond(toClient, conn, About(0)))
        BY FS_Subset DEF ListenInv, Counted, Beyond
      <4>6. Cardinality(Beyond(toClient, conn, About(0))) >= 1
        BY <4>4, <4>5, FS_EmptySet, FS_CardinalityType
      <4>. QED
        BY <4>6, Numbers DEF ToOthers, ListenInv
    <3>3. faults + breaks + instance <= 3
      BY <2>5, <2>7, BoundsAssumption, LossesAssumption, NonceAssumption DEF ListenInv, NetFresh
    <3>. QED
      BY <2>4, <2>5, <3>1, <3>2, <3>3 DEF Posted
  <2>. QED
    BY <2>5, <2>6, <2>7
<1>. QED
  BY <1>1, <1>2, <1>3, PTL DEF Spec
=============================================================================
