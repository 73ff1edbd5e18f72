----------------------------- MODULE RpcClient -----------------------------
(***************************************************************************)
(* RpcClient: application threads in Call, io threads running completion   *)
(* handlers (GotPdu, OnTimerExpired, OnSendFinished), and the Caller       *)
(* objects they share by raw pointer.  Each step below is one critical     *)
(* section of the code, or the stretch between two of them, so everything  *)
(* the threads can do to each other in between is in the model.  Socket,   *)
(* timer and server are the environment.                                   *)
(***************************************************************************)
EXTENDS XidRepWindow

CONSTANTS
    Retrans,      \* clt_nonce_ > 0
    MaxXid,       \* bound: the last xid handed out
    MaxBinds,     \* bound: Bind calls made by the application
    MaxFaults,    \* bound: send operations that report an error
    SendErrs,     \* errors a send may report
    CallProcs,    \* procedures the application calls
    BIND,
    HandlerErrs,  \* what a registered method may return, with its result
    Results,      \* results a server may marshal into a reply
    Workers       \* io threads

ASSUME RetransAssumption == Retrans \in BOOLEAN
ASSUME BoundsAssumption == /\ MaxXid \in Nat \ {0, 1}
                           /\ MaxBinds \in Nat /\ MaxFaults \in Nat
ASSUME SendErrsAssumption == SendErrs \subseteq {"SEND_FAILURE", "BROKEN_PIPE"}
ASSUME BindAssumption == BIND \notin CallProcs
ASSUME HandlerErrsAssumption == "OK" \in HandlerErrs
ASSUME ResultsAssumption == Results \subseteq Nat \ {0}

VARIABLES
    xid_,            \* next transaction id
    callers,         \* keys of callers_
    call,            \* per xid: how far Call got, and the header it built
    caller,          \* per xid: the Caller object, whether it still exists
    timer,           \* per xid: its deadline timer
    sends,           \* per xid: its send operations, by how they stand
    listening,       \* posted Receive operations
    io,              \* per worker: the handler it is in
    bind_done, srv_nonce,
    xid_rep_window,
    crashed,         \* an exception left an io thread, or memory misuse
    faults,          \* environment: errors reported so far
    got,             \* history: xids UpdateXidRep has been called with
    cbs              \* history: per xid, the errors its callback was given

callVars == <<xid_, callers, call, caller, timer, sends>>
ioVars == <<listening, io, bind_done, srv_nonce, xid_rep_window>>
auxVars == <<crashed, faults, got, cbs>>
vars == <<callVars, ioVars, auxVars>>

Xids == 2..MaxXid
AllProcs == CallProcs \cup {BIND}
CallPcs == {"none", "registered", "acked", "sent", "returned"}
NoCall == [pc |-> "none", proc |-> BIND, xid_rep |-> 0, srv_nonce |-> 0]
NoCaller == [alive |-> FALSE, done |-> FALSE]
SendStates == {"queued", "connecting", "OK"} \cup SendErrs
NoSends == [s \in SendStates |-> 0]
Step(op, x, err, result) == [op |-> op, xid |-> x, err |-> err, result |-> result]
Idle == Step("idle", 0, "OK", 0)

Init ==
    /\ xid_ = 2
    /\ callers = {}
    /\ call = [x \in Xids |-> NoCall]
    /\ caller = [x \in Xids |-> NoCaller]
    /\ timer = [x \in Xids |-> "none"]
    /\ sends = [x \in Xids |-> NoSends]
    /\ listening = 1       \* OnConnected has posted the first Receive
    /\ io = [w \in Workers |-> Idle]
    /\ bind_done = FALSE /\ srv_nonce = 0
    /\ xid_rep_window = <<>>
    /\ crashed = "no" /\ faults = 0
    /\ got = {}
    /\ cbs = [x \in Xids |-> <<>>]

Running == crashed = "no"
\* Faulty: the two states change places.
Moved_Faulty(x, from, to) == [sends EXCEPT ![x][from] = @ + 1, ![x][to] = @ - 1]
Moved(x, from, to) == [sends EXCEPT ![x][from] = @ - 1, ![x][to] = @ + 1]
Queued(x) == [sends EXCEPT ![x]["queued"] = @ + 1]
Goto(w, step) == io' = [io EXCEPT ![w] = step]
CalledBack(x, err) == cbs' = [cbs EXCEPT ![x] = Append(@, err)]

\* A Caller that was freed is touched: AddressSanitizer aborts, a plain build
\* reads the bytes that are still there.
Touch(x) ==
    \/ UNCHANGED crashed
    \/ ~caller[x].alive /\ crashed' = "use after free"

-----------------------------------------------------------------------------
(* Call, run by an application thread. *)

\* Call up to the end of its first critical section; a call that is refused
\* with BIND_FAILURE changes nothing.
Register(proc) ==
    /\ xid_ <= MaxXid
    /\ IF proc = BIND THEN ~bind_done ELSE bind_done
    /\ xid_' = xid_ + 1
    /\ callers' = callers \cup {xid_}
    /\ call' = [call EXCEPT ![xid_] = [NoCall EXCEPT !.pc = "registered", !.proc = proc]]
    /\ caller' = [caller EXCEPT ![xid_] = [alive |-> TRUE, done |-> FALSE]]
    /\ UNCHANGED <<timer, sends>>

CallStart(proc) ==
    /\ Running
    /\ proc = BIND => Cardinality({x \in Xids : call[x].pc # "none"
                                                /\ call[x].proc = BIND}) < MaxBinds
    /\ Register(proc)
    /\ UNCHANGED <<ioVars, auxVars>>

CallReadAck(x) ==
    /\ Running /\ call[x].pc = "registered"
    /\ call' = [call EXCEPT ![x].pc = "acked",
                            ![x].xid_rep = ReceivedXid(xid_rep_window)]
    /\ UNCHANGED <<xid_, callers, caller, timer, sends, ioVars, auxVars>>

\* The header is marshalled into the Caller's buffer and sent.
CallSend(x) ==
    /\ Running /\ call[x].pc = "acked"
    /\ call' = [call EXCEPT ![x].pc = "sent", ![x].srv_nonce = srv_nonce]
    /\ sends' = Queued(x)
    /\ UNCHANGED <<xid_, callers, caller, timer, ioVars, auxVars>>

\* Faulty: the timer is created and not started.
CallWait_Faulty(x) ==
    /\ Running /\ call[x].pc = "sent"
    /\ call' = [call EXCEPT ![x].pc = "returned"]
    /\ UNCHANGED <<xid_, callers, caller, timer, sends, ioVars, auxVars>>

\* timer_ptr->Wait: the reply may have freed Caller and timer already.
CallWait(x) ==
    /\ Running /\ call[x].pc = "sent"
    /\ call' = [call EXCEPT ![x].pc = "returned"]
    /\ timer' = IF caller[x].alive THEN [timer EXCEPT ![x] = "armed"] ELSE timer
    /\ Touch(x)
    /\ UNCHANGED <<xid_, callers, caller, sends, ioVars, faults, got, cbs>>

-----------------------------------------------------------------------------
(* The environment: send operations and timers complete. *)

SendResolves(x, e) ==
    /\ Running /\ sends[x]["queued"] > 0
    /\ \/ e = "OK" /\ UNCHANGED faults
       \/ e \in SendErrs /\ faults < MaxFaults /\ faults' = faults + 1
    /\ sends' = Moved(x, "queued", e)
    /\ UNCHANGED <<xid_, callers, call, caller, timer, ioVars, crashed, got, cbs>>

TimerExpires(x) ==
    /\ Running /\ timer[x] = "armed"
    /\ timer' = [timer EXCEPT ![x] = "expired"]
    /\ UNCHANGED <<xid_, callers, call, caller, sends, ioVars, auxVars>>

-----------------------------------------------------------------------------
(* Handlers, run by a worker. *)

\* OnReceiveFinished: with a message, or with an error, which posts no
\* further Receive.
ReceiveReply(w, rep) ==
    /\ Running /\ io[w] = Idle /\ listening > 0
    /\ listening' = listening - 1
    /\ Goto(w, Step("update", rep.xid, rep.err, rep.result))
    /\ UNCHANGED <<callVars, bind_done, srv_nonce, xid_rep_window, auxVars>>

ReceiveFails(w) ==
    /\ Running /\ io[w] = Idle /\ listening > 0
    /\ listening' = listening - 1
    /\ UNCHANGED <<callVars, io, bind_done, srv_nonce, xid_rep_window, auxVars>>

\* GotPdu, first section: UpdateXidRep.
UpdateXidRep(w) ==
    /\ Running /\ io[w].op = "update"
    /\ xid_rep_window' = UpdatedXidRep(xid_rep_window, io[w].xid)
    /\ got' = got \cup {io[w].xid}
    /\ Goto(w, [io[w] EXCEPT !.op = "lookup"])
    /\ UNCHANGED <<callVars, listening, bind_done, srv_nonce, crashed, faults, cbs>>

\* Faulty: the Caller is used and stays in callers_.
TakeCaller_Faulty(w) ==
    LET x == io[w].xid IN
    /\ Running /\ io[w].op = "lookup"
    /\ Goto(w, IF x \in callers THEN [io[w] EXCEPT !.op = "finish"] ELSE Idle)
    /\ UNCHANGED <<callVars, listening, bind_done, srv_nonce, xid_rep_window, auxVars>>

\* GotPdu, second section: take the Caller out of callers_.
TakeCaller(w) ==
    LET x == io[w].xid IN
    /\ Running /\ io[w].op = "lookup"
    /\ Goto(w, IF x \in callers THEN [io[w] EXCEPT !.op = "finish"] ELSE Idle)
    /\ callers' = callers \ {x}
    /\ UNCHANGED <<xid_, call, caller, timer, sends, listening, bind_done,
                   srv_nonce, xid_rep_window, auxVars>>

\* The unique_ptr goes out of scope; destroying an armed timer cancels it, an
\* expired one has its handler queued already.
Destroy(x) ==
    /\ caller' = [caller EXCEPT ![x] = [alive |-> FALSE, done |-> TRUE]]
    /\ timer' = IF timer[x] = "armed" THEN [timer EXCEPT ![x] = "cancelled"] ELSE timer

\* Faulty: done_ is not looked at.
FinishCaller_Faulty(w) ==
    LET x == io[w].xid IN
    /\ Running /\ io[w].op = "finish"
    /\ caller' = [caller EXCEPT ![x].done = TRUE]
    /\ Goto(w, [io[w] EXCEPT !.op = "callback"])
    /\ UNCHANGED <<xid_, callers, call, timer, sends, listening, bind_done,
                   srv_nonce, xid_rep_window, auxVars>>

\* GotPdu, third section, under the Caller's mutex.
FinishCaller(w) ==
    LET x == io[w].xid IN
    /\ Running /\ io[w].op = "finish"
    /\ \/ /\ caller[x].done
          /\ Destroy(x) /\ Goto(w, Idle)
       \/ /\ ~caller[x].done
          /\ caller' = [caller EXCEPT ![x].done = TRUE]
          /\ Goto(w, [io[w] EXCEPT !.op = "callback"])
          /\ UNCHANGED timer
    /\ UNCHANGED <<xid_, callers, call, sends, listening, bind_done, srv_nonce,
                   xid_rep_window, auxVars>>

\* The callback of Bind, given an error: sleep, then Bind again.
AfterError(x) == IF call[x].proc = BIND THEN Step("rebind", x, "OK", 0) ELSE Idle

\* GotPdu, last part.  ExtractReply throws when no result was marshalled.
Callback(w) ==
    LET x == io[w].xid IN
    /\ Running /\ io[w].op = "callback"
    /\ \/ /\ io[w].result = 0
          /\ crashed' = "no result to extract"
          /\ UNCHANGED <<caller, timer, io, bind_done, srv_nonce, cbs>>
       \/ /\ io[w].result > 0
          /\ CalledBack(x, io[w].err)
          /\ Destroy(x)
          /\ IF call[x].proc = BIND /\ io[w].err = "OK"
             THEN bind_done' = TRUE /\ srv_nonce' = io[w].result
             ELSE UNCHANGED <<bind_done, srv_nonce>>
          /\ Goto(w, IF io[w].err = "OK" THEN Idle ELSE AfterError(x))
          /\ UNCHANGED crashed
    /\ UNCHANGED <<xid_, callers, call, sends, listening, xid_rep_window, faults, got>>

\* OnTimerExpired, under the Caller's mutex.  A freed Caller was done.
OnTimerExpired(w, x) ==
    /\ Running /\ io[w] = Idle /\ timer[x] = "expired"
    /\ timer' = [timer EXCEPT ![x] = "ran"]
    /\ Touch(x)
    /\ \/ /\ caller[x].done
          /\ UNCHANGED <<caller, io, cbs>>
       \/ /\ ~caller[x].done /\ ~Retrans
          /\ caller' = [caller EXCEPT ![x].done = TRUE]
          /\ CalledBack(x, "TIMEOUT_FAILURE")
          /\ Goto(w, AfterError(x))
       \/ /\ ~caller[x].done /\ Retrans
          /\ Goto(w, Step("resend", x, "OK", 0))
          /\ UNCHANGED <<caller, cbs>>
    /\ UNCHANGED <<xid_, callers, call, sends, listening, bind_done, srv_nonce,
                   xid_rep_window, faults, got>>

\* OnTimerExpired after l.unlock(): the retransmission.
Resend(w) ==
    /\ Running /\ io[w].op = "resend"
    /\ sends' = Queued(io[w].xid)
    /\ Touch(io[w].xid)
    /\ Goto(w, Idle)
    /\ UNCHANGED <<xid_, callers, call, caller, timer, listening, bind_done,
                   srv_nonce, xid_rep_window, faults, got, cbs>>

\* Faulty: no further Receive.
SendSucceeded_Faulty(w, x) ==
    /\ Running /\ io[w] = Idle /\ sends[x]["OK"] > 0
    /\ sends' = [sends EXCEPT ![x]["OK"] = @ - 1]
    /\ UNCHANGED <<xid_, callers, call, caller, timer, ioVars, auxVars>>

\* OnSendFinished, success: listen for one more message.
SendSucceeded(w, x) ==
    /\ Running /\ io[w] = Idle /\ sends[x]["OK"] > 0
    /\ sends' = [sends EXCEPT ![x]["OK"] = @ - 1]
    /\ listening' = listening + 1
    /\ UNCHANGED <<xid_, callers, call, caller, timer, io, bind_done, srv_nonce,
                   xid_rep_window, auxVars>>

\* OnSendFinished, failure: the Caller is looked up and kept as raw pointer.
SendFailed(w, x, e) ==
    /\ Running /\ io[w] = Idle /\ e \in SendErrs /\ sends[x][e] > 0
    /\ sends' = [sends EXCEPT ![x][e] = @ - 1]
    /\ Goto(w, IF x \in callers THEN Step("sendfailed", x, e, 0) ELSE Idle)
    /\ UNCHANGED <<xid_, callers, call, caller, timer, listening, bind_done,
                   srv_nonce, xid_rep_window, auxVars>>

\* OnSendFinished with retransmission: send again, over a new connection when
\* the pipe is broken.
RetrySend(w) ==
    LET x == io[w].xid
        to == IF io[w].err = "BROKEN_PIPE" THEN "connecting" ELSE "queued"
    IN  /\ Running /\ io[w].op = "sendfailed" /\ Retrans
        /\ sends' = [sends EXCEPT ![x][to] = @ + 1]
        /\ Goto(w, Idle)
        /\ Touch(x)
        /\ UNCHANGED <<xid_, callers, call, caller, timer, listening, bind_done,
                       srv_nonce, xid_rep_window, faults, got, cbs>>

\* The callback of that Connect; it throws when connecting failed.  The
\* Receives of the old connection are over by then, with an error, and unlike
\* OnConnected this callback posts none: the resend has to succeed first.
Reconnected(x, ok) ==
    /\ Running /\ sends[x]["connecting"] > 0
    /\ \/ /\ ok /\ sends' = Moved(x, "connecting", "queued")
          /\ listening' = 0 /\ Touch(x)
       \/ /\ ~ok /\ crashed' = "cannot connect to server"
          /\ UNCHANGED <<sends, listening>>
    /\ UNCHANGED <<xid_, callers, call, caller, timer, io, bind_done, srv_nonce,
                   xid_rep_window, faults, got, cbs>>

\* Faulty: a client with retransmission gives up as well.
GiveUp_Faulty(w) ==
    LET x == io[w].xid IN
    /\ Running /\ io[w].op = "sendfailed"
    /\ caller' = [caller EXCEPT ![x].done = TRUE]
    /\ Goto(w, [io[w] EXCEPT !.op = "failcallback"])
    /\ Touch(x)
    /\ UNCHANGED <<xid_, callers, call, timer, sends, listening, bind_done,
                   srv_nonce, xid_rep_window, faults, got, cbs>>

\* OnSendFinished without retransmission: done_ is set whatever it was.
GiveUp(w) ==
    LET x == io[w].xid IN
    /\ Running /\ io[w].op = "sendfailed" /\ ~Retrans
    /\ caller' = [caller EXCEPT ![x].done = TRUE]
    /\ Goto(w, [io[w] EXCEPT !.op = "failcallback"])
    /\ Touch(x)
    /\ UNCHANGED <<xid_, callers, call, timer, sends, listening, bind_done,
                   srv_nonce, xid_rep_window, faults, got, cbs>>

\* Faulty: the call is marked done and nobody is told.
FailCallback_Faulty(w) ==
    /\ Running /\ io[w].op = "failcallback"
    /\ Goto(w, Idle)
    /\ UNCHANGED <<callVars, listening, bind_done, srv_nonce, xid_rep_window, auxVars>>

FailCallback(w) ==
    LET x == io[w].xid IN
    /\ Running /\ io[w].op = "failcallback"
    /\ CalledBack(x, io[w].err)
    /\ Goto(w, AfterError(x))
    /\ Touch(x)
    /\ UNCHANGED <<callVars, listening, bind_done, srv_nonce, xid_rep_window,
                   faults, got>>

\* me->Bind() at the end of the Bind callback; refused if another Bind won.
\* Past the bound on xids there is no further attempt.
Rebind(w) ==
    /\ Running /\ io[w].op = "rebind"
    /\ \/ (bind_done \/ xid_ > MaxXid) /\ UNCHANGED callVars
       \/ Register(BIND)
    /\ Goto(w, Idle)
    /\ UNCHANGED <<listening, bind_done, srv_nonce, xid_rep_window, auxVars>>

-----------------------------------------------------------------------------
AppThread(x) == CallReadAck(x) \/ CallSend(x) \/ CallWait(x)

Worker(w) ==
    \/ UpdateXidRep(w) \/ TakeCaller(w) \/ FinishCaller(w) \/ Callback(w)
    \/ Resend(w) \/ RetrySend(w) \/ GiveUp(w) \/ FailCallback(w) \/ Rebind(w)
    \/ \E x \in Xids : OnTimerExpired(w, x) \/ SendSucceeded(w, x)
    \/ \E x \in Xids, e \in SendErrs : SendFailed(w, x, e)

\* What any server may answer a request that was sent: what the method
\* returned and its result, or one of the two refusals, which carry none.
Refusals == {"OLDSERVER_FAILURE", "ATMOST_ONCE_FAILURE"}
Answers == {[xid |-> x, err |-> e, result |-> r] :
                x \in {y \in Xids : call[y].pc \in {"sent", "returned"}},
                e \in HandlerErrs \cup Refusals, r \in {0} \cup Results}
AnyReply(rep) ==
    /\ rep \in Answers
    /\ \/ rep.err \in HandlerErrs /\ rep.result > 0
       \/ rep.err \in Refusals /\ rep.result = 0
    /\ call[rep.xid].proc = BIND /\ rep.result > 0 => rep.err = "OK"

Environment ==
    \/ \E x \in Xids : TimerExpires(x)
    \/ \E x \in Xids, e \in {"OK"} \cup SendErrs : SendResolves(x, e)
    \/ \E x \in Xids, ok \in BOOLEAN : Reconnected(x, ok)
    \/ \E w \in Workers : ReceiveFails(w)
    \/ \E w \in Workers, rep \in Answers : AnyReply(rep) /\ ReceiveReply(w, rep)

Next ==
    \/ \E proc \in AllProcs : CallStart(proc)
    \/ \E x \in Xids : AppThread(x)
    \/ \E w \in Workers : Worker(w)
    \/ Environment

Spec == Init /\ [][Next]_vars

\* Threads that can run do run, posted sends and armed timers complete; that a
\* call is made or answered is up to the application and the server.
Fairness ==
    /\ \A x \in Xids : WF_vars(AppThread(x)) /\ WF_vars(TimerExpires(x))
    /\ \A x \in Xids : WF_vars(\E e \in {"OK"} \cup SendErrs : SendResolves(x, e))
    /\ \A w \in Workers : WF_vars(Worker(w))

FairSpec == Spec /\ Fairness

-----------------------------------------------------------------------------
Ops == {"idle", "update", "lookup", "finish", "callback", "resend", "sendfailed",
        "failcallback", "rebind"}
CallErrs == HandlerErrs \cup Refusals \cup {"TIMEOUT_FAILURE"} \cup SendErrs

TypeOK ==
    /\ xid_ \in 2..(MaxXid + 1)
    /\ callers \in SUBSET Xids
    /\ call \in [Xids -> [pc: CallPcs, proc: AllProcs, xid_rep: Nat, srv_nonce: Nat]]
    /\ caller \in [Xids -> [alive: BOOLEAN, done: BOOLEAN]]
    /\ timer \in [Xids -> {"none", "armed", "expired", "cancelled", "ran"}]
    /\ sends \in [Xids -> [SendStates -> Nat]]
    /\ listening \in Nat
    /\ io \in [Workers -> [op: Ops, xid: {0} \cup Xids, err: CallErrs, result: Nat]]
    /\ bind_done \in BOOLEAN /\ srv_nonce \in Nat
    /\ xid_rep_window \in Seq(Xids)
    /\ crashed \in {"no", "use after free", "no result to extract", "cannot connect to server"}
    /\ faults \in 0..MaxFaults
    /\ got \in SUBSET Xids
    /\ cbs \in [Xids -> Seq(CallErrs)]

\* README: exactly once.  However replies, timers, failed sends and resends of
\* one call interleave, its callback is given one outcome (the done_ flag and
\* the removal from callers_ in GotPdu, OnTimerExpired, OnSendFinished).
OneCallback == \A x \in Xids : Len(cbs[x]) <= 1

\* No call is lost by the client and no two workers finish the same one: a
\* call that is no longer in callers_ has been called back, or exactly one
\* worker is between taking its Caller and calling back (GotPdu).
Finishing(w, x) == io[w].op \in {"finish", "callback"} /\ io[w].xid = x
Started(x) == call[x].pc # "none"
TakenOnce ==
    \A x \in Xids : Started(x) =>
        Cardinality({w \in Workers : Finishing(w, x)}) + Len(cbs[x])
            = IF x \in callers THEN 0 ELSE 1

\* A request acknowledges only what has arrived: every reply up to the xid_rep_
\* it carries has been received.  The server throws those replies away, so an
\* acknowledgement that is too high makes it forget a call that is still
\* waiting (UpdateXidRep and the lambda received_xid of Call).
AckSound ==
    \A x \in Xids : call[x].pc \in {"acked", "sent", "returned"} =>
        2..call[x].xid_rep \subseteq got

\* A timeout racing a late answer has one winner: of the reply and the timer
\* only one reaches the callback (done_ in GotPdu and OnTimerExpired).
ReplyOrTimeout ==
    \A x \in Xids : \A i, j \in 1..Len(cbs[x]) :
        cbs[x][i] \notin SendErrs /\ cbs[x][j] \notin SendErrs => i = j

\* Without retransmission every call returns, whatever becomes of its request
\* and however few Receives are left: its callback runs with a result, a
\* timeout or the error of its send, unless the process dies
\* (timer_ptr->Wait after Send in Call, OnTimerExpired and
\* OnSendFinished, done_ set before the callback runs).
EveryCallReturns == \A x \in Xids : Started(x) ~> (cbs[x] # <<>> \/ ~Running)

\* Completion handlers never touch a Caller that GotPdu has freed.
NoUseAfterFree == crashed # "use after free"
=============================================================================
