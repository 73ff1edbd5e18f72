-------------------------- MODULE RpcClientProofs --------------------------
(***************************************************************************)
(* The safety of RpcClient, for any number of calls, workers, faults and   *)
(* Binds, unless a theorem says otherwise.                                 *)
(***************************************************************************)
EXTENDS RpcClient, WindowProofs, FiniteSetTheorems

-----------------------------------------------------------------------------
(* Types. *)

CallRecords == [pc: CallPcs, proc: AllProcs, xid_rep: Nat, srv_nonce: Nat]
CallerRecords == [alive: BOOLEAN, done: BOOLEAN]
IoRecords == [op: Ops, xid: {0} \cup Xids, err: CallErrs, result: Nat]
TimerStates == {"none", "armed", "expired", "cancelled", "ran"}
CrashStates == {"no", "use after free", "no result to extract", "cannot connect to server"}

CallTypes == /\ xid_ \in 2..(MaxXid + 1)
             /\ callers \in SUBSET Xids
             /\ call \in [Xids -> CallRecords]
CallerTypes == caller \in [Xids -> CallerRecords]
TimerTypes == timer \in [Xids -> TimerStates]
SendTypes == sends \in [Xids -> [SendStates -> Nat]]
IoTypes == io \in [Workers -> IoRecords]
BindTypes == bind_done \in BOOLEAN /\ srv_nonce \in Nat
WindowTypes == /\ xid_rep_window \in Seq(Xids) /\ NonDecreasing(xid_rep_window)
               /\ got \in SUBSET Xids
FaultTypes == listening \in Nat /\ crashed \in CrashStates /\ faults \in 0..MaxFaults
CbTypes == cbs \in [Xids -> Seq(CallErrs)]

\* A worker in a handler works on a call that was made; a failed send carries
\* the error of the socket; only a client without retransmission tells its
\* caller of one.
GoodStep(s) ==
    /\ s.op # "idle" => s.xid \in Xids /\ Started(s.xid)
    /\ s.op \in {"sendfailed", "failcallback"} => s.err \in SendErrs
    /\ s.op = "failcallback" => ~Retrans
HandlersWork == \A w \in Workers : GoodStep(io[w])

\* Nothing is there for an xid that was not handed out yet.
Fresh ==
    \A x \in Xids :
        /\ Started(x) <=> x < xid_
        /\ ~Started(x) => x \notin callers /\ timer[x] = "none" /\ cbs[x] = <<>>

Shape ==
    /\ CallTypes /\ CallerTypes /\ TimerTypes /\ SendTypes /\ IoTypes /\ BindTypes
    /\ WindowTypes /\ FaultTypes /\ CbTypes
    /\ HandlersWork /\ Fresh

LEMMA ShapeHasTypes == Shape => TypeOK
BY DEF Shape, TypeOK, CallTypes, CallerTypes, TimerTypes, SendTypes, IoTypes, BindTypes,
       WindowTypes, FaultTypes, CbTypes, CallRecords, CallerRecords, IoRecords,
       TimerStates, CrashStates

LEMMA XidsAreNats == Xids \in SUBSET Nat /\ 0 \notin Xids
BY BoundsAssumption DEF Xids

LEMMA StepIs ==
  ASSUME NEW op, NEW x, NEW err, NEW r
  PROVE  /\ Step(op, x, err, r).op = op /\ Step(op, x, err, r).xid = x
         /\ Step(op, x, err, r).err = err /\ Step(op, x, err, r).result = r
BY DEF Step

LEMMA IdleIs == Idle \in IoRecords /\ Idle.op = "idle" /\ GoodStep(Idle)
BY HandlerErrsAssumption DEF Idle, Step, IoRecords, Ops, CallErrs, GoodStep

LEMMA ShapeInit == Init => Shape
<1>. SUFFICES ASSUME Init PROVE Shape
  OBVIOUS
<1>. USE BoundsAssumption, XidsAreNats DEF Init
<1>1. CallTypes
  BY DEF CallTypes, CallRecords, NoCall, CallPcs, AllProcs
<1>2. CallerTypes
  BY DEF CallerTypes, CallerRecords, NoCaller
<1>3. TimerTypes
  BY DEF TimerTypes, TimerStates
<1>4. SendTypes
  BY DEF SendTypes, NoSends
<1>5. IoTypes /\ HandlersWork
  BY IdleIs DEF IoTypes, HandlersWork
<1>6. BindTypes /\ WindowTypes /\ FaultTypes
  <2>1. BindTypes
    BY DEF BindTypes
  <2>2. NonDecreasing(xid_rep_window)
    BY DEF NonDecreasing
  <2>3. WindowTypes
    BY <2>2 DEF WindowTypes
  <2>4. FaultTypes
    BY DEF FaultTypes, CrashStates
  <2>. QED
    BY <2>1, <2>3, <2>4
<1>7. CbTypes
  BY DEF CbTypes
<1>8. Fresh
  BY DEF Fresh, Started, NoCall, Xids
<1>. QED
  BY <1>1, <1>2, <1>3, <1>4, <1>5, <1>6, <1>7, <1>8 DEF Shape

\* A worker goes to another step while calls stay started.
LEMMA GotoWorks ==
  ASSUME IoTypes, HandlersWork, NEW w \in Workers, NEW s \in IoRecords, GoodStep(s),
         Goto(w, s), \A x \in Xids : Started(x) => Started(x)'
  PROVE  IoTypes' /\ HandlersWork'
<1>1. IoTypes'
  BY DEF IoTypes, Goto
<1>2. \A u \in Workers : io'[u] = IF u = w THEN s ELSE io[u]
  BY DEF IoTypes, Goto
<1>. QED
  BY <1>1, <1>2 DEF HandlersWork, GoodStep

\* A new call takes the next xid.
LEMMA RegisterWorks ==
  ASSUME Shape, NEW proc \in AllProcs, Register(proc), UNCHANGED cbs
  PROVE  /\ CallTypes' /\ CallerTypes' /\ TimerTypes' /\ SendTypes' /\ Fresh'
         /\ \A x \in Xids : Started(x) => Started(x)'
<1>. USE BoundsAssumption, XidsAreNats
<1>1. xid_ \in Xids /\ xid_' \in 2..(MaxXid + 1) /\ xid_' = xid_ + 1
  BY DEF Register, Shape, CallTypes, Xids
<1>. DEFINE c == [NoCall EXCEPT !.pc = "registered", !.proc = proc]
<1>2. c \in CallRecords /\ c.pc = "registered"
  BY DEF NoCall, CallRecords, CallPcs
<1>3. call' = [call EXCEPT ![xid_] = c] /\ callers' = callers \cup {xid_}
  BY DEF Register
<1>. HIDE DEF c
<1>4. CallTypes'
  BY <1>1, <1>2, <1>3 DEF Shape, CallTypes
<1>5. CallerTypes' /\ TimerTypes' /\ SendTypes'
  BY <1>1 DEF Register, Shape, CallerTypes, CallerRecords, TimerTypes, SendTypes
<1>6. \A x \in Xids : call'[x].pc = IF x = xid_ THEN "registered" ELSE call[x].pc
  BY <1>1, <1>2, <1>3 DEF Shape, CallTypes
<1>7. \A x \in Xids : Started(x) => Started(x)'
  BY <1>6 DEF Started
<1>8. UNCHANGED <<timer, cbs>>
  BY DEF Register
<1>9. Fresh'
  <2>. SUFFICES ASSUME NEW x \in Xids
                PROVE  /\ Started(x)' <=> x < xid_'
                       /\ ~Started(x)' => x \notin callers' /\ timer'[x] = "none" /\ cbs'[x] = <<>>
    BY DEF Fresh
  <2>1. /\ Started(x) <=> x < xid_
        /\ ~Started(x) => x \notin callers /\ timer[x] = "none" /\ cbs[x] = <<>>
    BY DEF Shape, Fresh
  <2>2. Started(x)' <=> (x = xid_ \/ Started(x))
    BY <1>6 DEF Started
  <2>3. x = xid_ \/ x < xid_ <=> x < xid_'
    BY <1>1
  <2>. QED
    BY <1>3, <1>8, <2>1, <2>2, <2>3
<1>. QED
  BY <1>4, <1>5, <1>7, <1>9

\* A call goes on; what it has done so far stays.
LEMMA CallGoesOn ==
  ASSUME Shape, NEW x \in Xids, NEW c \in CallRecords, c.pc # "none", Started(x),
         call' = [call EXCEPT ![x] = c], UNCHANGED <<xid_, callers, cbs>>,
         \A y \in Xids : timer'[y] = timer[y] \/ Started(y)
  PROVE  CallTypes' /\ Fresh' /\ \A y \in Xids : Started(y) => Started(y)'
<1>1. CallTypes'
  BY DEF Shape, CallTypes
<1>2. \A y \in Xids : call'[y] = IF y = x THEN c ELSE call[y]
  BY DEF Shape, CallTypes
<1>3. \A y \in Xids : Started(y) <=> Started(y)'
  BY <1>2 DEF Started
<1>. QED
  BY <1>1, <1>3 DEF Shape, Fresh

\* Calls stay what they are while callbacks run and Callers come and go.
LEMMA CallsStay ==
  ASSUME Shape, UNCHANGED <<xid_, call>>, callers' \in SUBSET callers,
         \A x \in Xids : timer'[x] = timer[x] \/ Started(x),
         \A x \in Xids : cbs'[x] = cbs[x] \/ Started(x)
  PROVE  CallTypes' /\ Fresh' /\ \A x \in Xids : Started(x) => Started(x)'
<1>1. CallTypes'
  BY DEF Shape, CallTypes
<1>2. \A x \in Xids : Started(x) <=> Started(x)'
  BY DEF Started
<1>. QED
  BY <1>1, <1>2 DEF Shape, Fresh

\* The same worker moves on to another operation.
LEMMA SameWork ==
  ASSUME NEW s \in IoRecords, NEW op \in Ops
  PROVE  LET t == [s EXCEPT !.op = op] IN
         t \in IoRecords /\ t.op = op /\ t.xid = s.xid /\ t.err = s.err /\ t.result = s.result
BY DEF IoRecords

LEMMA CalledBackWorks ==
  ASSUME CbTypes, NEW x \in Xids, NEW err \in CallErrs, CalledBack(x, err)
  PROVE  CbTypes' /\ \A y \in Xids : cbs'[y] = IF y = x THEN Append(cbs[y], err) ELSE cbs[y]
<1>1. cbs[x] \in Seq(CallErrs)
  BY DEF CbTypes
<1>2. Append(cbs[x], err) \in Seq(CallErrs)
  BY <1>1, AppendProperties
<1>3. cbs' = [cbs EXCEPT ![x] = Append(cbs[x], err)]
  BY DEF CalledBack
<1>. QED
  BY <1>2, <1>3 DEF CbTypes

LEMMA DoneWorks ==
  ASSUME CallerTypes, NEW x \in Xids, caller' = [caller EXCEPT ![x].done = TRUE]
  PROVE  CallerTypes' /\ \A y \in Xids : caller'[y].done = (caller[y].done \/ y = x)
BY DEF CallerTypes, CallerRecords

LEMMA DestroyWorks ==
  ASSUME CallerTypes, TimerTypes, NEW x \in Xids, Destroy(x)
  PROVE  /\ CallerTypes' /\ TimerTypes'
         /\ \A y \in Xids : caller'[y].done = (caller[y].done \/ y = x)
         /\ \A y \in Xids : timer'[y] = timer[y] \/ y = x
BY DEF CallerTypes, CallerRecords, TimerTypes, TimerStates, Destroy

LEMMA TouchWorks ==
  ASSUME crashed \in CrashStates, NEW x, Touch(x)
  PROVE  crashed' \in CrashStates
BY DEF Touch, CrashStates

\* One send operation more, one fewer, or one in another state.
LEMMA SendsWork ==
  ASSUME SendTypes, NEW x \in Xids, NEW s \in SendStates, NEW t \in SendStates, s # t
  PROVE  /\ sends' = [sends EXCEPT ![x][s] = @ + 1] => SendTypes'
         /\ sends[x][s] > 0 /\ sends' = [sends EXCEPT ![x][s] = @ - 1] => SendTypes'
         /\ sends[x][s] > 0 /\ sends' = Moved(x, s, t) => SendTypes'
<1>1. sends[x] \in [SendStates -> Nat] /\ sends[x][s] \in Nat /\ sends[x][t] \in Nat
  BY DEF SendTypes
<1>. DEFINE up == [sends[x] EXCEPT ![s] = @ + 1]
            down == [sends[x] EXCEPT ![s] = @ - 1]
            over == [sends[x] EXCEPT ![s] = @ - 1, ![t] = @ + 1]
<1>2. up \in [SendStates -> Nat]
  BY <1>1
<1>3. sends[x][s] > 0 => down \in [SendStates -> Nat]
  BY <1>1
<1>4. sends[x][s] > 0 => over \in [SendStates -> Nat]
  BY <1>1
<1>5. ASSUME NEW f \in [SendStates -> Nat], sends' = [sends EXCEPT ![x] = f]
      PROVE SendTypes'
  BY <1>5 DEF SendTypes
<1>6. ASSUME sends' = [sends EXCEPT ![x][s] = @ + 1] PROVE SendTypes'
  <2>1. sends' = [sends EXCEPT ![x] = up]
    BY <1>6
  <2>. QED
    BY <1>2, <1>5, <2>1
<1>7. ASSUME sends[x][s] > 0, sends' = [sends EXCEPT ![x][s] = @ - 1]
      PROVE SendTypes'
  <2>1. sends' = [sends EXCEPT ![x] = down]
    BY <1>7
  <2>. QED
    BY <1>3, <1>5, <1>7, <2>1
<1>8. ASSUME sends[x][s] > 0, sends' = Moved(x, s, t) PROVE SendTypes'
  <2>1. sends' = [sends EXCEPT ![x] = over]
    BY <1>8 DEF Moved
  <2>. QED
    BY <1>4, <1>5, <1>8, <2>1
<1>. QED
  BY <1>6, <1>7, <1>8

\* Steps of the application threads.
LEMMA CallsKeepShape ==
  ASSUME Shape,
         \/ \E proc \in AllProcs : CallStart(proc)
         \/ \E x \in Xids : AppThread(x)
  PROVE  Shape'
<1>. USE XidsAreNats
<1>1. ASSUME NEW proc \in AllProcs, CallStart(proc) PROVE Shape'
  <2>1. Register(proc) /\ UNCHANGED <<listening, io, bind_done, srv_nonce, xid_rep_window>>
        /\ UNCHANGED <<crashed, faults, got, cbs>>
    BY <1>1 DEF CallStart, ioVars, auxVars
  <2>2. /\ CallTypes' /\ CallerTypes' /\ TimerTypes' /\ SendTypes' /\ Fresh'
        /\ \A x \in Xids : Started(x) => Started(x)'
    BY <2>1, RegisterWorks
  <2>3. HandlersWork'
    BY <2>1, <2>2 DEF Shape, HandlersWork, GoodStep
  <2>4. IoTypes' /\ BindTypes' /\ WindowTypes' /\ FaultTypes' /\ CbTypes'
    BY <2>1 DEF Shape, IoTypes, BindTypes, WindowTypes, FaultTypes, CbTypes, NonDecreasing
  <2>. QED
    BY <2>2, <2>3, <2>4 DEF Shape
<1>2. ASSUME NEW x \in Xids, NEW c \in CallRecords, c.pc # "none", Started(x),
             call' = [call EXCEPT ![x] = c],
             UNCHANGED <<xid_, callers, caller, ioVars, faults, got, cbs>>,
             SendTypes', timer' = timer \/ timer' = [timer EXCEPT ![x] = "armed"],
             crashed' \in CrashStates
      PROVE Shape'
  <2>1. UNCHANGED <<listening, io, bind_done, srv_nonce, xid_rep_window, faults, got, cbs>>
    BY <1>2 DEF ioVars
  <2>2. TimerTypes' /\ \A y \in Xids : timer'[y] = timer[y] \/ Started(y)
    BY <1>2 DEF Shape, TimerTypes, TimerStates
  <2>3. CallTypes' /\ Fresh' /\ \A y \in Xids : Started(y) => Started(y)'
    BY <1>2, <2>2, CallGoesOn
  <2>4. HandlersWork'
    BY <2>1, <2>3 DEF Shape, HandlersWork, GoodStep
  <2>5. IoTypes' /\ BindTypes' /\ WindowTypes' /\ FaultTypes' /\ CbTypes' /\ CallerTypes'
    BY <1>2, <2>1 DEF Shape, IoTypes, BindTypes, WindowTypes, FaultTypes, CbTypes,
                      CallerTypes, NonDecreasing
  <2>. QED
    BY <1>2, <2>2, <2>3, <2>4, <2>5 DEF Shape
<1>3. ASSUME NEW x \in Xids, CallReadAck(x) PROVE Shape'
  <2>. DEFINE c == [call[x] EXCEPT !.pc = "acked", !.xid_rep = ReceivedXid(xid_rep_window)]
  <2>1. ReceivedXid(xid_rep_window) \in Nat
    BY NatSeq DEF Shape, WindowTypes, ReceivedXid
  <2>2. call[x] \in CallRecords
    BY DEF Shape, CallTypes
  <2>3. c \in CallRecords /\ c.pc = "acked"
    BY <2>1, <2>2 DEF CallRecords, CallPcs
  <2>4. call' = [call EXCEPT ![x] = c] /\ Started(x)
    BY <1>3, <2>2 DEF CallReadAck, Started, CallRecords
  <2>5. UNCHANGED <<xid_, callers, caller, timer, sends, ioVars, crashed, faults, got, cbs>>
    BY <1>3 DEF CallReadAck, auxVars
  <2>6. SendTypes' /\ crashed' \in CrashStates
    BY <2>5 DEF Shape, SendTypes, FaultTypes
  <2>. QED
    BY <1>2, <2>3, <2>4, <2>5, <2>6
<1>4. ASSUME NEW x \in Xids, CallSend(x) PROVE Shape'
  <2>. DEFINE c == [call[x] EXCEPT !.pc = "sent", !.srv_nonce = srv_nonce]
  <2>2. call[x] \in CallRecords
    BY DEF Shape, CallTypes
  <2>3. c \in CallRecords /\ c.pc = "sent"
    BY <2>2 DEF CallRecords, CallPcs, Shape, BindTypes
  <2>4. call' = [call EXCEPT ![x] = c] /\ Started(x)
    BY <1>4, <2>2 DEF CallSend, Started, CallRecords
  <2>5. UNCHANGED <<xid_, callers, caller, timer, ioVars, crashed, faults, got, cbs>>
    BY <1>4 DEF CallSend, auxVars
  <2>6. SendTypes'
    <3>1. "queued" \in SendStates /\ "connecting" \in SendStates
      BY DEF SendStates
    <3>. QED
      BY <1>4, <3>1, SendsWork DEF CallSend, Queued, Shape
  <2>7. crashed' \in CrashStates
    BY <2>5 DEF Shape, FaultTypes
  <2>. QED
    BY <1>2, <2>3, <2>4, <2>5, <2>6, <2>7
<1>5. ASSUME NEW x \in Xids, CallWait(x) PROVE Shape'
  <2>. DEFINE c == [call[x] EXCEPT !.pc = "returned"]
  <2>2. call[x] \in CallRecords
    BY DEF Shape, CallTypes
  <2>3. c \in CallRecords /\ c.pc = "returned"
    BY <2>2 DEF CallRecords, CallPcs
  <2>4. call' = [call EXCEPT ![x] = c] /\ Started(x)
    BY <1>5, <2>2 DEF CallWait, Started, CallRecords
  <2>5. UNCHANGED <<xid_, callers, caller, sends, ioVars, faults, got, cbs>>
    BY <1>5 DEF CallWait
  <2>6. timer' = timer \/ timer' = [timer EXCEPT ![x] = "armed"]
    BY <1>5 DEF CallWait
  <2>7. SendTypes' /\ crashed' \in CrashStates
    BY <1>5, <2>5, TouchWorks DEF Shape, SendTypes, FaultTypes, CallWait
  <2>. QED
    BY <1>2, <2>3, <2>4, <2>5, <2>6, <2>7
<1>. QED
  BY <1>1, <1>3, <1>4, <1>5 DEF AppThread

\* Steps of sockets, timers and the server.
LEMMA EnvironmentKeepsShape ==
  ASSUME Shape, Environment
  PROVE  Shape'
<1>. USE XidsAreNats
<1>1. ASSUME UNCHANGED <<xid_, callers, call, caller, io, bind_done, srv_nonce,
                         xid_rep_window, got, cbs>>,
             \A x \in Xids : timer'[x] = timer[x] \/ Started(x),
             TimerTypes', SendTypes', FaultTypes'
      PROVE  Shape'
  <2>1. CallTypes' /\ Fresh' /\ \A x \in Xids : Started(x) => Started(x)'
    BY <1>1, CallsStay
  <2>2. HandlersWork'
    BY <1>1, <2>1 DEF Shape, HandlersWork, GoodStep
  <2>3. IoTypes' /\ BindTypes' /\ WindowTypes' /\ CbTypes' /\ CallerTypes'
    BY <1>1 DEF Shape, IoTypes, BindTypes, WindowTypes, CbTypes, CallerTypes, NonDecreasing
  <2>. QED
    BY <1>1, <2>1, <2>2, <2>3 DEF Shape
<1>2. ASSUME NEW x \in Xids, TimerExpires(x) PROVE Shape'
  <2>1. /\ UNCHANGED <<xid_, callers, call, caller, sends, listening, io, bind_done,
                       srv_nonce, xid_rep_window, crashed, faults, got, cbs>>
        /\ timer' = [timer EXCEPT ![x] = "expired"] /\ timer[x] = "armed"
    BY <1>2 DEF TimerExpires, ioVars, auxVars
  <2>2. Started(x)
    BY <2>1 DEF Shape, Fresh
  <2>3. TimerTypes' /\ \A y \in Xids : timer'[y] = timer[y] \/ Started(y)
    BY <2>1, <2>2 DEF Shape, TimerTypes, TimerStates
  <2>4. SendTypes' /\ FaultTypes'
    BY <2>1 DEF Shape, SendTypes, FaultTypes
  <2>. QED
    BY <1>1, <2>1, <2>3, <2>4
<1>3. ASSUME NEW x \in Xids, NEW e \in {"OK"} \cup SendErrs, SendResolves(x, e) PROVE Shape'
  <2>1. /\ UNCHANGED <<xid_, callers, call, caller, timer, listening, io, bind_done,
                       srv_nonce, xid_rep_window, crashed, got, cbs>>
        /\ sends[x]["queued"] > 0 /\ sends' = Moved(x, "queued", e)
        /\ faults' = faults \/ (faults < MaxFaults /\ faults' = faults + 1)
    BY <1>3 DEF SendResolves, ioVars
  <2>2. "queued" \in SendStates /\ e \in SendStates /\ e # "queued"
    BY SendErrsAssumption DEF SendStates
  <2>3. SendTypes'
    BY <2>1, <2>2, SendsWork DEF Shape
  <2>4. TimerTypes' /\ FaultTypes'
    BY <2>1, BoundsAssumption DEF Shape, TimerTypes, FaultTypes
  <2>. QED
    BY <1>1, <2>1, <2>3, <2>4
<1>4. ASSUME NEW x \in Xids, NEW ok \in BOOLEAN, Reconnected(x, ok) PROVE Shape'
  <2>1. /\ UNCHANGED <<xid_, callers, call, caller, timer, io, bind_done,
                       srv_nonce, xid_rep_window, faults, got, cbs>>
        /\ \/ sends' = sends
           \/ sends[x]["connecting"] > 0 /\ sends' = Moved(x, "connecting", "queued")
        /\ listening' \in {0, listening}
        /\ Touch(x) \/ crashed' = "cannot connect to server"
    BY <1>4 DEF Reconnected
  <2>2. "queued" \in SendStates /\ "connecting" \in SendStates
    BY DEF SendStates
  <2>3. SendTypes'
    <3>1. sends' = sends => SendTypes'
      BY DEF Shape, SendTypes
    <3>. QED
      BY <2>1, <2>2, <3>1, SendsWork DEF Shape
  <2>4. crashed' \in CrashStates
    BY <2>1, TouchWorks DEF Shape, FaultTypes, CrashStates
  <2>5. TimerTypes' /\ FaultTypes'
    <3>1. listening \in Nat /\ listening' \in {0, listening}
      BY <2>1 DEF Shape, FaultTypes
    <3>2. listening' \in Nat
      BY <3>1
    <3>. QED
      BY <2>1, <2>4, <3>2 DEF Shape, TimerTypes, FaultTypes
  <2>. QED
    BY <1>1, <2>1, <2>3, <2>5
<1>5. ASSUME NEW w \in Workers, ReceiveFails(w) PROVE Shape'
  <2>1. /\ UNCHANGED <<xid_, callers, call, caller, timer, sends, io, bind_done,
                       srv_nonce, xid_rep_window, crashed, faults, got, cbs>>
        /\ listening > 0 /\ listening' = listening - 1
    BY <1>5 DEF ReceiveFails, callVars, auxVars
  <2>2. TimerTypes' /\ SendTypes' /\ FaultTypes'
    BY <2>1 DEF Shape, TimerTypes, SendTypes, FaultTypes
  <2>. QED
    BY <1>1, <2>1, <2>2
<1>6. ASSUME NEW w \in Workers, NEW rep \in Answers, ReceiveReply(w, rep) PROVE Shape'
  <2>1. /\ UNCHANGED <<xid_, callers, call, caller, timer, sends, bind_done,
                       srv_nonce, xid_rep_window, crashed, faults, got, cbs>>
        /\ listening > 0 /\ listening' = listening - 1
        /\ Goto(w, Step("update", rep.xid, rep.err, rep.result))
    BY <1>6 DEF ReceiveReply, callVars, auxVars
  <2>2. /\ rep.xid \in Xids /\ Started(rep.xid) /\ rep.result \in Nat
        /\ rep.err \in HandlerErrs \cup Refusals
    BY ResultsAssumption DEF Answers, Started
  <2>. DEFINE s == Step("update", rep.xid, rep.err, rep.result)
  <2>3. s.op = "update" /\ s.xid = rep.xid /\ s.err = rep.err /\ s.result = rep.result
    BY StepIs
  <2>4. s \in IoRecords
    BY <2>2 DEF IoRecords, Step, Ops, CallErrs
  <2>. HIDE DEF s
  <2>5. GoodStep(s)
    BY <2>2, <2>3, SendErrsAssumption DEF GoodStep
  <2>6. CallTypes' /\ Fresh' /\ \A x \in Xids : Started(x) => Started(x)'
    BY <2>1, CallsStay
  <2>7. IoTypes' /\ HandlersWork'
    BY <2>1, <2>4, <2>5, <2>6, GotoWorks DEF Shape, s
  <2>8. /\ TimerTypes' /\ SendTypes' /\ FaultTypes' /\ BindTypes' /\ WindowTypes'
        /\ CbTypes' /\ CallerTypes'
    BY <2>1 DEF Shape, TimerTypes, SendTypes, FaultTypes, BindTypes, WindowTypes, CbTypes,
                CallerTypes, NonDecreasing
  <2>. QED
    BY <2>6, <2>7, <2>8 DEF Shape
<1>. QED
  BY <1>2, <1>3, <1>4, <1>5, <1>6 DEF Environment

\* A step of a handler that leaves xids and headers alone.
LEMMA HandlerKeepsShape ==
  ASSUME Shape, NEW w \in Workers, NEW s \in IoRecords, GoodStep(s), Goto(w, s),
         UNCHANGED <<xid_, call>>, callers' \in SUBSET callers,
         \A x \in Xids : timer'[x] = timer[x] \/ Started(x),
         \A x \in Xids : cbs'[x] = cbs[x] \/ Started(x),
         CallerTypes', TimerTypes', SendTypes', BindTypes', WindowTypes', FaultTypes', CbTypes'
  PROVE  Shape'
<1>1. CallTypes' /\ Fresh' /\ \A x \in Xids : Started(x) => Started(x)'
  BY CallsStay
<1>2. IoTypes' /\ HandlersWork'
  BY <1>1, GotoWorks DEF Shape
<1>. QED
  BY <1>1, <1>2 DEF Shape

\* What a worker does after an error.
LEMMA AfterErrorWorks ==
  ASSUME NEW x \in Xids, Started(x)
  PROVE  AfterError(x) \in IoRecords /\ GoodStep(AfterError(x))
         /\ AfterError(x).op \in {"idle", "rebind"}
<1>. DEFINE r == Step("rebind", x, "OK", 0)
<1>1. r \in IoRecords
  BY HandlerErrsAssumption DEF IoRecords, Step, Ops, CallErrs
<1>2. r.op = "rebind" /\ r.xid = x
  BY StepIs
<1>3. GoodStep(r)
  BY <1>2 DEF GoodStep
<1>. QED
  BY <1>1, <1>2, <1>3, IdleIs DEF AfterError

\* The steps of GotPdu.
LEMMA GotPduKeepsShape ==
  ASSUME Shape, NEW w \in Workers,
         UpdateXidRep(w) \/ TakeCaller(w) \/ FinishCaller(w) \/ Callback(w)
  PROVE  Shape'
<1>. USE XidsAreNats
<1>. DEFINE x == io[w].xid
<1>1. /\ io[w] \in IoRecords /\ GoodStep(io[w])
      /\ io[w].op # "idle" => x \in Xids /\ Started(x)
      /\ io[w].err \in CallErrs /\ io[w].result \in Nat
  BY DEF Shape, IoTypes, HandlersWork, GoodStep, IoRecords
<1>2. ASSUME UpdateXidRep(w) PROVE Shape'
  <2>. DEFINE s == [io[w] EXCEPT !.op = "lookup"]
  <2>1. /\ UNCHANGED <<xid_, callers, call, caller, timer, sends, listening, bind_done,
                       srv_nonce, crashed, faults, cbs>>
        /\ xid_rep_window' = UpdatedXidRep(xid_rep_window, x)
        /\ got' = got \cup {x} /\ Goto(w, s) /\ io[w].op = "update"
    BY <1>2 DEF UpdateXidRep, callVars
  <2>2. x \in Xids
    BY <1>1, <2>1
  <2>3. "lookup" \in Ops
    BY DEF Ops
  <2>4. s \in IoRecords /\ s.op = "lookup" /\ s.xid = x /\ s.err = io[w].err
    BY <1>1, <2>3, SameWork
  <2>5. GoodStep(s)
    BY <1>1, <2>1, <2>4 DEF GoodStep
  <2>6. xid_rep_window' \in Seq(Xids) /\ NonDecreasing(xid_rep_window')
    BY <2>1, <2>2, UpdatedXidRepIs DEF Shape, WindowTypes
  <2>7. WindowTypes'
    BY <2>1, <2>2, <2>6 DEF Shape, WindowTypes, NonDecreasing
  <2>8. CallerTypes' /\ TimerTypes' /\ SendTypes' /\ BindTypes' /\ FaultTypes' /\ CbTypes'
    BY <2>1 DEF Shape, CallerTypes, TimerTypes, SendTypes, BindTypes, FaultTypes, CbTypes
  <2>. HIDE DEF s
  <2>. QED
    BY <2>1, <2>4, <2>5, <2>7, <2>8, HandlerKeepsShape
<1>3. ASSUME TakeCaller(w) PROVE Shape'
  <2>. DEFINE s == IF x \in callers THEN [io[w] EXCEPT !.op = "finish"] ELSE Idle
  <2>1. /\ UNCHANGED <<xid_, call, caller, timer, sends, listening, bind_done, srv_nonce,
                       xid_rep_window, crashed, faults, got, cbs>>
        /\ callers' = callers \ {x} /\ Goto(w, s) /\ io[w].op = "lookup"
    BY <1>3 DEF TakeCaller, auxVars
  <2>2. "finish" \in Ops
    BY DEF Ops
  <2>3. LET t == [io[w] EXCEPT !.op = "finish"] IN
        t \in IoRecords /\ t.op = "finish" /\ t.xid = x /\ t.err = io[w].err
    BY <1>1, <2>2, SameWork
  <2>4. GoodStep([io[w] EXCEPT !.op = "finish"])
    BY <1>1, <2>1, <2>3 DEF GoodStep
  <2>5. s \in IoRecords /\ GoodStep(s)
    BY <2>3, <2>4, IdleIs
  <2>6. /\ CallerTypes' /\ TimerTypes' /\ SendTypes' /\ BindTypes' /\ WindowTypes'
        /\ FaultTypes' /\ CbTypes'
    BY <2>1 DEF Shape, CallerTypes, TimerTypes, SendTypes, BindTypes, FaultTypes, CbTypes,
                WindowTypes, NonDecreasing
  <2>. HIDE DEF s
  <2>. QED
    BY <2>1, <2>5, <2>6, HandlerKeepsShape
<1>4. ASSUME FinishCaller(w) PROVE Shape'
  <2>. DEFINE s == [io[w] EXCEPT !.op = "callback"]
  <2>1. /\ UNCHANGED <<xid_, callers, call, sends, listening, bind_done, srv_nonce,
                       xid_rep_window, crashed, faults, got, cbs>>
        /\ io[w].op = "finish"
        /\ \/ Destroy(x) /\ Goto(w, Idle)
           \/ /\ caller' = [caller EXCEPT ![x].done = TRUE] /\ timer' = timer
              /\ Goto(w, s)
    BY <1>4 DEF FinishCaller, auxVars
  <2>2. x \in Xids /\ Started(x)
    BY <1>1, <2>1
  <2>3. "callback" \in Ops
    BY DEF Ops
  <2>4. s \in IoRecords /\ s.op = "callback" /\ s.xid = x /\ s.err = io[w].err
    BY <1>1, <2>3, SameWork
  <2>5. GoodStep(s)
    BY <1>1, <2>1, <2>4 DEF GoodStep
  <2>6. SendTypes' /\ BindTypes' /\ WindowTypes' /\ FaultTypes' /\ CbTypes'
    BY <2>1 DEF Shape, SendTypes, BindTypes, FaultTypes, CbTypes, WindowTypes, NonDecreasing
  <2>. HIDE DEF s
  <2>7. CASE Destroy(x) /\ Goto(w, Idle)
    BY <2>1, <2>2, <2>6, <2>7, IdleIs, DestroyWorks, HandlerKeepsShape DEF Shape
  <2>8. CASE caller' = [caller EXCEPT ![x].done = TRUE] /\ timer' = timer /\ Goto(w, s)
    <3>1. CallerTypes' /\ TimerTypes'
      BY <2>2, <2>8, DoneWorks DEF Shape, TimerTypes
    <3>. QED
      BY <2>1, <2>4, <2>5, <2>6, <2>8, <3>1, HandlerKeepsShape
  <2>. QED
    BY <2>1, <2>7, <2>8
<1>5. ASSUME Callback(w) PROVE Shape'
  <2>1. /\ UNCHANGED <<xid_, callers, call, sends, listening, xid_rep_window, faults, got>>
        /\ io[w].op = "callback"
    BY <1>5 DEF Callback
  <2>2. x \in Xids /\ Started(x)
    BY <1>1, <2>1
  <2>3. SendTypes' /\ WindowTypes'
    BY <2>1 DEF Shape, SendTypes, WindowTypes, NonDecreasing
  <2>4. CASE io[w].result = 0
    <3>0. ~ (io[w].result > 0)
      BY <2>4
    <3>1. UNCHANGED <<caller, timer, io, bind_done, srv_nonce, cbs>>
          /\ crashed' = "no result to extract"
      BY <1>5, <3>0, Zenon DEF Callback
    <3>2. Goto(w, io[w])
      BY <3>1 DEF Goto, Shape, IoTypes
    <3>3. /\ CallerTypes' /\ TimerTypes' /\ BindTypes' /\ FaultTypes' /\ CbTypes'
      BY <2>1, <3>1 DEF Shape, CallerTypes, TimerTypes, BindTypes, FaultTypes, CbTypes,
                        CrashStates
    <3>. QED
      BY <1>1, <2>1, <2>3, <3>1, <3>2, <3>3, HandlerKeepsShape
  <2>5. CASE io[w].result # 0
    <3>. DEFINE s == IF io[w].err = "OK" THEN Idle ELSE AfterError(x)
    <3>1. CalledBack(x, io[w].err) /\ Destroy(x) /\ Goto(w, s) /\ crashed' = crashed
          /\ bind_done' \in {TRUE, bind_done} /\ srv_nonce' \in {io[w].result, srv_nonce}
      BY <1>5, <2>5 DEF Callback
    <3>2. s \in IoRecords /\ GoodStep(s)
      BY <2>2, IdleIs, AfterErrorWorks
    <3>. HIDE DEF s
    <3>3. CbTypes' /\ \A y \in Xids : cbs'[y] = cbs[y] \/ Started(y)
      BY <1>1, <2>2, <3>1, CalledBackWorks DEF Shape
    <3>4. CallerTypes' /\ TimerTypes' /\ \A y \in Xids : timer'[y] = timer[y] \/ Started(y)
      BY <2>2, <3>1, DestroyWorks DEF Shape
    <3>5. BindTypes' /\ FaultTypes'
      BY <1>1, <2>1, <3>1 DEF Shape, BindTypes, FaultTypes
    <3>. QED
      BY <2>1, <2>3, <3>1, <3>2, <3>3, <3>4, <3>5, HandlerKeepsShape
  <2>. QED
    BY <2>4, <2>5
<1>. QED
  BY <1>2, <1>3, <1>4, <1>5

\* OnTimerExpired, OnSendFinished and the Bind callback.
LEMMA OthersKeepShape ==
  ASSUME Shape, NEW w \in Workers,
         \/ Resend(w) \/ RetrySend(w) \/ GiveUp(w) \/ FailCallback(w) \/ Rebind(w)
         \/ \E x \in Xids : OnTimerExpired(w, x) \/ SendSucceeded(w, x)
         \/ \E x \in Xids, e \in SendErrs : SendFailed(w, x, e)
  PROVE  Shape'
<1>. USE XidsAreNats
<1>1. /\ io[w] \in IoRecords /\ GoodStep(io[w])
      /\ io[w].op # "idle" => io[w].xid \in Xids /\ Started(io[w].xid)
      /\ io[w].err \in CallErrs
  BY DEF Shape, IoTypes, HandlersWork, GoodStep, IoRecords
<1>2. "queued" \in SendStates /\ "connecting" \in SendStates /\ "OK" \in SendStates
      /\ SendErrs \subseteq SendStates /\ SendErrs \subseteq CallErrs /\ "OK" \in CallErrs
      /\ "TIMEOUT_FAILURE" \in CallErrs
  BY HandlerErrsAssumption DEF SendStates, CallErrs
\* What the handlers below leave alone.
<1>3. ASSUME NEW s \in IoRecords, GoodStep(s), Goto(w, s),
             UNCHANGED <<xid_, call, callers, bind_done, srv_nonce, xid_rep_window, faults, got>>,
             \A x \in Xids : timer'[x] = timer[x] \/ Started(x),
             \A x \in Xids : cbs'[x] = cbs[x] \/ Started(x),
             CallerTypes', TimerTypes', SendTypes', CbTypes', listening' \in Nat,
             crashed' \in CrashStates
      PROVE  Shape'
  <2>1. BindTypes' /\ WindowTypes' /\ FaultTypes'
    BY <1>3 DEF Shape, BindTypes, WindowTypes, FaultTypes, NonDecreasing
  <2>. QED
    BY <1>3, <2>1, HandlerKeepsShape
<1>4. ASSUME NEW x \in Xids, OnTimerExpired(w, x) PROVE Shape'
  <2>1. /\ UNCHANGED <<xid_, callers, call, sends, listening, bind_done, srv_nonce,
                       xid_rep_window, faults, got>>
        /\ timer' = [timer EXCEPT ![x] = "ran"] /\ timer[x] = "expired" /\ Touch(x)
        /\ io[w] = Idle
    BY <1>4 DEF OnTimerExpired
  <2>2. Started(x)
    BY <2>1 DEF Shape, Fresh
  <2>3. TimerTypes' /\ \A y \in Xids : timer'[y] = timer[y] \/ Started(y)
    BY <2>1, <2>2 DEF Shape, TimerTypes, TimerStates
  <2>4. SendTypes' /\ listening' \in Nat /\ crashed' \in CrashStates
    BY <2>1, TouchWorks DEF Shape, SendTypes, FaultTypes
  <2>5. CASE UNCHANGED <<caller, io, cbs>>
    <3>1. Goto(w, Idle) /\ CallerTypes' /\ CbTypes'
      BY <2>1, <2>5 DEF Goto, Shape, IoTypes, CallerTypes, CbTypes
    <3>. QED
      BY <1>3, <2>1, <2>3, <2>4, <2>5, <3>1, IdleIs
  <2>6. CASE /\ caller' = [caller EXCEPT ![x].done = TRUE]
             /\ CalledBack(x, "TIMEOUT_FAILURE") /\ Goto(w, AfterError(x))
    <3>1. CallerTypes' /\ CbTypes' /\ \A y \in Xids : cbs'[y] = cbs[y] \/ Started(y)
      BY <1>2, <2>2, <2>6, DoneWorks, CalledBackWorks DEF Shape
    <3>. QED
      BY <1>3, <2>1, <2>2, <2>3, <2>4, <2>6, <3>1, AfterErrorWorks
  <2>7. CASE Goto(w, Step("resend", x, "OK", 0)) /\ UNCHANGED <<caller, cbs>>
    <3>. DEFINE s == Step("resend", x, "OK", 0)
    <3>1. s \in IoRecords
      BY HandlerErrsAssumption DEF IoRecords, Step, Ops, CallErrs
    <3>2. GoodStep(s)
      BY <2>2, StepIs DEF GoodStep
    <3>3. CallerTypes' /\ CbTypes'
      BY <2>7 DEF Shape, CallerTypes, CbTypes
    <3>. HIDE DEF s
    <3>. QED
      BY <1>3, <2>1, <2>3, <2>4, <2>7, <3>1, <3>2, <3>3 DEF s
  <2>. QED
    BY <1>4, <2>5, <2>6, <2>7, Zenon DEF OnTimerExpired
<1>5. ASSUME NEW x \in Xids, NEW s \in IoRecords, GoodStep(s), Goto(w, s),
             UNCHANGED <<xid_, callers, call, caller, timer, bind_done,
                         srv_nonce, xid_rep_window, faults, got, cbs>>,
             SendTypes', listening' \in Nat, crashed' \in CrashStates
      PROVE  Shape'
  <2>1. CallerTypes' /\ TimerTypes' /\ CbTypes'
    BY <1>5 DEF Shape, CallerTypes, TimerTypes, CbTypes
  <2>. QED
    BY <1>3, <1>5, <2>1
<1>6. ASSUME Resend(w) PROVE Shape'
  <2>1. /\ UNCHANGED <<xid_, callers, call, caller, timer, listening, bind_done,
                       srv_nonce, xid_rep_window, faults, got, cbs>>
        /\ io[w].op = "resend" /\ sends' = Queued(io[w].xid) /\ Touch(io[w].xid) /\ Goto(w, Idle)
    BY <1>6 DEF Resend
  <2>2. io[w].xid \in Xids
    BY <1>1, <2>1
  <2>3. SendTypes'
    BY <1>2, <2>1, <2>2, SendsWork DEF Queued, Shape
  <2>4. listening' \in Nat /\ crashed' \in CrashStates
    BY <2>1, TouchWorks DEF Shape, FaultTypes
  <2>. QED
    BY <1>5, <2>1, <2>2, <2>3, <2>4, IdleIs
<1>7. ASSUME RetrySend(w) PROVE Shape'
  <2>. DEFINE to == IF io[w].err = "BROKEN_PIPE" THEN "connecting" ELSE "queued"
  <2>1. /\ UNCHANGED <<xid_, callers, call, caller, timer, listening, bind_done,
                       srv_nonce, xid_rep_window, faults, got, cbs>>
        /\ io[w].op = "sendfailed" /\ sends' = [sends EXCEPT ![io[w].xid][to] = @ + 1]
        /\ Touch(io[w].xid) /\ Goto(w, Idle)
    BY <1>7 DEF RetrySend
  <2>2. io[w].xid \in Xids
    BY <1>1, <2>1
  <2>3. SendTypes'
    <3>1. to \in SendStates /\ "OK" # to
      BY <1>2
    <3>. HIDE DEF to
    <3>. QED
      BY <1>2, <2>1, <2>2, <3>1, SendsWork DEF Shape
  <2>4. listening' \in Nat /\ crashed' \in CrashStates
    BY <2>1, TouchWorks DEF Shape, FaultTypes
  <2>. QED
    BY <1>5, <2>1, <2>2, <2>3, <2>4, IdleIs
<1>8. ASSUME NEW x \in Xids, SendSucceeded(w, x) PROVE Shape'
  <2>1. /\ UNCHANGED <<xid_, callers, call, caller, timer, io, bind_done,
                       srv_nonce, xid_rep_window, crashed, faults, got, cbs>>
        /\ io[w] = Idle /\ sends[x]["OK"] > 0 /\ sends' = [sends EXCEPT ![x]["OK"] = @ - 1]
        /\ listening' = listening + 1
    BY <1>8 DEF SendSucceeded, auxVars
  <2>2. SendTypes'
    BY <1>2, <2>1, SendsWork DEF Shape
  <2>3. listening' \in Nat /\ crashed' \in CrashStates /\ Goto(w, Idle)
    BY <2>1 DEF Shape, FaultTypes, IoTypes, Goto
  <2>. QED
    BY <1>5, <2>1, <2>2, <2>3, IdleIs
<1>9. ASSUME NEW x \in Xids, NEW e \in SendErrs, SendFailed(w, x, e) PROVE Shape'
  <2>. DEFINE s == Step("sendfailed", x, e, 0)
  <2>1. /\ UNCHANGED <<xid_, callers, call, caller, timer, listening, bind_done,
                       srv_nonce, xid_rep_window, crashed, faults, got, cbs>>
        /\ sends[x][e] > 0 /\ sends' = [sends EXCEPT ![x][e] = @ - 1]
        /\ Goto(w, IF x \in callers THEN s ELSE Idle)
    BY <1>9 DEF SendFailed, auxVars
  <2>2. SendTypes'
    <3>1. e \in SendStates /\ e # "OK"
      BY <1>2, SendErrsAssumption
    <3>. QED
      BY <1>2, <2>1, <3>1, SendsWork DEF Shape
  <2>3. listening' \in Nat /\ crashed' \in CrashStates
    BY <2>1 DEF Shape, FaultTypes
  <2>4. s \in IoRecords
    BY <1>2 DEF IoRecords, Step, Ops
  <2>5. x \in callers => GoodStep(s)
    <3>1. s.op = "sendfailed" /\ s.xid = x /\ s.err = e
      BY StepIs
    <3>2. x \in callers => Started(x)
      BY DEF Shape, Fresh
    <3>. HIDE DEF s
    <3>. QED
      BY <3>1, <3>2 DEF GoodStep
  <2>. HIDE DEF s
  <2>. QED
    BY <1>5, <2>1, <2>2, <2>3, <2>4, <2>5, IdleIs
<1>10. ASSUME GiveUp(w) PROVE Shape'
  <2>. DEFINE s == [io[w] EXCEPT !.op = "failcallback"]
  <2>1. /\ UNCHANGED <<xid_, callers, call, timer, sends, listening, bind_done,
                       srv_nonce, xid_rep_window, faults, got, cbs>>
        /\ io[w].op = "sendfailed" /\ caller' = [caller EXCEPT ![io[w].xid].done = TRUE]
        /\ Goto(w, s) /\ Touch(io[w].xid) /\ ~Retrans
    BY <1>10 DEF GiveUp
  <2>2. "failcallback" \in Ops
    BY DEF Ops
  <2>3. s \in IoRecords /\ s.op = "failcallback" /\ s.xid = io[w].xid /\ s.err = io[w].err
    BY <1>1, <2>2, SameWork
  <2>4. GoodStep(s)
    BY <1>1, <2>1, <2>3 DEF GoodStep
  <2>5. CallerTypes' /\ TimerTypes' /\ SendTypes' /\ CbTypes'
    BY <1>1, <2>1, DoneWorks DEF Shape, TimerTypes, SendTypes, CbTypes
  <2>6. listening' \in Nat /\ crashed' \in CrashStates
    BY <2>1, TouchWorks DEF Shape, FaultTypes
  <2>. HIDE DEF s
  <2>. QED
    BY <1>3, <2>1, <2>3, <2>4, <2>5, <2>6
<1>11. ASSUME FailCallback(w) PROVE Shape'
  <2>1. /\ UNCHANGED <<xid_, callers, call, caller, timer, sends, listening, bind_done,
                       srv_nonce, xid_rep_window, faults, got>>
        /\ io[w].op = "failcallback" /\ CalledBack(io[w].xid, io[w].err)
        /\ Goto(w, AfterError(io[w].xid)) /\ Touch(io[w].xid)
    BY <1>11 DEF FailCallback, callVars
  <2>2. io[w].xid \in Xids /\ Started(io[w].xid)
    BY <1>1, <2>1
  <2>3. CbTypes' /\ \A y \in Xids : cbs'[y] = cbs[y] \/ Started(y)
    BY <1>1, <2>1, <2>2, CalledBackWorks DEF Shape
  <2>4. CallerTypes' /\ TimerTypes' /\ SendTypes'
    BY <2>1 DEF Shape, CallerTypes, TimerTypes, SendTypes
  <2>5. listening' \in Nat /\ crashed' \in CrashStates
    BY <2>1, TouchWorks DEF Shape, FaultTypes
  <2>. QED
    BY <1>3, <2>1, <2>2, <2>3, <2>4, <2>5, AfterErrorWorks
<1>12. ASSUME Rebind(w) PROVE Shape'
  <2>1. /\ UNCHANGED <<listening, bind_done, srv_nonce, xid_rep_window, crashed, faults,
                       got, cbs>>
        /\ Goto(w, Idle)
        /\ UNCHANGED <<xid_, callers, call, caller, timer, sends>> \/ Register(BIND)
    BY <1>12 DEF Rebind, callVars, auxVars
  <2>2. CASE UNCHANGED <<xid_, callers, call, caller, timer, sends>>
    <3>1. SendTypes' /\ listening' \in Nat /\ crashed' \in CrashStates
      BY <2>1, <2>2 DEF Shape, SendTypes, FaultTypes
    <3>2. CallerTypes' /\ TimerTypes' /\ CbTypes'
      BY <2>1, <2>2 DEF Shape, CallerTypes, TimerTypes, CbTypes
    <3>. QED
      BY <1>3, <2>1, <2>2, <3>1, <3>2, IdleIs
  <2>3. CASE Register(BIND)
    <3>1. BIND \in AllProcs
      BY DEF AllProcs
    <3>2. /\ CallTypes' /\ CallerTypes' /\ TimerTypes' /\ SendTypes' /\ Fresh'
          /\ \A x \in Xids : Started(x) => Started(x)'
      BY <2>1, <2>3, <3>1, RegisterWorks
    <3>3. IoTypes' /\ HandlersWork'
      BY <2>1, <3>2, IdleIs, GotoWorks DEF Shape
    <3>4. BindTypes' /\ WindowTypes' /\ FaultTypes' /\ CbTypes'
      BY <2>1 DEF Shape, BindTypes, WindowTypes, FaultTypes, CbTypes, NonDecreasing
    <3>. QED
      BY <3>2, <3>3, <3>4 DEF Shape
  <2>. QED
    BY <2>1, <2>2, <2>3
<1>. QED
  BY <1>4, <1>6, <1>7, <1>8, <1>9, <1>10, <1>11, <1>12

LEMMA ShapeStep == Shape /\ [Next]_vars => Shape'
<1>. SUFFICES ASSUME Shape, [Next]_vars PROVE Shape'
  OBVIOUS
<1>1. CASE UNCHANGED vars
  <2>1. UNCHANGED <<xid_, callers, call, caller, timer, sends>>
        /\ UNCHANGED <<listening, io, bind_done, srv_nonce, xid_rep_window>>
        /\ UNCHANGED <<crashed, faults, got, cbs>>
    BY <1>1 DEF vars, callVars, ioVars, auxVars
  <2>. QED
    BY <2>1 DEF Shape, CallTypes, CallerTypes, TimerTypes, SendTypes, IoTypes, BindTypes,
        WindowTypes, FaultTypes, CbTypes, HandlersWork, GoodStep, Fresh, Started, NonDecreasing
<1>2. CASE Next
  BY <1>2, CallsKeepShape, EnvironmentKeepsShape, GotPduKeepsShape, OthersKeepShape
     DEF Next, Worker
<1>. QED
  BY <1>1, <1>2

\* Every call, Caller, timer, send operation and handler is in a state the
\* code has for it, whatever the threads do to each other: no counter of
\* operations drops below zero and no handler works on an xid without a call.
THEOREM TypeCorrect == Spec => []TypeOK
<1>1. Spec => []Shape
  BY ShapeInit, ShapeStep, PTL DEF Spec
<1>. QED
  BY <1>1, ShapeHasTypes, PTL

-----------------------------------------------------------------------------
(* What a step means for the outcome of a call: every step of the client   *)
(* is one of those below, and no other reaches done_, callers_ or a        *)
(* callback.                                                               *)

InFinish(w, x) == io[w].op = "finish" /\ io[w].xid = x
InCallback(w, x) == io[w].op = "callback" /\ io[w].xid = x

Same(x) == /\ x \in callers' <=> x \in callers
           /\ caller'[x].done = caller[x].done
           /\ cbs'[x] = cbs[x]
           /\ Started(x)' <=> Started(x)
SameWorker(w) == \A x \in Xids : /\ InFinish(w, x)' <=> InFinish(w, x)
                                 /\ InCallback(w, x)' <=> InCallback(w, x)
Leaves(w) == \A x \in Xids : ~InFinish(w, x)' /\ ~InCallback(w, x)'
OnlyCall(x) == \A y \in Xids \ {x} : Same(y)
OnlyWorker(w) == \A u \in Workers \ {w} : SameWorker(u)

\* Nothing happens to any call, or one is given up by OnSendFinished.
Quiet == \A w \in Workers : SameWorker(w)
GivenUp(x) == /\ ~Retrans /\ Quiet /\ OnlyCall(x)
              /\ x \in callers' <=> x \in callers
              /\ caller'[x].done /\ cbs'[x] = cbs[x]
              /\ Started(x) /\ Started(x)'
NewCall(x) == /\ Quiet /\ OnlyCall(x) /\ ~Started(x) /\ Started(x)'
              /\ x \in callers' /\ ~caller'[x].done /\ cbs'[x] = cbs[x]
\* GotPdu takes the Caller of x, finds it done, or sets done_ itself.
Takes(w, x) == /\ OnlyCall(x) /\ OnlyWorker(w) /\ x \in callers /\ x \notin callers'
               /\ caller'[x].done = caller[x].done /\ cbs'[x] = cbs[x]
               /\ Started(x) /\ Started(x)'
               /\ \A y \in Xids : ~InFinish(w, y) /\ ~InCallback(w, y) /\ ~InCallback(w, y)'
               /\ \A y \in Xids : InFinish(w, y)' <=> y = x
TooLate(w, x) == /\ \A y \in Xids : Same(y)
                 /\ OnlyWorker(w) /\ Leaves(w) /\ InFinish(w, x) /\ caller[x].done
Claims(w, x) == /\ OnlyCall(x) /\ OnlyWorker(w) /\ InFinish(w, x)
                /\ ~caller[x].done /\ caller'[x].done /\ cbs'[x] = cbs[x]
                /\ x \in callers' <=> x \in callers
                /\ Started(x)' <=> Started(x)
                /\ \A y \in Xids : ~InFinish(w, y)' /\ (InCallback(w, y)' <=> y = x)
\* A callback runs: with a reply, a timeout, or the error of a send.
Returns(w, x, e) == /\ OnlyCall(x) /\ OnlyWorker(w) /\ InCallback(w, x) /\ Leaves(w)
                    /\ caller'[x].done /\ cbs'[x] = Append(cbs[x], e)
                    /\ x \in callers' <=> x \in callers
                    /\ Started(x)' <=> Started(x)
TimesOut(x) == /\ OnlyCall(x) /\ Quiet /\ ~Retrans /\ Started(x) /\ Started(x)'
               /\ ~caller[x].done /\ caller'[x].done
               /\ cbs'[x] = Append(cbs[x], "TIMEOUT_FAILURE")
               /\ x \in callers' <=> x \in callers
Reports(x, e) == /\ OnlyCall(x) /\ Quiet /\ ~Retrans /\ Started(x) /\ Started(x)'
                 /\ caller'[x].done = caller[x].done /\ cbs'[x] = Append(cbs[x], e)
                 /\ x \in callers' <=> x \in callers

Outcome ==
    \/ Quiet /\ \A x \in Xids : Same(x)
    \/ \E x \in Xids : GivenUp(x) \/ NewCall(x) \/ TimesOut(x)
    \/ \E x \in Xids, e \in SendErrs : Reports(x, e)
    \/ \E w \in Workers, x \in Xids : Takes(w, x) \/ TooLate(w, x) \/ Claims(w, x)
    \/ \E w \in Workers, x \in Xids, e \in CallErrs : Returns(w, x, e)

\* The handlers of the other workers stay where they are.
LEMMA GotoMoves ==
  ASSUME Shape, NEW w \in Workers, NEW s, Goto(w, s)
  PROVE  io'[w] = s /\ OnlyWorker(w)
<1>1. \A u \in Workers : io'[u] = IF u = w THEN s ELSE io[u]
  BY DEF Shape, IoTypes, Goto
<1>. QED
  BY <1>1 DEF OnlyWorker, SameWorker, InFinish, InCallback

\* A worker that is at none of the two steps before nor after.
LEMMA GotoQuiet ==
  ASSUME Shape, NEW w \in Workers, NEW s, Goto(w, s),
         s.op \notin {"finish", "callback"}
  PROVE  /\ OnlyWorker(w) /\ Leaves(w)
         /\ io[w].op \notin {"finish", "callback"} => Quiet
<1>1. io'[w] = s /\ OnlyWorker(w)
  BY GotoMoves
<1>2. Leaves(w)
  BY <1>1 DEF Leaves, InFinish, InCallback
<1>3. io[w].op \notin {"finish", "callback"} => SameWorker(w)
  BY <1>1 DEF SameWorker, InFinish, InCallback
<1>. QED
  BY <1>1, <1>2, <1>3 DEF OnlyWorker, Quiet

LEMMA NoWorkerMoves ==
  ASSUME io' = io
  PROVE  Quiet
BY DEF Quiet, SameWorker, InFinish, InCallback

LEMMA SameWhenUnchanged ==
  ASSUME UNCHANGED <<callers, call, caller, cbs>>
  PROVE  \A x \in Xids : Same(x)
BY DEF Same, Started

LEMMA RegisterIsNew ==
  ASSUME Shape, NEW proc \in AllProcs, Register(proc), UNCHANGED cbs, Quiet
  PROVE  \E x \in Xids : NewCall(x)
<1>. USE BoundsAssumption, XidsAreNats
<1>1. xid_ \in Xids /\ xid_' = xid_ + 1
  BY DEF Register, Shape, CallTypes, Xids
<1>2. ~Started(xid_)
  BY <1>1 DEF Shape, Fresh
<1>3. Fresh' /\ \A x \in Xids : Started(x) => Started(x)'
  BY RegisterWorks
<1>4. \A x \in Xids : Started(x)' <=> Started(x) \/ x = xid_
  BY <1>1, <1>3 DEF Shape, Fresh, CallTypes
<1>5. callers' = callers \cup {xid_}
  BY DEF Register
<1>6. \A x \in Xids : caller'[x].done = IF x = xid_ THEN FALSE ELSE caller[x].done
  BY DEF Register, Shape, CallerTypes, CallerRecords
<1>7. OnlyCall(xid_)
  BY <1>1, <1>4, <1>5, <1>6 DEF OnlyCall, Same
<1>. QED
  BY <1>1, <1>2, <1>4, <1>5, <1>6, <1>7 DEF NewCall

\* Every step of the client is one of these.
LEMMA StepsAreOutcomes ==
  ASSUME Shape, [Next]_vars
  PROVE  Outcome
<1>0. ASSUME UNCHANGED <<callers, call, caller, cbs>>, Quiet PROVE Outcome
  BY <1>0, SameWhenUnchanged DEF Outcome
<1>1. ASSUME UNCHANGED <<callers, caller, cbs, io>>, NEW x \in Xids,
             NEW c, call' = [call EXCEPT ![x] = c], c.pc # "none", Started(x)
      PROVE  Outcome
  <2>1. \A y \in Xids : Started(y)' <=> Started(y)
    BY <1>1 DEF Started, Shape, CallTypes
  <2>2. \A y \in Xids : Same(y)
    BY <1>1, <2>1 DEF Same
  <2>. QED
    BY <1>1, <2>2, NoWorkerMoves DEF Outcome
<1>2. CASE UNCHANGED vars
  BY <1>0, <1>2, NoWorkerMoves DEF vars, callVars, ioVars, auxVars
<1>3. ASSUME NEW proc \in AllProcs, CallStart(proc) PROVE Outcome
  <2>1. Register(proc) /\ io' = io /\ cbs' = cbs
    BY <1>3 DEF CallStart, ioVars, auxVars
  <2>. QED
    BY <2>1, RegisterIsNew, NoWorkerMoves DEF Outcome
<1>4. ASSUME NEW x \in Xids, AppThread(x) PROVE Outcome
  <2>1. UNCHANGED <<callers, caller, cbs, io>> /\ Started(x)
    BY <1>4 DEF AppThread, CallReadAck, CallSend, CallWait, ioVars, auxVars, Started
  <2>2. call[x] \in CallRecords
    BY DEF Shape, CallTypes
  <2>3. \/ call' = [call EXCEPT ![x] = [call[x] EXCEPT !.pc = "acked",
                                            !.xid_rep = ReceivedXid(xid_rep_window)]]
        \/ call' = [call EXCEPT ![x] = [call[x] EXCEPT !.pc = "sent", !.srv_nonce = srv_nonce]]
        \/ call' = [call EXCEPT ![x] = [call[x] EXCEPT !.pc = "returned"]]
    BY <1>4, <2>2 DEF AppThread, CallReadAck, CallSend, CallWait, CallRecords
  <2>4. /\ [call[x] EXCEPT !.pc = "acked", !.xid_rep = ReceivedXid(xid_rep_window)].pc # "none"
        /\ [call[x] EXCEPT !.pc = "sent", !.srv_nonce = srv_nonce].pc # "none"
        /\ [call[x] EXCEPT !.pc = "returned"].pc # "none"
    BY <2>2 DEF CallRecords
  <2>. QED
    BY <1>1, <2>1, <2>3, <2>4
<1>5. CASE Environment
  <2>1. ASSUME NEW x \in Xids, TimerExpires(x) PROVE Outcome
    BY <1>0, <2>1, NoWorkerMoves DEF TimerExpires, ioVars, auxVars
  <2>2. ASSUME NEW x \in Xids, NEW e \in {"OK"} \cup SendErrs, SendResolves(x, e) PROVE Outcome
    BY <1>0, <2>2, NoWorkerMoves DEF SendResolves, ioVars
  <2>3. ASSUME NEW x \in Xids, NEW ok \in BOOLEAN, Reconnected(x, ok) PROVE Outcome
    BY <1>0, <2>3, NoWorkerMoves DEF Reconnected, ioVars
  <2>4. ASSUME NEW w \in Workers, ReceiveFails(w) PROVE Outcome
    BY <1>0, <2>4, NoWorkerMoves DEF ReceiveFails, callVars, auxVars
  <2>5. ASSUME NEW w \in Workers, NEW rep \in Answers, ReceiveReply(w, rep) PROVE Outcome
    <3>1. UNCHANGED <<callers, call, caller, cbs>> /\ io[w] = Idle
          /\ Goto(w, Step("update", rep.xid, rep.err, rep.result))
      BY <2>5 DEF ReceiveReply, callVars, auxVars
    <3>2. Quiet
      BY <3>1, StepIs, IdleIs, GotoQuiet
    <3>. QED
      BY <1>0, <3>1, <3>2
  <2>. QED
    BY <1>5, <2>1, <2>2, <2>3, <2>4, <2>5 DEF Environment
<1>6. ASSUME NEW w \in Workers, Worker(w) PROVE Outcome
  <2>12. PICK x : x = io[w].xid
    OBVIOUS
  <2>. USE <2>12
  <2>0. /\ io[w] \in IoRecords /\ GoodStep(io[w])
        /\ io[w].op # "idle" => x \in Xids /\ Started(x)
        /\ io[w].err \in CallErrs
    BY DEF Shape, IoTypes, HandlersWork, GoodStep, IoRecords
  <2>1. CASE UpdateXidRep(w)
    <3>1. UNCHANGED <<callers, call, caller, cbs>> /\ io[w].op = "update"
          /\ Goto(w, [io[w] EXCEPT !.op = "lookup"])
      BY <2>1 DEF UpdateXidRep, callVars
    <3>2. "lookup" \in Ops
      BY DEF Ops
    <3>3. Quiet
      BY <2>0, <3>1, <3>2, SameWork, GotoQuiet
    <3>. QED
      BY <1>0, <3>1, <3>3
  <2>2. CASE TakeCaller(w)
    <3>1. UNCHANGED <<call, caller, cbs>> /\ io[w].op = "lookup" /\ callers' = callers \ {x}
          /\ Goto(w, IF x \in callers THEN [io[w] EXCEPT !.op = "finish"] ELSE Idle)
      BY <2>2 DEF TakeCaller, auxVars
    <3>2. CASE x \notin callers
      <4>1. callers' = callers
        BY <3>1, <3>2
      <4>2. Quiet
        BY <3>1, <3>2, IdleIs, GotoQuiet
      <4>. QED
        BY <1>0, <3>1, <4>1, <4>2
    <3>3. CASE x \in callers
      <4>1. "finish" \in Ops
        BY DEF Ops
      <4>. DEFINE s == [io[w] EXCEPT !.op = "finish"]
      <4>2. s.op = "finish" /\ s.xid = x
        BY <2>0, <4>1, SameWork
      <4>. HIDE DEF s
      <4>3. io'[w] = s /\ OnlyWorker(w)
        BY <3>1, <3>3, GotoMoves DEF s
      <4>4. \A y \in Xids : Started(y)' <=> Started(y)
        BY <3>1 DEF Started
      <4>5. OnlyCall(x)
        BY <3>1, <4>4 DEF OnlyCall, Same
      <4>6. /\ \A y \in Xids : ~InFinish(w, y) /\ ~InCallback(w, y) /\ ~InCallback(w, y)'
            /\ \A y \in Xids : InFinish(w, y)' <=> y = x
        BY <3>1, <4>2, <4>3 DEF InFinish, InCallback
      <4>7. x \in Xids /\ Started(x) /\ Started(x)'
        BY <2>0, <3>1, <4>4
      <4>8. Takes(w, x)
        BY <3>1, <3>3, <4>3, <4>5, <4>6, <4>7 DEF Takes
      <4>. QED
        BY <4>7, <4>8 DEF Outcome
    <3>. QED
      BY <3>2, <3>3
  <2>3. CASE FinishCaller(w)
    <3>1. UNCHANGED <<callers, call, cbs>> /\ io[w].op = "finish"
      BY <2>3 DEF FinishCaller, auxVars
    <3>2. x \in Xids /\ Started(x) /\ InFinish(w, x)
      BY <2>0, <3>1 DEF InFinish
    <3>3. \A y \in Xids : Started(y)' <=> Started(y)
      BY <3>1 DEF Started
    <3>4. CASE caller[x].done
      <4>1. Destroy(x) /\ Goto(w, Idle)
        BY <2>3, <3>4 DEF FinishCaller
      <4>2. \A y \in Xids : caller'[y].done = (caller[y].done \/ y = x)
        BY <3>2, <4>1, DestroyWorks DEF Shape
      <4>3. \A y \in Xids : caller'[y].done = caller[y].done
        BY <3>4, <4>2 DEF Shape, CallerTypes, CallerRecords
      <4>4. \A y \in Xids : Same(y)
        BY <3>1, <3>3, <4>3 DEF Same
      <4>5. OnlyWorker(w) /\ Leaves(w)
        BY <4>1, IdleIs, GotoQuiet
      <4>. QED
        BY <3>2, <3>4, <4>4, <4>5 DEF TooLate, Outcome
    <3>5. CASE ~caller[x].done
      <4>. DEFINE s == [io[w] EXCEPT !.op = "callback"]
      <4>1. caller' = [caller EXCEPT ![x].done = TRUE] /\ Goto(w, s)
        BY <2>3, <3>5 DEF FinishCaller
      <4>2. \A y \in Xids : caller'[y].done = (caller[y].done \/ y = x)
        BY <3>2, <4>1, DoneWorks DEF Shape
      <4>3. "callback" \in Ops
        BY DEF Ops
      <4>4. s.op = "callback" /\ s.xid = x
        BY <2>0, <4>3, SameWork
      <4>5. \A y \in Xids : caller[y].done \in BOOLEAN
        BY DEF Shape, CallerTypes, CallerRecords
      <4>6. OnlyCall(x) /\ caller'[x].done
        BY <3>1, <3>2, <3>3, <4>2, <4>5 DEF OnlyCall, Same
      <4>. HIDE DEF s
      <4>7. io'[w] = s /\ OnlyWorker(w)
        BY <4>1, GotoMoves
      <4>8. \A y \in Xids : ~InFinish(w, y)' /\ (InCallback(w, y)' <=> y = x)
        BY <4>4, <4>7 DEF InFinish, InCallback
      <4>. QED
        BY <3>1, <3>2, <3>3, <3>5, <4>6, <4>7, <4>8 DEF Claims, Outcome
    <3>. QED
      BY <3>4, <3>5
  <2>4. CASE Callback(w)
    <3>1. UNCHANGED <<callers, call>> /\ io[w].op = "callback"
      BY <2>4 DEF Callback
    <3>2. x \in Xids /\ Started(x) /\ InCallback(w, x)
      BY <2>0, <3>1 DEF InCallback
    <3>3. \A y \in Xids : Started(y)' <=> Started(y)
      BY <3>1 DEF Started
    <3>4. CASE UNCHANGED <<caller, io, cbs>>
      BY <1>0, <3>1, <3>4, NoWorkerMoves
    <3>5. CASE /\ CalledBack(x, io[w].err) /\ Destroy(x)
               /\ Goto(w, IF io[w].err = "OK" THEN Idle ELSE AfterError(x))
      <4>1. \A y \in Xids : caller'[y].done = (caller[y].done \/ y = x)
        BY <3>2, <3>5, DestroyWorks DEF Shape
      <4>2. \A y \in Xids : caller[y].done \in BOOLEAN
        BY DEF Shape, CallerTypes, CallerRecords
      <4>3. \A y \in Xids : cbs'[y] = IF y = x THEN Append(cbs[y], io[w].err) ELSE cbs[y]
        BY <2>0, <3>2, <3>5, CalledBackWorks DEF Shape
      <4>4. OnlyCall(x) /\ caller'[x].done
        BY <3>1, <3>2, <3>3, <4>1, <4>2, <4>3 DEF OnlyCall, Same
      <4>5. OnlyWorker(w) /\ Leaves(w)
        BY <3>2, <3>5, IdleIs, AfterErrorWorks, GotoQuiet
      <4>6. io[w].err \in CallErrs
        BY <2>0
      <4>7. Returns(w, x, io[w].err)
        BY <3>1, <3>2, <3>3, <4>3, <4>4, <4>5 DEF Returns
      <4>. QED
        BY <3>2, <4>6, <4>7 DEF Outcome
    <3>. QED
      BY <2>4, <3>4, <3>5, Zenon DEF Callback
  <2>5. CASE Resend(w) \/ RetrySend(w)
    <3>1. UNCHANGED <<callers, call, caller, cbs>> /\ Goto(w, Idle)
          /\ io[w].op \in {"resend", "sendfailed"}
      BY <2>5 DEF Resend, RetrySend
    <3>2. Quiet
      BY <3>1, IdleIs, GotoQuiet
    <3>. QED
      BY <1>0, <3>1, <3>2
  <2>6. CASE GiveUp(w)
    <3>1. /\ UNCHANGED <<callers, call, cbs>> /\ io[w].op = "sendfailed" /\ ~Retrans
          /\ caller' = [caller EXCEPT ![x].done = TRUE]
          /\ Goto(w, [io[w] EXCEPT !.op = "failcallback"])
      BY <2>6 DEF GiveUp
    <3>2. x \in Xids /\ Started(x)
      BY <2>0, <3>1
    <3>3. \A y \in Xids : Started(y)' <=> Started(y)
      BY <3>1 DEF Started
    <3>4. \A y \in Xids : caller'[y].done = (caller[y].done \/ y = x) /\ caller[y].done \in BOOLEAN
      BY <3>1, <3>2, DoneWorks DEF Shape, CallerTypes, CallerRecords
    <3>5. OnlyCall(x) /\ caller'[x].done
      <4>1. ASSUME NEW y \in Xids \ {x} PROVE Same(y)
        <5>1. caller'[y].done = caller[y].done
          BY <3>4
        <5>. QED
          BY <3>1, <3>3, <5>1 DEF Same
      <4>. QED
        BY <3>2, <3>4, <4>1 DEF OnlyCall
    <3>6. "failcallback" \in Ops
      BY DEF Ops
    <3>7. Quiet
      BY <2>0, <3>1, <3>6, SameWork, GotoQuiet
    <3>. QED
      BY <3>1, <3>2, <3>3, <3>5, <3>7 DEF GivenUp, Outcome
  <2>7. CASE FailCallback(w)
    <3>1. /\ UNCHANGED <<callers, call, caller>> /\ io[w].op = "failcallback"
          /\ CalledBack(x, io[w].err) /\ Goto(w, AfterError(x))
      BY <2>7 DEF FailCallback, callVars
    <3>2. x \in Xids /\ Started(x) /\ ~Retrans /\ io[w].err \in SendErrs
      BY <2>0, <3>1 DEF GoodStep
    <3>3. \A y \in Xids : Started(y)' <=> Started(y)
      BY <3>1 DEF Started
    <3>4. \A y \in Xids : cbs'[y] = IF y = x THEN Append(cbs[y], io[w].err) ELSE cbs[y]
      BY <2>0, <3>1, <3>2, CalledBackWorks DEF Shape
    <3>5. OnlyCall(x)
      BY <3>1, <3>3, <3>4 DEF OnlyCall, Same
    <3>6. Quiet
      BY <3>1, <3>2, AfterErrorWorks, GotoQuiet
    <3>7. Reports(x, io[w].err)
      BY <3>1, <3>2, <3>3, <3>4, <3>5, <3>6 DEF Reports
    <3>. QED
      BY <3>2, <3>7 DEF Outcome
  <2>8. CASE Rebind(w)
    <3>1. /\ cbs' = cbs /\ io[w].op = "rebind" /\ Goto(w, Idle)
          /\ UNCHANGED <<callers, call, caller>> \/ Register(BIND)
      BY <2>8 DEF Rebind, callVars, auxVars
    <3>2. Quiet
      BY <3>1, IdleIs, GotoQuiet
    <3>3. BIND \in AllProcs
      BY DEF AllProcs
    <3>. QED
      BY <1>0, <3>1, <3>2, <3>3, RegisterIsNew DEF Outcome
  <2>9. ASSUME NEW z \in Xids, SendSucceeded(w, z) PROVE Outcome
    BY <1>0, <2>9, NoWorkerMoves DEF SendSucceeded, auxVars
  <2>10. ASSUME NEW z \in Xids, NEW e \in SendErrs, SendFailed(w, z, e) PROVE Outcome
    <3>1. UNCHANGED <<callers, call, caller, cbs>> /\ io[w] = Idle
          /\ Goto(w, IF z \in callers THEN Step("sendfailed", z, e, 0) ELSE Idle)
      BY <2>10 DEF SendFailed, auxVars
    <3>2. Quiet
      BY <3>1, StepIs, IdleIs, GotoQuiet
    <3>. QED
      BY <1>0, <3>1, <3>2
  <2>11. ASSUME NEW z \in Xids, OnTimerExpired(w, z) PROVE Outcome
    <3>1. UNCHANGED <<callers, call>> /\ io[w] = Idle /\ timer[z] = "expired"
      BY <2>11 DEF OnTimerExpired
    <3>2. Started(z)
      BY <3>1 DEF Shape, Fresh
    <3>3. \A y \in Xids : Started(y)' <=> Started(y)
      BY <3>1 DEF Started
    <3>4. CASE UNCHANGED <<caller, io, cbs>>
      BY <1>0, <3>1, <3>4, NoWorkerMoves
    <3>5. CASE Goto(w, Step("resend", z, "OK", 0)) /\ UNCHANGED <<caller, cbs>>
      <4>1. Quiet
        BY <3>1, <3>5, StepIs, IdleIs, GotoQuiet
      <4>. QED
        BY <1>0, <3>1, <3>5, <4>1
    <3>6. CASE /\ ~caller[z].done /\ ~Retrans
               /\ caller' = [caller EXCEPT ![z].done = TRUE]
               /\ CalledBack(z, "TIMEOUT_FAILURE") /\ Goto(w, AfterError(z))
      <4>1. \A y \in Xids : caller'[y].done = (caller[y].done \/ y = z) /\ caller[y].done \in BOOLEAN
        BY <3>6, DoneWorks DEF Shape, CallerTypes, CallerRecords
      <4>2. \A y \in Xids : cbs'[y] = IF y = z THEN Append(cbs[y], "TIMEOUT_FAILURE") ELSE cbs[y]
        <5>1. "TIMEOUT_FAILURE" \in CallErrs
          BY DEF CallErrs
        <5>. QED
          BY <3>6, <5>1, CalledBackWorks DEF Shape
      <4>3. OnlyCall(z) /\ caller'[z].done
        BY <3>1, <3>3, <4>1, <4>2 DEF OnlyCall, Same
      <4>4. Quiet
        BY <3>1, <3>2, <3>6, IdleIs, AfterErrorWorks, GotoQuiet
      <4>5. TimesOut(z)
        BY <3>1, <3>2, <3>3, <3>6, <4>2, <4>3, <4>4 DEF TimesOut
      <4>. QED
        BY <4>5 DEF Outcome
    <3>. QED
      BY <2>11, <3>4, <3>5, <3>6, Zenon DEF OnTimerExpired
  <2>. QED
    BY <1>6, <2>1, <2>2, <2>3, <2>4, <2>5, <2>6, <2>7, <2>8, <2>9, <2>10, <2>11 DEF Worker
<1>. QED
  BY <1>2, <1>3, <1>4, <1>5, <1>6 DEF Next

-----------------------------------------------------------------------------
(* A reply and a timeout: the first to set done_ is the only one told.      *)

Told(x) == \E i \in 1..Len(cbs[x]) : cbs[x][i] \notin SendErrs

SettledCall(x) ==
    /\ Told(x) => caller[x].done
    /\ \A w \in Workers : InCallback(w, x) => caller[x].done /\ ~Told(x)
    /\ \A w \in Workers : InFinish(w, x) \/ InCallback(w, x) => x \notin callers
    /\ \A w, u \in Workers :
          (InFinish(w, x) \/ InCallback(w, x)) /\ (InFinish(u, x) \/ InCallback(u, x)) => w = u
    /\ \A i, j \in 1..Len(cbs[x]) :
          cbs[x][i] \notin SendErrs /\ cbs[x][j] \notin SendErrs => i = j
Settled == \A x \in Xids : SettledCall(x)

\* A callback more.
LEMMA AppendTells ==
  ASSUME CbTypes, NEW x \in Xids, NEW e \in CallErrs, cbs'[x] = Append(cbs[x], e)
  PROVE  /\ Len(cbs'[x]) = Len(cbs[x]) + 1 /\ Len(cbs[x]) \in Nat
         /\ cbs'[x][Len(cbs[x]) + 1] = e
         /\ \A i \in 1..Len(cbs[x]) : cbs'[x][i] = cbs[x][i]
         /\ Told(x)' <=> Told(x) \/ e \notin SendErrs
<1>1. cbs[x] \in Seq(CallErrs)
  BY DEF CbTypes
<1>2. /\ Len(cbs'[x]) = Len(cbs[x]) + 1 /\ Len(cbs[x]) \in Nat
      /\ cbs'[x][Len(cbs[x]) + 1] = e
      /\ \A i \in 1..Len(cbs[x]) : cbs'[x][i] = cbs[x][i]
  BY <1>1, AppendProperties
<1>3. \A i : i \in 1..(Len(cbs[x]) + 1) <=> i \in 1..Len(cbs[x]) \/ i = Len(cbs[x]) + 1
  BY <1>2
<1>. QED
  BY <1>2, <1>3 DEF Told

LEMMA SameTells ==
  ASSUME NEW x \in Xids, cbs'[x] = cbs[x]
  PROVE  Told(x)' <=> Told(x)
BY DEF Told

\* A call that nothing happens to, while no worker gets hold of it.
LEMMA SettledStays ==
  ASSUME Settled, NEW x \in Xids, Same(x),
         \A w \in Workers : /\ InFinish(w, x)' => InFinish(w, x)
                            /\ InCallback(w, x)' => InCallback(w, x)
  PROVE  SettledCall(x)'
BY SameTells DEF Settled, SettledCall, Same

LEMMA SettledInit == Init => Settled
<1>. SUFFICES ASSUME Init, NEW x \in Xids PROVE SettledCall(x)
  BY DEF Settled
<1>1. cbs[x] = <<>> /\ \A w \in Workers : io[w].op = "idle"
  BY IdleIs DEF Init
<1>. QED
  BY <1>1 DEF SettledCall, Told, InFinish, InCallback

LEMMA SettledStep == Shape /\ Settled /\ [Next]_vars => Settled'
<1>. SUFFICES ASSUME Shape, Settled, [Next]_vars, NEW y \in Xids PROVE SettledCall(y)'
  BY DEF Settled
<1>0. Outcome
  BY StepsAreOutcomes
<1>1. /\ SettledCall(y) /\ CbTypes /\ caller[y].done \in BOOLEAN
      /\ \A w \in Workers : InFinish(w, y) \/ InCallback(w, y) => Started(y)
  BY DEF Settled, Shape, HandlersWork, GoodStep, InFinish, InCallback, CallerTypes, CallerRecords
<1>2. CASE Quiet /\ \A x \in Xids : Same(x)
  BY <1>2, SettledStays DEF Quiet, SameWorker
<1>3. ASSUME NEW x \in Xids, OnlyCall(x), Quiet, y # x PROVE SettledCall(y)'
  BY <1>3, SettledStays DEF Quiet, SameWorker, OnlyCall
<1>4. ASSUME GivenUp(y) PROVE SettledCall(y)'
  BY <1>1, <1>4, SameTells DEF GivenUp, Quiet, SameWorker, SettledCall
<1>5. ASSUME NewCall(y) PROVE SettledCall(y)'
  <2>1. cbs'[y] = <<>>
    BY <1>5 DEF NewCall, Shape, Fresh
  <2>2. ~Told(y)'
    BY <2>1 DEF Told
  <2>3. \A w \in Workers : ~InFinish(w, y)' /\ ~InCallback(w, y)'
    BY <1>1, <1>5 DEF NewCall, Quiet, SameWorker
  <2>. QED
    BY <2>1, <2>2, <2>3 DEF SettledCall
<1>6. ASSUME TimesOut(y) PROVE SettledCall(y)'
  <2>1. "TIMEOUT_FAILURE" \in CallErrs /\ "TIMEOUT_FAILURE" \notin SendErrs
    BY SendErrsAssumption DEF CallErrs
  <2>2. cbs'[y] = Append(cbs[y], "TIMEOUT_FAILURE") /\ ~caller[y].done /\ caller'[y].done
        /\ (y \in callers' <=> y \in callers)
        /\ \A w \in Workers : (InFinish(w, y)' <=> InFinish(w, y))
                               /\ (InCallback(w, y)' <=> InCallback(w, y))
    BY <1>6 DEF TimesOut, Quiet, SameWorker
  <2>3. ~Told(y) /\ \A w \in Workers : ~InCallback(w, y)
    BY <1>1, <2>2 DEF SettledCall
  <2>4. \A i, j \in 1..Len(cbs'[y]) :
           cbs'[y][i] \notin SendErrs /\ cbs'[y][j] \notin SendErrs => i = j
    BY <1>1, <2>1, <2>2, <2>3, AppendTells DEF Told
  <2>. QED
    BY <1>1, <2>2, <2>3, <2>4 DEF SettledCall
<1>7. ASSUME NEW e \in SendErrs, Reports(y, e) PROVE SettledCall(y)'
  <2>1. e \in CallErrs
    BY DEF CallErrs
  <2>2. cbs'[y] = Append(cbs[y], e) /\ caller'[y].done = caller[y].done
        /\ (y \in callers' <=> y \in callers)
        /\ \A w \in Workers : (InFinish(w, y)' <=> InFinish(w, y))
                               /\ (InCallback(w, y)' <=> InCallback(w, y))
    BY <1>7 DEF Reports, Quiet, SameWorker
  <2>3. Told(y)' <=> Told(y)
    BY <1>1, <2>1, <2>2, AppendTells
  <2>4. \A i, j \in 1..Len(cbs'[y]) :
           cbs'[y][i] \notin SendErrs /\ cbs'[y][j] \notin SendErrs => i = j
    BY <1>1, <2>1, <2>2, AppendTells DEF SettledCall
  <2>. QED
    BY <1>1, <2>2, <2>3, <2>4 DEF SettledCall
<1>8. ASSUME NEW w \in Workers, NEW x \in Xids, OnlyCall(x), OnlyWorker(w), y # x,
             ~InFinish(w, y)' /\ ~InCallback(w, y)'
      PROVE  SettledCall(y)'
  BY <1>8, SettledStays DEF OnlyCall, OnlyWorker, SameWorker
<1>9. ASSUME NEW w \in Workers, NEW x \in Xids, Takes(w, x) PROVE SettledCall(y)'
  <2>1. CASE y # x
    BY <1>8, <1>9, <2>1 DEF Takes
  <2>2. CASE y = x
    <3>1. /\ y \in callers /\ y \notin callers' /\ caller'[y].done = caller[y].done
          /\ cbs'[y] = cbs[y] /\ InFinish(w, y)' /\ ~InCallback(w, y)'
          /\ \A u \in Workers \ {w} : (InFinish(u, y)' <=> InFinish(u, y))
                                      /\ (InCallback(u, y)' <=> InCallback(u, y))
      BY <1>9, <2>2 DEF Takes, OnlyWorker, SameWorker
    <3>2. \A u \in Workers : ~InFinish(u, y) /\ ~InCallback(u, y)
      BY <1>1, <3>1 DEF SettledCall
    <3>. QED
      BY <1>1, <3>1, <3>2, SameTells DEF SettledCall
  <2>. QED
    BY <2>1, <2>2
<1>10. ASSUME NEW w \in Workers, NEW x \in Xids, TooLate(w, x) PROVE SettledCall(y)'
  BY <1>10, SettledStays DEF TooLate, OnlyWorker, SameWorker, Leaves
<1>11. ASSUME NEW w \in Workers, NEW x \in Xids, Claims(w, x) PROVE SettledCall(y)'
  <2>1. CASE y # x
    BY <1>8, <1>11, <2>1 DEF Claims
  <2>2. CASE y = x
    <3>1. /\ y \in callers' <=> y \in callers
          /\ ~caller[y].done /\ caller'[y].done
          /\ cbs'[y] = cbs[y] /\ InFinish(w, y) /\ ~InFinish(w, y)' /\ InCallback(w, y)'
          /\ \A u \in Workers \ {w} : (InFinish(u, y)' <=> InFinish(u, y))
                                      /\ (InCallback(u, y)' <=> InCallback(u, y))
      BY <1>11, <2>2 DEF Claims, OnlyWorker, SameWorker
    <3>2. ~Told(y) /\ \A u \in Workers \ {w} : ~InFinish(u, y) /\ ~InCallback(u, y)
      BY <1>1, <3>1 DEF SettledCall
    <3>. QED
      BY <1>1, <3>1, <3>2, SameTells DEF SettledCall
  <2>. QED
    BY <2>1, <2>2
<1>12. ASSUME NEW w \in Workers, NEW x \in Xids, NEW e \in CallErrs, Returns(w, x, e)
       PROVE  SettledCall(y)'
  <2>1. CASE y # x
    BY <1>8, <1>12, <2>1 DEF Returns, Leaves
  <2>2. CASE y = x
    <3>1. /\ y \in callers' <=> y \in callers
          /\ caller'[y].done /\ cbs'[y] = Append(cbs[y], e) /\ InCallback(w, y)
          /\ ~InFinish(w, y)' /\ ~InCallback(w, y)'
          /\ \A u \in Workers \ {w} : (InFinish(u, y)' <=> InFinish(u, y))
                                      /\ (InCallback(u, y)' <=> InCallback(u, y))
      BY <1>12, <2>2 DEF Returns, OnlyWorker, SameWorker, Leaves
    <3>2. ~Told(y) /\ \A u \in Workers \ {w} : ~InFinish(u, y) /\ ~InCallback(u, y)
      BY <1>1, <3>1 DEF SettledCall
    <3>3. \A u \in Workers : ~InFinish(u, y)' /\ ~InCallback(u, y)'
      BY <3>1, <3>2
    <3>4. \A i, j \in 1..Len(cbs'[y]) :
             cbs'[y][i] \notin SendErrs /\ cbs'[y][j] \notin SendErrs => i = j
      BY <1>1, <3>1, <3>2, AppendTells DEF Told
    <3>. QED
      BY <3>1, <3>3, <3>4 DEF SettledCall
  <2>. QED
    BY <2>1, <2>2
<1>. QED
  <2>1. ASSUME NEW x \in Xids, GivenUp(x) \/ NewCall(x) \/ TimesOut(x) PROVE SettledCall(y)'
    BY <1>3, <1>4, <1>5, <1>6, <2>1 DEF GivenUp, NewCall, TimesOut
  <2>2. ASSUME NEW x \in Xids, NEW e \in SendErrs, Reports(x, e) PROVE SettledCall(y)'
    BY <1>3, <1>7, <2>2 DEF Reports
  <2>. QED
    BY <1>0, <1>2, <1>9, <1>10, <1>11, <1>12, <2>1, <2>2 DEF Outcome

\* A timeout racing a late answer has one winner, with and without
\* retransmission: of the reply and the timer only one reaches the callback.
THEOREM OneWinner == Spec => []ReplyOrTimeout
<1>1. Spec => []Shape
  BY ShapeInit, ShapeStep, PTL DEF Spec
<1>2. Spec => []Settled
  BY <1>1, SettledInit, SettledStep, PTL DEF Spec
<1>3. Settled => ReplyOrTimeout
  BY DEF Settled, SettledCall, ReplyOrTimeout
<1>. QED
  BY <1>2, <1>3, PTL

-----------------------------------------------------------------------------
(* With retransmission a call is answered or still open, never both and    *)
(* never twice.                                                            *)

Open(x) == /\ x \in callers /\ cbs[x] = <<>> /\ ~caller[x].done
           /\ \A w \in Workers : ~InFinish(w, x) /\ ~InCallback(w, x)
HeldBy(w, x) == /\ x \notin callers /\ cbs[x] = <<>>
                /\ InCallback(w, x) \/ (InFinish(w, x) /\ ~caller[x].done)
                /\ \A u \in Workers \ {w} : ~InFinish(u, x) /\ ~InCallback(u, x)
Answered(x) == /\ x \notin callers /\ Len(cbs[x]) = 1
               /\ \A w \in Workers : ~InFinish(w, x) /\ ~InCallback(w, x)
TakenCall(x) == Started(x) => Open(x) \/ Answered(x) \/ \E w \in Workers : HeldBy(w, x)
Taken == \A x \in Xids : TakenCall(x)

LEMMA TakenInit == Init => Taken
BY DEF Init, Taken, TakenCall, Started, NoCall

\* A call that nothing happens to, and whose worker stays where it is.
LEMMA TakenStays ==
  ASSUME Taken, NEW x \in Xids, Same(x),
         \A w \in Workers : /\ InFinish(w, x)' <=> InFinish(w, x)
                            /\ InCallback(w, x)' <=> InCallback(w, x)
  PROVE  TakenCall(x)'
<1>1. Started(x)' => Started(x)
  BY DEF Same
<1>2. Open(x) => Open(x)'
  BY DEF Open, Same
<1>3. Answered(x) => Answered(x)'
  BY DEF Answered, Same
<1>4. ASSUME NEW w \in Workers, HeldBy(w, x) PROVE HeldBy(w, x)'
  BY <1>4 DEF HeldBy, Same
<1>. QED
  BY <1>1, <1>2, <1>3, <1>4 DEF Taken, TakenCall

LEMMA TakenStep ==
  ASSUME Retrans, Shape, Taken, [Next]_vars
  PROVE  Taken'
<1>. SUFFICES ASSUME NEW y \in Xids PROVE TakenCall(y)'
  BY DEF Taken
<1>0. Outcome
  BY StepsAreOutcomes
<1>1. /\ TakenCall(y) /\ CbTypes /\ cbs[y] \in Seq(CallErrs)
      /\ \A w \in Workers : InFinish(w, y) \/ InCallback(w, y) => Started(y)
      /\ \A w \in Workers, x \in Xids : InFinish(w, x) => ~InCallback(w, x)
      /\ \A w \in Workers, x \in Xids :
            InFinish(w, x) \/ InCallback(w, x) => x = y \/ (~InFinish(w, y) /\ ~InCallback(w, y))
  BY DEF Taken, Shape, HandlersWork, GoodStep, InFinish, InCallback, CbTypes
<1>2. CASE Quiet /\ \A x \in Xids : Same(x)
  BY <1>2, TakenStays DEF Quiet, SameWorker
<1>3. ASSUME NEW x \in Xids, NewCall(x) PROVE TakenCall(y)'
  <2>1. CASE y # x
    BY <1>3, <2>1, TakenStays DEF NewCall, Quiet, SameWorker, OnlyCall
  <2>2. CASE y = x
    <3>1. /\ y \in callers' /\ ~caller'[y].done /\ cbs'[y] = <<>>
          /\ \A w \in Workers : ~InFinish(w, y)' /\ ~InCallback(w, y)'
      BY <1>1, <1>3, <2>2 DEF NewCall, Quiet, SameWorker, Shape, Fresh
    <3>. QED
      BY <3>1 DEF TakenCall, Open
  <2>. QED
    BY <2>1, <2>2
<1>4. ASSUME NEW w \in Workers, NEW x \in Xids, OnlyCall(x), OnlyWorker(w), y # x,
             ~InFinish(w, y) /\ ~InCallback(w, y), ~InFinish(w, y)' /\ ~InCallback(w, y)'
      PROVE  TakenCall(y)'
  BY <1>4, TakenStays DEF OnlyCall, OnlyWorker, SameWorker
<1>5. ASSUME NEW w \in Workers, NEW x \in Xids, Takes(w, x) PROVE TakenCall(y)'
  <2>1. CASE y # x
    BY <1>4, <1>5, <2>1 DEF Takes
  <2>2. CASE y = x
    <3>1. /\ y \in callers /\ y \notin callers' /\ caller'[y].done = caller[y].done
          /\ cbs'[y] = cbs[y] /\ InFinish(w, y)' /\ Started(y)
          /\ \A u \in Workers \ {w} : (InFinish(u, y)' <=> InFinish(u, y))
                                      /\ (InCallback(u, y)' <=> InCallback(u, y))
      BY <1>5, <2>2 DEF Takes, OnlyWorker, SameWorker
    <3>2. Open(y)
      BY <1>1, <3>1 DEF TakenCall, Answered, HeldBy
    <3>3. HeldBy(w, y)'
      BY <3>1, <3>2 DEF Open, HeldBy
    <3>. QED
      BY <3>3 DEF TakenCall
  <2>. QED
    BY <2>1, <2>2
<1>6. ASSUME NEW w \in Workers, NEW x \in Xids, InFinish(w, x) \/ InCallback(w, x)
      PROVE  HeldBy(w, x)
  <2>1. TakenCall(x) /\ Started(x)
    BY <1>6 DEF Taken, Shape, HandlersWork, GoodStep, InFinish, InCallback
  <2>2. PICK u \in Workers : HeldBy(u, x)
    BY <1>6, <2>1 DEF TakenCall, Open, Answered
  <2>. QED
    BY <1>6, <2>2 DEF HeldBy
<1>7. ASSUME NEW w \in Workers, NEW x \in Xids, TooLate(w, x) PROVE FALSE
  <2>1. HeldBy(w, x) /\ ~InCallback(w, x)
    BY <1>6, <1>7 DEF TooLate, InFinish, InCallback
  <2>. QED
    BY <1>7, <2>1 DEF TooLate, HeldBy
<1>8. ASSUME NEW w \in Workers, NEW x \in Xids, Claims(w, x) PROVE TakenCall(y)'
  <2>1. CASE y # x
    BY <1>1, <1>4, <1>8, <2>1 DEF Claims
  <2>2. CASE y = x
    <3>1. /\ y \in callers' <=> y \in callers
          /\ cbs'[y] = cbs[y] /\ InFinish(w, y) /\ InCallback(w, y)'
          /\ \A u \in Workers \ {w} : (InFinish(u, y)' <=> InFinish(u, y))
                                      /\ (InCallback(u, y)' <=> InCallback(u, y))
      BY <1>8, <2>2 DEF Claims, OnlyWorker, SameWorker
    <3>2. HeldBy(w, y)
      BY <1>6, <3>1
    <3>3. HeldBy(w, y)'
      BY <3>1, <3>2 DEF HeldBy
    <3>. QED
      BY <3>3 DEF TakenCall
  <2>. QED
    BY <2>1, <2>2
<1>9. ASSUME NEW w \in Workers, NEW x \in Xids, NEW e \in CallErrs, Returns(w, x, e)
      PROVE  TakenCall(y)'
  <2>1. CASE y # x
    BY <1>1, <1>4, <1>9, <2>1 DEF Returns, Leaves
  <2>2. CASE y = x
    <3>1. /\ y \in callers' <=> y \in callers
          /\ cbs'[y] = Append(cbs[y], e) /\ InCallback(w, y)
          /\ ~InFinish(w, y)' /\ ~InCallback(w, y)'
          /\ \A u \in Workers \ {w} : (InFinish(u, y)' <=> InFinish(u, y))
                                      /\ (InCallback(u, y)' <=> InCallback(u, y))
      BY <1>9, <2>2 DEF Returns, OnlyWorker, SameWorker, Leaves
    <3>2. HeldBy(w, y)
      BY <1>6, <3>1
    <3>3. Len(cbs'[y]) = 1
      <4>1. cbs[y] = <<>> /\ Len(<<>>) = 0
        BY <3>2 DEF HeldBy
      <4>. QED
        BY <1>1, <3>1, <4>1, AppendTells
    <3>4. Answered(y)'
      BY <3>1, <3>2, <3>3 DEF Answered, HeldBy
    <3>. QED
      BY <3>4 DEF TakenCall
  <2>. QED
    BY <2>1, <2>2
<1>. QED
  <2>1. \A x \in Xids : ~GivenUp(x) /\ ~TimesOut(x) /\ \A e \in SendErrs : ~Reports(x, e)
    BY DEF GivenUp, TimesOut, Reports
  <2>. QED
    BY <1>0, <1>2, <1>3, <1>5, <1>7, <1>8, <1>9, <2>1 DEF Outcome

LEMMA TakenAlways ==
  ASSUME Retrans
  PROVE  Spec => []Taken
<1>1. Spec => []Shape
  BY ShapeInit, ShapeStep, PTL DEF Spec
<1>2. Shape /\ Taken /\ [Next]_vars => Taken'
  BY TakenStep
<1>. QED
  BY <1>1, <1>2, TakenInit, PTL DEF Spec

\* A client with retransmission loses no call and completes none twice: a call
\* out of callers_ is with exactly one worker or was called back, whatever
\* replies, resends and failed sends did in between (GotPdu).
THEOREM EveryCallTakenOnce ==
  ASSUME Retrans
  PROVE  Spec => []TakenOnce
<1>1. ASSUME Shape, Taken PROVE TakenOnce
  <2>. SUFFICES ASSUME NEW x \in Xids, Started(x)
                PROVE  Cardinality({w \in Workers : Finishing(w, x)}) + Len(cbs[x])
                         = IF x \in callers THEN 0 ELSE 1
    BY DEF TakenOnce
  <2>1. \A w \in Workers : Finishing(w, x) <=> InFinish(w, x) \/ InCallback(w, x)
    BY DEF Finishing, InFinish, InCallback
  <2>. DEFINE F == {w \in Workers : Finishing(w, x)}
  <2>2. ASSUME \A w \in Workers : ~InFinish(w, x) /\ ~InCallback(w, x) PROVE Cardinality(F) = 0
    <3>1. F = {}
      BY <2>1, <2>2
    <3>. QED
      BY <3>1, FS_EmptySet
  <2>3. Len(<<>>) = 0
    OBVIOUS
  <2>4. CASE Open(x)
    BY <2>2, <2>3, <2>4 DEF Open
  <2>5. CASE Answered(x)
    BY <2>2, <2>5 DEF Answered
  <2>6. ASSUME NEW w \in Workers, HeldBy(w, x)
        PROVE  Cardinality(F) = 1 /\ Len(cbs[x]) = 0 /\ x \notin callers
    <3>1. F = {w}
      BY <2>1, <2>6 DEF HeldBy
    <3>. QED
      BY <2>3, <2>6, <3>1, FS_Singleton DEF HeldBy
  <2>. QED
    BY <1>1, <2>4, <2>5, <2>6 DEF Taken, TakenCall
<1>2. Spec => []Shape
  BY ShapeInit, ShapeStep, PTL DEF Spec
<1>. QED
  BY <1>1, <1>2, TakenAlways, PTL

\* With retransmission the callback of a call runs at most once.
THEOREM CalledBackOnce ==
  ASSUME Retrans
  PROVE  Spec => []OneCallback
<1>1. ASSUME Shape, Taken PROVE OneCallback
  <2>. SUFFICES ASSUME NEW x \in Xids PROVE Len(cbs[x]) <= 1
    BY DEF OneCallback
  <2>1. Len(<<>>) = 0
    OBVIOUS
  <2>2. CASE ~Started(x)
    BY <1>1, <2>1, <2>2 DEF Shape, Fresh
  <2>3. CASE Started(x)
    <3>1. cbs[x] = <<>> \/ Len(cbs[x]) = 1
      BY <1>1, <2>3, Zenon DEF Taken, TakenCall, Open, HeldBy, Answered
    <3>2. CASE cbs[x] = <<>>
      BY <2>1, <3>2
    <3>3. CASE Len(cbs[x]) = 1
      BY <3>3
    <3>. QED
      BY <3>1, <3>2, <3>3
  <2>. QED
    BY <2>2, <2>3
<1>2. Spec => []Shape
  BY ShapeInit, ShapeStep, PTL DEF Spec
<1>. QED
  BY <1>1, <1>2, TakenAlways, PTL

-----------------------------------------------------------------------------
(* Acknowledgements.  The list of received replies starts at the first one *)
(* that arrives, and its front claims every xid from 2 on.  That claim is  *)
(* true when the first reply is the one to the first call; with            *)
(* retransmission and one Bind of the application no second call is made   *)
(* before that reply.                                                      *)

AfterReply == {"lookup", "finish", "callback", "rebind"}

\* What the list says has arrived.
ListSound ==
    /\ got # {} => xid_rep_window # <<>>
    /\ xid_rep_window # <<>> => /\ 2..xid_rep_window[1] \subseteq got
                                /\ Range(xid_rep_window) \subseteq got

\* Nothing but the first Bind happens before a reply.
BindFirst ==
    /\ bind_done => got # {}
    /\ \A w \in Workers : io[w].op \in AfterReply => got # {}
    /\ got = {} => xid_ <= 3
    /\ xid_ > 2 => call[2].proc = BIND
    /\ \A x \in got : Started(x)

AckInv == ListSound /\ BindFirst /\ AckSound

LEMMA AckInit == Init => AckInv
<1>. SUFFICES ASSUME Init PROVE AckInv
  OBVIOUS
<1>1. ListSound
  BY DEF Init, ListSound
<1>2. BindFirst
  BY IdleIs DEF Init, BindFirst, AfterReply
<1>3. AckSound
  BY DEF Init, AckSound, NoCall
<1>. QED
  BY <1>1, <1>2, <1>3 DEF AckInv

\* A step that makes no call, reads no acknowledgement and brings no reply.
LEMMA AckStays ==
  ASSUME AckInv, UNCHANGED <<xid_, call, xid_rep_window, got>>,
         bind_done' => bind_done \/ got # {},
         \A w \in Workers : io'[w].op \in AfterReply => got # {}
  PROVE  AckInv'
<1>1. ListSound'
  BY DEF AckInv, ListSound
<1>2. BindFirst'
  BY DEF AckInv, BindFirst, Started
<1>3. AckSound'
  BY DEF AckInv, AckSound
<1>. QED
  BY <1>1, <1>2, <1>3 DEF AckInv

\* A worker moves.
LEMMA AckGoto ==
  ASSUME AckInv, Shape, NEW w \in Workers, NEW s, Goto(w, s),
         s.op \in AfterReply => got # {}
  PROVE  \A u \in Workers : io'[u].op \in AfterReply => got # {}
<1>1. \A u \in Workers : io'[u] = IF u = w THEN s ELSE io[u]
  BY DEF Shape, IoTypes, Goto
<1>. QED
  BY <1>1 DEF AckInv, BindFirst

\* A new call is the first Bind, or some reply has arrived.
LEMMA AckRegister ==
  ASSUME AckInv, Shape, NEW proc \in AllProcs, Register(proc),
         UNCHANGED <<xid_rep_window, got, bind_done>>,
         \A w \in Workers : io'[w].op \in AfterReply => got # {},
         got # {} \/ (proc = BIND /\ xid_ = 2)
  PROVE  AckInv'
<1>. USE BoundsAssumption, XidsAreNats
<1>1. xid_ \in Xids /\ xid_ \in Nat /\ xid_' = xid_ + 1 /\ 2 \in Xids
  BY DEF Register, Shape, CallTypes, Xids
<1>. DEFINE c == [NoCall EXCEPT !.pc = "registered", !.proc = proc]
<1>2. c.pc = "registered" /\ c.proc = proc
  BY DEF NoCall
<1>3. call' = [call EXCEPT ![xid_] = c]
  BY DEF Register
<1>. HIDE DEF c
<1>4. \A x \in Xids : call'[x] = IF x = xid_ THEN c ELSE call[x]
  BY <1>1, <1>3 DEF Shape, CallTypes
<1>5. ListSound'
  BY DEF AckInv, ListSound
<1>6. BindFirst'
  <2>1. \A x \in got : Started(x)'
    BY <1>2, <1>4 DEF AckInv, BindFirst, Started, Shape, WindowTypes
  <2>2. got' = {} => xid_' <= 3
    BY <1>1
  <2>3. xid_' > 2 => call'[2].proc = BIND
    <3>1. CASE xid_ = 2
      <4>1. got = {}
        <5>1. \A x \in Xids : ~Started(x)
          BY <3>1 DEF Shape, Fresh, Xids
        <5>. QED
          BY <5>1 DEF AckInv, BindFirst, Shape, WindowTypes
      <4>. QED
        BY <1>1, <1>2, <1>4, <3>1, <4>1
    <3>2. CASE xid_ # 2
      <4>1. xid_ > 2
        BY <1>1, <3>2 DEF Xids
      <4>. QED
        BY <1>1, <1>4, <3>2, <4>1 DEF AckInv, BindFirst
    <3>. QED
      BY <3>1, <3>2
  <2>4. bind_done' => got' # {}
    BY DEF AckInv, BindFirst
  <2>. QED
    BY <2>1, <2>2, <2>3, <2>4 DEF BindFirst
<1>7. AckSound'
  BY <1>2, <1>4 DEF AckInv, AckSound
<1>. QED
  BY <1>5, <1>6, <1>7 DEF AckInv

\* A call goes on with the acknowledgement it has, or with the one it reads.
LEMMA AckCallGoesOn ==
  ASSUME AckInv, Shape, NEW x \in Xids, NEW c \in CallRecords,
         call' = [call EXCEPT ![x] = c], c.proc = call[x].proc, c.pc # "none",
         2..c.xid_rep \subseteq got,
         UNCHANGED <<xid_, xid_rep_window, got, bind_done, io>>
  PROVE  AckInv'
<1>1. \A y \in Xids : call'[y] = IF y = x THEN c ELSE call[y]
  BY DEF Shape, CallTypes
<1>2. 2 \in Xids
  BY BoundsAssumption DEF Xids
<1>3. ListSound'
  BY DEF AckInv, ListSound
<1>4. BindFirst'
  BY <1>1, <1>2 DEF AckInv, BindFirst, Started, Shape, WindowTypes
<1>5. AckSound'
  BY <1>1 DEF AckInv, AckSound
<1>. QED
  BY <1>3, <1>4, <1>5 DEF AckInv

\* A reply arrives: the first one is the reply to xid 2, a later one joins the
\* list, and the compressed front has passed over received xids only.
LEMMA AckUpdate ==
  ASSUME AckInv, Shape, NEW w \in Workers, UpdateXidRep(w)
  PROVE  AckInv'
<1>. USE XidsAreNats
<1>1. PICK x : x = io[w].xid
  OBVIOUS
<1>2. /\ x \in Xids /\ Started(x) /\ x < xid_ /\ x \in Nat
      /\ xid_rep_window \in Seq(Xids) /\ NonDecreasing(xid_rep_window) /\ got \subseteq Xids
  BY <1>1 DEF Shape, HandlersWork, GoodStep, Fresh, WindowTypes, UpdateXidRep
<1>3. /\ UNCHANGED <<xid_, call, bind_done>> /\ got' = got \cup {x}
      /\ xid_rep_window' = UpdatedXidRep(xid_rep_window, x)
  BY <1>1 DEF UpdateXidRep, callVars
<1>. DEFINE l == xid_rep_window
            n == UpdatedXidRep(l, x)
            all == Range(l) \cup {x}
            start == IF l = <<>> THEN x ELSE l[1]
<1>4. /\ n \in Seq(Xids) /\ n # <<>>
      /\ l # <<>> /\ x <= l[1] => n = l
      /\ l = <<>> \/ x > l[1] =>
            n[1] \in all /\ start <= n[1] /\ start..n[1] \subseteq all /\ Range(n) \subseteq all
  BY <1>2, UpdatedXidRepIs
<1>. HIDE DEF n, all
<1>5. ListSound'
  <2>1. 2..n[1] \subseteq got \cup {x} /\ Range(n) \subseteq got \cup {x}
    <3>1. CASE l = <<>>
      <4>1. Range(l) = {}
        <5>1. Range(l) = {l[i] : i \in 1..Len(l)} /\ Len(l) = 0
          BY <1>2, <3>1, RangeIs, EmptySeq
        <5>. QED
          BY <5>1
      <4>2. all = {x}
        BY <4>1 DEF all
      <4>3. x = 2
        <5>1. got = {}
          BY <3>1 DEF AckInv, ListSound
        <5>2. xid_ <= 3
          BY <5>1 DEF AckInv, BindFirst
        <5>. QED
          BY <1>2, <5>2 DEF Shape, CallTypes, Xids
      <4>4. n[1] = 2 /\ Range(n) \subseteq {x}
        BY <1>4, <3>1, <4>2, <4>3
      <4>. QED
        BY <4>3, <4>4
    <3>2. CASE l # <<>> /\ x <= l[1]
      BY <1>4, <3>2 DEF AckInv, ListSound
    <3>3. CASE l # <<>> /\ ~(x <= l[1])
      <4>1. l[1] \in Nat
        BY <1>2, <3>3, NatSeq
      <4>2. /\ n[1] \in all /\ l[1]..n[1] \subseteq all /\ Range(n) \subseteq all
        BY <1>2, <1>4, <3>3, <4>1
      <4>3. all \subseteq got \cup {x} /\ 2..l[1] \subseteq got
        BY <3>3 DEF all, AckInv, ListSound
      <4>4. n[1] \in Nat
        BY <1>2, <4>2, <4>3
      <4>5. \A v \in 2..n[1] : v \in 2..l[1] \/ v \in l[1]..n[1]
        BY <4>1, <4>4
      <4>. QED
        BY <4>2, <4>3, <4>5
    <3>. QED
      BY <3>1, <3>2, <3>3
  <2>2. n # <<>> /\ xid_rep_window' = n
    BY <1>3, <1>4 DEF n
  <2>. QED
    BY <1>3, <2>1, <2>2 DEF ListSound
<1>6. BindFirst'
  <2>1. got' # {}
    BY <1>3
  <2>2. \A y \in got' : Started(y)'
    BY <1>2, <1>3 DEF AckInv, BindFirst, Started
  <2>. QED
    BY <1>3, <2>1, <2>2 DEF AckInv, BindFirst
<1>7. AckSound'
  BY <1>3 DEF AckInv, AckSound
<1>. QED
  BY <1>5, <1>6, <1>7 DEF AckInv

LEMMA AckStep ==
  ASSUME Retrans, MaxBinds <= 1, Shape, AckInv, [Next]_vars
  PROVE  AckInv'
<1>. USE XidsAreNats
<1>0. ASSUME UNCHANGED <<xid_, call, xid_rep_window, got, bind_done, io>> PROVE AckInv'
  BY <1>0, AckStays DEF AckInv, BindFirst
<1>1. CASE UNCHANGED vars
  BY <1>0, <1>1 DEF vars, callVars, ioVars, auxVars
<1>2. ASSUME NEW proc \in AllProcs, CallStart(proc) PROVE AckInv'
  <2>1. Register(proc) /\ UNCHANGED <<io, bind_done, xid_rep_window, got>>
    BY <1>2 DEF CallStart, ioVars, auxVars
  <2>2. got # {} \/ (proc = BIND /\ xid_ = 2)
    <3>1. CASE proc # BIND
      BY <2>1, <3>1 DEF Register, AckInv, BindFirst
    <3>2. CASE proc = BIND
      <4>. DEFINE B == {x \in Xids : call[x].pc # "none" /\ call[x].proc = BIND}
      <4>1. Cardinality(B) < MaxBinds
        BY <1>2, <3>2 DEF CallStart
      <4>2. IsFiniteSet(B) /\ Cardinality(B) \in Nat
        <5>1. IsFiniteSet(Xids)
          BY BoundsAssumption, FS_Interval DEF Xids
        <5>2. IsFiniteSet(B)
          BY <5>1, FS_Subset
        <5>. QED
          BY <5>2, FS_CardinalityType
      <4>3. Cardinality(B) = 0
        BY <4>1, <4>2, BoundsAssumption
      <4>4. B = {}
        BY <4>2, <4>3, FS_EmptySet
      <4>5. ~ (xid_ > 2)
        <5>1. 2 \in Xids
          BY BoundsAssumption DEF Xids
        <5>2. xid_ > 2 => Started(2)
          BY <5>1 DEF Shape, Fresh
        <5>. QED
          BY <4>4, <5>1, <5>2 DEF AckInv, BindFirst, Started
      <4>. QED
        BY <3>2, <4>5 DEF Shape, CallTypes
    <3>. QED
      BY <3>1, <3>2
  <2>3. \A w \in Workers : io'[w].op \in AfterReply => got # {}
    BY <2>1 DEF AckInv, BindFirst
  <2>. QED
    BY <2>1, <2>2, <2>3, AckRegister
<1>3. ASSUME NEW x \in Xids, AppThread(x) PROVE AckInv'
  <2>1. UNCHANGED <<xid_, xid_rep_window, got, bind_done, io>> /\ Started(x)
        /\ call[x] \in CallRecords /\ call[x].xid_rep \in Nat
    BY <1>3 DEF AppThread, CallReadAck, CallSend, CallWait, ioVars, auxVars, Started, Shape,
                CallTypes, CallRecords
  <2>2. CASE CallReadAck(x)
    <3>. DEFINE c == [call[x] EXCEPT !.pc = "acked", !.xid_rep = ReceivedXid(xid_rep_window)]
    <3>1. ReceivedXid(xid_rep_window) \in Nat
      BY NatSeq DEF Shape, WindowTypes, ReceivedXid
    <3>2. c \in CallRecords /\ c.pc = "acked" /\ c.proc = call[x].proc
          /\ c.xid_rep = ReceivedXid(xid_rep_window)
      BY <2>1, <3>1 DEF CallRecords, CallPcs
    <3>3. call' = [call EXCEPT ![x] = c]
      BY <2>1, <2>2 DEF CallReadAck, CallRecords
    <3>4. 2..ReceivedXid(xid_rep_window) \subseteq got
      BY DEF ReceivedXid, AckInv, ListSound
    <3>. HIDE DEF c
    <3>. QED
      BY <2>1, <3>2, <3>3, <3>4, AckCallGoesOn
  <2>3. CASE CallSend(x)
    <3>. DEFINE c == [call[x] EXCEPT !.pc = "sent", !.srv_nonce = srv_nonce]
    <3>1. c \in CallRecords /\ c.pc = "sent" /\ c.proc = call[x].proc
          /\ c.xid_rep = call[x].xid_rep
      BY <2>1 DEF CallRecords, CallPcs, Shape, BindTypes
    <3>2. call' = [call EXCEPT ![x] = c] /\ call[x].pc = "acked"
      BY <2>1, <2>3 DEF CallSend, CallRecords
    <3>3. 2..call[x].xid_rep \subseteq got
      BY <3>2 DEF AckInv, AckSound
    <3>. HIDE DEF c
    <3>. QED
      BY <2>1, <3>1, <3>2, <3>3, AckCallGoesOn
  <2>4. CASE CallWait(x)
    <3>. DEFINE c == [call[x] EXCEPT !.pc = "returned"]
    <3>1. c \in CallRecords /\ c.pc = "returned" /\ c.proc = call[x].proc
          /\ c.xid_rep = call[x].xid_rep
      BY <2>1 DEF CallRecords, CallPcs
    <3>2. call' = [call EXCEPT ![x] = c] /\ call[x].pc = "sent"
      BY <2>1, <2>4 DEF CallWait, CallRecords
    <3>3. 2..call[x].xid_rep \subseteq got
      BY <3>2 DEF AckInv, AckSound
    <3>. HIDE DEF c
    <3>. QED
      BY <2>1, <3>1, <3>2, <3>3, AckCallGoesOn
  <2>. QED
    BY <1>3, <2>2, <2>3, <2>4 DEF AppThread
<1>4. ASSUME NEW w \in Workers, NEW s, Goto(w, s), s.op \in AfterReply => got # {},
             UNCHANGED <<xid_, call, xid_rep_window, got>>, bind_done' => bind_done \/ got # {}
      PROVE AckInv'
  BY <1>4, AckGoto, AckStays
<1>5. CASE Environment
  <2>1. ASSUME NEW x \in Xids, TimerExpires(x) PROVE AckInv'
    BY <1>0, <2>1 DEF TimerExpires, ioVars, auxVars
  <2>2. ASSUME NEW x \in Xids, NEW e \in {"OK"} \cup SendErrs, SendResolves(x, e) PROVE AckInv'
    BY <1>0, <2>2 DEF SendResolves, ioVars
  <2>3. ASSUME NEW x \in Xids, NEW ok \in BOOLEAN, Reconnected(x, ok) PROVE AckInv'
    BY <1>0, <2>3 DEF Reconnected, ioVars
  <2>4. ASSUME NEW w \in Workers, ReceiveFails(w) PROVE AckInv'
    BY <1>0, <2>4 DEF ReceiveFails, callVars, auxVars
  <2>5. ASSUME NEW w \in Workers, NEW rep \in Answers, ReceiveReply(w, rep) PROVE AckInv'
    <3>1. UNCHANGED <<xid_, call, xid_rep_window, got, bind_done>>
          /\ Goto(w, Step("update", rep.xid, rep.err, rep.result))
      BY <2>5 DEF ReceiveReply, callVars, auxVars
    <3>2. Step("update", rep.xid, rep.err, rep.result).op \notin AfterReply
      BY StepIs DEF AfterReply
    <3>. QED
      BY <1>4, <3>1, <3>2
  <2>. QED
    BY <1>5, <2>1, <2>2, <2>3, <2>4, <2>5 DEF Environment
<1>6. ASSUME NEW w \in Workers, Worker(w) PROVE AckInv'
  <2>1. /\ io[w] \in IoRecords
        /\ io[w].op \in AfterReply => got # {}
        /\ io[w].op # "failcallback"
    BY DEF Shape, IoTypes, HandlersWork, GoodStep, AckInv, BindFirst
  <2>2. Idle.op \notin AfterReply
    BY IdleIs DEF AfterReply
  <2>3. CASE TakeCaller(w) \/ FinishCaller(w)
    <3>1. UNCHANGED <<xid_, call, xid_rep_window, got, bind_done>>
          /\ io[w].op \in {"lookup", "finish"}
      BY <2>3 DEF TakeCaller, FinishCaller, auxVars
    <3>2. got # {}
      BY <2>1, <3>1 DEF AfterReply
    <3>3. \E s : Goto(w, s)
      BY <2>3, Zenon DEF TakeCaller, FinishCaller
    <3>. QED
      BY <1>4, <3>1, <3>2, <3>3
  <2>4. CASE Callback(w)
    <3>1. UNCHANGED <<xid_, call, xid_rep_window, got>> /\ io[w].op = "callback"
      BY <2>4 DEF Callback
    <3>2. got # {}
      BY <2>1, <3>1 DEF AfterReply
    <3>. QED
      BY <3>1, <3>2, AckStays
  <2>5. CASE Resend(w) \/ RetrySend(w)
    <3>1. UNCHANGED <<xid_, call, xid_rep_window, got, bind_done>> /\ Goto(w, Idle)
      BY <2>5 DEF Resend, RetrySend
    <3>. QED
      BY <1>4, <2>2, <3>1
  <2>6. CASE Rebind(w)
    <3>1. /\ UNCHANGED <<xid_rep_window, got, bind_done>> /\ Goto(w, Idle)
          /\ io[w].op = "rebind"
          /\ UNCHANGED <<xid_, call>> \/ Register(BIND)
      BY <2>6 DEF Rebind, callVars, auxVars
    <3>2. got # {} /\ BIND \in AllProcs
      BY <2>1, <3>1 DEF AfterReply, AllProcs
    <3>3. \A u \in Workers : io'[u].op \in AfterReply => got # {}
      BY <3>2
    <3>. QED
      BY <3>1, <3>2, <3>3, AckStays, AckRegister
  <2>7. ASSUME NEW x \in Xids, SendSucceeded(w, x) PROVE AckInv'
    BY <1>0, <2>7 DEF SendSucceeded, auxVars
  <2>8. ASSUME NEW x \in Xids, NEW e \in SendErrs, SendFailed(w, x, e) PROVE AckInv'
    <3>1. UNCHANGED <<xid_, call, xid_rep_window, got, bind_done>>
          /\ Goto(w, IF x \in callers THEN Step("sendfailed", x, e, 0) ELSE Idle)
      BY <2>8 DEF SendFailed, auxVars
    <3>2. Step("sendfailed", x, e, 0).op \notin AfterReply
      BY StepIs DEF AfterReply
    <3>. QED
      BY <1>4, <2>2, <3>1, <3>2
  <2>9. ASSUME NEW x \in Xids, OnTimerExpired(w, x) PROVE AckInv'
    <3>1. /\ UNCHANGED <<xid_, call, xid_rep_window, got, bind_done>>
          /\ UNCHANGED io \/ Goto(w, Step("resend", x, "OK", 0))
      BY <2>9 DEF OnTimerExpired
    <3>2. Step("resend", x, "OK", 0).op \notin AfterReply
      BY StepIs DEF AfterReply
    <3>. QED
      BY <1>0, <1>4, <3>1, <3>2
  <2>10. ~GiveUp(w) /\ ~FailCallback(w)
    BY <2>1 DEF GiveUp, FailCallback
  <2>. QED
    BY <1>6, <2>3, <2>4, <2>5, <2>6, <2>7, <2>8, <2>9, <2>10, AckUpdate DEF Worker
<1>. QED
  BY <1>1, <1>2, <1>3, <1>5, <1>6 DEF Next

\* With retransmission and one Bind made by the application, a request never
\* acknowledges a reply the client has not received, for any order of replies:
\* the server may forget what is acknowledged (UpdateXidRep, received_xid).
THEOREM AcknowledgesReceived ==
  ASSUME Retrans, MaxBinds <= 1
  PROVE  Spec => []AckSound
<1>1. Spec => []Shape
  BY ShapeInit, ShapeStep, PTL DEF Spec
<1>2. Shape /\ AckInv /\ [Next]_vars => AckInv'
  BY AckStep
<1>3. AckInv => AckSound
  BY DEF AckInv
<1>. QED
  BY <1>1, <1>2, <1>3, AckInit, PTL DEF Spec

-----------------------------------------------------------------------------
(* Order: what happens to a request happens after it was sent, and only a  *)
(* client that is bound calls anything but BIND.                           *)

Sent(x) == call[x].pc \in {"sent", "returned"}
ReplyOps == {"update", "lookup", "finish", "callback"}

SendsOrdered == \A x \in Xids : ~Sent(x) => sends[x] = NoSends /\ timer[x] = "none"
HandlersOrdered == \A w \in Workers : io[w].op \notin {"idle", "rebind"} => Sent(io[w].xid)
AcksTyped == \A x \in Xids : call[x].xid_rep \in {0} \cup Xids
CallsBound == \A x \in Xids : Started(x) /\ call[x].proc # BIND => bind_done
Orderly == SendsOrdered /\ HandlersOrdered /\ AcksTyped /\ CallsBound

LEMMA OrderlyInit == Init => Orderly
<1>. SUFFICES ASSUME Init PROVE Orderly
  OBVIOUS
<1>1. SendsOrdered
  BY DEF Init, SendsOrdered
<1>2. HandlersOrdered
  BY IdleIs DEF Init, HandlersOrdered
<1>3. AcksTyped /\ CallsBound
  BY DEF Init, AcksTyped, CallsBound, NoCall, Started
<1>. QED
  BY <1>1, <1>2, <1>3 DEF Orderly

\* A new call disturbs no other.
LEMMA RegisterDisturbsNone ==
  ASSUME Shape, NEW proc \in AllProcs, Register(proc)
  PROVE  /\ \A x \in Xids : /\ Sent(x)' <=> Sent(x)
                            /\ Sent(x) => call'[x] = call[x]
         /\ AcksTyped => AcksTyped'
         /\ CallsBound /\ UNCHANGED bind_done => CallsBound'
         /\ UNCHANGED <<timer, sends>>
<1>1. xid_ \in Xids /\ ~Started(xid_)
  BY BoundsAssumption, XidsAreNats DEF Register, Shape, CallTypes, Xids, Fresh
<1>. DEFINE c == [NoCall EXCEPT !.pc = "registered", !.proc = proc]
<1>2. c.pc = "registered" /\ c.proc = proc /\ c.xid_rep = 0
  BY DEF NoCall
<1>3. call' = [call EXCEPT ![xid_] = c]
  BY DEF Register
<1>. HIDE DEF c
<1>4. \A x \in Xids : call'[x] = IF x = xid_ THEN c ELSE call[x]
  BY <1>1, <1>3 DEF Shape, CallTypes
<1>5. \A x \in Xids : (Sent(x)' <=> Sent(x)) /\ (Sent(x) => call'[x] = call[x])
  BY <1>1, <1>2, <1>4 DEF Sent, Started
<1>6. AcksTyped => AcksTyped'
  BY <1>2, <1>4 DEF AcksTyped
<1>7. CallsBound /\ UNCHANGED bind_done => CallsBound'
  BY <1>2, <1>4 DEF CallsBound, Started, Register
<1>8. UNCHANGED <<timer, sends>>
  BY DEF Register
<1>. QED
  BY <1>5, <1>6, <1>7, <1>8

\* A handler, or a part of one, makes no call but Bind, and hands a reply on
\* as it is.
LEMMA WorkerHandsOn ==
  ASSUME Shape, NEW w \in Workers, Worker(w)
  PROVE  /\ \/ UNCHANGED call
            \/ Register(BIND) /\ UNCHANGED bind_done
         /\ \A u \in Workers : io'[u].op \in ReplyOps =>
               /\ io[u].op \in ReplyOps /\ io'[u].xid = io[u].xid
               /\ io'[u].err = io[u].err /\ io'[u].result = io[u].result
         /\ \/ UNCHANGED <<bind_done, srv_nonce>>
            \/ /\ io[w].op = "callback" /\ io[w].err = "OK" /\ call[io[w].xid].proc = BIND
               /\ bind_done' /\ srv_nonce' = io[w].result
<1>1. io[w] \in IoRecords /\ io \in [Workers -> IoRecords]
  BY DEF Shape, IoTypes
<1>2. UNCHANGED call \/ (Register(BIND) /\ UNCHANGED bind_done)
  BY DEF Worker, UpdateXidRep, TakeCaller, FinishCaller, Callback, Resend, RetrySend, GiveUp,
         FailCallback, Rebind, OnTimerExpired, SendSucceeded, SendFailed, callVars
<1>3. \/ UNCHANGED <<bind_done, srv_nonce>>
      \/ /\ io[w].op = "callback" /\ io[w].err = "OK" /\ call[io[w].xid].proc = BIND
         /\ bind_done' /\ srv_nonce' = io[w].result
  BY DEF Worker, UpdateXidRep, TakeCaller, FinishCaller, Callback, Resend, RetrySend, GiveUp,
         FailCallback, Rebind, OnTimerExpired, SendSucceeded, SendFailed, ioVars
<1>4. \A x : AfterError(x).op \notin ReplyOps
  BY StepIs, IdleIs DEF AfterError, ReplyOps
<1>5. Idle.op \notin ReplyOps
  BY IdleIs DEF ReplyOps
<1>6. \A op \in Ops : LET t == [io[w] EXCEPT !.op = op] IN
         t.op = op /\ t.xid = io[w].xid /\ t.err = io[w].err /\ t.result = io[w].result
  BY <1>1, SameWork
<1>7. ASSUME NEW s, Goto(w, s),
             s.op \in ReplyOps => /\ io[w].op \in ReplyOps /\ s.xid = io[w].xid
                                  /\ s.err = io[w].err /\ s.result = io[w].result
      PROVE  \A u \in Workers : io'[u].op \in ReplyOps =>
               /\ io[u].op \in ReplyOps /\ io'[u].xid = io[u].xid
               /\ io'[u].err = io[u].err /\ io'[u].result = io[u].result
  <2>1. \A u \in Workers : io'[u] = IF u = w THEN s ELSE io[u]
    BY <1>1, <1>7 DEF Goto
  <2>. QED
    BY <1>7, <2>1
<1>8. \A u \in Workers : io'[u].op \in ReplyOps =>
         /\ io[u].op \in ReplyOps /\ io'[u].xid = io[u].xid
         /\ io'[u].err = io[u].err /\ io'[u].result = io[u].result
  <2>0. ASSUME io' = io
        PROVE  \A u \in Workers : io'[u].op \in ReplyOps =>
                 /\ io[u].op \in ReplyOps /\ io'[u].xid = io[u].xid
                 /\ io'[u].err = io[u].err /\ io'[u].result = io[u].result
    BY <2>0
  <2>1. {"lookup", "finish", "callback", "failcallback"} \subseteq Ops
    BY DEF Ops
  <2>2. CASE UpdateXidRep(w)
    <3>1. io[w].op = "update" /\ Goto(w, [io[w] EXCEPT !.op = "lookup"])
      BY <2>2 DEF UpdateXidRep
    <3>2. io[w].op \in ReplyOps
      BY <3>1 DEF ReplyOps
    <3>. QED
      BY <1>6, <1>7, <2>1, <3>1, <3>2
  <2>3. CASE TakeCaller(w) \/ FinishCaller(w)
    <3>1. /\ io[w].op \in {"lookup", "finish"}
          /\ \/ Goto(w, Idle) \/ Goto(w, [io[w] EXCEPT !.op = "finish"])
             \/ Goto(w, [io[w] EXCEPT !.op = "callback"])
      BY <2>3 DEF TakeCaller, FinishCaller
    <3>2. io[w].op \in ReplyOps
      BY <3>1 DEF ReplyOps
    <3>. QED
      BY <1>5, <1>6, <1>7, <2>1, <3>1, <3>2
  <2>4. CASE Callback(w)
    <3>1. io' = io \/ Goto(w, IF io[w].err = "OK" THEN Idle ELSE AfterError(io[w].xid))
      BY <2>4 DEF Callback
    <3>. QED
      BY <1>4, <1>5, <1>7, <2>0, <3>1
  <2>5. CASE Resend(w) \/ RetrySend(w) \/ Rebind(w)
    <3>1. Goto(w, Idle)
      BY <2>5 DEF Resend, RetrySend, Rebind
    <3>. QED
      BY <1>5, <1>7, <3>1
  <2>6. CASE GiveUp(w)
    <3>1. Goto(w, [io[w] EXCEPT !.op = "failcallback"])
      BY <2>6 DEF GiveUp
    <3>2. [io[w] EXCEPT !.op = "failcallback"].op \notin ReplyOps
      BY <1>6, <2>1 DEF ReplyOps
    <3>. QED
      BY <1>7, <3>1, <3>2
  <2>7. CASE FailCallback(w)
    <3>1. Goto(w, AfterError(io[w].xid))
      BY <2>7 DEF FailCallback
    <3>. QED
      BY <1>4, <1>7, <3>1
  <2>8. CASE \E x \in Xids : OnTimerExpired(w, x) \/ SendSucceeded(w, x)
    <3>1. PICK x \in Xids : OnTimerExpired(w, x) \/ SendSucceeded(w, x)
      BY <2>8
    <3>2. io' = io \/ Goto(w, AfterError(x)) \/ Goto(w, Step("resend", x, "OK", 0))
      BY <3>1 DEF OnTimerExpired, SendSucceeded
    <3>3. Step("resend", x, "OK", 0).op \notin ReplyOps
      BY StepIs DEF ReplyOps
    <3>. QED
      BY <1>4, <1>7, <2>0, <3>2, <3>3
  <2>9. CASE \E x \in Xids, e \in SendErrs : SendFailed(w, x, e)
    <3>1. PICK x \in Xids, e \in SendErrs : SendFailed(w, x, e)
      BY <2>9
    <3>2. Goto(w, IF x \in callers THEN Step("sendfailed", x, e, 0) ELSE Idle)
      BY <3>1 DEF SendFailed
    <3>3. Step("sendfailed", x, e, 0).op \notin ReplyOps
      BY StepIs DEF ReplyOps
    <3>. QED
      BY <1>5, <1>7, <3>2, <3>3
  <2>. QED
    BY <2>2, <2>3, <2>4, <2>5, <2>6, <2>7, <2>8, <2>9 DEF Worker
<1>. QED
  BY <1>2, <1>3, <1>8

\* A step that leaves requests sent, and touches sends and timers of those
\* only.
LEMMA OrderlyKept ==
  ASSUME Orderly, \A x \in Xids : Sent(x) => Sent(x)',
         \A x \in Xids : Sent(x)' \/ (sends'[x] = sends[x] /\ timer'[x] = timer[x]),
         \A w \in Workers : io'[w].op \notin {"idle", "rebind"} =>
             io'[w].xid \in Xids /\ (Sent(io'[w].xid) \/ call'[io'[w].xid].pc \in {"sent", "returned"}),
         AcksTyped', CallsBound'
  PROVE  Orderly'
<1>1. SendsOrdered'
  BY DEF Orderly, SendsOrdered
<1>2. ASSUME NEW w \in Workers, io'[w].op \notin {"idle", "rebind"}
      PROVE  call'[io'[w].xid].pc \in {"sent", "returned"}
  <2>1. PICK x : x = io'[w].xid
    OBVIOUS
  <2>2. x \in Xids /\ (Sent(x) \/ Sent(x)')
    BY <1>2, <2>1 DEF Sent
  <2>3. Sent(x)'
    BY <2>2
  <2>. QED
    BY <2>1, <2>3 DEF Sent
<1>3. HandlersOrdered'
  BY <1>2 DEF HandlersOrdered, Sent
<1>. QED
  BY <1>1, <1>3 DEF Orderly

\* Send operations and timers of a call that was not sent do not exist.
LEMMA SendsAreOfSent ==
  ASSUME Orderly, NEW x \in Xids
  PROVE  /\ \A s \in SendStates : sends[x][s] > 0 => Sent(x)
         /\ timer[x] # "none" => Sent(x)
<1>1. \A s \in SendStates : NoSends[s] = 0
  BY DEF NoSends
<1>. QED
  BY <1>1 DEF Orderly, SendsOrdered

\* What an io thread does to sends and timers, it does to those of a request
\* that was sent; and a worker gets to a request by its send, its timer or a
\* reply to it.
LEMMA WorkerOrdered ==
  ASSUME Shape, Orderly, NEW w \in Workers, Worker(w)
  PROVE  /\ \A x \in Xids : Sent(x) \/ (sends'[x] = sends[x] /\ timer'[x] = timer[x])
         /\ \A u \in Workers : io'[u].op \notin {"idle", "rebind"} =>
               io'[u].xid \in Xids /\ Sent(io'[u].xid)
<1>1. io[w] \in IoRecords /\ io \in [Workers -> IoRecords]
  BY DEF Shape, IoTypes
<1>2. PICK y : y = io[w].xid
  OBVIOUS
<1>3. \A u \in Workers : io[u].op \notin {"idle", "rebind"} => io[u].xid \in Xids /\ Sent(io[u].xid)
  BY DEF Shape, HandlersWork, GoodStep, Orderly, HandlersOrdered
<1>. DEFINE IoOk == \A u \in Workers : io'[u].op \notin {"idle", "rebind"} =>
                       io'[u].xid \in Xids /\ Sent(io'[u].xid)
            SendsOk == \A x \in Xids : Sent(x) \/ (sends'[x] = sends[x] /\ timer'[x] = timer[x])
<1>4. ASSUME NEW s, Goto(w, s), s.op \notin {"idle", "rebind"} => s.xid \in Xids /\ Sent(s.xid)
      PROVE  IoOk
  <2>1. \A u \in Workers : io'[u] = IF u = w THEN s ELSE io[u]
    BY <1>1, <1>4 DEF Goto
  <2>. QED
    BY <1>3, <1>4, <2>1
<1>5. io' = io => IoOk
  BY <1>3
<1>6. \A op \in Ops : LET t == [io[w] EXCEPT !.op = op] IN t.op = op /\ t.xid = y
  BY <1>1, <1>2, SameWork
<1>7. \A x : AfterError(x).op \in {"idle", "rebind"}
  BY StepIs, IdleIs DEF AfterError
<1>8. Idle.op = "idle"
  BY IdleIs
<1>9. {"lookup", "finish", "callback", "failcallback"} \subseteq Ops
  BY DEF Ops
<1>10. io[w].op \notin {"idle", "rebind"} => y \in Xids /\ Sent(y)
  BY <1>2, <1>3
<1>11. ASSUME NEW x \in Xids, Sent(x), NEW s \in SendStates,
              \/ sends' = [sends EXCEPT ![x][s] = @ + 1]
              \/ sends' = [sends EXCEPT ![x][s] = @ - 1]
       PROVE  \A z \in Xids : Sent(z) \/ sends'[z] = sends[z]
  BY <1>11 DEF Shape, SendTypes
<1>12. ASSUME NEW x \in Xids, Sent(x), Destroy(x)
       PROVE  \A z \in Xids : Sent(z) \/ timer'[z] = timer[z]
  BY <1>12 DEF Destroy, Shape, TimerTypes
<1>13. {"queued", "connecting", "OK"} \subseteq SendStates /\ SendErrs \subseteq SendStates
  BY DEF SendStates
<1>. HIDE DEF IoOk, SendsOk
<1>20. CASE UpdateXidRep(w)
  <2>1. io[w].op = "update" /\ Goto(w, [io[w] EXCEPT !.op = "lookup"]) /\ UNCHANGED <<sends, timer>>
    BY <1>20 DEF UpdateXidRep, callVars
  <2>. QED
    BY <1>4, <1>6, <1>9, <1>10, <2>1 DEF IoOk, SendsOk
<1>21. CASE TakeCaller(w)
  <2>1. /\ io[w].op = "lookup" /\ UNCHANGED <<sends, timer>>
        /\ Goto(w, Idle) \/ Goto(w, [io[w] EXCEPT !.op = "finish"])
    BY <1>21 DEF TakeCaller
  <2>. QED
    BY <1>4, <1>6, <1>8, <1>9, <1>10, <2>1 DEF IoOk, SendsOk
<1>22. CASE FinishCaller(w)
  <2>1. /\ io[w].op = "finish" /\ UNCHANGED sends
        /\ \/ Destroy(y) /\ Goto(w, Idle)
           \/ UNCHANGED timer /\ Goto(w, [io[w] EXCEPT !.op = "callback"])
    BY <1>2, <1>22 DEF FinishCaller
  <2>. QED
    BY <1>4, <1>6, <1>8, <1>9, <1>10, <1>12, <2>1 DEF IoOk, SendsOk
<1>23. CASE Callback(w)
  <2>1. /\ io[w].op = "callback" /\ UNCHANGED sends
        /\ \/ UNCHANGED <<timer, io>>
           \/ Destroy(y) /\ (Goto(w, Idle) \/ Goto(w, AfterError(y)))
    BY <1>2, <1>23 DEF Callback
  <2>. QED
    BY <1>4, <1>5, <1>7, <1>8, <1>10, <1>12, <2>1 DEF IoOk, SendsOk
<1>24. CASE Resend(w)
  <2>1. io[w].op = "resend" /\ Goto(w, Idle) /\ UNCHANGED timer /\ sends' = [sends EXCEPT ![y]["queued"] = @ + 1]
    BY <1>2, <1>24 DEF Resend, Queued
  <2>. QED
    BY <1>4, <1>8, <1>10, <1>11, <1>13, <2>1 DEF IoOk, SendsOk
<1>25. CASE RetrySend(w)
  <2>1. /\ io[w].op = "sendfailed" /\ Goto(w, Idle) /\ UNCHANGED timer
        /\ \/ sends' = [sends EXCEPT ![y]["queued"] = @ + 1]
           \/ sends' = [sends EXCEPT ![y]["connecting"] = @ + 1]
    BY <1>2, <1>25 DEF RetrySend
  <2>. QED
    BY <1>4, <1>8, <1>10, <1>11, <1>13, <2>1 DEF IoOk, SendsOk
<1>26. CASE GiveUp(w)
  <2>1. io[w].op = "sendfailed" /\ Goto(w, [io[w] EXCEPT !.op = "failcallback"]) /\ UNCHANGED <<sends, timer>>
    BY <1>26 DEF GiveUp
  <2>. QED
    BY <1>4, <1>6, <1>9, <1>10, <2>1 DEF IoOk, SendsOk
<1>27. CASE FailCallback(w)
  <2>1. Goto(w, AfterError(y)) /\ UNCHANGED <<sends, timer>>
    BY <1>2, <1>27 DEF FailCallback, callVars
  <2>. QED
    BY <1>4, <1>7, <2>1 DEF IoOk, SendsOk
<1>28. CASE Rebind(w)
  <2>1. Goto(w, Idle) /\ UNCHANGED <<sends, timer>>
    BY <1>28 DEF Rebind, Register, callVars
  <2>. QED
    BY <1>4, <1>8, <2>1 DEF IoOk, SendsOk
<1>29. ASSUME NEW x \in Xids, OnTimerExpired(w, x) PROVE IoOk /\ SendsOk
  <2>1. /\ timer[x] = "expired" /\ timer' = [timer EXCEPT ![x] = "ran"] /\ UNCHANGED sends
        /\ io' = io \/ Goto(w, AfterError(x)) \/ Goto(w, Step("resend", x, "OK", 0))
    BY <1>29 DEF OnTimerExpired
  <2>2. Sent(x)
    BY <2>1, SendsAreOfSent
  <2>3. \A z \in Xids : Sent(z) \/ timer'[z] = timer[z]
    BY <2>1, <2>2 DEF Shape, TimerTypes
  <2>4. Step("resend", x, "OK", 0).xid = x
    BY StepIs
  <2>5. IoOk
    BY <1>4, <1>5, <1>7, <2>1, <2>2, <2>4
  <2>. QED
    BY <2>1, <2>3, <2>5 DEF SendsOk
<1>30. ASSUME NEW x \in Xids, SendSucceeded(w, x) PROVE IoOk /\ SendsOk
  <2>1. /\ sends[x]["OK"] > 0 /\ sends' = [sends EXCEPT ![x]["OK"] = @ - 1]
        /\ UNCHANGED <<timer, io>>
    BY <1>30 DEF SendSucceeded
  <2>2. Sent(x)
    BY <1>13, <2>1, SendsAreOfSent
  <2>. QED
    BY <1>5, <1>11, <1>13, <2>1, <2>2 DEF SendsOk
<1>31. ASSUME NEW x \in Xids, NEW e \in SendErrs, SendFailed(w, x, e) PROVE IoOk /\ SendsOk
  <2>1. /\ sends[x][e] > 0 /\ sends' = [sends EXCEPT ![x][e] = @ - 1] /\ UNCHANGED timer
        /\ Goto(w, Idle) \/ Goto(w, Step("sendfailed", x, e, 0))
    BY <1>31 DEF SendFailed
  <2>2. Sent(x)
    BY <1>13, <2>1, SendsAreOfSent
  <2>3. Step("sendfailed", x, e, 0).xid = x
    BY StepIs
  <2>4. IoOk
    BY <1>4, <1>8, <2>1, <2>2, <2>3
  <2>. QED
    BY <1>11, <1>13, <2>1, <2>2, <2>4 DEF SendsOk
<1>. QED
  BY <1>20, <1>21, <1>22, <1>23, <1>24, <1>25, <1>26, <1>27, <1>28, <1>29, <1>30, <1>31
     DEF Worker, IoOk, SendsOk

LEMMA OrderlyStep == Shape /\ Orderly /\ [Next]_vars => Orderly'
<1>. SUFFICES ASSUME Shape, Orderly, [Next]_vars PROVE Orderly'
  OBVIOUS
<1>1. io \in [Workers -> IoRecords] /\ bind_done \in BOOLEAN /\ call \in [Xids -> CallRecords]
  BY DEF Shape, IoTypes, BindTypes, CallTypes
<1>2. \A u \in Workers : io[u].op \notin {"idle", "rebind"} => io[u].xid \in Xids /\ Sent(io[u].xid)
  BY DEF Shape, HandlersWork, GoodStep, Orderly, HandlersOrdered
<1>3. UNCHANGED <<call, bind_done>> =>
         AcksTyped' /\ CallsBound' /\ \A x \in Xids : Sent(x) => Sent(x)'
  BY DEF Orderly, AcksTyped, CallsBound, Started, Sent
<1>4. ASSUME NEW proc \in AllProcs, CallStart(proc) PROVE Orderly'
  <2>1. Register(proc) /\ UNCHANGED <<io, bind_done>>
    BY <1>4 DEF CallStart, ioVars
  <2>2. /\ \A x \in Xids : Sent(x) => Sent(x)'
        /\ AcksTyped' /\ CallsBound' /\ UNCHANGED <<timer, sends>>
    BY <2>1, RegisterDisturbsNone DEF Orderly
  <2>. QED
    BY <1>2, <2>1, <2>2, OrderlyKept
<1>5. ASSUME NEW x \in Xids, AppThread(x) PROVE Orderly'
  <2>0. call[x] \in CallRecords
    BY <1>1
  <2>1. CASE CallReadAck(x)
    <3>. DEFINE a == ReceivedXid(xid_rep_window)
                c == [call[x] EXCEPT !.pc = "acked", !.xid_rep = a]
    <3>1. a \in {0} \cup Xids
      BY DEF ReceivedXid, Shape, WindowTypes
    <3>. HIDE DEF a
    <3>2. c.pc = "acked" /\ c.xid_rep = a /\ c.proc = call[x].proc
      BY <2>0 DEF CallRecords
    <3>3. call' = [call EXCEPT ![x] = c] /\ UNCHANGED <<sends, timer, io, bind_done>>
      BY <2>1 DEF CallReadAck, ioVars, a
    <3>4. call[x].pc = "registered"
      BY <2>1 DEF CallReadAck
    <3>. HIDE DEF c
    <3>5. \A z \in Xids : call'[z] = IF z = x THEN c ELSE call[z]
      BY <1>1, <3>3
    <3>6. AcksTyped' /\ CallsBound'
      BY <3>1, <3>2, <3>3, <3>4, <3>5 DEF Orderly, AcksTyped, CallsBound, Started
    <3>7. \A z \in Xids : Sent(z) => Sent(z)'
      BY <3>4, <3>5 DEF Sent
    <3>. QED
      BY <1>2, <3>3, <3>6, <3>7, OrderlyKept
  <2>2. CASE CallSend(x)
    <3>. DEFINE c == [call[x] EXCEPT !.pc = "sent", !.srv_nonce = srv_nonce]
    <3>1. /\ call' = [call EXCEPT ![x] = c] /\ UNCHANGED <<timer, io, bind_done>>
          /\ sends' = [sends EXCEPT ![x]["queued"] = @ + 1] /\ call[x].pc = "acked"
      BY <2>2 DEF CallSend, ioVars, Queued
    <3>2. c.pc = "sent" /\ c.xid_rep = call[x].xid_rep /\ c.proc = call[x].proc
      BY <2>0 DEF CallRecords
    <3>. HIDE DEF c
    <3>3. \A z \in Xids : call'[z] = IF z = x THEN c ELSE call[z]
      BY <1>1, <3>1
    <3>4. AcksTyped' /\ CallsBound'
      BY <3>1, <3>2, <3>3 DEF Orderly, AcksTyped, CallsBound, Started
    <3>5. Sent(x)' /\ \A z \in Xids : Sent(z) => Sent(z)'
      BY <3>2, <3>3 DEF Sent
    <3>6. \A z \in Xids : z = x \/ sends'[z] = sends[z]
      BY <3>1 DEF Shape, SendTypes
    <3>. QED
      BY <1>2, <3>1, <3>4, <3>5, <3>6, OrderlyKept
  <2>3. CASE CallWait(x)
    <3>. DEFINE c == [call[x] EXCEPT !.pc = "returned"]
    <3>1. /\ call' = [call EXCEPT ![x] = c] /\ UNCHANGED <<sends, io, bind_done>>
          /\ call[x].pc = "sent"
      BY <2>3 DEF CallWait, ioVars
    <3>2. c.pc = "returned" /\ c.xid_rep = call[x].xid_rep /\ c.proc = call[x].proc
      BY <2>0 DEF CallRecords
    <3>. HIDE DEF c
    <3>3. \A z \in Xids : call'[z] = IF z = x THEN c ELSE call[z]
      BY <1>1, <3>1
    <3>4. AcksTyped' /\ CallsBound'
      BY <3>1, <3>2, <3>3 DEF Orderly, AcksTyped, CallsBound, Started
    <3>5. Sent(x)' /\ \A z \in Xids : Sent(z) => Sent(z)'
      BY <3>2, <3>3 DEF Sent
    <3>6. \A z \in Xids : z = x \/ timer'[z] = timer[z]
      BY <2>3 DEF CallWait, Shape, TimerTypes
    <3>. QED
      BY <1>2, <3>1, <3>4, <3>5, <3>6, OrderlyKept
  <2>. QED
    BY <1>5, <2>1, <2>2, <2>3 DEF AppThread
<1>6. ASSUME NEW w \in Workers, Worker(w) PROVE Orderly'
  <2>1. /\ \A x \in Xids : Sent(x) \/ (sends'[x] = sends[x] /\ timer'[x] = timer[x])
        /\ \A u \in Workers : io'[u].op \notin {"idle", "rebind"} =>
               io'[u].xid \in Xids /\ Sent(io'[u].xid)
    BY <1>6, WorkerOrdered
  <2>2. /\ AcksTyped' /\ CallsBound'
        /\ \A x \in Xids : Sent(x) => Sent(x)'
    <3>1. bind_done => bind_done'
      BY <1>6, WorkerHandsOn
    <3>2. CASE UNCHANGED call
      BY <3>1, <3>2 DEF Orderly, AcksTyped, CallsBound, Started, Sent
    <3>3. CASE Register(BIND) /\ UNCHANGED bind_done
      BY <3>3, RegisterDisturbsNone DEF AllProcs, Orderly
    <3>. QED
      BY <1>6, <3>2, <3>3, WorkerHandsOn
  <2>. QED
    BY <2>1, <2>2, OrderlyKept
<1>7. CASE Environment
  <2>1. UNCHANGED <<call, bind_done>>
    BY <1>7 DEF Environment, TimerExpires, SendResolves, Reconnected, ReceiveFails, ReceiveReply,
                ioVars, callVars
  <2>2. {"queued", "connecting", "OK"} \subseteq SendStates /\ SendErrs \subseteq SendStates
    BY DEF SendStates
  <2>3. ASSUME NEW x \in Xids, TimerExpires(x) PROVE Orderly'
    <3>1. timer[x] = "armed" /\ timer' = [timer EXCEPT ![x] = "expired"] /\ UNCHANGED <<sends, io>>
      BY <2>3 DEF TimerExpires, ioVars
    <3>2. Sent(x)
      BY <3>1, SendsAreOfSent
    <3>3. \A z \in Xids : z = x \/ timer'[z] = timer[z]
      BY <3>1 DEF Shape, TimerTypes
    <3>. QED
      BY <1>2, <1>3, <2>1, <3>1, <3>2, <3>3, OrderlyKept
  <2>4. ASSUME NEW x \in Xids, NEW s \in SendStates, NEW t \in SendStates, sends[x][s] > 0,
               sends' = Moved(x, s, t), UNCHANGED <<timer, io>>
        PROVE Orderly'
    <3>1. Sent(x)
      BY <2>4, SendsAreOfSent
    <3>2. \A z \in Xids : z = x \/ sends'[z] = sends[z]
      BY <2>4 DEF Shape, SendTypes, Moved
    <3>. QED
      BY <1>2, <1>3, <2>1, <2>4, <3>1, <3>2, OrderlyKept
  <2>5. UNCHANGED <<sends, timer, io>> => Orderly'
    BY <1>2, <1>3, <2>1, OrderlyKept
  <2>6. ASSUME NEW x \in Xids, NEW e \in {"OK"} \cup SendErrs, SendResolves(x, e) PROVE Orderly'
    <3>1. sends[x]["queued"] > 0 /\ sends' = Moved(x, "queued", e) /\ UNCHANGED <<timer, io>>
      BY <2>6 DEF SendResolves, ioVars
    <3>. QED
      BY <2>2, <2>4, <3>1
  <2>7. ASSUME NEW x \in Xids, NEW ok \in BOOLEAN, Reconnected(x, ok) PROVE Orderly'
    <3>1. /\ sends[x]["connecting"] > 0 /\ UNCHANGED <<timer, io>>
          /\ sends' = Moved(x, "connecting", "queued") \/ UNCHANGED sends
      BY <2>7 DEF Reconnected, ioVars
    <3>. QED
      BY <2>2, <2>4, <2>5, <3>1
  <2>8. ASSUME NEW w \in Workers, ReceiveFails(w) PROVE Orderly'
    BY <2>5, <2>8 DEF ReceiveFails, callVars
  <2>9. ASSUME NEW w \in Workers, NEW rep \in Answers, ReceiveReply(w, rep) PROVE Orderly'
    <3>1. /\ Goto(w, Step("update", rep.xid, rep.err, rep.result)) /\ UNCHANGED <<sends, timer>>
          /\ rep.xid \in Xids /\ Sent(rep.xid)
      BY <2>9 DEF ReceiveReply, callVars, Answers, Sent
    <3>2. Step("update", rep.xid, rep.err, rep.result).xid = rep.xid
      BY StepIs
    <3>3. \A u \in Workers : io'[u] = IF u = w THEN Step("update", rep.xid, rep.err, rep.result) ELSE io[u]
      BY <1>1, <3>1 DEF Goto
    <3>. QED
      BY <1>2, <1>3, <2>1, <3>1, <3>2, <3>3, OrderlyKept
  <2>. QED
    BY <1>7, <2>3, <2>6, <2>7, <2>8, <2>9 DEF Environment
<1>8. CASE UNCHANGED vars
  BY <1>2, <1>3, <1>8, OrderlyKept DEF vars, callVars, ioVars
<1>. QED
  BY <1>4, <1>5, <1>6, <1>7, <1>8 DEF Next

\* The header a request was sent with is kept.
LEMMA SentStays ==
  ASSUME Shape, [Next]_vars, NEW x \in Xids
  PROVE  /\ Sent(x) => /\ Sent(x)' /\ call'[x].proc = call[x].proc
                       /\ call'[x].xid_rep = call[x].xid_rep
                       /\ call'[x].srv_nonce = call[x].srv_nonce
         /\ Sent(x)' => Sent(x) \/ CallSend(x)
<1>. DEFINE Goal == /\ Sent(x) => /\ Sent(x)' /\ call'[x].proc = call[x].proc
                                  /\ call'[x].xid_rep = call[x].xid_rep
                                  /\ call'[x].srv_nonce = call[x].srv_nonce
                    /\ Sent(x)' => Sent(x) \/ CallSend(x)
<1>. SUFFICES Goal
  OBVIOUS
<1>0. call \in [Xids -> CallRecords]
  BY DEF Shape, CallTypes
<1>1. UNCHANGED call => Goal
  BY DEF Sent
<1>2. ASSUME NEW proc \in AllProcs, Register(proc) PROVE Goal
  BY <1>2, RegisterDisturbsNone
<1>3. ASSUME NEW proc \in AllProcs, CallStart(proc) PROVE Goal
  BY <1>2, <1>3 DEF CallStart
<1>4. ASSUME NEW y \in Xids, AppThread(y) PROVE Goal
  <2>1. CASE CallReadAck(y)
    BY <1>0, <2>1 DEF CallReadAck, Sent, CallRecords
  <2>2. CASE CallSend(y)
    BY <1>0, <2>2 DEF CallSend, Sent, CallRecords
  <2>3. CASE CallWait(y)
    BY <1>0, <2>3 DEF CallWait, Sent, CallRecords
  <2>. QED
    BY <1>4, <2>1, <2>2, <2>3 DEF AppThread
<1>5. ASSUME NEW w \in Workers, Worker(w) PROVE Goal
  BY <1>1, <1>2, <1>5, WorkerHandsOn DEF AllProcs
<1>6. CASE Environment
  BY <1>1, <1>6 DEF Environment, TimerExpires, SendResolves, Reconnected, ReceiveFails,
                    ReceiveReply, callVars
<1>7. CASE UNCHANGED vars
  BY <1>1, <1>7 DEF vars, callVars
<1>. HIDE DEF Goal
<1>. QED
  BY <1>3, <1>4, <1>5, <1>6, <1>7 DEF Next

\* What an application sees of a step of a client with retransmission: nothing,
\* a call that begins, or the callback of one that was pending, which is given
\* what the reply in the hands of an io thread says.
SameForCaller(x) == cbs'[x] = cbs[x] /\ (Started(x)' <=> Started(x))
Begins(x) == ~Started(x) /\ Started(x)' /\ cbs[x] = <<>> /\ cbs'[x] = <<>>
Ends(w, x) == /\ io[w].op = "callback" /\ io[w].xid = x /\ io[w].result > 0
              /\ Started(x) /\ Started(x)'
              /\ cbs[x] = <<>> /\ cbs'[x] = <<io[w].err>>

LEMMA CallersSee ==
  ASSUME Retrans, Shape, Taken, [Next]_vars
  PROVE  \/ \A x \in Xids : SameForCaller(x)
         \/ \E x \in Xids : /\ \A y \in Xids \ {x} : SameForCaller(y)
                            /\ Begins(x) \/ \E w \in Workers : Ends(w, x)
<1>0. Outcome
  BY StepsAreOutcomes
<1>1. \A x \in Xids : ~GivenUp(x) /\ ~TimesOut(x) /\ \A e \in SendErrs : ~Reports(x, e)
  BY DEF GivenUp, TimesOut, Reports
<1>2. CASE Quiet /\ \A x \in Xids : Same(x)
  BY <1>2 DEF Same, SameForCaller
<1>3. ASSUME NEW x \in Xids, NewCall(x)
      PROVE  Begins(x) /\ \A y \in Xids \ {x} : SameForCaller(y)
  BY <1>3 DEF NewCall, OnlyCall, Same, SameForCaller, Begins, Shape, Fresh
<1>4. ASSUME NEW w \in Workers, NEW x \in Xids, Takes(w, x) \/ TooLate(w, x) \/ Claims(w, x)
      PROVE  \A y \in Xids : SameForCaller(y)
  BY <1>4 DEF Takes, TooLate, Claims, OnlyCall, Same, SameForCaller
<1>5. ASSUME NEW w \in Workers, NEW x \in Xids, NEW e \in CallErrs, Returns(w, x, e)
      PROVE  (\E u \in Workers : Ends(u, x)) /\ \A y \in Xids \ {x} : SameForCaller(y)
  <2>1. \A y \in Xids \ {x} : SameForCaller(y)
    BY <1>5 DEF Returns, OnlyCall, Same, SameForCaller
  <2>2. /\ cbs[x] \in Seq(CallErrs) /\ cbs'[x] = Append(cbs[x], e)
        /\ (Started(x)' <=> Started(x))
    BY <1>5 DEF Returns, Shape, CbTypes
  <2>3. cbs'[x] # cbs[x]
    <3>1. Len(cbs'[x]) = Len(cbs[x]) + 1 /\ Len(cbs[x]) \in Nat
      BY <2>2
    <3>. QED
      BY <3>1
  <2>4. PICK u \in Workers : Callback(u) /\ CalledBack(io[u].xid, io[u].err) /\ io[u].result > 0
    <3>1. UNCHANGED cbs \/ \E u \in Workers : Worker(u)
      BY DEF Next, CallStart, AppThread, CallReadAck, CallSend, CallWait, Environment,
             TimerExpires, SendResolves, Reconnected, ReceiveFails, ReceiveReply, vars, auxVars
    <3>2. PICK u \in Workers : Worker(u)
      BY <2>3, <3>1
    <3>3. ~FailCallback(u)
      BY DEF FailCallback, Shape, HandlersWork, GoodStep
    <3>4. \/ UNCHANGED cbs
          \/ Callback(u) /\ CalledBack(io[u].xid, io[u].err) /\ io[u].result > 0
      BY <3>2, <3>3 DEF Worker, UpdateXidRep, TakeCaller, FinishCaller, Callback, Resend,
             RetrySend, GiveUp, Rebind, OnTimerExpired, SendSucceeded, SendFailed, auxVars
    <3>. QED
      BY <2>3, <3>4
  <2>5. io[u].op = "callback" /\ io[u].xid \in Xids /\ Started(io[u].xid) /\ io[u].err \in CallErrs
    BY <2>4 DEF Callback, Shape, HandlersWork, GoodStep, IoTypes, IoRecords
  <2>6. \A y \in Xids : cbs'[y] = IF y = io[u].xid THEN Append(cbs[y], io[u].err) ELSE cbs[y]
    BY <2>4, <2>5, CalledBackWorks DEF Shape
  <2>7. io[u].xid = x
    BY <2>3, <2>6
  <2>8. InCallback(u, x)
    BY <2>5, <2>7 DEF InCallback
  <2>9. cbs[x] = <<>>
    <3>1. TakenCall(x) /\ Started(x)
      BY <2>5, <2>7 DEF Taken
    <3>. QED
      BY <2>8, <3>1 DEF TakenCall, Open, Answered, HeldBy
  <2>10. cbs'[x] = <<io[u].err>>
    <3>1. cbs'[x] = Append(<<>>, io[u].err)
      BY <2>6, <2>7, <2>9
    <3>2. \A err : Append(<<>>, err) = <<err>>
      OBVIOUS
    <3>. QED
      BY <3>1, <3>2
  <2>11. Ends(u, x)
    BY <2>2, <2>4, <2>5, <2>7, <2>9, <2>10 DEF Ends
  <2>. QED
    BY <2>1, <2>11
<1>. QED
  BY <1>0, <1>1, <1>2, <1>3, <1>4, <1>5 DEF Outcome

-----------------------------------------------------------------------------
(* With one Bind made by the application the client is bound once: the     *)
(* nonce it learns is the nonce all its other requests carry.              *)

\* A reply to a Bind in the hands of a worker is a nonce, or has no result.
Expected ==
    \A w \in Workers :
        io[w].op \in ReplyOps /\ io[w].result > 0 /\ call[io[w].xid].proc = BIND
            => io[w].err = "OK"
NoRebind == \A w \in Workers : io[w].op # "rebind"
BindIsFirst == \A x \in Xids : Started(x) /\ call[x].proc = BIND => x = 2
FirstHeader == call[2].xid_rep = 0 /\ call[2].srv_nonce = 0
GotSent == \A x \in got : Sent(x)
BoundOnce ==
    /\ bind_done => Sent(2) /\ cbs[2] # <<>>
    /\ ~bind_done => srv_nonce = 0
    /\ \A x \in Xids \ {2} : Sent(x) => bind_done /\ call[x].srv_nonce = srv_nonce
OneBind == Expected /\ NoRebind /\ BindIsFirst /\ FirstHeader /\ GotSent /\ BoundOnce

LEMMA OneBindInit == Init => OneBind
<1>. SUFFICES ASSUME Init PROVE OneBind
  OBVIOUS
<1>1. 2 \in Xids
  BY BoundsAssumption DEF Xids
<1>2. Expected /\ NoRebind
  BY IdleIs DEF Init, Expected, NoRebind, ReplyOps
<1>3. \A x \in Xids : call[x].pc = "none" /\ call[x].xid_rep = 0 /\ call[x].srv_nonce = 0
  BY DEF Init, NoCall
<1>4. BindIsFirst /\ FirstHeader /\ GotSent /\ BoundOnce
  BY <1>1, <1>3 DEF Init, BindIsFirst, FirstHeader, GotSent, BoundOnce, Started, Sent
<1>. QED
  BY <1>2, <1>4 DEF OneBind

\* No worker binds again: only the callback of a Bind that failed does, and
\* with retransmission a Bind is answered with a nonce or not at all.
LEMMA WorkerKeepsBind ==
  ASSUME Retrans, Shape, Expected, NoRebind, NEW w \in Workers, Worker(w)
  PROVE  /\ UNCHANGED call /\ Expected' /\ NoRebind'
         /\ \A x \in got' : x \in got \/ (io[w].op = "update" /\ io[w].xid = x)
<1>0. /\ io[w] \in IoRecords /\ io \in [Workers -> IoRecords]
      /\ io[w].op # "failcallback" /\ io[w].op # "rebind"
  BY DEF Shape, IoTypes, HandlersWork, GoodStep, NoRebind
<1>1. UNCHANGED call
  BY <1>0 DEF Worker, UpdateXidRep, TakeCaller, FinishCaller, Callback, Resend, RetrySend, GiveUp,
         FailCallback, Rebind, OnTimerExpired, SendSucceeded, SendFailed, callVars
<1>2. Expected'
  BY <1>1, WorkerHandsOn DEF Expected
<1>3. UNCHANGED got \/ (io[w].op = "update" /\ got' = got \cup {io[w].xid})
  BY DEF Worker, UpdateXidRep, TakeCaller, FinishCaller, Callback, Resend, RetrySend,
         GiveUp, FailCallback, Rebind, OnTimerExpired, SendSucceeded, SendFailed, auxVars
<1>4. ASSUME NEW s, Goto(w, s), s.op # "rebind" PROVE NoRebind'
  <2>1. \A u \in Workers : io'[u] = IF u = w THEN s ELSE io[u]
    BY <1>0, <1>4 DEF Goto
  <2>. QED
    BY <1>4, <2>1 DEF NoRebind
<1>5. ASSUME io' = io PROVE NoRebind'
  BY <1>5 DEF NoRebind
<1>6. \A op \in Ops : LET t == [io[w] EXCEPT !.op = op] IN t.op = op
  BY <1>0, SameWork
<1>7. Idle.op # "rebind"
  BY IdleIs
<1>8. NoRebind'
  <2>1. {"lookup", "finish", "callback"} \subseteq Ops
    BY DEF Ops
  <2>2. CASE UpdateXidRep(w) \/ TakeCaller(w) \/ FinishCaller(w)
    <3>1. \/ Goto(w, Idle) \/ Goto(w, [io[w] EXCEPT !.op = "lookup"])
          \/ Goto(w, [io[w] EXCEPT !.op = "finish"]) \/ Goto(w, [io[w] EXCEPT !.op = "callback"])
      BY <2>2 DEF UpdateXidRep, TakeCaller, FinishCaller
    <3>. QED
      BY <1>4, <1>6, <1>7, <2>1, <3>1
  <2>3. CASE Callback(w)
    <3>1. io[w].op = "callback" /\ (io' = io \/ (io[w].result > 0 /\
             Goto(w, IF io[w].err = "OK" THEN Idle ELSE AfterError(io[w].xid))))
      BY <2>3 DEF Callback
    <3>2. io[w].result > 0 /\ call[io[w].xid].proc = BIND => io[w].err = "OK"
      BY <3>1 DEF Expected, ReplyOps
    <3>. QED
      BY <1>4, <1>5, <1>7, <3>1, <3>2 DEF AfterError
  <2>4. CASE Resend(w) \/ RetrySend(w)
    BY <1>4, <1>7, <2>4 DEF Resend, RetrySend
  <2>5. ~GiveUp(w) /\ ~FailCallback(w) /\ ~Rebind(w)
    BY <1>0 DEF GiveUp, FailCallback, Rebind
  <2>6. ASSUME NEW x \in Xids, OnTimerExpired(w, x) \/ SendSucceeded(w, x) PROVE NoRebind'
    <3>1. io' = io \/ Goto(w, Step("resend", x, "OK", 0))
      BY <2>6 DEF OnTimerExpired, SendSucceeded
    <3>2. Step("resend", x, "OK", 0).op # "rebind"
      BY StepIs
    <3>. QED
      BY <1>4, <1>5, <3>1, <3>2
  <2>7. ASSUME NEW x \in Xids, NEW e \in SendErrs, SendFailed(w, x, e) PROVE NoRebind'
    <3>1. Goto(w, IF x \in callers THEN Step("sendfailed", x, e, 0) ELSE Idle)
      BY <2>7 DEF SendFailed
    <3>2. Step("sendfailed", x, e, 0).op # "rebind"
      BY StepIs
    <3>. QED
      BY <1>4, <1>7, <3>1, <3>2
  <2>. QED
    BY <2>2, <2>3, <2>4, <2>5, <2>6, <2>7 DEF Worker
<1>. QED
  BY <1>1, <1>2, <1>3, <1>8

\* The callback of Bind, the one there is, binds a client that was not bound.
LEMMA BindsOnce ==
  ASSUME Retrans, Shape, Orderly, Taken, OneBind, NEW w \in Workers, Worker(w)
  PROVE  \/ UNCHANGED <<bind_done, srv_nonce>>
         \/ /\ io[w].op = "callback" /\ io[w].xid = 2 /\ call[2].proc = BIND /\ io[w].err = "OK"
            /\ ~bind_done /\ bind_done' /\ srv_nonce' = io[w].result
<1>1. SUFFICES ASSUME ~UNCHANGED <<bind_done, srv_nonce>>
               PROVE  /\ io[w].op = "callback" /\ io[w].xid = 2 /\ call[2].proc = BIND
                      /\ io[w].err = "OK"
                      /\ ~bind_done /\ bind_done' /\ srv_nonce' = io[w].result
  OBVIOUS
<1>2. /\ io[w].op = "callback" /\ io[w].err = "OK" /\ call[io[w].xid].proc = BIND
      /\ bind_done' /\ srv_nonce' = io[w].result
  BY <1>1, WorkerHandsOn
<1>3. io[w].xid \in Xids /\ Started(io[w].xid)
  BY <1>2 DEF Shape, HandlersWork, GoodStep
<1>4. io[w].xid = 2
  BY <1>2, <1>3 DEF OneBind, BindIsFirst
<1>5. InCallback(w, 2)
  BY <1>2, <1>4 DEF InCallback
<1>6. cbs[2] = <<>>
  <2>1. TakenCall(2)
    BY <1>3, <1>4 DEF Taken
  <2>. QED
    BY <1>3, <1>4, <1>5, <2>1 DEF TakenCall, Open, Answered, HeldBy
<1>. QED
  BY <1>2, <1>4, <1>6 DEF OneBind, BoundOnce

LEMMA OneBindStep ==
  ASSUME Retrans, MaxBinds <= 1, Shape, Orderly, AckInv, Taken, OneBind, [Next]_vars
  PROVE  OneBind'
<1>. USE XidsAreNats
<1>0. /\ call \in [Xids -> CallRecords] /\ 2 \in Xids /\ io \in [Workers -> IoRecords]
      /\ bind_done \in BOOLEAN /\ got \in SUBSET Xids
  BY BoundsAssumption DEF Shape, CallTypes, IoTypes, BindTypes, WindowTypes, Xids
<1>1. /\ \A x \in Xids : cbs[x] # <<>> => cbs'[x] # <<>>
      /\ \A x \in Xids : Sent(x) => Sent(x)'
  <2>1. \A x \in Xids : cbs[x] # <<>> => cbs'[x] # <<>>
    <3>1. \A x \in Xids : SameForCaller(x) \/ Begins(x) \/ \E w \in Workers : Ends(w, x)
      BY CallersSee
    <3>. QED
      BY <3>1 DEF SameForCaller, Begins, Ends
  <2>. QED
    BY <2>1, SentStays
\* What is left when nothing is sent, called or bound.
<1>2. ASSUME UNCHANGED <<call, bind_done, srv_nonce, got>>, Expected', NoRebind' PROVE OneBind'
  BY <1>0, <1>1, <1>2 DEF OneBind, BindIsFirst, FirstHeader, GotSent, BoundOnce, Started, Sent
\* A call under way keeps its procedure.
<1>3. ASSUME UNCHANGED io, \A x \in Xids : Started(x) => call'[x].proc = call[x].proc
      PROVE  Expected' /\ NoRebind'
  <2>1. \A w \in Workers : io[w].op \in ReplyOps => io[w].xid \in Xids /\ Started(io[w].xid)
    BY DEF Shape, HandlersWork, GoodStep, ReplyOps
  <2>. QED
    BY <1>3, <2>1 DEF OneBind, Expected, NoRebind
<1>4. CASE UNCHANGED vars
  BY <1>2, <1>3, <1>4 DEF vars, callVars, ioVars, auxVars
<1>5. ASSUME NEW proc \in AllProcs, CallStart(proc) PROVE OneBind'
  <2>1. Register(proc) /\ UNCHANGED <<io, bind_done, srv_nonce, got, cbs>>
    BY <1>5 DEF CallStart, ioVars, auxVars
  <2>2. xid_ \in Xids /\ ~Started(xid_)
    BY <2>1, BoundsAssumption DEF Register, Shape, CallTypes, Xids, Fresh
  <2>3. proc = BIND => xid_ = 2
    <3>. SUFFICES ASSUME proc = BIND PROVE xid_ = 2
      OBVIOUS
    <3>. DEFINE B == {x \in Xids : call[x].pc # "none" /\ call[x].proc = BIND}
    <3>1. Cardinality(B) < MaxBinds
      BY <1>5 DEF CallStart
    <3>2. IsFiniteSet(B) /\ Cardinality(B) \in Nat
      <4>1. IsFiniteSet(Xids)
        BY BoundsAssumption, FS_Interval DEF Xids
      <4>2. IsFiniteSet(B)
        BY <4>1, FS_Subset
      <4>. QED
        BY <4>2, FS_CardinalityType
    <3>3. Cardinality(B) = 0
      BY <3>1, <3>2, BoundsAssumption
    <3>4. B = {}
      BY <3>2, <3>3, FS_EmptySet
    <3>5. ~ (xid_ > 2)
      <4>1. xid_ > 2 => Started(2)
        BY <1>0 DEF Shape, Fresh
      <4>. QED
        BY <1>0, <3>4, <4>1 DEF AckInv, BindFirst, Started
    <3>. QED
      BY <3>5 DEF Shape, CallTypes
  <2>. DEFINE c == [NoCall EXCEPT !.pc = "registered", !.proc = proc]
  <2>4. c.pc = "registered" /\ c.proc = proc /\ c.xid_rep = 0 /\ c.srv_nonce = 0
    BY DEF NoCall
  <2>5. call' = [call EXCEPT ![xid_] = c]
    BY <2>1 DEF Register
  <2>. HIDE DEF c
  <2>6. \A x \in Xids : call'[x] = IF x = xid_ THEN c ELSE call[x]
    BY <1>0, <2>2, <2>5
  <2>7. \A x \in Xids : Sent(x)' <=> Sent(x)
    BY <2>2, <2>4, <2>6 DEF Sent, Started
  <2>8. BindIsFirst'
    BY <2>3, <2>4, <2>6 DEF OneBind, BindIsFirst, Started
  <2>9. FirstHeader'
    BY <1>0, <2>4, <2>6 DEF OneBind, FirstHeader
  <2>10. GotSent'
    BY <1>0, <2>1, <2>7 DEF OneBind, GotSent
  <2>11. BoundOnce'
    <3>1. \A x \in Xids : Sent(x) => call'[x] = call[x]
      BY <2>2, <2>6 DEF Sent, Started
    <3>. QED
      BY <1>0, <2>1, <2>7, <3>1 DEF OneBind, BoundOnce
  <2>12. \A x \in Xids : Started(x) => call'[x].proc = call[x].proc
    BY <2>2, <2>6
  <2>. QED
    BY <1>3, <2>1, <2>8, <2>9, <2>10, <2>11, <2>12 DEF OneBind
<1>6. ASSUME NEW x \in Xids, AppThread(x) PROVE OneBind'
  <2>1. UNCHANGED <<io, bind_done, srv_nonce, got>>
    BY <1>6 DEF AppThread, CallReadAck, CallSend, CallWait, ioVars, auxVars
  <2>2. PICK c :
           /\ c \in CallRecords /\ call' = [call EXCEPT ![x] = c]
           /\ c.proc = call[x].proc /\ Started(x) /\ c.pc # "none"
           /\ \/ /\ call[x].pc = "registered" /\ c.pc = "acked"
                 /\ c.xid_rep = ReceivedXid(xid_rep_window) /\ c.srv_nonce = call[x].srv_nonce
              \/ /\ call[x].pc = "acked" /\ c.pc = "sent"
                 /\ c.xid_rep = call[x].xid_rep /\ c.srv_nonce = srv_nonce
              \/ /\ call[x].pc = "sent" /\ c.pc = "returned"
                 /\ c.xid_rep = call[x].xid_rep /\ c.srv_nonce = call[x].srv_nonce
    <3>0. call[x] \in CallRecords /\ srv_nonce \in Nat /\ ReceivedXid(xid_rep_window) \in Nat
      BY <1>0, NatSeq DEF Shape, BindTypes, WindowTypes, ReceivedXid
    <3>1. CASE CallReadAck(x)
      <4>1. [call[x] EXCEPT !.pc = "acked", !.xid_rep = ReceivedXid(xid_rep_window)] \in CallRecords
        BY <1>0, <3>0 DEF CallRecords, CallPcs
      <4>. WITNESS [call[x] EXCEPT !.pc = "acked", !.xid_rep = ReceivedXid(xid_rep_window)]
      <4>. QED
        BY <1>0, <3>0, <4>1, <3>1 DEF CallReadAck, CallRecords, CallPcs, Started
    <3>2. CASE CallSend(x)
      <4>1. [call[x] EXCEPT !.pc = "sent", !.srv_nonce = srv_nonce] \in CallRecords
        BY <1>0, <3>0 DEF CallRecords, CallPcs
      <4>. WITNESS [call[x] EXCEPT !.pc = "sent", !.srv_nonce = srv_nonce]
      <4>. QED
        BY <1>0, <3>0, <4>1, <3>2 DEF CallSend, CallRecords, CallPcs, Started
    <3>3. CASE CallWait(x)
      <4>1. [call[x] EXCEPT !.pc = "returned"] \in CallRecords
        BY <1>0, <3>0 DEF CallRecords, CallPcs
      <4>. WITNESS [call[x] EXCEPT !.pc = "returned"]
      <4>. QED
        BY <1>0, <3>0, <4>1, <3>3 DEF CallWait, CallRecords, CallPcs, Started
    <3>. QED
      BY <1>6, <3>1, <3>2, <3>3 DEF AppThread
  <2>3. \A y \in Xids : call'[y] = IF y = x THEN c ELSE call[y]
    BY <1>0, <2>2
  <2>4. BindIsFirst'
    BY <2>2, <2>3 DEF OneBind, BindIsFirst, Started
  <2>5. x = 2 => c.xid_rep = 0 /\ c.srv_nonce = 0
    <3>. SUFFICES ASSUME x = 2 PROVE c.xid_rep = 0 /\ c.srv_nonce = 0
      OBVIOUS
    <3>1. Sent(2) => c.xid_rep = 0 /\ c.srv_nonce = 0
      BY <2>2 DEF OneBind, FirstHeader, Sent
    <3>2. ASSUME ~Sent(2) PROVE c.xid_rep = 0 /\ c.srv_nonce = 0
      <4>1. ~bind_done /\ srv_nonce = 0
        BY <3>2 DEF OneBind, BoundOnce
      <4>2. got = {}
        BY <1>0, <3>2, <4>1 DEF OneBind, GotSent, BoundOnce
      <4>3. xid_rep_window = <<>>
        <5>1. Range(xid_rep_window) \subseteq got
          BY DEF AckInv, ListSound, Range
        <5>2. xid_rep_window \in Seq(Xids)
          BY DEF Shape, WindowTypes
        <5>3. ASSUME xid_rep_window # <<>> PROVE FALSE
          <6>1. 1 \in DOMAIN xid_rep_window
            BY <5>2, <5>3
          <6>. QED
            BY <4>2, <5>1, <6>1 DEF Range
        <5>. QED
          BY <5>3
      <4>. QED
        BY <2>2, <4>1, <4>3 DEF OneBind, FirstHeader, ReceivedXid
    <3>. QED
      BY <3>1, <3>2
  <2>6. FirstHeader'
    BY <1>0, <2>3, <2>5 DEF OneBind, FirstHeader
  <2>7. GotSent'
    BY <1>0, <1>1, <2>1 DEF OneBind, GotSent
  <2>8. \A y \in Xids \ {2} : Sent(y)' => bind_done /\ call'[y].srv_nonce = srv_nonce
    <3>. SUFFICES ASSUME NEW y \in Xids \ {2}, Sent(y)'
                  PROVE  bind_done /\ call'[y].srv_nonce = srv_nonce
      OBVIOUS
    <3>1. Sent(y) => bind_done /\ call[y].srv_nonce = srv_nonce
      BY DEF OneBind, BoundOnce
    <3>2. CASE y # x
      BY <2>3, <3>1, <3>2 DEF Sent
    <3>3. CASE y = x /\ Sent(x)
      BY <2>2, <2>3, <3>1, <3>3 DEF Sent
    <3>4. CASE y = x /\ ~Sent(x)
      <4>1. c.pc = "sent" /\ c.srv_nonce = srv_nonce
        BY <2>2, <2>3, <3>4 DEF Sent
      <4>2. call[x].proc # BIND
        BY <2>2, <3>4 DEF OneBind, BindIsFirst
      <4>3. bind_done
        BY <2>2, <4>2 DEF Orderly, CallsBound
      <4>. QED
        BY <2>3, <3>4, <4>1, <4>3
    <3>. QED
      BY <3>2, <3>3, <3>4
  <2>9. BoundOnce'
    BY <1>0, <1>1, <2>1, <2>8 DEF OneBind, BoundOnce
  <2>10. \A y \in Xids : Started(y) => call'[y].proc = call[y].proc
    BY <2>2, <2>3
  <2>. QED
    BY <1>3, <2>1, <2>4, <2>6, <2>7, <2>9, <2>10 DEF OneBind
<1>7. ASSUME NEW w \in Workers, Worker(w) PROVE OneBind'
  <2>1. /\ UNCHANGED call /\ Expected' /\ NoRebind'
        /\ \A x \in got' : x \in got \/ Sent(x)
    BY <1>7, WorkerKeepsBind DEF OneBind, Orderly, HandlersOrdered
  <2>2. BindIsFirst' /\ FirstHeader' /\ GotSent'
    BY <2>1 DEF OneBind, BindIsFirst, FirstHeader, GotSent, Started, Sent
  <2>3. \A x \in Xids : Sent(x)' <=> Sent(x)
    BY <2>1 DEF Sent
  <2>4. CASE UNCHANGED <<bind_done, srv_nonce>>
    <3>1. BoundOnce'
      BY <1>0, <1>1, <2>1, <2>3, <2>4 DEF OneBind, BoundOnce
    <3>. QED
      BY <2>1, <2>2, <3>1 DEF OneBind
  <2>5. ASSUME io[w].op = "callback", io[w].xid = 2, io[w].err = "OK", ~bind_done, bind_done',
               ~UNCHANGED <<bind_done, srv_nonce>>
        PROVE  OneBind'
    <3>1. Sent(2)
      BY <2>5 DEF Orderly, HandlersOrdered
    <3>2. cbs'[2] # <<>>
      <4>1. cbs' = [cbs EXCEPT ![2] = Append(@, io[w].err)]
        BY <1>7, <2>5 DEF Worker, UpdateXidRep, TakeCaller, FinishCaller, Callback, CalledBack,
           Resend, RetrySend, GiveUp, FailCallback, Rebind, OnTimerExpired, SendSucceeded,
           SendFailed, ioVars
      <4>2. cbs \in [Xids -> Seq(CallErrs)]
        BY DEF Shape, CbTypes
      <4>3. cbs[2] \in Seq(CallErrs) /\ cbs'[2] = Append(cbs[2], io[w].err)
        BY <1>0, <4>1, <4>2
      <4>4. \A s \in Seq(CallErrs) : \A v : Append(s, v) # <<>>
        OBVIOUS
      <4>. QED
        BY <4>3, <4>4
    <3>3. \A x \in Xids \ {2} : ~Sent(x)
      BY <2>5 DEF OneBind, BoundOnce
    <3>4. BoundOnce'
      BY <1>0, <2>3, <2>5, <3>1, <3>2, <3>3 DEF BoundOnce
    <3>. QED
      BY <2>1, <2>2, <3>4 DEF OneBind
  <2>. QED
    BY <1>7, <2>4, <2>5, BindsOnce
<1>8. CASE Environment
  <2>1. ASSUME NEW x \in Xids, TimerExpires(x) PROVE OneBind'
    BY <1>2, <1>3, <2>1 DEF TimerExpires, ioVars, auxVars
  <2>2. ASSUME NEW x \in Xids, NEW e \in {"OK"} \cup SendErrs, SendResolves(x, e) PROVE OneBind'
    BY <1>2, <1>3, <2>2 DEF SendResolves, ioVars
  <2>3. ASSUME NEW x \in Xids, NEW ok \in BOOLEAN, Reconnected(x, ok) PROVE OneBind'
    BY <1>2, <1>3, <2>3 DEF Reconnected
  <2>4. ASSUME NEW w \in Workers, ReceiveFails(w) PROVE OneBind'
    BY <1>2, <1>3, <2>4 DEF ReceiveFails, callVars, auxVars
  <2>5. ASSUME NEW w \in Workers, NEW rep \in Answers, AnyReply(rep), ReceiveReply(w, rep)
        PROVE  OneBind'
    <3>. DEFINE s == Step("update", rep.xid, rep.err, rep.result)
    <3>1. UNCHANGED <<call, got, bind_done, srv_nonce>> /\ io' = [io EXCEPT ![w] = s]
      BY <2>5 DEF ReceiveReply, Goto, callVars, auxVars
    <3>2. s.op = "update" /\ s.xid = rep.xid /\ s.err = rep.err /\ s.result = rep.result
      BY StepIs
    <3>. HIDE DEF s
    <3>3. \A u \in Workers : io'[u] = IF u = w THEN s ELSE io[u]
      BY <1>0, <3>1
    <3>4. Expected' /\ NoRebind'
      BY <2>5, <3>1, <3>2, <3>3 DEF OneBind, Expected, NoRebind, AnyReply
    <3>. QED
      BY <1>2, <3>1, <3>4
  <2>. QED
    BY <1>8, <2>1, <2>2, <2>3, <2>4, <2>5 DEF Environment
<1>. QED
  BY <1>4, <1>5, <1>6, <1>7, <1>8 DEF Next

-----------------------------------------------------------------------------
(* What a call has under way: its sends, and the handlers that hold a reply *)
(* to it or are about to resend it.                                         *)

InHand == {"resend", "update", "lookup"}
Handlers(x) == {w \in Workers : io[w].op \in InHand /\ io[w].xid = x}

\* The sends a call was started with: its own, and the resend of its timer.
Issued(x) == (IF Sent(x) THEN 1 ELSE 0) + (IF Retrans /\ timer[x] = "ran" THEN 1 ELSE 0)

\* A call in callers_ has its Caller, and once Call has returned its timer is
\* running or has had its handler run.
Waits == \A x \in callers : /\ caller[x].alive
                            /\ call[x].pc = "returned" => timer[x] \in {"armed", "expired", "ran"}

LEMMA WaitsInit == Init => Waits
BY DEF Init, Waits

\* A worker past callers_ works on a call that is not there any more.
LEMMA FinishesTaken ==
  ASSUME Shape, Taken, NEW w \in Workers, io[w].op \in {"finish", "callback"}
  PROVE  io[w].xid \in Xids /\ io[w].xid \notin callers
<1>1. io[w].xid \in Xids /\ Started(io[w].xid)
  BY DEF Shape, HandlersWork, GoodStep
<1>2. InFinish(w, io[w].xid) \/ InCallback(w, io[w].xid)
  BY DEF InFinish, InCallback
<1>. QED
  BY <1>1, <1>2 DEF Taken, TakenCall, Open, Answered, HeldBy

LEMMA WaitsStep ==
  ASSUME Shape, Taken, Waits, [Next]_vars
  PROVE  Waits'
<1>. SUFFICES ASSUME NEW x \in callers'
              PROVE  /\ caller'[x].alive
                     /\ call'[x].pc = "returned" => timer'[x] \in {"armed", "expired", "ran"}
  BY DEF Waits
<1>. DEFINE Keeps == /\ caller'[x].alive
                     /\ call'[x].pc = "returned" => timer'[x] \in {"armed", "expired", "ran"}
<1>0. /\ call \in [Xids -> CallRecords] /\ caller \in [Xids -> CallerRecords]
      /\ timer \in [Xids -> TimerStates] /\ io \in [Workers -> IoRecords]
      /\ xid_ \in 2..(MaxXid + 1) /\ callers \in SUBSET Xids
  BY DEF Shape, CallTypes, CallerTypes, TimerTypes, IoTypes
<1>1. ASSUME x \in callers, caller'[x].alive = caller[x].alive,
             UNCHANGED call, timer'[x] = timer[x] \/ timer'[x] \in {"expired", "ran"}
      PROVE  Keeps
  BY <1>1 DEF Waits
<1>2. ASSUME UNCHANGED <<callers, call, caller, timer>>
      PROVE  Keeps
  BY <1>1, <1>2
<1>3. ASSUME NEW proc \in AllProcs, Register(proc)
      PROVE  Keeps
  <2>1. xid_ \in Xids /\ callers' = callers \cup {xid_} /\ UNCHANGED timer
    BY <1>0, <1>3, BoundsAssumption DEF Register, Xids
  <2>2. /\ caller' = [caller EXCEPT ![xid_] = [alive |-> TRUE, done |-> FALSE]]
        /\ call' = [call EXCEPT ![xid_] = [NoCall EXCEPT !.pc = "registered", !.proc = proc]]
    BY <1>3 DEF Register
  <2>3. CASE x = xid_
    BY <1>0, <2>1, <2>2, <2>3 DEF NoCall
  <2>4. CASE x # xid_
    <3>1. x \in callers /\ caller'[x] = caller[x] /\ call'[x] = call[x]
      BY <1>0, <2>1, <2>2, <2>4
    <3>. QED
      BY <2>1, <3>1 DEF Waits
  <2>. QED
    BY <2>3, <2>4
<1>4. ASSUME NEW y \in Xids, AppThread(y)
      PROVE  Keeps
  <2>1. UNCHANGED <<callers, caller>>
    BY <1>4 DEF AppThread, CallReadAck, CallSend, CallWait
  <2>2. /\ \A z \in Xids : z # y => call'[z] = call[z] /\ timer'[z] = timer[z]
        /\ \/ call'[y].pc \in {"acked", "sent"}
           \/ timer' = IF caller[y].alive THEN [timer EXCEPT ![y] = "armed"] ELSE timer
    BY <1>0, <1>4 DEF AppThread, CallReadAck, CallSend, CallWait, CallRecords
  <2>3. x \in Xids /\ x \in callers /\ caller[x].alive
    BY <1>0, <2>1 DEF Waits
  <2>. QED
    BY <1>0, <2>1, <2>2, <2>3 DEF Waits
<1>5. ASSUME NEW w \in Workers, NEW y \in Xids, Destroy(y), y \notin callers,
             UNCHANGED <<callers, call>>
      PROVE  Keeps
  BY <1>0, <1>1, <1>5 DEF Destroy
<1>6. ASSUME NEW y \in Xids, caller' = [caller EXCEPT ![y].done = TRUE],
             callers' \subseteq callers, UNCHANGED <<call, timer>>
      PROVE  Keeps
  <2>1. caller'[x].alive = caller[x].alive
    BY <1>0, <1>6 DEF CallerRecords
  <2>. QED
    BY <1>1, <1>6, <2>1
<1>7. ASSUME NEW w \in Workers, Worker(w)
      PROVE  Keeps
  <2>1. CASE UpdateXidRep(w) \/ Resend(w) \/ RetrySend(w) \/ FailCallback(w)
    BY <1>2, <2>1 DEF UpdateXidRep, Resend, RetrySend, FailCallback, callVars
  <2>2. CASE \E y \in Xids : SendSucceeded(w, y) \/ \E e \in SendErrs : SendFailed(w, y, e)
    BY <1>2, <2>2 DEF SendSucceeded, SendFailed
  <2>3. CASE TakeCaller(w)
    <3>1. x \in callers /\ UNCHANGED <<call, caller, timer>>
      BY <2>3 DEF TakeCaller
    <3>. QED
      BY <1>1, <3>1
  <2>4. CASE FinishCaller(w)
    <3>1. io[w].xid \in Xids /\ io[w].xid \notin callers /\ UNCHANGED <<callers, call>>
      BY <2>4, FinishesTaken DEF FinishCaller
    <3>2. \/ Destroy(io[w].xid)
          \/ caller' = [caller EXCEPT ![io[w].xid].done = TRUE] /\ UNCHANGED timer
      BY <2>4 DEF FinishCaller
    <3>. QED
      BY <1>5, <1>6, <3>1, <3>2
  <2>5. CASE Callback(w)
    <3>1. io[w].xid \in Xids /\ io[w].xid \notin callers /\ UNCHANGED <<callers, call>>
      BY <2>5, FinishesTaken DEF Callback
    <3>2. Destroy(io[w].xid) \/ UNCHANGED <<caller, timer>>
      BY <2>5 DEF Callback
    <3>. QED
      BY <1>2, <1>5, <3>1, <3>2
  <2>6. CASE GiveUp(w)
    <3>1. io[w].xid \in Xids
      BY <2>6 DEF GiveUp, Shape, HandlersWork, GoodStep
    <3>. QED
      BY <1>6, <2>6, <3>1 DEF GiveUp
  <2>7. CASE \E y \in Xids : OnTimerExpired(w, y)
    <3>1. PICK y \in Xids : OnTimerExpired(w, y)
      BY <2>7
    <3>2. /\ timer' = [timer EXCEPT ![y] = "ran"] /\ UNCHANGED <<callers, call>>
          /\ UNCHANGED caller \/ caller' = [caller EXCEPT ![y].done = TRUE]
      BY <3>1 DEF OnTimerExpired
    <3>3. caller'[x].alive = caller[x].alive /\ (timer'[x] = timer[x] \/ timer'[x] = "ran")
      BY <1>0, <3>2 DEF CallerRecords
    <3>. QED
      BY <1>1, <3>2, <3>3
  <2>8. CASE Rebind(w)
    BY <1>2, <1>3, <2>8 DEF Rebind, callVars, AllProcs
  <2>. QED
    BY <1>7, <2>1, <2>2, <2>3, <2>4, <2>5, <2>6, <2>7, <2>8 DEF Worker
<1>8. CASE Environment
  <2>1. ASSUME NEW y \in Xids, TimerExpires(y)
        PROVE  Keeps
    BY <1>0, <1>1, <2>1 DEF TimerExpires
  <2>. QED
    BY <1>2, <1>8, <2>1 DEF Environment, SendResolves, Reconnected, ReceiveFails, ReceiveReply,
                            callVars
<1>9. ASSUME NEW proc \in AllProcs, CallStart(proc)
      PROVE  Keeps
  BY <1>3, <1>9 DEF CallStart
<1>. QED
  BY <1>2, <1>4, <1>7, <1>8, <1>9 DEF Next, vars, callVars

\* What a step of the client does to what a call has under way: nothing, one
\* more send for the call or for its timer, or a handler becomes the send.
OwnStays(x) == /\ Handlers(x)' = Handlers(x)
               /\ sends'[x]["queued"] >= sends[x]["queued"] /\ Issued(x)' <= Issued(x)
OwnSent(x) == /\ Handlers(x)' = Handlers(x)
              /\ sends'[x]["queued"] = sends[x]["queued"] + 1 /\ Issued(x)' <= Issued(x) + 1
OwnTimed(x) == /\ \E w \in Workers : w \notin Handlers(x) /\ Handlers(x)' = Handlers(x) \cup {w}
               /\ sends'[x]["queued"] = sends[x]["queued"] /\ Issued(x)' <= Issued(x) + 1
OwnResent(x) == /\ \E w \in Workers : w \in Handlers(x) /\ Handlers(x)' = Handlers(x) \ {w}
                /\ sends'[x]["queued"] = sends[x]["queued"] + 1 /\ Issued(x)' <= Issued(x)
OwnMoves(x) == OwnStays(x) \/ OwnSent(x) \/ OwnTimed(x) \/ OwnResent(x)

\* A call that is waited for, or was not made yet.
Awaited(x) == x \in callers \/ ~Started(x)

LEMMA HandlersMove ==
  ASSUME Shape, NEW x \in Xids, NEW w \in Workers, NEW s, Goto(w, s)
  PROVE  LET In(r) == r.op \in InHand /\ r.xid = x IN
         /\ (In(s) <=> In(io[w])) => Handlers(x)' = Handlers(x)
         /\ In(s) /\ ~In(io[w]) => w \notin Handlers(x) /\ Handlers(x)' = Handlers(x) \cup {w}
         /\ ~In(s) /\ In(io[w]) => w \in Handlers(x) /\ Handlers(x)' = Handlers(x) \ {w}
<1>1. \A u \in Workers : io'[u] = IF u = w THEN s ELSE io[u]
  BY DEF Shape, IoTypes, Goto
<1>. QED
  BY <1>1 DEF Handlers

LEMMA HandlersStay ==
  ASSUME UNCHANGED io, NEW x
  PROVE  Handlers(x)' = Handlers(x)
BY DEF Handlers

\* Issued grows with a send of Call and with a timer whose handler runs.
LEMMA IssuedStays ==
  ASSUME NEW x \in Xids, Sent(x)' => Sent(x), timer'[x] = "ran" => timer[x] = "ran"
  PROVE  Issued(x)' <= Issued(x)
BY DEF Issued

LEMMA CallOwns ==
  ASSUME Shape, NEW x \in Xids,
         (\E proc \in AllProcs : CallStart(proc)) \/ \E y \in Xids : AppThread(y) \/ TimerExpires(y)
  PROVE  OwnStays(x) \/ OwnSent(x)
<1>0. /\ call \in [Xids -> CallRecords] /\ timer \in [Xids -> TimerStates]
      /\ sends \in [Xids -> [SendStates -> Nat]] /\ "queued" \in SendStates
      /\ xid_ \in 2..(MaxXid + 1)
  BY DEF Shape, CallTypes, TimerTypes, SendTypes, SendStates
<1>1. UNCHANGED io
  BY DEF CallStart, AppThread, CallReadAck, CallSend, CallWait, TimerExpires, ioVars
<1>2. Handlers(x)' = Handlers(x)
  BY <1>1, HandlersStay
<1>3. CASE \E proc \in AllProcs : CallStart(proc)
  <2>1. PICK proc \in AllProcs : Register(proc)
    BY <1>3 DEF CallStart
  <2>2. UNCHANGED <<timer, sends>> /\ (Sent(x)' => Sent(x))
    BY <1>0, <2>1, BoundsAssumption DEF Register, Sent, Xids, NoCall
  <2>. QED
    BY <1>0, <1>2, <2>2, IssuedStays DEF OwnStays
<1>4. ASSUME NEW y \in Xids, CallReadAck(y) PROVE OwnStays(x)
  <2>1. UNCHANGED <<timer, sends>> /\ (Sent(x)' => Sent(x))
    BY <1>0, <1>4 DEF CallReadAck, Sent, CallRecords
  <2>. QED
    BY <1>0, <1>2, <2>1, IssuedStays DEF OwnStays
<1>5. ASSUME NEW y \in Xids, CallSend(y) PROVE OwnStays(x) \/ OwnSent(x)
  <2>1. UNCHANGED timer /\ sends' = [sends EXCEPT ![y]["queued"] = @ + 1]
    BY <1>5 DEF CallSend, Queued
  <2>2. CASE x = y
    <3>1. sends'[x]["queued"] = sends[x]["queued"] + 1
      BY <1>0, <2>1, <2>2
    <3>2. ~Sent(x)
      BY <1>5, <2>2 DEF CallSend, Sent
    <3>3. Issued(x)' <= Issued(x) + 1
      BY <2>1, <3>2 DEF Issued
    <3>. QED
      BY <1>2, <3>1, <3>3 DEF OwnSent
  <2>3. CASE x # y
    <3>1. sends'[x]["queued"] = sends[x]["queued"] /\ call'[x] = call[x]
      BY <1>0, <1>5, <2>1, <2>3 DEF CallSend
    <3>. QED
      BY <1>0, <1>2, <2>1, <3>1, IssuedStays DEF OwnStays, Sent
  <2>. QED
    BY <2>2, <2>3
<1>6. ASSUME NEW y \in Xids, CallWait(y) PROVE OwnStays(x)
  <2>1. UNCHANGED sends /\ (Sent(x)' => Sent(x)) /\ (timer'[x] = "ran" => timer[x] = "ran")
    BY <1>0, <1>6 DEF CallWait, Sent, CallRecords
  <2>. QED
    BY <1>0, <1>2, <2>1, IssuedStays DEF OwnStays
<1>7. ASSUME NEW y \in Xids, TimerExpires(y) PROVE OwnStays(x)
  <2>1. UNCHANGED <<call, sends>> /\ (timer'[x] = "ran" => timer[x] = "ran")
    BY <1>0, <1>7 DEF TimerExpires
  <2>. QED
    BY <1>0, <1>2, <2>1, IssuedStays DEF OwnStays, Sent
<1>. QED
  BY <1>3, <1>4, <1>5, <1>6, <1>7 DEF AppThread

LEMMA AwaitedBefore ==
  ASSUME Shape, [Next]_vars, NEW x \in Xids, Awaited(x)'
  PROVE  Awaited(x)
<1>0. xid_ \in 2..(MaxXid + 1) /\ Shape'
  BY ShapeStep DEF Shape, CallTypes
<1>1. \/ UNCHANGED <<xid_, callers>> \/ (UNCHANGED xid_ /\ callers' \subseteq callers)
      \/ (xid_' = xid_ + 1 /\ callers' = callers \cup {xid_})
  <2>. DEFINE Goal == \/ UNCHANGED <<xid_, callers>> \/ (UNCHANGED xid_ /\ callers' \subseteq callers)
                      \/ (xid_' = xid_ + 1 /\ callers' = callers \cup {xid_})
  <2>1. ASSUME NEW proc \in AllProcs, CallStart(proc) PROVE Goal
    BY <2>1 DEF CallStart, Register
  <2>2. ASSUME NEW y \in Xids, AppThread(y) PROVE Goal
    BY <2>2 DEF AppThread, CallReadAck, CallSend, CallWait
  <2>3. ASSUME NEW w \in Workers, Worker(w) PROVE Goal
    BY <2>3 DEF Worker, UpdateXidRep, TakeCaller, FinishCaller, Callback, Resend, RetrySend,
                GiveUp, FailCallback, Rebind, Register, OnTimerExpired, SendSucceeded,
                SendFailed, callVars
  <2>4. CASE Environment
    BY <2>4 DEF Environment, TimerExpires, SendResolves, Reconnected, ReceiveFails,
                ReceiveReply, callVars
  <2>5. UNCHANGED vars => Goal
    BY DEF vars, callVars
  <2>. QED
    BY <2>1, <2>2, <2>3, <2>4, <2>5 DEF Next
<1>2. (Started(x) <=> x < xid_) /\ (Started(x)' <=> x < xid_')
  BY <1>0 DEF Shape, Fresh
<1>. QED
  BY <1>0, <1>1, <1>2, XidsAreNats DEF Awaited

LEMMA WorkerOwns ==
  ASSUME Shape, Retrans => Taken, NEW w \in Workers, Worker(w),
         NEW x \in Xids, Awaited(x), Awaited(x)'
  PROVE  OwnMoves(x)
<1>. DEFINE In(r) == r.op \in InHand /\ r.xid = x
<1>0. /\ call \in [Xids -> CallRecords] /\ timer \in [Xids -> TimerStates]
      /\ sends \in [Xids -> [SendStates -> Nat]] /\ {"queued", "connecting", "OK"} \subseteq SendStates
      /\ SendErrs \subseteq SendStates /\ {"queued", "connecting", "OK"} \cap SendErrs = {}
      /\ io[w] \in IoRecords /\ xid_ \in 2..(MaxXid + 1)
  BY SendErrsAssumption DEF Shape, CallTypes, TimerTypes, SendTypes, SendStates, IoTypes
<1>1. ASSUME NEW s, Goto(w, s), In(s) <=> In(io[w]) PROVE Handlers(x)' = Handlers(x)
  BY <1>1, HandlersMove
<1>2. /\ ~In(Idle) /\ \A y : ~In(AfterError(y))
      /\ \A op \in Ops : LET t == [io[w] EXCEPT !.op = op] IN t.op = op /\ t.xid = io[w].xid
      /\ \A y, e : ~In(Step("sendfailed", y, e, 0))
      /\ \A y : In(Step("resend", y, "OK", 0)) <=> y = x
  BY <1>0, StepIs DEF IoRecords, Ops, InHand, Idle, AfterError
<1>3. ASSUME Handlers(x)' = Handlers(x), sends' = sends, Sent(x)' => Sent(x),
             timer'[x] = "ran" => timer[x] = "ran"
      PROVE  OwnStays(x)
  BY <1>0, <1>3, IssuedStays DEF OwnStays
<1>3a. ASSUME NEW op \in Ops, op \in InHand <=> io[w].op \in InHand,
              Goto(w, [io[w] EXCEPT !.op = op])
       PROVE  Handlers(x)' = Handlers(x)
  <2>1. In([io[w] EXCEPT !.op = op]) <=> In(io[w])
    BY <1>2, <1>3a
  <2>. QED
    BY <1>1, <1>3a, <2>1
<1>3b. ASSUME ~In(io[w]), NEW y, Goto(w, Idle) \/ Goto(w, AfterError(y))
       PROVE  Handlers(x)' = Handlers(x)
  BY <1>1, <1>2, <1>3b
<1>3c. \A op \in {"finish", "callback", "sendfailed", "failcallback", "rebind"} :
          op \in Ops /\ op \notin InHand
  BY DEF InHand, Ops
<1>4. CASE UpdateXidRep(w)
  <2>1. io[w].op = "update" /\ Goto(w, [io[w] EXCEPT !.op = "lookup"])
        /\ UNCHANGED <<call, timer, sends>>
    BY <1>4 DEF UpdateXidRep, callVars
  <2>2. Handlers(x)' = Handlers(x)
    BY <1>3a, <2>1 DEF InHand, Ops
  <2>. QED
    BY <1>3, <2>1, <2>2 DEF OwnMoves, Sent
<1>5. CASE TakeCaller(w)
  <2>1. /\ io[w].op = "lookup" /\ UNCHANGED <<call, timer, sends>>
        /\ callers' = callers \ {io[w].xid}
        /\ Goto(w, IF io[w].xid \in callers THEN [io[w] EXCEPT !.op = "finish"] ELSE Idle)
    BY <1>5 DEF TakeCaller
  <2>2. io[w].xid # x
    <3>1. io[w].xid = x => Started(x) /\ Started(x)' /\ x \notin callers'
      BY <2>1 DEF Shape, HandlersWork, GoodStep, Started
    <3>. QED
      BY <3>1 DEF Awaited
  <2>3. Handlers(x)' = Handlers(x)
    BY <1>1, <1>2, <2>1, <2>2 DEF InHand, Ops
  <2>. QED
    BY <1>3, <2>1, <2>3 DEF OwnMoves, Sent
<1>6. CASE FinishCaller(w) \/ Callback(w)
  <2>1. /\ io[w].op \in {"finish", "callback"} /\ UNCHANGED <<call, sends>>
        /\ \/ UNCHANGED io \/ Goto(w, Idle) \/ Goto(w, AfterError(io[w].xid))
           \/ Goto(w, [io[w] EXCEPT !.op = "callback"])
    BY <1>6 DEF FinishCaller, Callback
  <2>2. Handlers(x)' = Handlers(x)
    BY <1>3a, <1>3b, <1>3c, <2>1, HandlersStay
  <2>3. timer'[x] = "ran" => timer[x] = "ran"
    BY <1>0, <1>6 DEF FinishCaller, Callback, Destroy
  <2>. QED
    BY <1>3, <2>1, <2>2, <2>3 DEF OwnMoves, Sent
<1>7. CASE Resend(w)
  <2>1. /\ io[w].op = "resend" /\ Goto(w, Idle) /\ UNCHANGED <<call, timer>>
        /\ sends' = [sends EXCEPT ![io[w].xid]["queued"] = @ + 1]
    BY <1>7 DEF Resend, Queued
  <2>2. Issued(x)' <= Issued(x)
    BY <2>1, IssuedStays DEF Sent
  <2>3. CASE io[w].xid = x
    <3>1. w \in Handlers(x) /\ Handlers(x)' = Handlers(x) \ {w}
      BY <1>2, <2>1, <2>3, HandlersMove DEF InHand
    <3>. QED
      BY <1>0, <2>1, <2>2, <2>3, <3>1 DEF OwnMoves, OwnResent
  <2>4. CASE io[w].xid # x
    <3>1. Handlers(x)' = Handlers(x)
      BY <1>1, <1>2, <2>1, <2>4
    <3>. QED
      BY <1>0, <2>1, <2>2, <2>4, <3>1 DEF OwnMoves, OwnStays
  <2>. QED
    BY <2>3, <2>4
<1>8. CASE RetrySend(w)
  <2>1. /\ io[w].op = "sendfailed" /\ Goto(w, Idle) /\ UNCHANGED <<call, timer>>
        /\ \E s \in {"queued", "connecting"} : sends' = [sends EXCEPT ![io[w].xid][s] = @ + 1]
    BY <1>8 DEF RetrySend
  <2>2. Handlers(x)' = Handlers(x)
    BY <1>1, <1>2, <2>1 DEF InHand
  <2>3. Issued(x)' <= Issued(x)
    BY <2>1, IssuedStays DEF Sent
  <2>4. sends'[x]["queued"] >= sends[x]["queued"]
    BY <1>0, <2>1
  <2>. QED
    BY <2>2, <2>3, <2>4 DEF OwnMoves, OwnStays
<1>9. CASE GiveUp(w) \/ FailCallback(w)
  <2>1. /\ io[w].op \in {"sendfailed", "failcallback"} /\ UNCHANGED <<call, timer, sends>>
        /\ \/ Goto(w, AfterError(io[w].xid))
           \/ Goto(w, [io[w] EXCEPT !.op = "failcallback"])
    BY <1>9 DEF GiveUp, FailCallback, callVars
  <2>2. Handlers(x)' = Handlers(x)
    BY <1>3a, <1>3b, <1>3c, <2>1
  <2>. QED
    BY <1>3, <2>1, <2>2 DEF OwnMoves, Sent
<1>10. CASE Rebind(w)
  <2>1. io[w].op = "rebind" /\ Goto(w, Idle) /\ (UNCHANGED callVars \/ Register(BIND))
    BY <1>10 DEF Rebind
  <2>2. Handlers(x)' = Handlers(x)
    BY <1>3b, <1>3c, <2>1
  <2>3. UNCHANGED <<timer, sends>> /\ (Sent(x)' => Sent(x))
    BY <1>0, <2>1, BoundsAssumption DEF Register, callVars, Sent, Xids, NoCall
  <2>. QED
    BY <1>3, <2>2, <2>3 DEF OwnMoves
<1>11. ASSUME NEW y \in Xids, OnTimerExpired(w, y) PROVE OwnMoves(x)
  <2>1. /\ io[w] = Idle /\ timer[y] = "expired" /\ timer' = [timer EXCEPT ![y] = "ran"]
        /\ UNCHANGED <<call, sends>>
    BY <1>11 DEF OnTimerExpired
  <2>2. \/ caller[y].done /\ UNCHANGED io
        \/ ~Retrans /\ Goto(w, AfterError(y))
        \/ ~caller[y].done /\ Retrans /\ Goto(w, Step("resend", y, "OK", 0))
    BY <1>11 DEF OnTimerExpired
  <2>3. CASE ~Retrans
    <3>1. Handlers(x)' = Handlers(x)
      BY <1>1, <1>2, <2>1, <2>2, <2>3, HandlersStay
    <3>2. Issued(x)' <= Issued(x)
      BY <2>1, <2>3 DEF Issued, Sent
    <3>. QED
      BY <1>0, <2>1, <3>1, <3>2 DEF OwnMoves, OwnStays
  <2>4. CASE Retrans /\ y = x
    <3>1. x \in callers
      BY <2>1, <2>4 DEF Awaited, Shape, Fresh
    <3>2. ~caller[x].done
      BY <2>4, <3>1 DEF Taken, TakenCall, Open, Answered, HeldBy, Shape, Fresh
    <3>3. w \notin Handlers(x) /\ Handlers(x)' = Handlers(x) \cup {w}
      BY <1>2, <2>1, <2>2, <2>4, <3>2, HandlersMove
    <3>4. Issued(x)' <= Issued(x) + 1
      BY <2>1, <2>4 DEF Issued, Sent
    <3>. QED
      BY <2>1, <3>3, <3>4 DEF OwnMoves, OwnTimed
  <2>5. CASE Retrans /\ y # x
    <3>1. Handlers(x)' = Handlers(x)
      BY <1>1, <1>2, <2>1, <2>2, <2>5, HandlersStay
    <3>. QED
      BY <1>0, <1>3, <2>1, <2>5, <3>1 DEF OwnMoves, Sent
  <2>. QED
    BY <2>3, <2>4, <2>5
<1>12. ASSUME NEW y \in Xids, SendSucceeded(w, y) \/ \E e \in SendErrs : SendFailed(w, y, e)
       PROVE  OwnMoves(x)
  <2>1. /\ io[w] = Idle /\ UNCHANGED <<call, timer>>
        /\ \E s \in {"OK"} \cup SendErrs : sends' = [sends EXCEPT ![y][s] = @ - 1]
        /\ UNCHANGED io \/ Goto(w, Idle) \/ \E e : Goto(w, Step("sendfailed", y, e, 0))
    BY <1>12 DEF SendSucceeded, SendFailed
  <2>2. Handlers(x)' = Handlers(x)
    BY <1>1, <1>2, <2>1, HandlersStay
  <2>3. Issued(x)' <= Issued(x)
    BY <2>1, IssuedStays DEF Sent
  <2>4. sends'[x]["queued"] = sends[x]["queued"]
    BY <1>0, <2>1
  <2>. QED
    BY <1>0, <2>2, <2>3, <2>4 DEF OwnMoves, OwnStays
<1>. QED
  BY <1>4, <1>5, <1>6, <1>7, <1>8, <1>9, <1>10, <1>11, <1>12 DEF Worker

\* What the environment does to it: a reply is put into a handler's hands, a
\* send of the call is over.
LEMMA EnvironmentOwns ==
  ASSUME Shape, NEW x \in Xids
  PROVE  /\ \A y \in Xids, ok \in BOOLEAN : Reconnected(y, ok) => OwnStays(x)
         /\ \A w \in Workers : ReceiveFails(w) => OwnStays(x)
         /\ \A w \in Workers : \A rep : ReceiveReply(w, rep) =>
               /\ IF rep.xid = x
                  THEN w \notin Handlers(x) /\ Handlers(x)' = Handlers(x) \cup {w}
                  ELSE Handlers(x)' = Handlers(x)
               /\ UNCHANGED sends /\ Issued(x)' <= Issued(x)
         /\ \A y \in Xids, e \in {"OK"} \cup SendErrs : SendResolves(y, e) =>
               /\ Handlers(x)' = Handlers(x) /\ Issued(x)' <= Issued(x)
               /\ sends'[x]["queued"] = IF x = y THEN sends[x]["queued"] - 1 ELSE sends[x]["queued"]
<1>0. /\ sends \in [Xids -> [SendStates -> Nat]] /\ {"queued", "connecting", "OK"} \subseteq SendStates
      /\ SendErrs \subseteq SendStates /\ {"queued", "connecting", "OK"} \cap SendErrs = {}
  BY SendErrsAssumption DEF Shape, SendTypes, SendStates
<1>1. ASSUME NEW y \in Xids, NEW ok \in BOOLEAN, Reconnected(y, ok) PROVE OwnStays(x)
  <2>1. /\ UNCHANGED <<io, call, timer>>
        /\ UNCHANGED sends \/ sends' = Moved(y, "connecting", "queued")
    BY <1>1 DEF Reconnected, ioVars
  <2>2. sends'[x]["queued"] >= sends[x]["queued"]
    BY <1>0, <2>1 DEF Moved
  <2>. QED
    BY <2>1, <2>2, HandlersStay, IssuedStays DEF OwnStays, Sent
<1>2. ASSUME NEW w \in Workers, ReceiveFails(w) PROVE OwnStays(x)
  BY <1>0, <1>2, HandlersStay, IssuedStays DEF ReceiveFails, callVars, OwnStays, Sent
<1>3. ASSUME NEW w \in Workers, NEW rep, ReceiveReply(w, rep)
      PROVE  /\ IF rep.xid = x
                THEN w \notin Handlers(x) /\ Handlers(x)' = Handlers(x) \cup {w}
                ELSE Handlers(x)' = Handlers(x)
             /\ UNCHANGED sends /\ Issued(x)' <= Issued(x)
  <2>1. /\ io[w] = Idle /\ Goto(w, Step("update", rep.xid, rep.err, rep.result))
        /\ UNCHANGED <<call, timer, sends>>
    BY <1>3 DEF ReceiveReply, callVars
  <2>2. /\ Idle.op \notin InHand
        /\ LET s == Step("update", rep.xid, rep.err, rep.result) IN s.op \in InHand /\ s.xid = rep.xid
    BY StepIs, IdleIs DEF InHand
  <2>. QED
    BY <2>1, <2>2, HandlersMove, IssuedStays DEF Sent
<1>4. ASSUME NEW y \in Xids, NEW e \in {"OK"} \cup SendErrs, SendResolves(y, e)
      PROVE  /\ Handlers(x)' = Handlers(x) /\ Issued(x)' <= Issued(x)
             /\ sends'[x]["queued"] = IF x = y THEN sends[x]["queued"] - 1 ELSE sends[x]["queued"]
  <2>1. UNCHANGED <<io, call, timer>> /\ sends' = Moved(y, "queued", e)
    BY <1>4 DEF SendResolves, ioVars
  <2>2. sends'[x]["queued"] = IF x = y THEN sends[x]["queued"] - 1 ELSE sends[x]["queued"]
    BY <1>0, <2>1 DEF Moved
  <2>. QED
    BY <2>1, <2>2, HandlersStay, IssuedStays DEF Sent
<1>. QED
  BY <1>1, <1>2, <1>3, <1>4

\* As numbers: what a call has under way keeps up with the sends it was started
\* with.
LEMMA OwnBalances ==
  ASSUME NEW x \in Xids, OwnMoves(x), IsFiniteSet(Handlers(x)),
         sends[x]["queued"] \in Nat, sends'[x]["queued"] \in Nat
  PROVE  /\ IsFiniteSet(Handlers(x)')
         /\ sends'[x]["queued"] + Cardinality(Handlers(x)') + Issued(x)
               >= sends[x]["queued"] + Cardinality(Handlers(x)) + Issued(x)'
<1>0. Issued(x) \in Nat /\ Issued(x)' \in Nat /\ Cardinality(Handlers(x)) \in Nat
  BY FS_CardinalityType DEF Issued
<1>1. CASE OwnStays(x) \/ OwnSent(x)
  BY <1>0, <1>1 DEF OwnStays, OwnSent
<1>2. CASE OwnTimed(x)
  <2>1. IsFiniteSet(Handlers(x)') /\ Cardinality(Handlers(x)') = Cardinality(Handlers(x)) + 1
    BY <1>2, FS_AddElement DEF OwnTimed
  <2>. QED
    BY <1>0, <1>2, <2>1 DEF OwnTimed
<1>3. CASE OwnResent(x)
  <2>1. IsFiniteSet(Handlers(x)') /\ Cardinality(Handlers(x)') = Cardinality(Handlers(x)) - 1
    BY <1>3, FS_RemoveElement DEF OwnResent
  <2>. QED
    BY <1>0, <1>3, <2>1 DEF OwnResent
<1>. QED
  BY <1>1, <1>2, <1>3 DEF OwnMoves
-----------------------------------------------------------------------------
(* No send fails and no connection is made again before a send has reported *)
(* an error; a client without retransmission never reconnects.              *)

Troubles == {"connecting"} \cup SendErrs
Undisturbed == /\ \A x \in Xids : \A s \in Troubles : sends[x][s] = 0
               /\ \A w \in Workers : io[w].op # "sendfailed"
Faultless == /\ faults = 0 => Undisturbed
             /\ ~Retrans => \A x \in Xids : sends[x]["connecting"] = 0

LEMMA FaultlessInit == Init => Faultless
BY SendErrsAssumption, IdleIs
   DEF Init, Faultless, Undisturbed, Troubles, NoSends, SendStates

LEMMA FaultlessStep ==
  ASSUME Shape, Faultless, [Next]_vars
  PROVE  Faultless'
<1>0. /\ sends \in [Xids -> [SendStates -> Nat]] /\ io \in [Workers -> IoRecords]
      /\ {"queued", "OK"} \cap Troubles = {} /\ Troubles \subseteq SendStates
      /\ {"queued", "connecting", "OK"} \subseteq SendStates /\ faults \in Nat
      /\ "connecting" \in Troubles /\ SendErrs \subseteq Troubles /\ "connecting" \notin SendErrs
  BY SendErrsAssumption, BoundsAssumption
     DEF Shape, SendTypes, SendStates, Troubles, IoTypes, FaultTypes
\* What does not make trouble.
<1>. DEFINE Calm == \A x \in Xids : \A s \in Troubles : sends'[x][s] = 0 \/ sends'[x][s] = sends[x][s]
<1>1. ASSUME Calm, UNCHANGED faults, \A w \in Workers : io'[w].op = "sendfailed" => io[w].op = "sendfailed"
      PROVE  Faultless'
  BY <1>0, <1>1 DEF Faultless, Undisturbed
<1>2. ASSUME UNCHANGED sends \/ \E y \in Xids : sends' = Queued(y) PROVE Calm
  BY <1>0, <1>2 DEF Queued
<1>3. ASSUME UNCHANGED io PROVE \A w \in Workers : io'[w].op = "sendfailed" => io[w].op = "sendfailed"
  BY <1>3
<1>4. ASSUME NEW w \in Workers, NEW s, s.op # "sendfailed" \/ s.op = io[w].op, Goto(w, s)
      PROVE  \A u \in Workers : io'[u].op = "sendfailed" => io[u].op = "sendfailed"
  <2>1. \A u \in Workers : io'[u] = IF u = w THEN s ELSE io[u]
    BY <1>0, <1>4 DEF Goto
  <2>. QED
    BY <1>4, <2>1
<1>5. /\ Idle.op # "sendfailed" /\ \A y \in Xids : AfterError(y).op # "sendfailed"
      /\ \A y : Step("resend", y, "OK", 0).op # "sendfailed"
      /\ \A y, e, r : Step("update", y, e, r).op # "sendfailed"
  BY IdleIs, StepIs DEF AfterError
<1>6. CASE UNCHANGED vars
  BY <1>1, <1>2, <1>3, <1>6 DEF vars, callVars, ioVars, auxVars
<1>7. ASSUME NEW proc \in AllProcs, CallStart(proc) PROVE Faultless'
  BY <1>1, <1>2, <1>3, <1>7 DEF CallStart, Register, ioVars, auxVars
<1>8. ASSUME NEW x \in Xids, AppThread(x) PROVE Faultless'
  <2>1. UNCHANGED <<io, faults>> /\ (UNCHANGED sends \/ sends' = Queued(x))
    BY <1>8 DEF AppThread, CallReadAck, CallSend, CallWait, ioVars, auxVars
  <2>. QED
    BY <1>1, <1>2, <1>3, <2>1
<1>9. ASSUME NEW w \in Workers, Worker(w) PROVE Faultless'
  <2>1. UNCHANGED faults
    BY <1>9 DEF Worker, UpdateXidRep, TakeCaller, FinishCaller, Callback, Resend, RetrySend,
                GiveUp, FailCallback, Rebind, OnTimerExpired, SendSucceeded, SendFailed, auxVars
  <2>2. io[w] \in IoRecords /\ (io[w].op # "idle" => io[w].xid \in Xids)
    BY <1>0 DEF Shape, HandlersWork, GoodStep
  <2>3. CASE \/ UpdateXidRep(w) \/ TakeCaller(w) \/ FinishCaller(w) \/ Callback(w)
             \/ GiveUp(w) \/ FailCallback(w) \/ Rebind(w)
    <3>1. /\ UNCHANGED sends /\ io[w].op # "idle"
          /\ \/ UNCHANGED io \/ Goto(w, Idle) \/ Goto(w, AfterError(io[w].xid))
             \/ \E op \in {"lookup", "finish", "callback", "failcallback"} :
                   Goto(w, [io[w] EXCEPT !.op = op])
      BY <2>3 DEF UpdateXidRep, TakeCaller, FinishCaller, Callback, GiveUp, FailCallback, Rebind,
                  Register, callVars
    <3>2. \A op \in {"lookup", "finish", "callback", "failcallback"} :
             LET t == [io[w] EXCEPT !.op = op] IN t.op = op
      BY <2>2 DEF IoRecords
    <3>3. \A u \in Workers : io'[u].op = "sendfailed" => io[u].op = "sendfailed"
      <4>1. ASSUME NEW op \in {"lookup", "finish", "callback", "failcallback"},
                   Goto(w, [io[w] EXCEPT !.op = op])
            PROVE  \A u \in Workers : io'[u].op = "sendfailed" => io[u].op = "sendfailed"
        BY <1>4, <3>2, <4>1
      <4>2. CASE UNCHANGED io
        BY <1>3, <4>2
      <4>3. CASE Goto(w, Idle)
        BY <1>4, <1>5, <4>3
      <4>4. CASE Goto(w, AfterError(io[w].xid))
        BY <1>4, <1>5, <2>2, <3>1, <4>4
      <4>. QED
        BY <3>1, <4>1, <4>2, <4>3, <4>4
    <3>. QED
      BY <1>1, <1>2, <2>1, <3>1, <3>3
  <2>4. CASE Resend(w)
    <3>1. io[w].op = "resend" /\ sends' = Queued(io[w].xid) /\ Goto(w, Idle)
      BY <2>4 DEF Resend
    <3>. QED
      BY <1>1, <1>2, <1>4, <1>5, <2>1, <2>2, <3>1
  <2>5. CASE RetrySend(w)
    <3>1. Retrans /\ io[w].op = "sendfailed"
      BY <2>5 DEF RetrySend
    <3>2. faults # 0
      BY <3>1 DEF Faultless, Undisturbed
    <3>. QED
      BY <2>1, <3>1, <3>2 DEF Faultless
  <2>6. ASSUME NEW x \in Xids, OnTimerExpired(w, x) PROVE Faultless'
    <3>1. UNCHANGED sends /\ (UNCHANGED io \/ Goto(w, AfterError(x)) \/ Goto(w, Step("resend", x, "OK", 0)))
      BY <2>6 DEF OnTimerExpired
    <3>. QED
      BY <1>1, <1>2, <1>3, <1>4, <1>5, <2>1, <3>1
  <2>7. ASSUME NEW x \in Xids, SendSucceeded(w, x) PROVE Faultless'
    <3>1. UNCHANGED io /\ sends' = [sends EXCEPT ![x]["OK"] = @ - 1]
      BY <2>7 DEF SendSucceeded
    <3>2. Calm
      BY <1>0, <3>1
    <3>. QED
      BY <1>1, <1>3, <2>1, <3>1, <3>2
  <2>8. ASSUME NEW x \in Xids, NEW e \in SendErrs, SendFailed(w, x, e) PROVE Faultless'
    <3>1. sends[x][e] > 0 /\ sends' = [sends EXCEPT ![x][e] = @ - 1]
      BY <2>8 DEF SendFailed
    <3>2. faults # 0
      BY <1>0, <3>1 DEF Faultless, Undisturbed
    <3>3. \A y \in Xids : sends'[y]["connecting"] = sends[y]["connecting"]
      BY <1>0, <3>1
    <3>. QED
      BY <2>1, <3>2, <3>3 DEF Faultless
  <2>. QED
    BY <1>9, <2>3, <2>4, <2>5, <2>6, <2>7, <2>8 DEF Worker
<1>10. CASE Environment
  <2>1. ASSUME NEW x \in Xids, TimerExpires(x) PROVE Faultless'
    BY <1>1, <1>2, <1>3, <2>1 DEF TimerExpires, ioVars, auxVars
  <2>2. ASSUME NEW x \in Xids, NEW e \in {"OK"} \cup SendErrs, SendResolves(x, e) PROVE Faultless'
    <3>1. UNCHANGED io /\ sends' = Moved(x, "queued", e)
          /\ \/ e = "OK" /\ UNCHANGED faults
             \/ e \in SendErrs /\ faults' = faults + 1
      BY <2>2 DEF SendResolves, ioVars
    <3>2. \A y \in Xids : sends'[y]["connecting"] = sends[y]["connecting"]
      BY <1>0, <3>1 DEF Moved
    <3>3. CASE e = "OK"
      <4>1. Calm /\ UNCHANGED faults
        BY <1>0, <3>1, <3>3 DEF Moved
      <4>. QED
        BY <1>1, <1>3, <3>1, <4>1
    <3>4. CASE e # "OK"
      <4>1. faults' # 0
        BY <1>0, <3>1, <3>4
      <4>. QED
        BY <3>2, <4>1 DEF Faultless
    <3>. QED
      BY <3>3, <3>4
  <2>3. ASSUME NEW x \in Xids, NEW ok \in BOOLEAN, Reconnected(x, ok) PROVE Faultless'
    <3>1. sends[x]["connecting"] > 0 /\ UNCHANGED faults
      BY <2>3 DEF Reconnected
    <3>2. faults # 0 /\ Retrans
      BY <1>0, <3>1 DEF Faultless, Undisturbed
    <3>. QED
      BY <3>1, <3>2 DEF Faultless
  <2>4. ASSUME NEW w \in Workers, ReceiveFails(w) PROVE Faultless'
    BY <1>1, <1>2, <1>3, <2>4 DEF ReceiveFails, callVars, auxVars
  <2>5. ASSUME NEW w \in Workers, NEW rep, ReceiveReply(w, rep) PROVE Faultless'
    BY <1>1, <1>2, <1>4, <1>5, <2>5 DEF ReceiveReply, callVars, auxVars
  <2>. QED
    BY <1>10, <2>1, <2>2, <2>3, <2>4, <2>5 DEF Environment
<1>. QED
  BY <1>6, <1>7, <1>8, <1>9, <1>10 DEF Next
=============================================================================
