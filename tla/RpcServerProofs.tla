-------------------------- MODULE RpcServerProofs --------------------------
(***************************************************************************)
(* RpcServer keeps its window in order and runs a request at most once,    *)
(* for any clients, xids, procedures, connections and server processes.    *)
(*                                                                         *)
(* The argument has two layers.  Shape is inductive alone: types, a sorted *)
(* and trimmed window, and a request behind every handler chain.  Memory   *)
(* needs Shape: whatever ran is acknowledged or has an entry, and a handler*)
(* that is about to run holds the only claim on its request.               *)
(***************************************************************************)
EXTENDS RpcServer, WindowProofs

\* A handler chain past the read works on a request a client has issued, and
\* only a request with a nonce reaches AddReply.
TasksIssued ==
    \A k \in Conns :
        /\ task[k].pc \notin {"closed", "reading", "dead"} => task[k].req \in issued
        /\ task[k].pc \in {"handled", "replay", "forgotten"} => task[k].req.clt_nonce > 0

Shape == TypeOK /\ WindowTrimmed /\ TasksIssued

-----------------------------------------------------------------------------
(* Facts about the data. *)

\* Every entry the server can put into a window has a natural xid_.
LEMMA EntriesTyped ==
    /\ \A e \in ReplyTs : e.xid_ \in Nat /\ e.xid_ \in Xids
    /\ \A x \in Xids : x \in Nat /\ ReplyT(x) \in ReplyTs
    /\ \A x \in Xids, rep \in Replies :
          [xid_ |-> x, cb_present |-> TRUE, buf_ |-> rep] \in ReplyTs
<1>1. Xids \subseteq Nat
  BY XidsAssumption
<1>2. NoReply \in Replies
  BY DEF NoReply, Reply, Replies, Errs
<1>. QED
  BY <1>1, <1>2, Zenon DEF ReplyTs, ReplyT

\* The fields of a request.
LEMMA RequestsTyped ==
    \A m \in Requests :
        /\ m.xid \in Xids /\ m.xid \in Nat
        /\ m.clt_nonce \in Nonces /\ m.clt_nonce \in Nat
        /\ m.proc \in Procs
        /\ m.xid_rep \in Nat
        /\ m.srv_nonce \in {0} \cup {SrvNonces[i] : i \in Instances}
<1>1. Xids \subseteq Nat /\ Nonces \subseteq Nat /\ {0} \cup Xids \subseteq Nat
  BY XidsAssumption, NoncesAssumption
<1>. DEFINE Servers == {0} \cup {SrvNonces[i] : i \in Instances}
<1>2. Requests = [xid: Xids, proc: Procs, clt_nonce: Nonces,
                  srv_nonce: Servers, xid_rep: {0} \cup Xids]
  BY DEF Requests
<1>. HIDE DEF Servers
<1>3. \A m \in Requests : /\ m.xid \in Xids /\ m.proc \in Procs /\ m.clt_nonce \in Nonces
                          /\ m.srv_nonce \in Servers /\ m.xid_rep \in {0} \cup Xids
  BY <1>2
<1>. QED
  BY <1>1, <1>3 DEF Servers

\* The records the environment and the handlers build have their types.
LEMMA TasksTyped ==
    /\ Reading \in [pc: Pcs, req: Requests \cup {NoRequest}, rep: Replies]
    /\ Dead \in [pc: Pcs, req: Requests \cup {NoRequest}, rep: Replies]
    /\ Closed \in [pc: Pcs, req: Requests \cup {NoRequest}, rep: Replies]
    /\ \A pc \in Pcs, m \in Requests, rep \in Replies :
          Task(pc, m, rep) \in [pc: Pcs, req: Requests \cup {NoRequest}, rep: Replies]
<1>1. NoReply \in Replies
  BY DEF NoReply, Reply, Replies, Errs
<1>. QED
  BY <1>1 DEF Reading, Dead, Closed, Task, Pcs

\* The acknowledgement only moves forward and stays a natural.
LEMMA UpdatedAckTyped ==
    ASSUME NEW ack \in Nat, NEW m \in Requests
    PROVE  UpdatedAck(ack, m) \in Nat /\ UpdatedAck(ack, m) >= ack
  BY RequestsTyped DEF UpdatedAck

\* The window of one client after CheckDuplicateAndUpdate, and the state the
\* handler chain continues in.
LEMMA CheckTyped ==
    ASSUME NEW w \in Seq(ReplyTs), Ascending(w), NEW ack \in Nat, NEW m \in Requests
    PROVE  /\ CheckedWindow(w, ack, m.xid) \in Seq(ReplyTs)
           /\ Ascending(CheckedWindow(w, ack, m.xid))
           /\ \A i \in 1..Len(CheckedWindow(w, ack, m.xid)) :
                 CheckedWindow(w, ack, m.xid)[i].xid_ > ack
           /\ \/ AfterCheck(DupState(w, ack, m.xid), m, w) = Reading
              \/ \E pc \in {"new", "replay", "forgotten"}, rep \in Replies :
                    AfterCheck(DupState(w, ack, m.xid), m, w) = Task(pc, m, rep)
<1>. DEFINE T == ReplyTs
            x == m.xid
<1>1. /\ \A e \in T : e.xid_ \in Nat
      /\ x \in Nat /\ ReplyT(x) \in T
  BY EntriesTyped, RequestsTyped
<1>2. NoReply \in Replies /\ Reply(x, "ATMOST_ONCE_FAILURE", 0) \in Replies
  BY RequestsTyped DEF NoReply, Reply, Replies, Errs
<1>3. \A e \in T : e.buf_ \in Replies
  BY DEF ReplyTs
<1>4. w \in Seq(T)
  OBVIOUS
<1>. HIDE DEF T, x
<1>5. /\ CheckedWindow(w, ack, x) \in Seq(T)
      /\ Ascending(CheckedWindow(w, ack, x))
      /\ \A i \in 1..Len(CheckedWindow(w, ack, x)) :
            CheckedWindow(w, ack, x)[i].xid_ > ack
  BY <1>1, <1>4, CheckedWindowKeeps
<1>6. \/ DupState(w, ack, x) \in {"FORGOTTEN", "NEW", "INPROGRESS"}
      \/ DupState(w, ack, x) = "DONE" /\ Remembered(w, x) \in Replies
  <2>1. \A i \in 1..Len(w) : w[i].buf_ \in Replies
    BY <1>3, <1>4, LenProperties
  <2>. QED
    BY <1>1, <1>4, <2>1, DupStateMeans
<1>7. \/ AfterCheck(DupState(w, ack, x), m, w) = Reading
      \/ \E pc \in {"new", "replay", "forgotten"}, rep \in Replies :
            AfterCheck(DupState(w, ack, x), m, w) = Task(pc, m, rep)
  BY <1>2, <1>6 DEF AfterCheck, x
<1>. QED
  BY <1>5, <1>7 DEF T, x

-----------------------------------------------------------------------------
(* Shape is inductive. *)

TaskRecords == [pc: Pcs, req: Requests \cup {NoRequest}, rep: Replies]

\* Init satisfies Shape.
LEMMA ShapeInit == Init => Shape
<1>. SUFFICES ASSUME Init PROVE Shape
  OBVIOUS
<1>. USE DEF Init
<1>1. <<>> \in Seq(ReplyTs) /\ Len(<<>>) = 0
  BY EmptySeq
<1>2. instance \in Instances /\ procs \in SUBSET Procs
  BY InstancesAssumption, ProcsAssumption DEF Instances
<1>3. task \in [Conns -> TaskRecords]
  BY TasksTyped DEF TaskRecords
<1>4. TypeOK
  BY <1>1, <1>2, <1>3 DEF TypeOK, TaskRecords
<1>5. WindowTrimmed
  BY <1>1 DEF WindowTrimmed, Ascending
<1>6. TasksIssued
  BY DEF TasksIssued, Closed, Task
<1>. QED
  BY <1>4, <1>5, <1>6 DEF Shape

\* A handler chain that goes on with a typed task leaves the tasks typed.
LEMMA GotoTyped ==
    ASSUME TypeOK, NEW k \in Conns, NEW t \in TaskRecords, Goto(k, t)
    PROVE  /\ task' \in [Conns -> TaskRecords]
           /\ task'[k] = t
           /\ \A j \in Conns : j # k => task'[j] = task[j]
<1>1. task \in [Conns -> TaskRecords]
  BY DEF TypeOK, TaskRecords
<1>2. task' = [task EXCEPT ![k] = t]
  BY DEF Goto
<1>. QED
  BY <1>1, <1>2

\* The steps that touch no window: at most one handler chain goes on, to a
\* typed task with a request behind it.
LEMMA ShapeKept ==
    ASSUME Shape, NEW k \in Conns, NEW t \in TaskRecords, Goto(k, t),
           t.pc \notin {"closed", "reading", "dead"} => t.req \in issued,
           t.pc \in {"handled", "replay", "forgotten"} => t.req.clt_nonce > 0,
           execs' \in [Instances \X Nonces \X Xids -> Nat],
           UNCHANGED <<instance, procs, reply_window, max_ack, crashed, issued>>
    PROVE  Shape'
<1>1. /\ task' \in [Conns -> TaskRecords]
      /\ task'[k] = t
      /\ \A j \in Conns : j # k => task'[j] = task[j]
  BY GotoTyped DEF Shape
<1>2. TypeOK'
  BY <1>1 DEF Shape, TypeOK, TaskRecords
<1>3. WindowTrimmed'
  BY DEF Shape, WindowTrimmed
<1>4. TasksIssued'
  BY <1>1 DEF Shape, TasksIssued
<1>. QED
  BY <1>2, <1>3, <1>4 DEF Shape

\* Every action preserves Shape.
LEMMA ShapeNext == Shape /\ [Next]_vars => Shape'
<1>. SUFFICES ASSUME Shape, [Next]_vars PROVE Shape'
  OBVIOUS
<1>0. /\ instance \in Instances /\ procs \in SUBSET Procs
      /\ reply_window \in [Nonces -> Seq(ReplyTs)] /\ max_ack \in [Nonces -> Nat]
      /\ task \in [Conns -> TaskRecords] /\ issued \in SUBSET Requests
      /\ crashed \in BOOLEAN
      /\ execs \in [Instances \X Nonces \X Xids -> Nat]
  BY DEF Shape, TypeOK, TaskRecords
<1>1. ASSUME NEW p \in Procs, Register(p) PROVE Shape'
  BY <1>1 DEF Register, Shape, TypeOK, WindowTrimmed, TasksIssued
<1>2. ASSUME NEW m \in Requests, Issue(m) PROVE Shape'
  <2>1. issued' = issued \cup {m} /\ issued' \in SUBSET Requests
    BY <1>0, <1>2 DEF Issue
  <2>. QED
    BY <1>2, <2>1 DEF Issue, Shape, TypeOK, WindowTrimmed, TasksIssued
<1>3. ASSUME Restart PROVE Shape'
  <2>1. <<>> \in Seq(ReplyTs) /\ Len(<<>>) = 0
    BY EmptySeq
  <2>2. instance' \in Instances
    BY <1>0, <1>3, InstancesAssumption DEF Restart, Instances
  <2>3. task' \in [Conns -> TaskRecords]
    BY <1>3, TasksTyped DEF Restart, TaskRecords
  <2>4. TypeOK'
    BY <1>0, <1>3, <2>1, <2>2, <2>3, ProcsAssumption DEF Restart, TypeOK, TaskRecords
  <2>5. WindowTrimmed'
    BY <1>3, <2>1 DEF Restart, WindowTrimmed, Ascending
  <2>6. TasksIssued'
    BY <1>3 DEF Restart, TasksIssued, Closed, Task
  <2>. QED
    BY <2>4, <2>5, <2>6 DEF Shape
<1>4. ASSUME NEW k \in Conns, Connection(k) PROVE Shape'
  <2>0. /\ Reading \in TaskRecords /\ Reading.pc = "reading"
        /\ Dead \in TaskRecords /\ Dead.pc = "dead"
        /\ \A pc \in Pcs, m \in Requests, rep \in Replies :
              /\ Task(pc, m, rep) \in TaskRecords
              /\ Task(pc, m, rep).pc = pc /\ Task(pc, m, rep).req = m
    BY TasksTyped DEF TaskRecords, Reading, Dead, Task
  <2>1. CASE OnNewConnection(k)
    BY <1>0, <2>0, <2>1, ShapeKept DEF OnNewConnection
  <2>2. CASE ReceiveFails(k)
    BY <1>0, <2>0, <2>2, ShapeKept DEF ReceiveFails
  <2>3. ASSUME NEW m \in issued, Dispatch(k, m) PROVE Shape'
    <3>0. m \in Requests
      BY <1>0
    <3>1. CASE DispatchOldServer(k, m)
      <4>1. Reply(m.xid, "OLDSERVER_FAILURE", 0) \in Replies
        BY <3>0, RequestsTyped DEF Reply, Replies, Errs
      <4>2. "reply" \in Pcs
        BY DEF Pcs
      <4>. DEFINE t == Task("reply", m, Reply(m.xid, "OLDSERVER_FAILURE", 0))
      <4>3. t \in TaskRecords /\ t.pc = "reply" /\ t.req = m
        BY <2>0, <3>0, <4>1, <4>2
      <4>4. /\ Goto(k, t) /\ m \in issued
            /\ UNCHANGED <<instance, procs, reply_window, max_ack, crashed, issued, execs>>
        BY <3>1 DEF DispatchOldServer
      <4>. HIDE DEF t
      <4>5. execs' \in [Instances \X Nonces \X Xids -> Nat]
        BY <1>0, <4>4
      <4>. QED
        BY <4>3, <4>4, <4>5, ShapeKept
    <3>2. CASE DispatchUnknownProc(k, m)
      BY <3>2 DEF DispatchUnknownProc, Shape, TypeOK, WindowTrimmed, TasksIssued
    <3>3. CASE DispatchPlain(k, m)
      <4>1. NoReply \in Replies
        BY DEF NoReply, Reply, Replies, Errs
      <4>2. "new" \in Pcs
        BY DEF Pcs
      <4>. DEFINE t == Task("new", m, NoReply)
      <4>3. t \in TaskRecords /\ t.pc = "new" /\ t.req = m
        BY <2>0, <3>0, <4>1, <4>2
      <4>4. /\ Goto(k, t) /\ m \in issued
            /\ UNCHANGED <<instance, procs, reply_window, max_ack, crashed, issued, execs>>
        BY <3>3 DEF DispatchPlain
      <4>. HIDE DEF t
      <4>5. execs' \in [Instances \X Nonces \X Xids -> Nat]
        BY <1>0, <4>4
      <4>. QED
        BY <4>3, <4>4, <4>5, ShapeKept
    <3>4. CASE DispatchTracked(k, m)
      <4>. DEFINE c == m.clt_nonce
                  w == reply_window[c]
                  ack == UpdatedAck(max_ack[c], m)
                  v == CheckedWindow(w, ack, m.xid)
                  t == AfterCheck(DupState(w, ack, m.xid), m, w)
      <4>1. /\ c \in Nonces /\ c > 0 /\ w \in Seq(ReplyTs) /\ Ascending(w)
            /\ ack \in Nat
        BY <1>0, <3>0, <3>4, RequestsTyped, UpdatedAckTyped
           DEF DispatchTracked, Shape, WindowTrimmed
      <4>2. /\ v \in Seq(ReplyTs) /\ Ascending(v)
            /\ \A i \in 1..Len(v) : v[i].xid_ > ack
            /\ \/ t = Reading
               \/ \E pc \in {"new", "replay", "forgotten"}, rep \in Replies :
                     t = Task(pc, m, rep)
        BY <3>0, <4>1, CheckTyped
      <4>3. /\ reply_window' = [reply_window EXCEPT ![c] = v]
            /\ max_ack' = [max_ack EXCEPT ![c] = ack]
            /\ Goto(k, t)
            /\ UNCHANGED <<instance, procs, crashed, issued, execs>>
        BY <3>4 DEF DispatchTracked
      <4>. HIDE DEF ack, w, v, t
      <4>4. {"new", "replay", "forgotten"} \subseteq Pcs
        BY DEF Pcs
      <4>5. /\ t \in TaskRecords
            /\ t.pc \notin {"closed", "reading", "dead"} => t.req = m
        BY <2>0, <3>0, <4>2, <4>4
      <4>6. /\ task' \in [Conns -> TaskRecords]
            /\ task'[k] = t
            /\ \A j \in Conns : j # k => task'[j] = task[j]
        BY <4>3, <4>5, GotoTyped DEF Shape
      <4>7. /\ reply_window' \in [Nonces -> Seq(ReplyTs)]
            /\ max_ack' \in [Nonces -> Nat]
        BY <1>0, <4>1, <4>2, <4>3
      <4>8. TypeOK'
        BY <1>0, <4>3, <4>6, <4>7 DEF TypeOK, TaskRecords
      <4>9. WindowTrimmed'
        <5>. SUFFICES ASSUME NEW d \in Nonces
                      PROVE  /\ Ascending(reply_window'[d])
                             /\ \A i \in 1..Len(reply_window'[d]) :
                                   reply_window'[d][i].xid_ > max_ack'[d]
          BY DEF WindowTrimmed, Ascending
        <5>1. CASE d = c
          BY <1>0, <4>1, <4>2, <4>3, <5>1
        <5>2. CASE d # c
          <6>1. reply_window'[d] = reply_window[d] /\ max_ack'[d] = max_ack[d]
            BY <1>0, <4>3, <5>2
          <6>. QED
            BY <6>1 DEF Shape, WindowTrimmed
        <5>. QED
          BY <5>1, <5>2
      <4>10. TasksIssued'
        <5>1. m \in issued' /\ issued' = issued
          BY <4>3
        <5>2. t.pc \in {"handled", "replay", "forgotten"} => t.req.clt_nonce > 0
          BY <4>1, <4>5
        <5>. QED
          BY <4>5, <4>6, <5>1, <5>2 DEF Shape, TasksIssued
      <4>. QED
        BY <4>8, <4>9, <4>10 DEF Shape
    <3>. QED
      BY <2>3, <3>1, <3>2, <3>3, <3>4 DEF Dispatch
  <2>4. ASSUME NEW e \in HandlerErrs, Handle(k, e) PROVE Shape'
    <3>. DEFINE m == task[k].req
                next == IF m.clt_nonce > 0 THEN "handled" ELSE "reply"
    <3>1. task[k].pc = "new" /\ m \in issued /\ m \in Requests
      BY <1>0, <2>4 DEF Handle, Shape, TasksIssued
    <3>2. Result(m) \in Nat
      <4>1. Nonce \in Nat
        BY <1>0, SrvNoncesAssumption DEF Nonce
      <4>. QED
        BY <4>1 DEF Result
    <3>3. Reply(m.xid, e, Result(m)) \in Replies
      BY <3>1, <3>2, RequestsTyped DEF Reply, Replies, Errs
    <3>4. execs' \in [Instances \X Nonces \X Xids -> Nat]
      <4>1. Key(m) \in Instances \X Nonces \X Xids
        BY <1>0, <3>1, RequestsTyped DEF Key
      <4>2. execs' = execs \/ execs' = [execs EXCEPT ![Key(m)] = @ + 1]
        BY <2>4 DEF Handle
      <4>. HIDE DEF m
      <4>. QED
        BY <1>0, <4>1, <4>2
    <3>5. /\ Goto(k, Task(next, m, Reply(m.xid, e, Result(m))))
          /\ UNCHANGED <<instance, procs, reply_window, max_ack, crashed, issued>>
      BY <2>4 DEF Handle
    <3>6. next \in Pcs /\ (next \in {"handled", "replay", "forgotten"} => m.clt_nonce > 0)
      BY DEF Pcs
    <3>. HIDE DEF m, next
    <3>. QED
      BY <2>0, <3>1, <3>3, <3>4, <3>5, <3>6, ShapeKept
  <2>5. CASE AddReply(k)
    <3>. DEFINE m == task[k].req
                c == m.clt_nonce
                w == reply_window[c]
                rep == task[k].rep
                n == [xid_ |-> m.xid, cb_present |-> TRUE, buf_ |-> rep]
                v == AddedReply(w, m.xid, rep)
    <3>1. m \in issued /\ m \in Requests /\ rep \in Replies
      BY <1>0, <2>5 DEF AddReply, Shape, TasksIssued, TaskRecords
    <3>2. /\ c \in Nonces /\ w \in Seq(ReplyTs) /\ Ascending(w)
          /\ m.xid \in Nat /\ n \in ReplyTs
      BY <1>0, <3>1, RequestsTyped, EntriesTyped DEF Shape, WindowTrimmed
    <3>3. CASE ~Holds(w, m.xid)
      <4>1. crashed' = TRUE /\ UNCHANGED <<instance, procs, reply_window, max_ack, task, issued, execs>>
        BY <2>5, <3>3 DEF AddReply
      <4>. QED
        BY <4>1 DEF Shape, TypeOK, WindowTrimmed, TasksIssued
    <3>4. CASE Holds(w, m.xid)
      <4>1. /\ reply_window' = [reply_window EXCEPT ![c] = v]
            /\ Goto(k, Task("reply", m, rep))
            /\ UNCHANGED <<instance, procs, max_ack, crashed, issued, execs>>
        BY <2>5, <3>4 DEF AddReply
      <4>2. \A e \in ReplyTs : e.xid_ \in Nat
        BY EntriesTyped
      <4>3. /\ v \in Seq(ReplyTs) /\ Len(v) = Len(w) /\ Ascending(v)
            /\ \A i \in 1..Len(w) : v[i].xid_ = w[i].xid_
        <5>. HIDE DEF w, c
        <5>1. /\ AddedReply(w, m.xid, rep) \in Seq(ReplyTs)
              /\ Len(AddedReply(w, m.xid, rep)) = Len(w)
              /\ \A i \in 1..Len(w) : AddedReply(w, m.xid, rep)[i].xid_ = w[i].xid_
              /\ Ascending(w) => Ascending(AddedReply(w, m.xid, rep))
          <6>. HIDE DEF m, rep
          <6>. QED
            BY <3>2, <3>4, <4>2, AddedReplyKeeps DEF n
        <5>. QED
          BY <3>2, <5>1
      <4>. HIDE DEF m, w, v, rep, n
      <4>4. Task("reply", m, rep) \in TaskRecords /\ Task("reply", m, rep).pc = "reply"
            /\ Task("reply", m, rep).req = m
        BY <2>0, <3>1 DEF Pcs
      <4>5. /\ task' \in [Conns -> TaskRecords]
            /\ task'[k] = Task("reply", m, rep)
            /\ \A j \in Conns : j # k => task'[j] = task[j]
        BY <4>1, <4>4, GotoTyped DEF Shape
      <4>6. reply_window' \in [Nonces -> Seq(ReplyTs)]
        BY <1>0, <3>2, <4>1, <4>3
      <4>7. TypeOK'
        BY <1>0, <4>1, <4>5, <4>6 DEF TypeOK, TaskRecords
      <4>8. WindowTrimmed'
        <5>. SUFFICES ASSUME NEW d \in Nonces
                      PROVE  /\ Ascending(reply_window'[d])
                             /\ \A i \in 1..Len(reply_window'[d]) :
                                   reply_window'[d][i].xid_ > max_ack'[d]
          BY DEF WindowTrimmed, Ascending
        <5>1. CASE d = c
          <6>1. reply_window'[d] = v /\ max_ack'[d] = max_ack[d]
            BY <1>0, <4>1, <5>1
          <6>2. \A i \in 1..Len(w) : w[i].xid_ > max_ack[d]
            BY <5>1 DEF Shape, WindowTrimmed, w
          <6>. QED
            BY <4>3, <6>1, <6>2
        <5>2. CASE d # c
          <6>1. reply_window'[d] = reply_window[d] /\ max_ack'[d] = max_ack[d]
            BY <1>0, <4>1, <5>2
          <6>. QED
            BY <6>1 DEF Shape, WindowTrimmed
        <5>. QED
          BY <5>1, <5>2
      <4>9. TasksIssued'
        BY <3>1, <4>1, <4>4, <4>5 DEF Shape, TasksIssued
      <4>. QED
        BY <4>7, <4>8, <4>9 DEF Shape
    <3>. QED
      BY <3>3, <3>4
  <2>6. ASSUME NEW ok \in BOOLEAN, SendReply(k, ok) PROVE Shape'
    BY <1>0, <2>0, <2>6, ShapeKept DEF SendReply
  <2>7. CASE SendOld(k)
    BY <1>0, <2>0, <2>7, ShapeKept DEF SendOld
  <2>8. CASE SendDangling(k)
    BY <2>8 DEF SendDangling, Shape, TypeOK, WindowTrimmed, TasksIssued
  <2>. QED
    BY <1>4, <2>1, <2>2, <2>3, <2>4, <2>5, <2>6, <2>7, <2>8 DEF Connection
<1>5. CASE UNCHANGED vars
  BY <1>5 DEF vars, Shape, TypeOK, WindowTrimmed, TasksIssued
<1>. QED
  BY <1>1, <1>2, <1>3, <1>4, <1>5 DEF Next

\* Spec keeps every variable in its type: no message, however late or often it
\* arrives, leaves the server with a malformed window or task.
THEOREM TypeCorrect == Spec => []TypeOK
<1>1. Shape => TypeOK
  BY DEF Shape
<1>. QED
  BY <1>1, ShapeInit, ShapeNext, PTL DEF Spec

\* The server forgets replies in order: after every trim the window of every
\* client is sorted and holds only what the client has not acknowledged.
THEOREM WindowStaysTrimmed == Spec => []WindowTrimmed
<1>1. Shape => WindowTrimmed
  BY DEF Shape
<1>. QED
  BY <1>1, ShapeInit, ShapeNext, PTL DEF Spec

-----------------------------------------------------------------------------
(* Memory: why a request runs at most once. *)

\* The server can tell that it has seen x from this client.
Covered(c, x) == x <= max_ack[c] \/ Holds(reply_window[c], x)

\* A handler of a tracked client is about to run.
Due(k) == task[k].pc = "new" /\ task[k].req.clt_nonce > 0

RanIsCovered ==
    \A c \in Nonces, x \in Xids :
        c > 0 /\ execs[<<instance, c, x>>] > 0 => Covered(c, x)

DueIsFresh ==
    \A k \in Conns : Due(k) => /\ execs[Key(task[k].req)] = 0
                              /\ Covered(task[k].req.clt_nonce, task[k].req.xid)

DueIsAlone ==
    \A j, k \in Conns :
        Due(j) /\ Due(k) /\ Key(task[j].req) = Key(task[k].req) => j = k

HandledRan ==
    \A k \in Conns : task[k].pc = "handled" =>
        /\ execs[Key(task[k].req)] = 1
        /\ task[k].rep.xid = task[k].req.xid /\ task[k].rep.result > 0

LaterUnused ==
    \A i \in Instances, c \in Nonces, x \in Xids : i > instance => execs[<<i, c, x>>] = 0

Memory ==
    /\ RanIsCovered /\ DueIsFresh /\ DueIsAlone /\ HandledRan /\ LaterUnused
    /\ AtMostOnce /\ ReplayedRepliesAreResults

\* Steps that change nothing Memory speaks of.
LEMMA MemoryUntouched ==
    Memory /\ UNCHANGED <<instance, reply_window, max_ack, task, execs>> => Memory'
  BY DEF Memory, RanIsCovered, DueIsFresh, DueIsAlone, HandledRan, LaterUnused,
         AtMostOnce, ReplayedRepliesAreResults, Covered, Due, Key

\* Steps that only move one handler chain, to a state with no claim on the
\* window.
LEMMA MemoryKept ==
    ASSUME Shape, Memory, NEW k \in Conns, NEW t \in TaskRecords, Goto(k, t),
           t.pc \notin {"handled", "replay"},
           t.pc = "new" => ~ (t.req.clt_nonce > 0),
           UNCHANGED <<instance, reply_window, max_ack, execs>>
    PROVE  Memory'
<1>1. /\ task'[k] = t
      /\ \A j \in Conns : j # k => task'[j] = task[j]
  BY GotoTyped DEF Shape
<1>2. \A j \in Conns : Due(j)' => j # k /\ Due(j)
  BY <1>1 DEF Due
<1>3. RanIsCovered' /\ LaterUnused' /\ AtMostOnce'
  BY DEF Memory, RanIsCovered, LaterUnused, AtMostOnce, Covered
<1>4. DueIsFresh'
  BY <1>1, <1>2 DEF Memory, DueIsFresh, Covered, Key
<1>5. DueIsAlone'
  BY <1>1, <1>2 DEF Memory, DueIsAlone, Key
<1>6. HandledRan'
  BY <1>1 DEF Memory, HandledRan, Key
<1>7. ReplayedRepliesAreResults'
  BY <1>1 DEF Memory, ReplayedRepliesAreResults, Key
<1>. QED
  BY <1>3, <1>4, <1>5, <1>6, <1>7 DEF Memory

\* Init satisfies Memory.
LEMMA MemoryInit == Init => Memory
<1>. SUFFICES ASSUME Init PROVE Memory
  OBVIOUS
<1>1. \A k \in Conns : task[k].pc = "closed"
  BY DEF Init, Closed, Task
<1>2. \A key \in Instances \X Nonces \X Xids : execs[key] = 0
  BY DEF Init
<1>3. \A c \in Nonces : Len(reply_window[c]) = 0
  BY EmptySeq DEF Init
<1>4. 1 \in Instances /\ instance = 1
  BY InstancesAssumption DEF Init, Instances
<1>5. RanIsCovered
  <2>1. \A c \in Nonces, x \in Xids : execs[<<instance, c, x>>] = 0
    BY <1>2, <1>4
  <2>. QED
    BY <2>1 DEF RanIsCovered
<1>6. LaterUnused /\ AtMostOnce
  BY <1>2 DEF LaterUnused, AtMostOnce
<1>7. DueIsFresh /\ DueIsAlone /\ HandledRan
  BY <1>1 DEF DueIsFresh, DueIsAlone, HandledRan, Due
<1>8. ReplayedRepliesAreResults
  BY <1>1, <1>3 DEF ReplayedRepliesAreResults
<1>. QED
  BY <1>5, <1>6, <1>7, <1>8 DEF Memory

\* A new process starts with nothing run and nothing remembered.
LEMMA MemoryRestart ==
    ASSUME Shape, Memory, Restart
    PROVE  Memory'
<1>1. \A k \in Conns : task'[k].pc = "closed"
  BY DEF Restart, Closed, Task
<1>2. /\ instance \in Instances /\ instance' = instance + 1 /\ instance' \in Instances
      /\ instance \in Nat /\ \A i \in Instances : i \in Nat
      /\ execs' = execs
  BY InstancesAssumption DEF Shape, TypeOK, Restart, Instances
<1>3. \A c \in Nonces : Len(reply_window'[c]) = 0
  BY EmptySeq DEF Restart
<1>4. \A c \in Nonces, x \in Xids : execs'[<<instance', c, x>>] = 0
  BY <1>2 DEF Memory, LaterUnused
<1>5. RanIsCovered'
  BY <1>4 DEF RanIsCovered
<1>6. LaterUnused' /\ AtMostOnce'
  BY <1>2 DEF Memory, LaterUnused, AtMostOnce
<1>7. DueIsFresh' /\ DueIsAlone' /\ HandledRan'
  BY <1>1 DEF DueIsFresh, DueIsAlone, HandledRan, Due
<1>8. ReplayedRepliesAreResults'
  BY <1>1, <1>3 DEF ReplayedRepliesAreResults
<1>. QED
  BY <1>5, <1>6, <1>7, <1>8 DEF Memory

\* The check claims a request for one handler chain only, and forgets nothing
\* that is not acknowledged.
LEMMA MemoryTracked ==
    ASSUME Shape, Memory, NEW k \in Conns, NEW m \in issued, DispatchTracked(k, m)
    PROVE  Memory'
<1>. DEFINE c == m.clt_nonce
            x == m.xid
            w == reply_window[c]
            ack == UpdatedAck(max_ack[c], m)
            v == CheckedWindow(w, ack, x)
            state == DupState(w, ack, x)
            t == AfterCheck(state, m, w)
<1>0. /\ instance \in Instances
      /\ reply_window \in [Nonces -> Seq(ReplyTs)] /\ max_ack \in [Nonces -> Nat]
      /\ task \in [Conns -> TaskRecords] /\ issued \in SUBSET Requests
      /\ execs \in [Instances \X Nonces \X Xids -> Nat]
  BY DEF Shape, TypeOK, TaskRecords
<1>1. /\ m \in Requests /\ c \in Nonces /\ c > 0 /\ x \in Xids /\ x \in Nat
      /\ w \in Seq(ReplyTs) /\ Ascending(w)
      /\ ack \in Nat /\ ack >= max_ack[c] /\ max_ack[c] \in Nat
      /\ ReplyT(x) \in ReplyTs /\ \A e \in ReplyTs : e.xid_ \in Nat
  BY <1>0, RequestsTyped, EntriesTyped, UpdatedAckTyped
     DEF DispatchTracked, Shape, WindowTrimmed
<1>2. /\ reply_window' = [reply_window EXCEPT ![c] = v]
      /\ max_ack' = [max_ack EXCEPT ![c] = ack]
      /\ task' = [task EXCEPT ![k] = t]
      /\ instance' = instance /\ execs' = execs
  BY DEF DispatchTracked, Goto
<1>3. /\ task'[k] = t /\ \A j \in Conns : j # k => task'[j] = task[j]
      /\ reply_window'[c] = v /\ max_ack'[c] = ack
      /\ \A d \in Nonces : d # c => reply_window'[d] = reply_window[d] /\ max_ack'[d] = max_ack[d]
  BY <1>0, <1>1, <1>2
<1>4. /\ \A i \in 1..Len(v) : v[i] = ReplyT(x) \/ \E j \in 1..Len(w) : v[i] = w[j]
      /\ \A y \in Nat : Holds(w, y) => y <= ack \/ Holds(v, y)
      /\ state = "NEW" => Holds(v, x)
  <2>. HIDE DEF c, x, w, ack
  <2>. QED
    BY <1>1, CheckedWindowKeeps
<1>5. \/ state = "FORGOTTEN" /\ x <= ack
      \/ state = "NEW" /\ x > ack /\ ~Holds(w, x)
      \/ state = "INPROGRESS" /\ x > ack /\ Holds(w, x)
      \/ /\ state = "DONE" /\ x > ack
         /\ \E i \in 1..Len(w) : /\ w[i].xid_ = x /\ w[i].cb_present
                                 /\ Remembered(w, x) = w[i].buf_
  <2>. HIDE DEF c, x, w, ack
  <2>. QED
    BY <1>1, DupStateMeans
<1>6. /\ t.pc \in {"new", "replay", "forgotten", "reading"}
      /\ t.pc = "new" => state = "NEW" /\ t.req = m
      /\ t.pc = "replay" => state = "DONE" /\ t.req = m /\ t.rep = Remembered(w, x)
  <2>. HIDE DEF state, w, x
  <2>. QED
    BY <1>5 DEF AfterCheck, Task, Reading, x
<1>. HIDE DEF v, state, t, ack
<1>7. \A d \in Nonces, y \in Xids : Covered(d, y) => Covered(d, y)'
  <2>. SUFFICES ASSUME NEW d \in Nonces, NEW y \in Xids, Covered(d, y)
                PROVE  Covered(d, y)'
    OBVIOUS
  <2>1. y \in Nat
    BY EntriesTyped
  <2>2. CASE d = c
    BY <1>1, <1>3, <1>4, <2>1, <2>2 DEF Covered
  <2>3. CASE d # c
    BY <1>3, <2>3 DEF Covered
  <2>. QED
    BY <2>2, <2>3
<1>8. RanIsCovered'
  BY <1>2, <1>7 DEF Memory, RanIsCovered
<1>9. state = "NEW" => ~Covered(c, x)
  BY <1>1, <1>5 DEF Covered
<1>10. state = "NEW" => execs[<<instance, c, x>>] = 0
  BY <1>0, <1>1, <1>9 DEF Memory, RanIsCovered
<1>11. \A j \in Conns : j # k /\ Due(j)' => Due(j) /\ task'[j].req = task[j].req
  BY <1>3 DEF Due
<1>12. \A j \in Conns : Due(j) => /\ task[j].req.clt_nonce \in Nonces
                                 /\ task[j].req.xid \in Xids
  BY <1>0, RequestsTyped DEF Shape, TasksIssued, Due
<1>13. DueIsFresh'
  <2>. SUFFICES ASSUME NEW j \in Conns, Due(j)'
                PROVE  /\ execs[<<instance, task'[j].req.clt_nonce, task'[j].req.xid>>] = 0
                       /\ Covered(task[j].req.clt_nonce, task[j].req.xid)'
    BY <1>2 DEF DueIsFresh, Key
  <2>1. CASE j = k
    <3>1. state = "NEW" /\ task'[j].req = m
      BY <1>3, <1>6, <2>1 DEF Due
    <3>2. Covered(c, x)'
      BY <1>3, <1>4, <3>1 DEF Covered
    <3>. QED
      BY <1>10, <3>1, <3>2 DEF Covered
  <2>2. CASE j # k
    <3>1. /\ Due(j) /\ task'[j].req = task[j].req
          /\ task[j].req.clt_nonce \in Nonces /\ task[j].req.xid \in Xids
      BY <1>11, <1>12, <2>2
    <3>2. /\ execs[<<instance, task[j].req.clt_nonce, task[j].req.xid>>] = 0
          /\ Covered(task[j].req.clt_nonce, task[j].req.xid)
      BY <3>1 DEF Memory, DueIsFresh, Key
    <3>. DEFINE d == task[j].req.clt_nonce
                y == task[j].req.xid
    <3>3. y <= max_ack'[d] \/ Holds(reply_window'[d], y)
      BY <1>7, <3>1, <3>2 DEF Covered
    <3>. QED
      BY <3>1, <3>2, <3>3 DEF Covered
  <2>. QED
    BY <2>1, <2>2
<1>14. DueIsAlone'
  <2>. SUFFICES ASSUME NEW i \in Conns, NEW j \in Conns, Due(i)', Due(j)', i # j,
                       task'[i].req.clt_nonce = task'[j].req.clt_nonce,
                       task'[i].req.xid = task'[j].req.xid
                PROVE  FALSE
    BY DEF DueIsAlone, Key
  <2>1. CASE i # k /\ j # k
    BY <1>11, <2>1 DEF Memory, DueIsAlone, Key
  <2>2. ASSUME NEW l \in Conns, l # k, Due(l)', Due(k)',
               task'[l].req.clt_nonce = task'[k].req.clt_nonce,
               task'[l].req.xid = task'[k].req.xid
        PROVE  FALSE
    <3>1. state = "NEW" /\ task'[k].req = m
      BY <1>3, <1>6, <2>2 DEF Due
    <3>2. Due(l) /\ task[l].req.clt_nonce = c /\ task[l].req.xid = x
      BY <1>11, <2>2, <3>1
    <3>3. Covered(c, x)
      BY <3>2 DEF Memory, DueIsFresh
    <3>. QED
      BY <1>9, <3>1, <3>3
  <2>. QED
    BY <2>1, <2>2
<1>15. HandledRan'
  <2>. SUFFICES ASSUME NEW j \in Conns, task'[j].pc = "handled"
                PROVE  /\ execs[<<instance, task'[j].req.clt_nonce, task'[j].req.xid>>] = 1
                       /\ task'[j].rep.xid = task'[j].req.xid /\ task'[j].rep.result > 0
    BY <1>2 DEF HandledRan, Key
  <2>1. j # k
    BY <1>3, <1>6
  <2>. QED
    BY <1>3, <2>1 DEF Memory, HandledRan, Key
<1>16. LaterUnused' /\ AtMostOnce'
  BY <1>2 DEF Memory, LaterUnused, AtMostOnce
<1>17. \A i \in 1..Len(w) : w[i].cb_present =>
          /\ execs[<<instance, c, w[i].xid_>>] = 1
          /\ w[i].buf_.xid = w[i].xid_ /\ w[i].buf_.result > 0
  BY <1>1 DEF Memory, ReplayedRepliesAreResults
<1>18. ReplayedRepliesAreResults'
  <2>1. ASSUME NEW d \in Nonces, NEW i \in 1..Len(reply_window'[d]),
               reply_window'[d][i].cb_present
        PROVE  /\ execs[<<instance, d, reply_window'[d][i].xid_>>] = 1
               /\ reply_window'[d][i].buf_.xid = reply_window'[d][i].xid_
               /\ reply_window'[d][i].buf_.result > 0
    <3>1. CASE d = c
      <4>1. v[i] # ReplyT(x) /\ i \in 1..Len(v)
        BY <1>3, <2>1, <3>1 DEF ReplyT
      <4>2. PICK j \in 1..Len(w) : v[i] = w[j]
        BY <1>4, <4>1
      <4>. QED
        BY <1>3, <1>17, <2>1, <3>1, <4>2
    <3>2. CASE d # c
      BY <1>3, <2>1, <3>2 DEF Memory, ReplayedRepliesAreResults
    <3>. QED
      BY <3>1, <3>2
  <2>2. ASSUME NEW j \in Conns, task'[j].pc = "replay"
        PROVE  /\ execs[<<instance, task'[j].req.clt_nonce, task'[j].req.xid>>] = 1
               /\ task'[j].rep.xid = task'[j].req.xid /\ task'[j].rep.result > 0
    <3>1. CASE j = k
      <4>1. state = "DONE" /\ task'[j].req = m /\ task'[j].rep = Remembered(w, x)
        BY <1>3, <1>6, <2>2, <3>1
      <4>2. PICK i \in 1..Len(w) : /\ w[i].xid_ = x /\ w[i].cb_present
                                  /\ Remembered(w, x) = w[i].buf_
        BY <1>5, <4>1
      <4>. QED
        BY <1>17, <4>1, <4>2
    <3>2. CASE j # k
      BY <1>3, <2>2, <3>2 DEF Memory, ReplayedRepliesAreResults, Key
    <3>. QED
      BY <3>1, <3>2
  <2>. QED
    BY <1>2, <2>1, <2>2 DEF ReplayedRepliesAreResults, Key
<1>. QED
  BY <1>8, <1>13, <1>14, <1>15, <1>16, <1>18 DEF Memory

\* The registered method runs for a request that has not run before, whose
\* claim goes with it.
LEMMA MemoryHandle ==
    ASSUME Shape, Memory, NEW k \in Conns, NEW e \in HandlerErrs, Handle(k, e)
    PROVE  Memory'
<1>. DEFINE m == task[k].req
            c == m.clt_nonce
            x == m.xid
            rep == Reply(x, e, Result(m))
            next == IF c > 0 THEN "handled" ELSE "reply"
            t == Task(next, m, rep)
<1>0. /\ instance \in Instances
      /\ task \in [Conns -> TaskRecords] /\ issued \in SUBSET Requests
      /\ execs \in [Instances \X Nonces \X Xids -> Nat]
  BY DEF Shape, TypeOK, TaskRecords
<1>1. /\ task[k].pc = "new" /\ m \in issued /\ m \in Requests
      /\ c \in Nonces /\ c \in Nat /\ x \in Xids
  BY <1>0, RequestsTyped DEF Handle, Shape, TasksIssued
<1>2. /\ Goto(k, t) /\ instance' = instance
      /\ UNCHANGED <<reply_window, max_ack>>
      /\ execs' = IF c > 0 THEN [execs EXCEPT ![<<instance, c, x>>] = @ + 1] ELSE execs
  BY DEF Handle, Key
<1>3. rep \in Replies /\ rep.xid = x /\ rep.result > 0
  <2>1. Nonce \in Nat \ {0}
    BY <1>0, SrvNoncesAssumption DEF Nonce
  <2>2. Result(m) \in Nat /\ Result(m) > 0
    BY <2>1 DEF Result
  <2>. QED
    BY <1>1, <2>2 DEF Reply, Replies, Errs
<1>4. t \in TaskRecords /\ t.pc = next /\ t.req = m /\ t.rep = rep
  BY <1>1, <1>3, TasksTyped DEF Task, Pcs, TaskRecords
<1>5. /\ task'[k] = t
      /\ \A j \in Conns : j # k => task'[j] = task[j]
  BY <1>2, <1>4, GotoTyped DEF Shape
<1>. HIDE DEF m, rep, t
<1>6. CASE ~ (c > 0)
  BY <1>2, <1>4, <1>6, MemoryKept
<1>7. CASE c > 0
  <2>1. execs[<<instance, c, x>>] = 0 /\ Covered(c, x)
    BY <1>1, <1>7 DEF Memory, DueIsFresh, Due, Key, m
  <2>2. /\ execs'[<<instance, c, x>>] = 1
        /\ \A i \in Instances, d \in Nonces, y \in Xids :
              <<i, d, y>> # <<instance, c, x>> => execs'[<<i, d, y>>] = execs[<<i, d, y>>]
    BY <1>0, <1>1, <1>2, <1>7, <2>1
  <2>3. t.pc = "handled"
    BY <1>4, <1>7
  <2>4. RanIsCovered'
    BY <1>0, <1>1, <1>2, <2>1, <2>2 DEF Memory, RanIsCovered, Covered
  <2>5. \A j \in Conns : Due(j)' => j # k /\ Due(j) /\ task'[j].req = task[j].req
    BY <1>5, <2>3 DEF Due
  <2>6. \A j \in Conns : task[j].pc \notin {"closed", "reading", "dead"} =>
            task[j].req.clt_nonce \in Nonces /\ task[j].req.xid \in Xids
    BY <1>0, RequestsTyped DEF Shape, TasksIssued
  <2>7. Due(k)
    BY <1>1, <1>7 DEF Due, m
  <2>8. DueIsFresh'
    <3>. SUFFICES ASSUME NEW j \in Conns, Due(j)'
                  PROVE  (execs[Key(task[j].req)] = 0 /\ Covered(task[j].req.clt_nonce, task[j].req.xid))'
      BY DEF DueIsFresh
    <3>1. j # k /\ Due(j) /\ task'[j].req = task[j].req
      BY <2>5
    <3>2. Key(task[j].req) # <<instance, c, x>>
      BY <2>7, <3>1 DEF Memory, DueIsAlone, Key, m
    <3>3. task[j].req.clt_nonce \in Nonces /\ task[j].req.xid \in Xids
      BY <2>6, <3>1 DEF Due
    <3>. QED
      BY <1>0, <1>2, <2>2, <3>1, <3>2, <3>3 DEF Memory, DueIsFresh, Covered, Key
  <2>9. DueIsAlone'
    BY <1>2, <2>5 DEF Memory, DueIsAlone, Key
  <2>10. HandledRan'
    <3>. SUFFICES ASSUME NEW j \in Conns, task'[j].pc = "handled"
                  PROVE  (/\ execs[Key(task[j].req)] = 1
                          /\ task[j].rep.xid = task[j].req.xid /\ task[j].rep.result > 0)'
      BY DEF HandledRan
    <3>1. CASE j = k
      BY <1>2, <1>3, <1>4, <1>5, <2>2, <3>1 DEF Key
    <3>2. CASE j # k
      <4>1. task'[j] = task[j] /\ task[j].pc = "handled"
        BY <1>5, <3>2
      <4>2. /\ execs[Key(task[j].req)] = 1
            /\ task[j].rep.xid = task[j].req.xid /\ task[j].rep.result > 0
        BY <4>1 DEF Memory, HandledRan
      <4>3. task[j].req.clt_nonce \in Nonces /\ task[j].req.xid \in Xids
        BY <2>6, <4>1
      <4>. QED
        BY <1>0, <1>2, <2>1, <2>2, <4>1, <4>2, <4>3 DEF Key
    <3>. QED
      BY <3>1, <3>2
  <2>11. LaterUnused'
    <3>1. \A i \in Instances : i \in Nat
      BY DEF Instances
    <3>. QED
      BY <1>0, <1>2, <2>2, <3>1 DEF Memory, LaterUnused
  <2>12. AtMostOnce'
    BY <1>0, <1>1, <2>2 DEF Memory, AtMostOnce
  <2>13. ReplayedRepliesAreResults'
    <3>1. ASSUME NEW d \in Nonces, NEW i \in 1..Len(reply_window[d]),
                 reply_window[d][i].cb_present
          PROVE  /\ execs'[<<instance, d, reply_window[d][i].xid_>>] = 1
                 /\ reply_window[d][i].buf_.xid = reply_window[d][i].xid_
                 /\ reply_window[d][i].buf_.result > 0
      <4>1. /\ execs[<<instance, d, reply_window[d][i].xid_>>] = 1
            /\ reply_window[d][i].buf_.xid = reply_window[d][i].xid_
            /\ reply_window[d][i].buf_.result > 0
        BY <3>1 DEF Memory, ReplayedRepliesAreResults
      <4>2. reply_window[d][i].xid_ \in Xids
        <5>1. reply_window[d] \in Seq(ReplyTs)
          BY DEF Shape, TypeOK
        <5>2. reply_window[d][i] \in ReplyTs
          BY <5>1, LenProperties
        <5>. QED
          BY <5>2, EntriesTyped
      <4>. QED
        BY <1>0, <2>1, <2>2, <4>1, <4>2
    <3>2. ASSUME NEW j \in Conns, task'[j].pc = "replay"
          PROVE  /\ execs'[<<instance, task'[j].req.clt_nonce, task'[j].req.xid>>] = 1
                 /\ task'[j].rep.xid = task'[j].req.xid /\ task'[j].rep.result > 0
      <4>1. task'[j] = task[j] /\ task[j].pc = "replay"
        BY <1>5, <2>3, <3>2
      <4>2. /\ execs[<<instance, task[j].req.clt_nonce, task[j].req.xid>>] = 1
            /\ task[j].rep.xid = task[j].req.xid /\ task[j].rep.result > 0
        BY <4>1 DEF Memory, ReplayedRepliesAreResults, Key
      <4>3. task[j].req.clt_nonce \in Nonces /\ task[j].req.xid \in Xids
        BY <2>6, <4>1
      <4>. QED
        BY <1>0, <2>1, <2>2, <4>1, <4>2, <4>3
    <3>3. reply_window' = reply_window /\ instance' = instance
      BY <1>2
    <3>4. \A d \in Nonces : \A i \in 1..Len(reply_window'[d]) :
            reply_window'[d][i].cb_present =>
              /\ execs'[<<instance', d, reply_window'[d][i].xid_>>] = 1
              /\ reply_window'[d][i].buf_.xid = reply_window'[d][i].xid_
              /\ reply_window'[d][i].buf_.result > 0
      BY <3>1, <3>3, Zenon
    <3>5. \A j \in Conns : task'[j].pc = "replay" =>
            /\ execs'[Key(task[j].req)'] = 1
            /\ task'[j].rep.xid = task'[j].req.xid /\ task'[j].rep.result > 0
      BY <3>2, <3>3 DEF Key
    <3>. QED
      BY <3>4, <3>5 DEF ReplayedRepliesAreResults
  <2>. QED
    BY <2>4, <2>8, <2>9, <2>10, <2>11, <2>12, <2>13 DEF Memory
<1>. QED
  BY <1>6, <1>7

\* Recording the reply keeps every entry, and only the one whose handler is
\* over gets a reply.
LEMMA MemoryAddReply ==
    ASSUME Shape, Memory, NEW k \in Conns, AddReply(k)
    PROVE  Memory'
<1>. DEFINE m == task[k].req
            c == m.clt_nonce
            x == m.xid
            rep == task[k].rep
            w == reply_window[c]
            n == [xid_ |-> x, cb_present |-> TRUE, buf_ |-> rep]
            v == AddedReply(w, x, rep)
            t == Task("reply", m, rep)
<1>0. /\ instance \in Instances
      /\ reply_window \in [Nonces -> Seq(ReplyTs)]
      /\ task \in [Conns -> TaskRecords] /\ issued \in SUBSET Requests
  BY DEF Shape, TypeOK, TaskRecords
<1>1. /\ task[k].pc = "handled" /\ m \in Requests /\ rep \in Replies
      /\ c \in Nonces /\ x \in Xids /\ x \in Nat /\ w \in Seq(ReplyTs)
      /\ n \in ReplyTs /\ \A y \in ReplyTs : y.xid_ \in Nat
  BY <1>0, RequestsTyped, EntriesTyped DEF AddReply, Shape, TasksIssued, TaskRecords
<1>2. CASE ~Holds(w, x)
  <2>1. UNCHANGED <<instance, reply_window, max_ack, task, execs>>
    BY <1>2 DEF AddReply
  <2>. QED
    BY <2>1, MemoryUntouched
<1>3. CASE Holds(w, x)
  <2>1. /\ reply_window' = [reply_window EXCEPT ![c] = v]
        /\ Goto(k, t)
        /\ UNCHANGED <<instance, max_ack, execs>>
    BY <1>3 DEF AddReply
  <2>2. /\ Len(v) = Len(w)
        /\ \A i \in 1..Len(w) : /\ v[i].xid_ = w[i].xid_
                                /\ v[i] = w[i] \/ (w[i].xid_ = x /\ v[i] = n)
        /\ \A y \in Nat : Holds(w, y) => Holds(v, y)
    <3>1. /\ Len(AddedReply(w, x, rep)) = Len(w)
          /\ \A i \in 1..Len(w) :
                /\ AddedReply(w, x, rep)[i].xid_ = w[i].xid_
                /\ \/ AddedReply(w, x, rep)[i] = w[i]
                   \/ /\ w[i].xid_ = x
                      /\ AddedReply(w, x, rep)[i] =
                            [xid_ |-> x, cb_present |-> TRUE, buf_ |-> rep]
          /\ \A y \in Nat : Holds(w, y) => Holds(AddedReply(w, x, rep), y)
      <4>1. /\ w \in Seq(ReplyTs) /\ \A y \in ReplyTs : y.xid_ \in Nat
            /\ x \in Nat /\ Holds(w, x)
            /\ [xid_ |-> x, cb_present |-> TRUE, buf_ |-> rep] \in ReplyTs
        BY <1>1, <1>3
      <4>. HIDE DEF m, w, rep, x, c
      <4>. QED
        BY <4>1, AddedReplyKeeps
    <3>. QED
      BY <3>1
  <2>3. t \in TaskRecords /\ t.pc = "reply"
    BY <1>1, TasksTyped DEF Task, Pcs, TaskRecords
  <2>4. /\ task'[k] = t
        /\ \A j \in Conns : j # k => task'[j] = task[j]
    BY <2>1, <2>3, GotoTyped DEF Shape
  <2>5. /\ execs[<<instance, c, x>>] = 1 /\ rep.xid = x /\ rep.result > 0
    BY <1>1 DEF Memory, HandledRan, Key
  <2>. HIDE DEF v, t, n
  <2>6. /\ reply_window'[c] = v
        /\ \A d \in Nonces : d # c => reply_window'[d] = reply_window[d]
    BY <1>0, <1>1, <2>1
  <2>7. \A d \in Nonces, y \in Xids : Covered(d, y) => Covered(d, y)'
    <3>1. \A y \in Xids : y \in Nat
      BY EntriesTyped
    <3>. QED
      BY <2>1, <2>2, <2>6, <3>1 DEF Covered
  <2>8. RanIsCovered' /\ LaterUnused' /\ AtMostOnce'
    BY <2>1, <2>7 DEF Memory, RanIsCovered, LaterUnused, AtMostOnce
  <2>9. \A j \in Conns : Due(j)' => j # k /\ Due(j) /\ task'[j].req = task[j].req
    BY <2>3, <2>4 DEF Due
  <2>10. DueIsFresh'
    <3>. SUFFICES ASSUME NEW j \in Conns, Due(j)'
                  PROVE  (execs[Key(task[j].req)] = 0 /\ Covered(task[j].req.clt_nonce, task[j].req.xid))'
      BY DEF DueIsFresh
    <3>. DEFINE d == task[j].req.clt_nonce
                y == task[j].req.xid
    <3>1. Due(j) /\ task'[j].req = task[j].req /\ d \in Nonces /\ y \in Xids
      BY <1>0, <2>9, RequestsTyped DEF Due, Shape, TasksIssued
    <3>2. execs[<<instance, d, y>>] = 0 /\ Covered(d, y)
      BY <3>1 DEF Memory, DueIsFresh, Key
    <3>3. y <= max_ack'[d] \/ Holds(reply_window'[d], y)
      BY <2>7, <3>1, <3>2 DEF Covered
    <3>. QED
      BY <2>1, <3>1, <3>2, <3>3 DEF Covered, Key
  <2>11. DueIsAlone'
    BY <2>1, <2>9 DEF Memory, DueIsAlone, Key
  <2>12. HandledRan'
    BY <2>1, <2>3, <2>4 DEF Memory, HandledRan, Key
  <2>13. ReplayedRepliesAreResults'
    <3>1. ASSUME NEW d \in Nonces, NEW i \in 1..Len(reply_window'[d]),
                 reply_window'[d][i].cb_present
          PROVE  /\ execs[<<instance, d, reply_window'[d][i].xid_>>] = 1
                 /\ reply_window'[d][i].buf_.xid = reply_window'[d][i].xid_
                 /\ reply_window'[d][i].buf_.result > 0
      <4>1. CASE d = c
        <5>1. i \in 1..Len(w) /\ reply_window'[d][i] = v[i]
          BY <2>2, <2>6, <4>1
        <5>2. CASE v[i] = w[i]
          <6>1. w[i].cb_present => /\ execs[<<instance, c, w[i].xid_>>] = 1
                                   /\ w[i].buf_.xid = w[i].xid_ /\ w[i].buf_.result > 0
            BY <1>1, <5>1 DEF Memory, ReplayedRepliesAreResults
          <6>. QED
            BY <3>1, <4>1, <5>1, <5>2, <6>1
        <5>3. CASE w[i].xid_ = x /\ v[i] = n
          BY <2>5, <4>1, <5>1, <5>3 DEF n
        <5>. QED
          BY <2>2, <5>1, <5>2, <5>3
      <4>2. CASE d # c
        BY <2>6, <3>1, <4>2 DEF Memory, ReplayedRepliesAreResults
      <4>. QED
        BY <4>1, <4>2
    <3>2. ASSUME NEW j \in Conns, task'[j].pc = "replay"
          PROVE  /\ execs[<<instance, task'[j].req.clt_nonce, task'[j].req.xid>>] = 1
                 /\ task'[j].rep.xid = task'[j].req.xid /\ task'[j].rep.result > 0
      BY <2>3, <2>4, <3>2 DEF Memory, ReplayedRepliesAreResults, Key
    <3>. QED
      BY <2>1, <3>1, <3>2 DEF ReplayedRepliesAreResults, Key
  <2>. QED
    BY <2>8, <2>10, <2>11, <2>12, <2>13 DEF Memory
<1>. QED
  BY <1>2, <1>3

\* Every action preserves Memory.
LEMMA MemoryNext == Shape /\ Memory /\ [Next]_vars => Memory'
<1>. SUFFICES ASSUME Shape, Memory, [Next]_vars PROVE Memory'
  OBVIOUS
<1>0. issued \in SUBSET Requests
  BY DEF Shape, TypeOK
<1>1. ASSUME NEW p \in Procs, Register(p) PROVE Memory'
  BY <1>1, MemoryUntouched DEF Register
<1>2. ASSUME NEW m \in Requests, Issue(m) PROVE Memory'
  BY <1>2, MemoryUntouched DEF Issue
<1>3. CASE Restart
  BY <1>3, MemoryRestart
<1>4. ASSUME NEW k \in Conns, Connection(k) PROVE Memory'
  <2>0. /\ Reading \in TaskRecords /\ Reading.pc = "reading"
        /\ Dead \in TaskRecords /\ Dead.pc = "dead"
        /\ NoReply \in Replies
        /\ \A pc \in Pcs, m \in Requests, rep \in Replies :
              /\ Task(pc, m, rep) \in TaskRecords
              /\ Task(pc, m, rep).pc = pc /\ Task(pc, m, rep).req = m
    BY TasksTyped DEF TaskRecords, Reading, Dead, Task, NoReply, Reply, Replies, Errs
  <2>1. CASE OnNewConnection(k)
    BY <2>0, <2>1, MemoryKept DEF OnNewConnection
  <2>2. CASE ReceiveFails(k)
    BY <2>0, <2>2, MemoryKept DEF ReceiveFails
  <2>3. ASSUME NEW m \in issued, Dispatch(k, m) PROVE Memory'
    <3>1. CASE DispatchOldServer(k, m)
      <4>. DEFINE t == Task("reply", m, Reply(m.xid, "OLDSERVER_FAILURE", 0))
      <4>1. Reply(m.xid, "OLDSERVER_FAILURE", 0) \in Replies
        BY <1>0, RequestsTyped DEF Reply, Replies, Errs
      <4>2. t \in TaskRecords /\ t.pc = "reply"
        BY <1>0, <2>0, <4>1 DEF Pcs
      <4>3. Goto(k, t) /\ UNCHANGED <<instance, reply_window, max_ack, execs>>
        BY <3>1 DEF DispatchOldServer
      <4>. HIDE DEF t
      <4>. QED
        BY <4>2, <4>3, MemoryKept
    <3>2. CASE DispatchUnknownProc(k, m)
      BY <3>2, MemoryUntouched DEF DispatchUnknownProc
    <3>3. CASE DispatchPlain(k, m)
      <4>. DEFINE t == Task("new", m, NoReply)
      <4>1. t \in TaskRecords /\ t.req = m
        BY <1>0, <2>0 DEF Pcs
      <4>2. /\ Goto(k, t) /\ UNCHANGED <<instance, reply_window, max_ack, execs>>
            /\ ~ (m.clt_nonce > 0) /\ t.pc = "new"
        BY <3>3 DEF DispatchPlain, Task
      <4>. HIDE DEF t
      <4>. QED
        BY <4>1, <4>2, MemoryKept
    <3>4. CASE DispatchTracked(k, m)
      BY <3>4, MemoryTracked
    <3>. QED
      BY <2>3, <3>1, <3>2, <3>3, <3>4 DEF Dispatch
  <2>4. ASSUME NEW e \in HandlerErrs, Handle(k, e) PROVE Memory'
    BY <2>4, MemoryHandle
  <2>5. CASE AddReply(k)
    BY <2>5, MemoryAddReply
  <2>6. ASSUME NEW ok \in BOOLEAN, SendReply(k, ok) PROVE Memory'
    BY <2>0, <2>6, MemoryKept DEF SendReply
  <2>7. CASE SendOld(k)
    BY <2>0, <2>7, MemoryKept DEF SendOld
  <2>8. CASE SendDangling(k)
    BY <2>8, MemoryUntouched DEF SendDangling
  <2>. QED
    BY <1>4, <2>1, <2>2, <2>3, <2>4, <2>5, <2>6, <2>7, <2>8 DEF Connection
<1>5. CASE UNCHANGED vars
  BY <1>5, MemoryUntouched DEF vars
<1>. QED
  BY <1>1, <1>2, <1>3, <1>4, <1>5 DEF Next

\* At most once: whatever is delivered, resent or reordered, on any number of
\* connections, one server process runs a request of a tracked client once.
THEOREM RunsAtMostOnce == Spec => []AtMostOnce
<1>1. Init => Shape /\ Memory
  BY ShapeInit, MemoryInit
<1>2. (Shape /\ Memory) /\ [Next]_vars => (Shape /\ Memory)'
  BY ShapeNext, MemoryNext
<1>3. Shape /\ Memory => AtMostOnce
  BY DEF Memory
<1>. QED
  BY <1>1, <1>2, <1>3, PTL DEF Spec

\* A duplicate is answered with the reply of the run that is over, never with
\* one of a handler that has not finished.
THEOREM ReplaysAreResults == Spec => []ReplayedRepliesAreResults
<1>1. Init => Shape /\ Memory
  BY ShapeInit, MemoryInit
<1>2. (Shape /\ Memory) /\ [Next]_vars => (Shape /\ Memory)'
  BY ShapeNext, MemoryNext
<1>3. Shape /\ Memory => ReplayedRepliesAreResults
  BY DEF Memory
<1>. QED
  BY <1>1, <1>2, <1>3, PTL DEF Spec

-----------------------------------------------------------------------------
(* Bound: why a server process runs nothing meant for another nonce. *)

IssuedOnce ==
    \A m, n \in issued :
        m.clt_nonce > 0 /\ m.clt_nonce = n.clt_nonce /\ m.xid = n.xid => m = n

IssuedBound == \A m \in issued : m.proc # BIND => m.srv_nonce # 0

DueIsBound == \A k \in Conns : Due(k) => task[k].req.srv_nonce \in {0, Nonce}

RanIsIssued ==
    \A i \in Instances, c \in Nonces, x \in Xids :
        c > 0 /\ execs[<<i, c, x>>] > 0 => \E m \in issued : m.clt_nonce = c /\ m.xid = x

RanIsBound ==
    \A m \in issued, i \in Instances :
        m.clt_nonce > 0 /\ m.proc # BIND /\ execs[<<i, m.clt_nonce, m.xid>>] > 0
        => m.srv_nonce = SrvNonces[i]

Bound == IssuedOnce /\ IssuedBound /\ DueIsBound /\ RanIsIssued /\ RanIsBound

\* Init satisfies Bound.
LEMMA BoundInit == Init => Bound
<1>. SUFFICES ASSUME Init PROVE Bound
  OBVIOUS
<1>1. \A k \in Conns : ~Due(k)
  BY DEF Init, Closed, Task, Due
<1>2. issued = {} /\ \A i \in Instances, c \in Nonces, x \in Xids : execs[<<i, c, x>>] = 0
  BY DEF Init
<1>. QED
  BY <1>1, <1>2 DEF Bound, IssuedOnce, IssuedBound, DueIsBound, RanIsIssued, RanIsBound

\* Steps that run no handler and issue nothing, and after which every handler
\* about to run was so before or carries this process's nonce.
LEMMA BoundKept ==
    ASSUME Bound, UNCHANGED <<issued, execs>>,
           \A k \in Conns : Due(k)' =>
               \/ instance' = instance /\ Due(k) /\ task'[k].req = task[k].req
               \/ task'[k].req.srv_nonce \in {0, Nonce'}
    PROVE  Bound'
<1>1. DueIsBound'
  BY DEF Bound, DueIsBound, Nonce
<1>. QED
  BY <1>1 DEF Bound, IssuedOnce, IssuedBound, RanIsIssued, RanIsBound

\* A client issues one request per xid, and binds before it calls.
LEMMA BoundIssue ==
    ASSUME Shape, Bound, NEW m \in Requests, Issue(m)
    PROVE  Bound'
<1>1. /\ issued' = issued \cup {m} /\ execs' = execs /\ task' = task
      /\ instance' = instance
      /\ m.clt_nonce > 0 =>
            ~ \E n \in issued : n.clt_nonce = m.clt_nonce /\ n.xid = m.xid
      /\ \/ m.proc = BIND /\ m.srv_nonce = 0
         \/ m.srv_nonce \in {SrvNonces[i] : i \in 1..instance}
  BY DEF Issue
<1>2. issued \in SUBSET Requests /\ instance \in Instances
  BY DEF Shape, TypeOK
<1>3. m.clt_nonce \in Nonces /\ m.xid \in Xids
  BY RequestsTyped
<1>4. IssuedOnce'
  BY <1>1 DEF Bound, IssuedOnce
<1>5. IssuedBound'
  <2>1. \A i \in 1..instance : i \in Instances
    BY <1>2, InstancesAssumption DEF Instances
  <2>2. \A i \in Instances : SrvNonces[i] # 0
    BY SrvNoncesAssumption
  <2>3. m.proc # BIND => m.srv_nonce # 0
    BY <1>1, <2>1, <2>2
  <2>. QED
    BY <1>1, <2>3 DEF Bound, IssuedBound
<1>6. DueIsBound'
  BY <1>1 DEF Bound, DueIsBound, Due, Nonce
<1>7. RanIsIssued'
  BY <1>1 DEF Bound, RanIsIssued
<1>8. RanIsBound'
  BY <1>1, <1>3 DEF Bound, RanIsBound, RanIsIssued
<1>. QED
  BY <1>4, <1>5, <1>6, <1>7, <1>8 DEF Bound

\* A handler runs a request that was issued, and one that is not BIND only if
\* its client bound to this process.
LEMMA BoundHandle ==
    ASSUME Shape, Bound, NEW k \in Conns, NEW e \in HandlerErrs, Handle(k, e)
    PROVE  Bound'
<1>. DEFINE m == task[k].req
            c == m.clt_nonce
            x == m.xid
<1>0. /\ instance \in Instances /\ issued \in SUBSET Requests
      /\ task \in [Conns -> TaskRecords]
      /\ execs \in [Instances \X Nonces \X Xids -> Nat]
  BY DEF Shape, TypeOK, TaskRecords
<1>1. task[k].pc = "new" /\ m \in issued /\ c \in Nonces /\ x \in Xids
  BY <1>0, RequestsTyped DEF Handle, Shape, TasksIssued
<1>2. /\ instance' = instance /\ issued' = issued
      /\ execs' = IF c > 0 THEN [execs EXCEPT ![<<instance, c, x>>] = @ + 1] ELSE execs
  BY DEF Handle, Key
<1>3. \A j \in Conns : Due(j)' => Due(j) /\ task'[j].req = task[j].req
  <2>. DEFINE next == IF c > 0 THEN "handled" ELSE "reply"
  <2>1. task' = [task EXCEPT ![k] = Task(next, m, Reply(x, e, Result(m)))]
    BY DEF Handle, Goto
  <2>2. task'[k].pc # "new" /\ \A j \in Conns : j # k => task'[j] = task[j]
    BY <1>0, <2>1 DEF Task
  <2>. QED
    BY <2>2 DEF Due
<1>4. CASE ~ (c > 0)
  BY <1>2, <1>3, <1>4, BoundKept
<1>5. CASE c > 0
  <2>1. Due(k)
    BY <1>1, <1>5 DEF Due
  <2>2. m.proc # BIND => m.srv_nonce = SrvNonces[instance]
    BY <1>1, <2>1 DEF Bound, DueIsBound, IssuedBound, Nonce
  <2>. HIDE DEF m
  <2>3. \A i \in Instances, d \in Nonces, y \in Xids :
           <<i, d, y>> # <<instance, c, x>> => execs'[<<i, d, y>>] = execs[<<i, d, y>>]
    BY <1>0, <1>1, <1>2, <1>5
  <2>4. IssuedOnce' /\ IssuedBound'
    BY <1>2 DEF Bound, IssuedOnce, IssuedBound
  <2>5. DueIsBound'
    BY <1>2, <1>3 DEF Bound, DueIsBound, Nonce
  <2>6. RanIsIssued'
    BY <1>1, <1>2, <2>3 DEF Bound, RanIsIssued
  <2>7. RanIsBound'
    <3>. SUFFICES ASSUME NEW n \in issued, NEW i \in Instances,
                         n.clt_nonce > 0, n.proc # BIND,
                         execs'[<<i, n.clt_nonce, n.xid>>] > 0
                  PROVE  n.srv_nonce = SrvNonces[i]
      BY <1>2 DEF RanIsBound
    <3>1. n.clt_nonce \in Nonces /\ n.xid \in Xids
      BY <1>0, RequestsTyped
    <3>2. CASE <<i, n.clt_nonce, n.xid>> = <<instance, c, x>>
      <4>1. n = m /\ i = instance
        BY <1>1, <3>2 DEF Bound, IssuedOnce
      <4>. QED
        BY <2>2, <4>1
    <3>3. CASE <<i, n.clt_nonce, n.xid>> # <<instance, c, x>>
      BY <2>3, <3>1, <3>3 DEF Bound, RanIsBound
    <3>. QED
      BY <3>2, <3>3
  <2>. QED
    BY <2>4, <2>5, <2>6, <2>7 DEF Bound
<1>. QED
  BY <1>4, <1>5

\* Every action preserves Bound.
LEMMA BoundNext == Shape /\ Bound /\ [Next]_vars => Bound'
<1>. SUFFICES ASSUME Shape, Bound, [Next]_vars PROVE Bound'
  OBVIOUS
<1>0. task \in [Conns -> TaskRecords]
  BY DEF Shape, TypeOK, TaskRecords
<1>1. ASSUME NEW p \in Procs, Register(p) PROVE Bound'
  BY <1>1, BoundKept DEF Register, Due
<1>2. ASSUME NEW m \in Requests, Issue(m) PROVE Bound'
  BY <1>2, BoundIssue
<1>3. CASE Restart
  <2>1. \A k \in Conns : ~Due(k)'
    BY <1>3 DEF Restart, Due, Closed, Task
  <2>. QED
    BY <1>3, <2>1, BoundKept DEF Restart
<1>4. ASSUME NEW k \in Conns, Connection(k) PROVE Bound'
  <2>0. ASSUME NEW t, Goto(k, t), t.pc # "new",
               UNCHANGED <<instance, issued, execs>>
        PROVE  Bound'
    <3>1. \A j \in Conns : Due(j)' => Due(j) /\ task'[j].req = task[j].req
      BY <1>0, <2>0 DEF Due, Goto
    <3>. QED
      BY <2>0, <3>1, BoundKept
  <2>. DEFINE Answer(m) == Task("reply", m, Reply(m.xid, "OLDSERVER_FAILURE", 0))
  <2>9. Reading.pc # "new" /\ Dead.pc # "new" /\ \A m \in issued : Answer(m).pc # "new"
    BY DEF Reading, Dead, Task
  <2>1. CASE OnNewConnection(k)
    <3>1. Goto(k, Reading) /\ UNCHANGED <<instance, issued, execs>>
      BY <2>1 DEF OnNewConnection
    <3>. QED
      BY <2>0, <2>9, <3>1
  <2>2. CASE ReceiveFails(k)
    <3>1. Goto(k, Dead) /\ UNCHANGED <<instance, issued, execs>>
      BY <2>2 DEF ReceiveFails
    <3>. QED
      BY <2>0, <2>9, <3>1
  <2>3. ASSUME NEW m \in issued, Dispatch(k, m) PROVE Bound'
    <3>1. CASE DispatchOldServer(k, m)
      <4>1. Goto(k, Answer(m)) /\ UNCHANGED <<instance, issued, execs>>
        BY <3>1 DEF DispatchOldServer
      <4>. HIDE DEF Answer
      <4>. QED
        BY <2>0, <2>9, <4>1
    <3>2. CASE DispatchUnknownProc(k, m)
      BY <3>2, BoundKept DEF DispatchUnknownProc, Due
    <3>3. ASSUME NEW t, task' = [task EXCEPT ![k] = t], t.pc = "new" => t.req = m,
                 ~OldServer(m), UNCHANGED <<instance, issued, execs>>
          PROVE  Bound'
      <4>1. m.srv_nonce \in {0, Nonce}
        BY <3>3 DEF OldServer
      <4>2. \A j \in Conns : j # k /\ Due(j)' => Due(j) /\ task'[j].req = task[j].req
        BY <1>0, <3>3 DEF Due
      <4>3. Due(k)' => task'[k].req = m
        BY <1>0, <3>3 DEF Due
      <4>. QED
        BY <3>3, <4>1, <4>2, <4>3, BoundKept DEF Nonce
    <3>4. CASE DispatchPlain(k, m)
      BY <3>3, <3>4 DEF DispatchPlain, Goto, Task
    <3>5. CASE DispatchTracked(k, m)
      <4>. DEFINE w == reply_window[m.clt_nonce]
                  ack == UpdatedAck(max_ack[m.clt_nonce], m)
                  t == AfterCheck(DupState(w, ack, m.xid), m, w)
      <4>1. /\ task' = [task EXCEPT ![k] = t] /\ ~OldServer(m)
            /\ UNCHANGED <<instance, issued, execs>>
        BY <3>5 DEF DispatchTracked, Goto
      <4>2. DupState(w, ack, m.xid) \in {"NEW", "INPROGRESS", "DONE", "FORGOTTEN"}
        <5>1. m \in Requests /\ m.clt_nonce \in Nonces /\ m.xid \in Nat
          BY RequestsTyped DEF Shape, TypeOK
        <5>2. /\ w \in Seq(ReplyTs) /\ Ascending(w) /\ ack \in Nat
              /\ \A e \in ReplyTs : e.xid_ \in Nat
          BY <5>1, EntriesTyped, UpdatedAckTyped DEF Shape, TypeOK, WindowTrimmed
        <5>. HIDE DEF w, ack
        <5>. QED
          BY <5>1, <5>2, DupStateMeans
      <4>3. t.pc = "new" => t.req = m
        BY <4>2 DEF AfterCheck, Task, Reading
      <4>. HIDE DEF t
      <4>. QED
        BY <3>3, <4>1, <4>3
    <3>. QED
      BY <2>3, <3>1, <3>2, <3>4, <3>5 DEF Dispatch
  <2>4. ASSUME NEW e \in HandlerErrs, Handle(k, e) PROVE Bound'
    BY <2>4, BoundHandle
  <2>5. CASE AddReply(k)
    <3>1. CASE task' = task /\ UNCHANGED <<instance, issued, execs>>
      BY <3>1, BoundKept DEF Due
    <3>. QED
      BY <2>0, <2>5, <3>1 DEF AddReply, Goto, Task
  <2>6. ASSUME NEW ok \in BOOLEAN, SendReply(k, ok) PROVE Bound'
    <3>. DEFINE t == IF ok THEN Reading ELSE Dead
    <3>1. Goto(k, t) /\ UNCHANGED <<instance, issued, execs>>
      BY <2>6 DEF SendReply
    <3>2. t.pc # "new"
      BY <2>9
    <3>. HIDE DEF t
    <3>. QED
      BY <2>0, <3>1, <3>2
  <2>7. CASE SendOld(k)
    <3>1. Goto(k, Reading) /\ UNCHANGED <<instance, issued, execs>>
      BY <2>7 DEF SendOld
    <3>. QED
      BY <2>0, <2>9, <3>1
  <2>8. CASE SendDangling(k)
    BY <2>8, BoundKept DEF SendDangling, Due
  <2>. QED
    BY <1>4, <2>1, <2>2, <2>3, <2>4, <2>5, <2>6, <2>7, <2>8 DEF Connection
<1>5. CASE UNCHANGED vars
  BY <1>5, BoundKept DEF vars, Due
<1>. QED
  BY <1>1, <1>2, <1>3, <1>4, <1>5 DEF Next

\* A call other than BIND runs only in processes of the nonce its client bound
\* to, whatever nonces the processes have (the old-instance test of Dispatch).
THEOREM CallsRunUnderOneNonce == Spec => []RunsUnderOneNonce
<1>1. Init => Shape /\ Bound
  BY ShapeInit, BoundInit
<1>2. (Shape /\ Bound) /\ [Next]_vars => (Shape /\ Bound)'
  BY ShapeNext, BoundNext
<1>3. Shape /\ Bound => RunsUnderOneNonce
  <2>. SUFFICES ASSUME Bound, NEW m \in issued, m.clt_nonce > 0, m.proc # BIND,
                       NEW i \in Instances, NEW j \in Instances,
                       execs[<<i, m.clt_nonce, m.xid>>] > 0,
                       execs[<<j, m.clt_nonce, m.xid>>] > 0
                PROVE  SrvNonces[i] = SrvNonces[j]
    BY DEF RunsUnderOneNonce
  <2>1. m.srv_nonce = SrvNonces[i] /\ m.srv_nonce = SrvNonces[j]
    BY DEF Bound, RanIsBound
  <2>. QED
    BY <2>1
<1>. QED
  BY <1>1, <1>2, <1>3, PTL DEF Spec

-----------------------------------------------------------------------------
(* What the server answers: the result of a run, the nonce of a server     *)
(* process for BIND, or one of the two refusals, which carry no result.    *)

\* n is the number of server processes so far, ran counts handler runs.
HonestIn(rep, m, n, ran) ==
    /\ rep.xid = m.xid
    /\ \/ /\ rep.err \in HandlerErrs
          /\ m.proc = BIND => rep.err = "OK"
          /\ m.proc = BIND => \E i \in 1..n : rep.result = SrvNonces[i]
          /\ m.proc # BIND => rep.result = 1
          /\ m.clt_nonce > 0 => \E i \in Instances : ran[<<i, m.clt_nonce, m.xid>>] > 0
       \/ /\ rep.err \in {"OLDSERVER_FAILURE", "ATMOST_ONCE_FAILURE"}
          /\ rep.result = 0
Honest(rep, m) == HonestIn(rep, m, instance, execs)

TasksHonest ==
    \A k \in Conns : task[k].pc \in {"handled", "reply", "replay", "forgotten"} =>
        Honest(task[k].rep, task[k].req)
WindowHonest ==
    \A c \in Nonces : \A j \in 1..Len(reply_window[c]) :
        reply_window[c][j].cb_present =>
            \E m \in issued : /\ m.clt_nonce = c /\ m.xid = reply_window[c][j].xid_
                              /\ Honest(reply_window[c][j].buf_, m)
HonestReplies == TasksHonest /\ WindowHonest

\* Runs are not taken back and server processes do not return.
Grows == /\ instance \in Nat /\ instance' \in Nat /\ instance <= instance'
         /\ \A key \in Instances \X Nonces \X Xids :
               execs[key] \in Nat /\ execs'[key] \in Nat /\ execs[key] <= execs'[key]

\* So an honest reply stays honest.
LEMMA HonestStays ==
    ASSUME Grows, NEW rep, NEW m \in Requests, Honest(rep, m)
    PROVE  HonestIn(rep, m, instance', execs')
<1>1. m.clt_nonce \in Nonces /\ m.xid \in Xids
  BY RequestsTyped
<1>2. \A i \in 1..instance : i \in 1..instance'
  BY DEF Grows
<1>3. \A i \in Instances : execs[<<i, m.clt_nonce, m.xid>>] > 0 =>
          execs'[<<i, m.clt_nonce, m.xid>>] > 0
  BY <1>1 DEF Grows
<1>4. rep.xid = m.xid
  BY DEF Honest, HonestIn
<1>5. CASE rep.err \in {"OLDSERVER_FAILURE", "ATMOST_ONCE_FAILURE"} /\ rep.result = 0
  BY <1>4, <1>5 DEF HonestIn
<1>6. CASE /\ rep.err \in HandlerErrs
           /\ m.proc = BIND => rep.err = "OK"
           /\ m.proc = BIND => \E i \in 1..instance : rep.result = SrvNonces[i]
           /\ m.proc # BIND => rep.result = 1
           /\ m.clt_nonce > 0 => \E i \in Instances : execs[<<i, m.clt_nonce, m.xid>>] > 0
  BY <1>2, <1>3, <1>4, <1>6 DEF HonestIn
<1>. QED
  BY <1>5, <1>6 DEF Honest, HonestIn

LEMMA HonestInit == Init => HonestReplies
<1>. SUFFICES ASSUME Init PROVE HonestReplies
  OBVIOUS
<1>1. TasksHonest
  BY DEF Init, TasksHonest, Closed, Task
<1>2. WindowHonest
  BY DEF Init, WindowHonest
<1>. QED
  BY <1>1, <1>2 DEF HonestReplies

\* A handler chain goes on, to an honest reply if it has one.
LEMMA TasksStayHonest ==
    ASSUME Shape, TasksHonest, Grows, NEW k \in Conns, NEW t, task' = [task EXCEPT ![k] = t],
           t.pc \in {"handled", "reply", "replay", "forgotten"} =>
               HonestIn(t.rep, t.req, instance', execs')
    PROVE  TasksHonest'
<1>. SUFFICES ASSUME NEW j \in Conns,
                     task'[j].pc \in {"handled", "reply", "replay", "forgotten"}
              PROVE  HonestIn(task'[j].rep, task'[j].req, instance', execs')
  BY DEF TasksHonest, Honest
<1>1. task'[j] = IF j = k THEN t ELSE task[j]
  BY DEF Shape, TypeOK
<1>2. CASE j = k
  BY <1>1, <1>2
<1>3. CASE j # k
  <2>1. PICK r, m : r = task[j].rep /\ m = task[j].req
    OBVIOUS
  <2>2. Honest(r, m)
    BY <1>1, <1>3, <2>1 DEF TasksHonest
  <2>3. m \in Requests
    BY <1>1, <1>3, <2>1 DEF Shape, TypeOK, TasksIssued
  <2>. QED
    BY <1>1, <1>3, <2>1, <2>2, <2>3, HonestStays
<1>. QED
  BY <1>2, <1>3

\* A window of which every answered entry was there, or is honest.
LEMMA WindowsStayHonest ==
    ASSUME Shape, WindowHonest, Grows, issued \subseteq issued', NEW c \in Nonces,
           \A d \in Nonces : d # c => reply_window'[d] = reply_window[d],
           \A i \in 1..Len(reply_window'[c]) : reply_window'[c][i].cb_present =>
               \/ \E j \in 1..Len(reply_window[c]) : reply_window'[c][i] = reply_window[c][j]
               \/ \E m \in issued : /\ m.clt_nonce = c /\ m.xid = reply_window'[c][i].xid_
                                    /\ HonestIn(reply_window'[c][i].buf_, m, instance', execs')
    PROVE  WindowHonest'
<1>. SUFFICES ASSUME NEW d \in Nonces, NEW i \in 1..Len(reply_window'[d]),
                     reply_window'[d][i].cb_present
              PROVE  \E m \in issued' :
                        /\ m.clt_nonce = d /\ m.xid = reply_window'[d][i].xid_
                        /\ HonestIn(reply_window'[d][i].buf_, m, instance', execs')
  BY DEF WindowHonest, Honest
<1>0. issued \subseteq Requests
  BY DEF Shape, TypeOK
<1>1. ASSUME NEW j \in 1..Len(reply_window[d]), reply_window'[d][i] = reply_window[d][j]
      PROVE  \E m \in issued' :
                /\ m.clt_nonce = d /\ m.xid = reply_window'[d][i].xid_
                /\ HonestIn(reply_window'[d][i].buf_, m, instance', execs')
  <2>1. PICK r : r = reply_window[d][j].buf_
    OBVIOUS
  <2>2. PICK m \in issued : m.clt_nonce = d /\ m.xid = reply_window[d][j].xid_ /\ Honest(r, m)
    BY <1>1, <2>1 DEF WindowHonest
  <2>3. HonestIn(r, m, instance', execs')
    BY <1>0, <2>2, HonestStays
  <2>. QED
    BY <1>1, <2>1, <2>2, <2>3
<1>. QED
  BY <1>1

\* Every action keeps what the server says honest.
LEMMA HonestNext == Shape /\ Bound /\ HonestReplies /\ [Next]_vars => HonestReplies'
<1>. SUFFICES ASSUME Shape, Bound, HonestReplies, [Next]_vars PROVE HonestReplies'
  OBVIOUS
<1>0. /\ instance \in Instances /\ instance \in Nat /\ issued \subseteq Requests
      /\ task \in [Conns -> TaskRecords]
      /\ reply_window \in [Nonces -> Seq(ReplyTs)] /\ max_ack \in [Nonces -> Nat]
      /\ execs \in [Instances \X Nonces \X Xids -> Nat]
  BY InstancesAssumption DEF Shape, TypeOK, TaskRecords, Instances
<1>1. UNCHANGED <<instance, execs>> => Grows
  BY <1>0 DEF Grows
<1>2. ASSUME UNCHANGED <<instance, execs, task, reply_window>>, issued \subseteq issued'
      PROVE  HonestReplies'
  <2>1. TasksHonest'
    BY <1>2 DEF HonestReplies, TasksHonest, Honest
  <2>2. WindowHonest'
    BY <1>2 DEF HonestReplies, WindowHonest, Honest
  <2>. QED
    BY <2>1, <2>2 DEF HonestReplies
<1>3. ASSUME NEW k \in Conns, NEW t, Goto(k, t), UNCHANGED <<instance, execs, reply_window, issued>>,
             t.pc \in {"handled", "reply", "replay", "forgotten"} => Honest(t.rep, t.req)
      PROVE  HonestReplies'
  <2>1. TasksHonest'
    BY <1>1, <1>3, TasksStayHonest DEF HonestReplies, Honest, Goto
  <2>2. WindowHonest'
    BY <1>3 DEF HonestReplies, WindowHonest, Honest
  <2>. QED
    BY <2>1, <2>2 DEF HonestReplies
<1>4. ASSUME NEW p \in Procs, Register(p) PROVE HonestReplies'
  BY <1>2, <1>4 DEF Register
<1>5. ASSUME NEW m \in Requests, Issue(m) PROVE HonestReplies'
  BY <1>2, <1>5 DEF Issue
<1>6. CASE Restart
  <2>1. TasksHonest'
    BY <1>6 DEF Restart, TasksHonest, Closed, Task
  <2>2. WindowHonest'
    BY <1>6 DEF Restart, WindowHonest
  <2>. QED
    BY <2>1, <2>2 DEF HonestReplies
<1>7. ASSUME NEW k \in Conns, Connection(k) PROVE HonestReplies'
  <2>0. Reading.pc = "reading" /\ Dead.pc = "dead"
    BY DEF Reading, Dead, Task
  <2>1. CASE OnNewConnection(k)
    <3>1. Goto(k, Reading) /\ UNCHANGED <<instance, execs, reply_window, issued>>
      BY <2>1 DEF OnNewConnection
    <3>. QED
      BY <1>3, <2>0, <3>1
  <2>2. CASE ReceiveFails(k)
    <3>1. Goto(k, Dead) /\ UNCHANGED <<instance, execs, reply_window, issued>>
      BY <2>2 DEF ReceiveFails
    <3>. QED
      BY <1>3, <2>0, <3>1
  <2>3. ASSUME NEW m \in issued, Dispatch(k, m) PROVE HonestReplies'
    <3>0. m \in Requests
      BY <1>0
    <3>1. CASE DispatchOldServer(k, m)
      <4>. DEFINE r == Reply(m.xid, "OLDSERVER_FAILURE", 0)
      <4>1. Goto(k, Task("reply", m, r)) /\ UNCHANGED <<instance, execs, reply_window, issued>>
        BY <3>1 DEF DispatchOldServer
      <4>2. Task("reply", m, r).rep = r /\ Task("reply", m, r).req = m
        BY DEF Task
      <4>3. Honest(r, m)
        BY DEF Honest, HonestIn, Reply
      <4>. HIDE DEF r
      <4>. QED
        BY <1>3, <4>1, <4>2, <4>3
    <3>2. CASE DispatchUnknownProc(k, m)
      BY <1>2, <3>2 DEF DispatchUnknownProc
    <3>3. CASE DispatchPlain(k, m)
      <4>1. Goto(k, Task("new", m, NoReply)) /\ UNCHANGED <<instance, execs, reply_window, issued>>
        BY <3>3 DEF DispatchPlain
      <4>2. Task("new", m, NoReply).pc = "new"
        BY DEF Task
      <4>. QED
        BY <1>3, <4>1, <4>2
    <3>4. CASE DispatchTracked(k, m)
      <4>. DEFINE c == m.clt_nonce
                  w == reply_window[c]
                  ack == UpdatedAck(max_ack[c], m)
                  v == CheckedWindow(w, ack, m.xid)
                  t == AfterCheck(DupState(w, ack, m.xid), m, w)
      <4>1. /\ c \in Nonces /\ c > 0 /\ w \in Seq(ReplyTs) /\ Ascending(w) /\ ack \in Nat
            /\ m.xid \in Nat /\ ReplyT(m.xid) \in ReplyTs /\ \A e \in ReplyTs : e.xid_ \in Nat
        BY <1>0, <3>0, <3>4, RequestsTyped, UpdatedAckTyped, EntriesTyped
           DEF DispatchTracked, Shape, WindowTrimmed
      <4>2. /\ reply_window' = [reply_window EXCEPT ![c] = v]
            /\ task' = [task EXCEPT ![k] = t]
            /\ UNCHANGED <<instance, issued, execs>>
        BY <3>4 DEF DispatchTracked, Goto
      <4>3. WindowHonest'
        <5>1. \A i \in 1..Len(v) : v[i] = ReplyT(m.xid) \/ \E j \in 1..Len(w) : v[i] = w[j]
          <6>. HIDE DEF w, ack
          <6>. QED
            BY <4>1, CheckedWindowKeeps
        <5>2. \A d \in Nonces : reply_window'[d] = IF d = c THEN v ELSE reply_window[d]
          BY <1>0, <4>2
        <5>3. ~ReplyT(m.xid).cb_present
          BY DEF ReplyT
        <5>. HIDE DEF v
        <5>. QED
          BY <1>1, <4>1, <4>2, <5>1, <5>2, <5>3, WindowsStayHonest DEF HonestReplies
      <4>4. t.pc \in {"handled", "reply", "replay", "forgotten"} => Honest(t.rep, t.req)
        <5>1. DupState(w, ack, m.xid) \in {"FORGOTTEN", "NEW", "INPROGRESS", "DONE"}
          <6>. HIDE DEF w, ack
          <6>. QED
            BY <4>1, DupStateMeans
        <5>2. CASE DupState(w, ack, m.xid) = "NEW" \/ DupState(w, ack, m.xid) = "INPROGRESS"
          BY <2>0, <5>2 DEF AfterCheck, Task
        <5>3. CASE DupState(w, ack, m.xid) = "FORGOTTEN"
          <6>1. t = Task("forgotten", m, Reply(m.xid, "ATMOST_ONCE_FAILURE", 0))
            BY <5>3 DEF AfterCheck
          <6>. QED
            BY <6>1 DEF Task, Reply, Honest, HonestIn
        <5>4. CASE DupState(w, ack, m.xid) = "DONE"
          <6>1. PICK i \in 1..Len(w) : /\ w[i].xid_ = m.xid /\ w[i].cb_present
                                       /\ Remembered(w, m.xid) = w[i].buf_
            <7>. HIDE DEF w, ack
            <7>. QED
              BY <4>1, <5>4, DupStateMeans
          <6>2. PICK n \in issued : n.clt_nonce = c /\ n.xid = m.xid /\ Honest(w[i].buf_, n)
            BY <4>1, <6>1 DEF HonestReplies, WindowHonest
          <6>3. n = m
            BY <4>1, <6>2 DEF Bound, IssuedOnce
          <6>4. t = Task("replay", m, w[i].buf_)
            BY <5>4, <6>1 DEF AfterCheck
          <6>5. t.rep = w[i].buf_ /\ t.req = m
            BY <6>4 DEF Task
          <6>. HIDE DEF t
          <6>. QED
            BY <6>2, <6>3, <6>5
        <5>. QED
          BY <5>1, <5>2, <5>3, <5>4
      <4>5. TasksHonest'
        <5>. HIDE DEF t
        <5>. QED
          BY <1>1, <4>2, <4>4, TasksStayHonest DEF HonestReplies, Honest
      <4>. QED
        BY <4>3, <4>5 DEF HonestReplies
    <3>. QED
      BY <2>3, <3>1, <3>2, <3>3, <3>4 DEF Dispatch
  <2>4. ASSUME NEW e \in HandlerErrs, Handle(k, e) PROVE HonestReplies'
    <3>1. PICK m : m = task[k].req
      OBVIOUS
    <3>2. task[k].pc = "new" /\ m \in issued /\ m \in Requests /\ m.clt_nonce \in Nonces /\ m.xid \in Xids
      BY <1>0, <2>4, <3>1, RequestsTyped DEF Handle, Shape, TasksIssued
    <3>. DEFINE key == <<instance, m.clt_nonce, m.xid>>
                r == Reply(m.xid, e, Result(m))
                t == Task(IF m.clt_nonce > 0 THEN "handled" ELSE "reply", m, r)
    <3>3. /\ task' = [task EXCEPT ![k] = t]
          /\ UNCHANGED <<instance, reply_window, issued>>
          /\ execs' = IF m.clt_nonce > 0 THEN [execs EXCEPT ![key] = @ + 1] ELSE execs
      BY <2>4, <3>1 DEF Handle, Key, Goto
    <3>4. key \in Instances \X Nonces \X Xids
      BY <1>0, <3>2
    <3>5. Grows
      <4>. HIDE DEF key
      <4>. QED
        BY <1>0, <3>3, <3>4 DEF Grows
    <3>6. m.clt_nonce > 0 => execs'[key] > 0
      <4>. HIDE DEF key
      <4>. QED
        BY <1>0, <3>3, <3>4
    <3>7. HonestIn(r, m, instance', execs')
      <4>1. r.xid = m.xid /\ r.err = e /\ r.result = Result(m)
        BY DEF Reply
      <4>2. instance \in 1..instance'
        BY <1>0, <3>3, InstancesAssumption DEF Instances
      <4>3. m.proc = BIND => r.result = SrvNonces[instance]
        BY <4>1 DEF Result, Nonce
      <4>4. m.proc # BIND => r.result = 1
        BY <4>1 DEF Result
      <4>5. m.proc = BIND => r.err = "OK"
        BY <2>4, <3>1, <4>1 DEF Handle
      <4>. HIDE DEF r
      <4>. QED
        BY <1>0, <3>6, <4>1, <4>2, <4>3, <4>4, <4>5 DEF HonestIn
    <3>8. t.rep = r /\ t.req = m
      BY DEF Task
    <3>9. TasksHonest'
      <4>. HIDE DEF t, r
      <4>. QED
        BY <3>3, <3>5, <3>7, <3>8, TasksStayHonest DEF HonestReplies
    <3>10. WindowHonest'
      BY <3>2, <3>3, <3>5, WindowsStayHonest DEF HonestReplies
    <3>. QED
      BY <3>9, <3>10 DEF HonestReplies
  <2>5. CASE AddReply(k)
    <3>1. PICK m, rep : m = task[k].req /\ rep = task[k].rep
      OBVIOUS
    <3>2. /\ task[k].pc = "handled" /\ m \in issued /\ m \in Requests /\ Honest(rep, m)
          /\ m.clt_nonce \in Nonces /\ m.xid \in Xids /\ m.xid \in Nat /\ rep \in Replies
      BY <1>0, <2>5, <3>1, RequestsTyped
         DEF AddReply, Shape, TasksIssued, HonestReplies, TasksHonest, TaskRecords
    <3>. DEFINE c == m.clt_nonce
                w == reply_window[c]
                n == [xid_ |-> m.xid, cb_present |-> TRUE, buf_ |-> rep]
                v == AddedReply(w, m.xid, rep)
    <3>3. CASE ~Holds(w, m.xid)
      BY <1>2, <2>5, <3>1, <3>3 DEF AddReply
    <3>4. CASE Holds(w, m.xid)
      <4>1. /\ reply_window' = [reply_window EXCEPT ![c] = v]
            /\ task' = [task EXCEPT ![k] = Task("reply", m, rep)]
            /\ UNCHANGED <<instance, issued, execs>>
        BY <2>5, <3>1, <3>4 DEF AddReply, Goto
      <4>2. w \in Seq(ReplyTs) /\ n \in ReplyTs /\ \A e \in ReplyTs : e.xid_ \in Nat
        BY <1>0, <3>2, EntriesTyped
      <4>3. Len(v) = Len(w) /\ \A i \in 1..Len(w) : v[i] = w[i] \/ v[i] = n
        <5>. HIDE DEF w
        <5>. QED
          BY <3>2, <3>4, <4>2, AddedReplyKeeps
      <4>4. \A d \in Nonces : reply_window'[d] = IF d = c THEN v ELSE reply_window[d]
        BY <1>0, <4>1
      <4>5. n.xid_ = m.xid /\ n.buf_ = rep /\ HonestIn(rep, m, instance', execs')
        BY <3>2, <4>1 DEF Honest
      <4>6. WindowHonest'
        <5>. HIDE DEF v, n
        <5>. QED
          BY <1>1, <3>2, <4>1, <4>3, <4>4, <4>5, WindowsStayHonest DEF HonestReplies
      <4>7. Task("reply", m, rep).rep = rep /\ Task("reply", m, rep).req = m
        BY DEF Task
      <4>8. TasksHonest'
        BY <1>1, <4>1, <4>5, <4>7, TasksStayHonest DEF HonestReplies
      <4>. QED
        BY <4>6, <4>8 DEF HonestReplies
    <3>. QED
      BY <3>3, <3>4
  <2>6. ASSUME NEW ok \in BOOLEAN, SendReply(k, ok) PROVE HonestReplies'
    <3>. DEFINE t == IF ok THEN Reading ELSE Dead
    <3>1. Goto(k, t) /\ UNCHANGED <<instance, execs, reply_window, issued>>
      BY <2>6 DEF SendReply
    <3>2. t.pc \in {"reading", "dead"}
      BY <2>0
    <3>. HIDE DEF t
    <3>. QED
      BY <1>3, <3>1, <3>2
  <2>7. CASE SendOld(k)
    <3>1. Goto(k, Reading) /\ UNCHANGED <<instance, execs, reply_window, issued>>
      BY <2>7 DEF SendOld
    <3>. QED
      BY <1>3, <2>0, <3>1
  <2>8. CASE SendDangling(k)
    BY <1>2, <2>8 DEF SendDangling
  <2>. QED
    BY <1>7, <2>1, <2>2, <2>3, <2>4, <2>5, <2>6, <2>7, <2>8 DEF Connection
<1>8. CASE UNCHANGED vars
  BY <1>2, <1>8 DEF vars
<1>. QED
  BY <1>4, <1>5, <1>6, <1>7, <1>8 DEF Next

\* What the server keeps for a client and what it sends is honest: a success
\* is the result of a run, in some server process, of the request it answers,
\* and BIND is answered the nonce of a process that was started.
THEOREM RepliesAreHonest == Spec => []HonestReplies
<1>1. Init => Shape /\ Bound /\ HonestReplies
  BY ShapeInit, BoundInit, HonestInit
<1>2. (Shape /\ Bound /\ HonestReplies) /\ [Next]_vars => (Shape /\ Bound /\ HonestReplies)'
  BY ShapeNext, BoundNext, HonestNext
<1>. QED
  BY <1>1, <1>2, PTL DEF Spec

LEMMA RunsGrow == Shape /\ [Next]_vars => Grows /\ issued \subseteq issued'
<1>. SUFFICES ASSUME Shape, [Next]_vars PROVE Grows /\ issued \subseteq issued'
  OBVIOUS
<1>0. /\ instance \in Nat /\ execs \in [Instances \X Nonces \X Xids -> Nat]
      /\ instance \in Instances /\ task \in [Conns -> TaskRecords] /\ issued \subseteq Requests
  BY InstancesAssumption DEF Shape, TypeOK, TaskRecords, Instances
<1>1. UNCHANGED <<instance, execs>> => Grows
  BY <1>0 DEF Grows
<1>2. ASSUME NEW p \in Procs, Register(p) PROVE Grows /\ issued \subseteq issued'
  BY <1>1, <1>2 DEF Register
<1>3. ASSUME NEW m \in Requests, Issue(m) PROVE Grows /\ issued \subseteq issued'
  BY <1>1, <1>3 DEF Issue
<1>4. CASE Restart
  BY <1>0, <1>4 DEF Restart, Grows
<1>5. ASSUME NEW k \in Conns, Connection(k) PROVE Grows /\ issued \subseteq issued'
  <2>1. UNCHANGED <<instance, issued>>
    BY <1>5 DEF Connection, OnNewConnection, ReceiveFails, Dispatch, DispatchOldServer,
       DispatchUnknownProc, DispatchPlain, DispatchTracked, Handle, AddReply, SendReply,
       SendOld, SendDangling
  <2>2. UNCHANGED execs \/ \E e \in HandlerErrs : Handle(k, e)
    BY <1>5 DEF Connection, OnNewConnection, ReceiveFails, Dispatch, DispatchOldServer,
       DispatchUnknownProc, DispatchPlain, DispatchTracked, AddReply, SendReply,
       SendOld, SendDangling
  <2>3. ASSUME NEW e \in HandlerErrs, Handle(k, e) PROVE Grows
    <3>1. PICK m : m = task[k].req
      OBVIOUS
    <3>2. m \in Requests /\ m.clt_nonce \in Nonces /\ m.xid \in Xids
      BY <1>0, <2>3, <3>1, RequestsTyped DEF Handle, Shape, TasksIssued
    <3>. DEFINE key == <<instance, m.clt_nonce, m.xid>>
    <3>3. execs' = IF m.clt_nonce > 0 THEN [execs EXCEPT ![key] = @ + 1] ELSE execs
      BY <2>3, <3>1 DEF Handle, Key
    <3>4. key \in Instances \X Nonces \X Xids
      BY <1>0, <3>2
    <3>. HIDE DEF key
    <3>. QED
      BY <1>0, <2>1, <3>3, <3>4 DEF Grows
  <2>. QED
    BY <1>1, <2>1, <2>2, <2>3
<1>6. CASE UNCHANGED vars
  BY <1>1, <1>6 DEF vars
<1>. QED
  BY <1>2, <1>3, <1>4, <1>5, <1>6 DEF Next

-----------------------------------------------------------------------------
(* What the two steps that write a window do to it, for properties that    *)
(* relate the window to the handler chains of several connections.         *)

\* CheckDuplicateAndUpdate: what is acknowledged goes, every other entry and
\* reply stays, and the state says what was there.
LEMMA TrackedDoes ==
    ASSUME Shape, NEW k \in Conns, NEW m \in issued, DispatchTracked(k, m)
    PROVE  LET c == m.clt_nonce
               w == reply_window[c]
               v == reply_window'[c]
               a == max_ack'[c]
           IN  /\ c \in Nonces /\ c > 0 /\ m.xid \in Xids /\ m.xid \in Nat
               /\ m.proc \in procs /\ ~OldServer(m)
               /\ a \in Nat /\ max_ack[c] \in Nat /\ a >= max_ack[c]
               /\ a = max_ack[c] \/ (m.xid_rep > 0 /\ a = m.xid_rep)
               /\ \A y \in Xids : Replied(v, y) <=> Replied(w, y) /\ y > a
               /\ \A y \in Xids : Holds(w, y) /\ y > a => Holds(v, y)
               /\ \A j \in Conns : j # k => task'[j] = task[j]
               /\ \/ task'[k].pc = "reading"
                  \/ /\ task'[k].pc = "new" /\ task'[k].req = m
                     /\ m.xid > a /\ ~Holds(w, m.xid) /\ Holds(v, m.xid)
                  \/ /\ task'[k].pc = "replay" /\ task'[k].req = m
                     /\ m.xid > a /\ Replied(w, m.xid) /\ Holds(v, m.xid)
                  \/ /\ task'[k].pc = "forgotten" /\ task'[k].req = m
                     /\ m.xid <= a
<1>. DEFINE c == m.clt_nonce
            x == m.xid
            w == reply_window[c]
            a == UpdatedAck(max_ack[c], m)
            v == CheckedWindow(w, a, x)
            state == DupState(w, a, x)
            t == AfterCheck(state, m, w)
<1>0. /\ reply_window \in [Nonces -> Seq(ReplyTs)] /\ max_ack \in [Nonces -> Nat]
      /\ task \in [Conns -> TaskRecords] /\ issued \in SUBSET Requests
  BY DEF Shape, TypeOK, TaskRecords
<1>1. /\ m \in Requests /\ c \in Nonces /\ c > 0 /\ x \in Xids /\ x \in Nat
      /\ w \in Seq(ReplyTs) /\ Ascending(w)
      /\ a \in Nat /\ a >= max_ack[c] /\ max_ack[c] \in Nat
      /\ ReplyT(x) \in ReplyTs /\ \A e \in ReplyTs : e.xid_ \in Nat
  BY <1>0, RequestsTyped, EntriesTyped, UpdatedAckTyped
     DEF DispatchTracked, Shape, WindowTrimmed
<1>2. /\ reply_window' = [reply_window EXCEPT ![c] = v]
      /\ max_ack' = [max_ack EXCEPT ![c] = a]
      /\ task' = [task EXCEPT ![k] = t]
      /\ m.proc \in procs /\ ~OldServer(m)
  BY DEF DispatchTracked, Goto
<1>3. /\ task'[k] = t /\ \A j \in Conns : j # k => task'[j] = task[j]
      /\ reply_window'[c] = v /\ max_ack'[c] = a
  BY <1>0, <1>1, <1>2
<1>4. /\ \A y \in Nat : Replied(v, y) <=> Replied(w, y) /\ y > a
      /\ \A y \in Nat : Holds(w, y) /\ y > a => Holds(v, y)
      /\ state = "NEW" => Holds(v, x)
  <2>. HIDE DEF c, x, w, a
  <2>. QED
    BY <1>1, CheckedWindowIs
<1>5. \/ state = "FORGOTTEN" /\ x <= a
      \/ state = "NEW" /\ x > a /\ ~Holds(w, x)
      \/ state = "INPROGRESS" /\ x > a /\ Holds(w, x)
      \/ /\ state = "DONE" /\ x > a
         /\ \E i \in 1..Len(w) : /\ w[i].xid_ = x /\ w[i].cb_present
                                 /\ Remembered(w, x) = w[i].buf_
  <2>. HIDE DEF c, x, w, a
  <2>. QED
    BY <1>1, DupStateMeans
<1>. HIDE DEF v, state, a
<1>6. \/ state = "FORGOTTEN" /\ x <= a
      \/ state = "NEW" /\ x > a /\ ~Holds(w, x) /\ Holds(v, x)
      \/ state = "INPROGRESS"
      \/ state = "DONE" /\ x > a /\ Replied(w, x) /\ Holds(v, x)
  <2>1. (\E i \in 1..Len(w) : w[i].xid_ = x /\ w[i].cb_present) => Replied(w, x) /\ Holds(w, x)
    BY DEF Replied, Holds
  <2>. HIDE DEF c, x, w
  <2>. QED
    BY <1>1, <1>4, <1>5, <2>1
<1>7. \/ t.pc = "reading"
      \/ t.pc = "new" /\ t.req = m /\ x > a /\ ~Holds(w, x) /\ Holds(v, x)
      \/ t.pc = "replay" /\ t.req = m /\ x > a /\ Replied(w, x) /\ Holds(v, x)
      \/ t.pc = "forgotten" /\ t.req = m /\ x <= a
  <2>. HIDE DEF c, x, w
  <2>. QED
    BY <1>6 DEF AfterCheck, Task, Reading
<1>. HIDE DEF t
<1>8. \A y \in Xids : y \in Nat
  BY EntriesTyped
<1>9. a = max_ack[c] \/ (m.xid_rep > 0 /\ a = m.xid_rep)
  BY <1>1, RequestsTyped DEF UpdatedAck, a
<1>. QED
  BY <1>1, <1>2, <1>3, <1>4, <1>7, <1>8, <1>9

\* AddReply on a window that has the entry: the entry becomes a reply.
LEMMA AddReplyDoes ==
    ASSUME Shape, NEW k \in Conns, AddReply(k),
           Holds(reply_window[task[k].req.clt_nonce], task[k].req.xid)
    PROVE  LET m == task[k].req
               c == m.clt_nonce
               w == reply_window[c]
               v == reply_window'[c]
           IN  /\ task[k].pc = "handled" /\ m \in issued
               /\ c \in Nonces /\ c > 0 /\ m.xid \in Xids
               /\ \A y \in Xids : /\ Holds(v, y) <=> Holds(w, y)
                                  /\ Replied(v, y) <=> Replied(w, y) \/ y = m.xid
               /\ task'[k].pc = "reply" /\ task'[k].req = m
               /\ \A j \in Conns : j # k => task'[j] = task[j]
               /\ UNCHANGED <<instance, procs, max_ack, crashed, issued, execs>>
<1>. DEFINE m == task[k].req
            c == m.clt_nonce
            x == m.xid
            rep == task[k].rep
            w == reply_window[c]
            v == AddedReply(w, x, rep)
            t == Task("reply", m, rep)
<1>0. /\ reply_window \in [Nonces -> Seq(ReplyTs)]
      /\ task \in [Conns -> TaskRecords] /\ issued \in SUBSET Requests
  BY DEF Shape, TypeOK, TaskRecords
<1>1. /\ task[k].pc = "handled" /\ m \in issued /\ m \in Requests /\ rep \in Replies
      /\ c \in Nonces /\ c > 0 /\ x \in Xids /\ x \in Nat /\ w \in Seq(ReplyTs) /\ Ascending(w)
      /\ [xid_ |-> x, cb_present |-> TRUE, buf_ |-> rep] \in ReplyTs
      /\ \A y \in ReplyTs : y.xid_ \in Nat
  BY <1>0, RequestsTyped, EntriesTyped
     DEF AddReply, Shape, WindowTrimmed, TasksIssued, TaskRecords
<1>2. /\ reply_window' = [reply_window EXCEPT ![c] = v]
      /\ Goto(k, t)
      /\ UNCHANGED <<instance, procs, max_ack, crashed, issued, execs>>
  BY DEF AddReply
<1>3. \A y \in Nat : /\ Holds(v, y) <=> Holds(w, y)
                     /\ Replied(v, y) <=> Replied(w, y) \/ y = x
  <2>1. Holds(w, x)
    OBVIOUS
  <2>. HIDE DEF m, w, rep, x, c
  <2>. QED
    BY <1>1, <2>1, AddedReplyIs
<1>4. t \in TaskRecords /\ t.pc = "reply" /\ t.req = m
  BY <1>1, TasksTyped DEF Task, Pcs, TaskRecords
<1>. HIDE DEF v, t
<1>5. task'[k] = t /\ \A j \in Conns : j # k => task'[j] = task[j]
  BY <1>2, <1>4, GotoTyped DEF Shape
<1>6. reply_window'[c] = v
  BY <1>0, <1>1, <1>2
<1>7. \A y \in Xids : y \in Nat
  BY EntriesTyped
<1>. QED
  BY <1>1, <1>2, <1>3, <1>4, <1>5, <1>6, <1>7

-----------------------------------------------------------------------------
(* What can kill the process. *)

\* An entry is there for a handler that will fill it, and for a duplicate that
\* is being answered from it.
NeedsEntry(k) == \/ task[k].pc \in {"handled", "replay"}
                 \/ task[k].pc = "new" /\ task[k].req.clt_nonce > 0
Kept(k) == Holds(reply_window[task[k].req.clt_nonce], task[k].req.xid)
Held == \A k \in Conns : NeedsEntry(k) => Kept(k)

\* The ways to die are a procedure nobody registered and an entry that has gone.
LEMMA DiesOf ==
    ASSUME [Next]_vars, ~crashed, crashed'
    PROVE  /\ \/ \E k \in Conns : \E m \in issued : DispatchUnknownProc(k, m)
              \/ \E k \in Conns : task[k].pc = "handled" /\ ~Kept(k)
              \/ \E k \in Conns : RepBufDangles(k)
           /\ UNCHANGED <<reply_window, task>>
<1>1. ASSUME NEW k \in Conns, NEW m \in issued, Dispatch(k, m)
      PROVE  DispatchUnknownProc(k, m) /\ UNCHANGED <<reply_window, task>>
  BY <1>1 DEF Dispatch, DispatchOldServer, DispatchPlain, DispatchTracked, DispatchUnknownProc
<1>2. ASSUME NEW k \in Conns, AddReply(k)
      PROVE  task[k].pc = "handled" /\ ~Kept(k) /\ UNCHANGED <<reply_window, task>>
  BY <1>2 DEF AddReply, Kept
<1>3. ASSUME NEW k \in Conns, SendDangling(k)
      PROVE  RepBufDangles(k) /\ UNCHANGED <<reply_window, task>>
  BY <1>3 DEF SendDangling
<1>4. ~ \/ \E p \in Procs : Register(p)
        \/ \E m \in Requests : Issue(m)
        \/ Restart
        \/ UNCHANGED vars
        \/ \E k \in Conns : \/ OnNewConnection(k) \/ ReceiveFails(k) \/ SendOld(k)
                            \/ \E e \in HandlerErrs : Handle(k, e)
                            \/ \E ok \in BOOLEAN : SendReply(k, ok)
  BY DEF Register, Issue, Restart, vars, OnNewConnection, ReceiveFails, SendOld, Handle,
         SendReply
<1>. QED
  BY <1>1, <1>2, <1>3, <1>4 DEF Next, Connection

\* With one connection nobody else acknowledges what its handler works on.
LEMMA HeldStep ==
    ASSUME Shape, Held, [Next]_vars, \A j, k \in Conns : j = k
    PROVE  Held'
<1>0. task \in [Conns -> TaskRecords] /\ issued \in SUBSET Requests
  BY DEF Shape, TypeOK, TaskRecords
<1>1. ASSUME UNCHANGED <<reply_window, task>> PROVE Held'
  BY <1>1 DEF Held, NeedsEntry, Kept
<1>2. ASSUME \A k \in Conns : ~NeedsEntry(k)' PROVE Held'
  BY <1>2 DEF Held
<1>3. CASE Restart
  BY <1>2, <1>3 DEF Restart, NeedsEntry, Closed, Task
<1>4. ASSUME NEW p \in Procs, Register(p) PROVE Held'
  BY <1>1, <1>4 DEF Register
<1>5. ASSUME NEW m \in Requests, Issue(m) PROVE Held'
  BY <1>1, <1>5 DEF Issue
<1>6. ASSUME NEW k \in Conns, NEW t, Goto(k, t), t.pc \in {"reading", "dead", "reply"} PROVE Held'
  <2>1. task'[k] = t /\ \A j \in Conns : j = k
    BY <1>0, <1>6 DEF Goto
  <2>2. \A j \in Conns : ~NeedsEntry(j)'
    BY <1>6, <2>1 DEF NeedsEntry
  <2>. QED
    BY <1>2, <2>2
<1>7. ASSUME NEW k \in Conns, NEW m \in issued, Dispatch(k, m) PROVE Held'
  <2>1. CASE DispatchOldServer(k, m)
    BY <1>6, <2>1 DEF DispatchOldServer, Task
  <2>2. CASE DispatchUnknownProc(k, m)
    BY <1>1, <2>2 DEF DispatchUnknownProc
  <2>3. CASE DispatchPlain(k, m)
    <3>1. task' = [task EXCEPT ![k] = Task("new", m, NoReply)] /\ m.clt_nonce = 0
      BY <2>3 DEF DispatchPlain, Goto
    <3>2. task'[k].pc = "new" /\ task'[k].req.clt_nonce = 0
      BY <1>0, <3>1 DEF Task
    <3>3. \A j \in Conns : ~NeedsEntry(j)'
      BY <3>2 DEF NeedsEntry
    <3>. QED
      BY <1>2, <3>3
  <2>4. CASE DispatchTracked(k, m)
    <3>1. \/ task'[k].pc \in {"reading", "forgotten"}
          \/ task'[k].req = m /\ Holds(reply_window'[m.clt_nonce], m.xid)
      BY <2>4, TrackedDoes
    <3>2. NeedsEntry(k)' => Kept(k)'
      BY <3>1 DEF NeedsEntry, Kept
    <3>. QED
      BY <3>2 DEF Held
  <2>. QED
    BY <1>7, <2>1, <2>2, <2>3, <2>4 DEF Dispatch
<1>8. ASSUME NEW k \in Conns, NEW e \in HandlerErrs, Handle(k, e) PROVE Held'
  <2>1. PICK m : m = task[k].req
    OBVIOUS
  <2>2. PICK pc, rep : /\ task' = [task EXCEPT ![k] = Task(pc, m, rep)]
                       /\ pc = IF m.clt_nonce > 0 THEN "handled" ELSE "reply"
                       /\ task[k].pc = "new" /\ UNCHANGED reply_window
    BY <1>8, <2>1 DEF Handle, Goto
  <2>3. task'[k].pc = pc /\ task'[k].req = m
    BY <1>0, <2>2 DEF Task
  <2>4. m.clt_nonce > 0 => Kept(k)
    BY <2>1, <2>2 DEF Held, NeedsEntry
  <2>5. NeedsEntry(k)' => Kept(k)'
    BY <2>1, <2>2, <2>3, <2>4 DEF NeedsEntry, Kept
  <2>. QED
    BY <2>5 DEF Held
<1>9. ASSUME NEW k \in Conns, AddReply(k) PROVE Held'
  <2>1. task[k].pc = "handled"
    BY <1>9 DEF AddReply
  <2>2. Goto(k, Task("reply", task[k].req, task[k].rep))
    BY <1>9, <2>1 DEF AddReply, Held, NeedsEntry, Kept
  <2>. QED
    BY <1>6, <2>2 DEF Task
<1>10. ASSUME NEW k \in Conns, OnNewConnection(k) \/ ReceiveFails(k) \/ SendOld(k)
                               \/ \E ok \in BOOLEAN : SendReply(k, ok)
       PROVE  Held'
  <2>1. Reading.pc = "reading" /\ Dead.pc = "dead"
    BY DEF Reading, Dead, Task
  <2>2. Goto(k, Reading) \/ Goto(k, Dead)
    BY <1>10 DEF OnNewConnection, ReceiveFails, SendOld, SendReply
  <2>. QED
    BY <1>6, <2>1, <2>2
<1>11. ASSUME NEW k \in Conns, SendDangling(k) PROVE Held'
  BY <1>1, <1>11 DEF SendDangling
<1>12. CASE UNCHANGED vars
  BY <1>1, <1>12 DEF vars
<1>. QED
  BY <1>3, <1>4, <1>5, <1>7, <1>8, <1>9, <1>10, <1>11, <1>12 DEF Next, Connection

-----------------------------------------------------------------------------
(* A server whose clients all retransmit: one step, one chain.             *)

\* A process that is dead answers nothing and forgets nothing.
LEMMA DeadStays ==
    ASSUME [Next]_vars, crashed, crashed'
    PROVE  UNCHANGED <<reply_window, task>>
<1>1. ASSUME NEW k \in Conns, NEW m \in issued, Dispatch(k, m) PROVE FALSE
  BY <1>1 DEF Dispatch, DispatchOldServer, DispatchUnknownProc, DispatchPlain, DispatchTracked, Goto
<1>2. ASSUME NEW k \in Conns, AddReply(k) PROVE FALSE
  BY <1>2 DEF AddReply, Goto
<1>3. ASSUME NEW k \in Conns, NEW e \in HandlerErrs, Handle(k, e) PROVE FALSE
  BY <1>3 DEF Handle, Goto
<1>4. ASSUME NEW k \in Conns,
             \/ OnNewConnection(k) \/ ReceiveFails(k) \/ SendOld(k) \/ SendDangling(k)
             \/ \E ok \in BOOLEAN : SendReply(k, ok)
      PROVE  FALSE
  BY <1>4 DEF OnNewConnection, ReceiveFails, SendOld, SendDangling, SendReply, Goto
<1>. QED
  BY <1>1, <1>2, <1>3, <1>4 DEF Next, vars, Register, Issue, Restart, Connection

\* Only two steps write windows; every other one moves one chain at most.
LEMMA ChainsMove ==
    ASSUME Shape, \A c \in Nonces : c > 0, [Next]_vars
    PROVE  \/ Restart
           \/ UNCHANGED <<instance, reply_window, max_ack, task>>
           \/ \E k \in Conns : \E m \in issued : DispatchTracked(k, m)
           \/ \E k \in Conns : AddReply(k) /\ Kept(k)
           \/ \E k \in Conns :
                 /\ UNCHANGED <<instance, reply_window, max_ack>>
                 /\ \A j \in Conns : j # k => task'[j] = task[j]
                 /\ \/ task'[k].pc \in {"reading", "dead"}
                    \/ /\ task[k].pc = "new" /\ task'[k].pc = "handled"
                       /\ task'[k].req = task[k].req
                    \/ /\ task'[k].pc = "reply" /\ task'[k].req \in issued
                       /\ OldServer(task'[k].req)
<1>0. task \in [Conns -> TaskRecords] /\ issued \in SUBSET Requests
  BY DEF Shape, TypeOK, TaskRecords
<1>. DEFINE Quiet == UNCHANGED <<instance, reply_window, max_ack, task>>
            Moved(k) ==
                 /\ UNCHANGED <<instance, reply_window, max_ack>>
                 /\ \A j \in Conns : j # k => task'[j] = task[j]
                 /\ \/ task'[k].pc \in {"reading", "dead"}
                    \/ /\ task[k].pc = "new" /\ task'[k].pc = "handled"
                       /\ task'[k].req = task[k].req
                    \/ /\ task'[k].pc = "reply" /\ task'[k].req \in issued
                       /\ OldServer(task'[k].req)
<1>1. ASSUME NEW p \in Procs, Register(p) PROVE Quiet
  BY <1>1 DEF Register
<1>2. ASSUME NEW m \in Requests, Issue(m) PROVE Quiet
  BY <1>2 DEF Issue
<1>3. ASSUME UNCHANGED vars PROVE Quiet
  BY <1>3 DEF vars
<1>4. ASSUME NEW k \in Conns, NEW t, Goto(k, t)
      PROVE  task'[k] = t /\ \A j \in Conns : j # k => task'[j] = task[j]
  BY <1>0, <1>4 DEF Goto
<1>5. ASSUME NEW k \in Conns, NEW m \in issued, Dispatch(k, m)
      PROVE  Quiet \/ DispatchTracked(k, m) \/ Moved(k)
  <2>1. CASE DispatchOldServer(k, m)
    <3>. DEFINE t == Task("reply", m, Reply(m.xid, "OLDSERVER_FAILURE", 0))
    <3>1. Goto(k, t) /\ OldServer(m) /\ UNCHANGED <<instance, reply_window, max_ack>>
      BY <2>1 DEF DispatchOldServer
    <3>2. t.pc = "reply" /\ t.req = m
      BY DEF Task
    <3>. HIDE DEF t
    <3>. QED
      BY <1>4, <3>1, <3>2
  <2>2. CASE DispatchUnknownProc(k, m)
    BY <2>2 DEF DispatchUnknownProc
  <2>3. ~DispatchPlain(k, m)
    <3>1. m.clt_nonce \in Nonces
      BY <1>0, RequestsTyped
    <3>2. m.clt_nonce # 0
      BY <3>1
    <3>. QED
      BY <3>2 DEF DispatchPlain
  <2>. QED
    BY <1>5, <2>1, <2>2, <2>3 DEF Dispatch
<1>6. ASSUME NEW k \in Conns, NEW e \in HandlerErrs, Handle(k, e) PROVE Moved(k)
  <2>1. PICK m : m = task[k].req
    OBVIOUS
  <2>2. m \in issued /\ m.clt_nonce > 0
    <3>1. m \in issued
      BY <1>6, <2>1 DEF Handle, Shape, TasksIssued
    <3>2. m.clt_nonce \in Nonces
      BY <1>0, <3>1, RequestsTyped
    <3>. QED
      BY <3>1, <3>2
  <2>. DEFINE t == Task("handled", m, Reply(m.xid, e, Result(m)))
  <2>3. Goto(k, t) /\ task[k].pc = "new" /\ UNCHANGED <<instance, reply_window, max_ack>>
    BY <1>6, <2>1, <2>2 DEF Handle
  <2>4. t.pc = "handled" /\ t.req = m
    BY DEF Task
  <2>. HIDE DEF t
  <2>. QED
    BY <1>4, <2>1, <2>3, <2>4
<1>7. ASSUME NEW k \in Conns, AddReply(k) PROVE Quiet \/ (AddReply(k) /\ Kept(k))
  BY <1>7 DEF AddReply, Kept
<1>8. ASSUME NEW k \in Conns,
             \/ OnNewConnection(k) \/ ReceiveFails(k) \/ SendOld(k)
             \/ \E ok \in BOOLEAN : SendReply(k, ok)
      PROVE  Moved(k)
  <2>1. Goto(k, Reading) \/ Goto(k, Dead)
    BY <1>8 DEF OnNewConnection, ReceiveFails, SendOld, SendReply
  <2>2. UNCHANGED <<instance, reply_window, max_ack>>
    BY <1>8 DEF OnNewConnection, ReceiveFails, SendOld, SendReply
  <2>3. Reading.pc = "reading" /\ Dead.pc = "dead"
    BY DEF Reading, Dead, Task
  <2>. QED
    BY <1>4, <2>1, <2>2, <2>3
<1>9. ASSUME NEW k \in Conns, SendDangling(k) PROVE Quiet
  BY <1>9 DEF SendDangling
<1>. HIDE DEF Quiet, Moved
<1>10. \/ Restart \/ Quiet
       \/ \E k \in Conns : \E m \in issued : DispatchTracked(k, m)
       \/ \E k \in Conns : AddReply(k) /\ Kept(k)
       \/ \E k \in Conns : Moved(k)
  BY <1>1, <1>2, <1>3, <1>5, <1>6, <1>7, <1>8, <1>9 DEF Next, Connection
<1>. QED
  BY <1>10 DEF Quiet, Moved
=============================================================================
