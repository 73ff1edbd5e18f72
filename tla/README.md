# A TLA+ model of async-rpc

`async-rpc` is an asynchronous RPC library in C++20 over boost::asio. Its README
promises *exactly-once semantics* and *packet resend, filtering at the
application layer*. This directory models the code that is meant to keep those
promises: the server's at-most-once window, the client's retransmission and
acknowledgement, and the two of them over a network that loses, reorders and
delays. The promise holds of one server process; a process that replaces it runs a
call again that is resent to it (section 5). All paths below are relative to the
repository.

## 1. Inventory

| Component | Source | State | Operations | Modules |
|---|---|---|---|---|
| Server dispatch and window | `src/rpc/rpc_server.cpp`, `src/include/rpc/rpc_server.h` | `procs_`, `nonce_`, `reply_window_`, `max_ackowledged_rep_`, one chain of handlers per connection | `Register`, `OnReceiveFinished`, `Dispatch`, `CheckDuplicateAndUpdate`, `AddReply`, `OnSendFinished`, `Bind` | `ReplyWindow`, `RpcServer` |
| Server lifecycle | same | `acceptor_`, `client_sockets_`, `workers_`, `stoped_`, the references handlers hold | `Start`, `AcceptNewConnection`, `OnNewConnection`, `Stop`, destructor | `ServerLifecycle`, `Sessions` |
| Client calls and handlers | `src/rpc/rpc_client.cpp`, `src/include/rpc/rpc_client.h` | `xid_`, `callers_`, the `Caller` objects and their timers, `bind_done_`, `srv_nonce_` | `Call`, `Bind`, `GotPdu`, `OnTimerExpired`, `OnSendFinished`, `OnReceiveFinished` | `RpcClient` |
| Record of received replies | `RpcClient::UpdateXidRep` | `xid_rep_window_` | `UpdateXidRep`, the lambda `received_xid` | `XidRepWindow`, `ReceivedReplies` |
| Client lifecycle | `rpc_client.cpp` | `connected_`, `workers_`, the references handlers hold | `ConnectToServer`, `WaitUntilConnected`, destructor | `ClientLifecycle`, `Sessions` |
| asio adapters | `src/include/rpc/socket.h` | sockets, deadline timers | `Send`, `Receive`, `Connect`, `Accept`, `Close`, `Wait`, `Run`, `Stop` | `Wire` over `Channel`; environment of `RpcClient`, `RpcSystem`, `Sessions` |
| Marshalling | `marshall.h`, `marshall.cpp`, `rpc.h` | JSON document, key counter `id_` | `<<`, `>>`, `Reset`, `TakeBuf` | `Marshalling`, used by `Wire` |
| Fiber pool | `src/include/common/fiber_*.h` | worker threads, barrier, `finish_`, ready fibers | constructor, `Submit`, destructor | `FiberPool` (no RPC code uses the pool) |
| Scope guard | `src/include/common/marco.h` | none | `ON_SCOPE_EXIT` | folded into `CheckedWindow` |
| Mock transport, `main.cpp`, `third-party` | | | | not modelled |

How they interact. `Call` registers a `Caller` under `callers_mu_`, reads the
acknowledgement under `rep_window_mu_`, marshals the header and sends, and then
starts a one-shot timer. io threads run completion handlers: a finished send
posts a `Receive` (or retries), a finished receive runs `GotPdu`, an expired
timer resends (with a client nonce) or times the call out (without). On the
server every connection is one chain *read, dispatch, send, read*; chains of
different connections run in parallel and meet in `reply_window_` and
`max_ackowledged_rep_`. The header couples the two ends: `xid_`, `clt_nonce_`,
`srv_nonce_` (which process the client bound to) and `xid_rep_` (everything up
to it has arrived, the server may forget it).

What is hard: three critical sections in `GotPdu` and two threads in it; raw
`Caller` pointers across unlocks; a timeout racing an answer; duplicates on two
connections while a handler runs; acknowledgements overtaking requests; a
process that is replaced between run and resend; receives that are counted by
successful sends; a stream of bytes that is read as if it were messages; objects
kept alive by whichever handlers are pending, and destroyed on whichever thread
drops the last of them. `PROJECT.json` lists these under `hazards`, each at its line
with the properties that watch it. What makes each component correct is
stated by the properties in section 4.

## 2. Modules

* `ReplyWindow` - the pure part of `CheckDuplicateAndUpdate` and `AddReply`: a
  window is a sequence of `ReplyT` records and each operator is what one loop
  leaves behind. The trim of `ON_SCOPE_EXIT` is part of `CheckedWindow`.
* `RpcServer` - one action per handler. A connection's chain is
  `task[k] = [pc, req, rep]`: `pc` is where the chain waits, so everything
  between two critical sections may interleave with other connections.
  `Dispatch` has one action per outcome. `Restart` replaces the process.
  Clients are the environment: any request that was issued may arrive anywhere,
  any number of times. `execs` is a history variable.
* `XidRepWindow`, `ReceivedReplies` - the client's list of received xids, as
  operators and as a small machine fed with arbitrary replies. The in-place
  loop that pops the front under a running iterator is spelled out as
  `CompressLoop` and compared with the closed form.
* `RpcClient` - application threads and io threads. `call[x].pc` cuts `Call` at
  its critical sections, `io[w].op` is the handler stretch worker `w` is in:
  `update`, `lookup`, `finish`, `callback` are the four parts of `GotPdu`,
  `resend` is `OnTimerExpired` after `l.unlock()`, `sendfailed`, `failcallback`
  are `OnSendFinished`, `rebind` the end of the `Bind` callback. `caller[x]`
  says whether the `Caller` object still exists; touching one that does not is
  undefined, so `Touch` allows either outcome: abort, or reading the bytes
  that are still there.
* `ExactlyOnce` - the abstract promise, as far as a server keeps it that remembers its
  replies in memory: every process runs a call at most once, and after some process
  ran it the callback is given one outcome, which a method may return. With one
  process that is exactly once.
* `RpcSystem` - `INSTANCE`s of `RpcClient` and `RpcServer` joined by bags of
  messages per connection. Every action is an action of one side together with
  its effect on the messages. The network may reorder, lose silently, report
  `SEND_FAILURE` for a message that went through, and break a connection with
  either end still believing in it. On a connection that is gone a `Receive` ends with
  an error (`ReceiveFails`), which posts no other one (`rpc_client.cpp:245-252`), and
  a new connection begins without any: `Reconnected` sets `listening` to 0, because the
  callback of that `Connect` sends and does not listen (`rpc_client.cpp:209-217`), unlike
  `OnConnected`. When two failed sends both connect, the second `Connect` can succeed
  only if the connection has died again; otherwise it fails, and its callback throws.
* `Marshalling` - `Marshall` and `Unmarshall` as operators: a document maps numbers
  to values and has a header, and both objects count keys.
* `Wire` - both ends on one TCP connection, at the level of bytes. `Send` hands over
  a view of a buffer: the kernel takes all of it, a part, or nothing yet, in which
  case `Flush` reads the buffer later, when it may be gone (`rep->Buf()` is a
  temporary, `rpc_server.cpp:87`). `Receive` is `async_read_some` into
  `DEFAULT_RPC_SZ` bytes. A chunk that is not one document makes `TakeBuf` throw,
  which ends that process (`down`). `Channel` is what the two ends take the socket
  for; `Wire` implements it once per direction, with order towards the server
  (one `Receive` at a time) and without order towards the client (several).
  Errors of sends, the reply window and replies without a result are left to
  `RpcSystem`; a duplicate is answered with a new document, which has the content
  the recorded one would have.
* `Connections`, `ServerLifecycle`, `ClientLifecycle`, composed in `Sessions` - the
  lives of a server and its clients. `stage` is how far `Start` and `Stop` got,
  `object[c]` how far `~RpcClient` got. Every pending operation and handler holds
  a reference, except the client's `Connect` handler, which holds `this`. A
  handler that returns and leaves no reference behind runs the destructor on its
  io thread, where joining the own thread throws (`Returns`, `Released`). The
  window between `async_accept` and `client_sockets_` is a step of its own (`onNew`).
* `FiberPool` - the constructing thread, the threads of the pool, the barrier, the
  shared queue of fibers, `finish_` and its condition variable. That a thread of
  the pool runs other fibers while its main fiber waits is boost's
  `shared_work`, modelled from its use (external in the map).
* `MCRpcServer`, `MCRpcClient`, `MCRpcSystem` - instances for TLC; `Sessions`, `Wire`
  and `FiberPool` need none.
* `WindowProofs`, `RpcServerProofs`, `ReceivedRepliesProofs`, `RpcClientProofs`,
  `RpcSystemProofs`, `WireProofs`, `SessionsProofs`, `FiberPoolProofs` - theorems,
  section 6.

Names ending in `_Faulty` are deliberate mistakes a property must notice; the
models do not use them. `PROJECT.json` pairs each with its property and maps
every other definition to its lines.

## 3. Abstractions and bounds

Payloads are dropped; a reply has a result (a positive number) or none (0),
because `ExtractReply` throws on the latter. The two refusals, `OLDSERVER_FAILURE` and
`ATMOST_ONCE_FAILURE`, have none. What a method returns has one, an error too
(`rpc_server.h:66-68`, `rpc_server.cpp:79-80`); methods return `"OK"` or `"handler error"`
in the runs, anything in the proofs, and BIND always `OK`. `xid_t` is 64
bits wide and is incremented once per call, so wrap-around is out of the model.
`random()` for the client nonce is a constant; two clients that draw the same
value are not modelled. Client nonces other than 0 are positive. The server's
`random()` is not seeded (`rpc_server.cpp:13`), unless a client with retransmission
runs in the same process (`rpc_client.cpp:23-24`), so its processes have equal nonces:
that is what `MCRpcSystem_once` and `MCRpcSystem_restart` take, and the models and
proofs allow any values. The sequence
numbers of mutexes are not modelled: a critical section is one step.

| Bound | Values | Why it is enough |
|---|---|---|
| xids | 2 in server runs (any number in the proofs), 2 or 3 in client runs, 2 in system runs, 5 in `ReceivedReplies` | two can overtake each other; three are needed for a gap in the acknowledged xids |
| `ThirdCallIsSmooth` (`MCRpcClient_retrans`) | the third xid only where nothing failed and, from there on, one handler runs at a time | the gap takes replies that overtake each other, not threads or faults |
| connections (`Conns`, `MaxConns`) | 2; 1 in the liveness runs | a duplicate needs a second chain; a third only repeats it |
| workers | 1 or 2 | races in `GotPdu` are between two threads; `RPC_DEFAULT_WORKERS` is 2 |
| server processes (`MaxInstances`) | 1 to 3 | one replacement separates run and resend; with three the next process can have the nonce of the one before it, or not |
| `MaxFaults` | 0 or 1 | sends that fail |
| `MaxBreaks` | 0 or 1 | broken connection, failed receive or failed reply |
| `MaxLosses` | 0 or 1 | only liveness needs losses: for safety a lost message is one that stays in its bag |
| `Clients`, `Leavers` (Sessions) | 2, one of which may leave or time out | one client that leaves disturbs one that stays; the one that stays keeps the liveness property from being empty |
| `NumWorkers` (Sessions) | 2 | one thread in `OnNewConnection` while another runs the chains |
| `MaxAcceptFaults` | 0 or 1 failing accepts | the first ends the accept loop |
| `Sizes`, `DEFAULT_RPC_SZ` (Wire) | 2 or 4, 3 | one document fits, two short ones together do not, the long one never |
| `MaxFaults`, `MaxResends` (Wire) | 1 of the three faults, 1 resend | a resend and a call can run together; faults that add up are the same document spoilt twice |
| `Pool`, `Tasks` (FiberPool) | 3 threads and the constructing one (the default is 4), 2 tasks | |
| `MaxBinds` | 1 | application calls of `Bind`; its own retries are bounded by `MaxXid` (past it, a retry is dropped) |

Deadlock checking is off in all runs: a system with all calls returned and no
failure left to happen is at rest. Symmetry of connections (server) and of
workers (client) is used in runs that check invariants only.

In `Sessions` a client makes one call, and a message on its way is one value per
connection (`data`); what is answered and how often is the matter of the other modules.
A client has one io thread there; `ConnectToServer` spawns `num_worker_`
(`rpc_client.cpp:150-153`), by default 2. One client's handlers that two threads run together
are the matter of `RpcClient`.

## 4. What the passing runs show

| Run | Question | Properties |
|---|---|---|
| `MCRpcServer` | duplicates, reordering, two connections, the process replaced twice at any point, by one with the same nonce and by one with another | `TypeOK`, `AtMostOnce`, `RunsUnderOneNonce`, `ReplayedRepliesAreResults`, `WindowTrimmed` |
| `ReceivedReplies` | six replies in any order and number | `WindowIsReceived`, `LoopCompresses` |
| `MCRpcClient_retrans` | retransmission, two io threads, a failing send, any replies; a third call in flight where nothing failed | `TypeOK`, `OneCallback`, `TakenOnce`, `AckSound` |
| `MCRpcClient_plain` | no retransmission, two io threads, reply against timer and failing send | `ReplyOrTimeout`, `EveryCallReturns` |
| `MCRpcSystem_once` | failing send, break, second connection, second server process with the nonce of the first | `ForgetsOnlyReceived`, `DiesOnlyOfRepBuf`, `ImplementsExactlyOnce` |
| `MCRpcSystem_live` | one connection, a failing send and a loss, with retransmission; methods that fail | `ServerUnharmed`, `RepliesAreHeard`, `ImplementsServer`, `ImplementsClient`, `EveryCallReturns` |
| `Sessions` | start, connect, accept, stop, let go, join, in any order; one failing accept | `AtMostOneSurvivor`, `ConnectHandlerOutlived`, `CallsAreConnected`, `StopReturns`, `EveryClientServed` |
| `Wire` | two calls over a stream that cuts, splits, delays and joins | `ImplementsChannels`, `AnswersMatch`, `OneAtATimeIsSafe`, `UndisturbedCallsReturn` |
| `FiberPool` | barrier, wait and destructor of four threads, two tasks | `StartTogether`, `ThreadsEnd`, `TasksRun` |

`ImplementsExactlyOnce` is a refinement: `runs` is how often each server process ran
a call, `outcome` what the callback was given; a second callback maps to a value the
abstract specification does not have. It lets a process that replaced another run
the call again, as the code does with equal nonces (`MCRpcSystem_restart`). What the
old-instance test is worth for any nonces says `RunsUnderOneNonce`: a call other than
BIND runs under the nonce its client bound to and no other. Both matter for the window
too, because the process that replaces another begins with an empty one.
`ImplementsServer` and `ImplementsClient` discharge the environment assumptions of
the component modules: what was checked (or proved) of `RpcServer` for arbitrary
requests applies to the requests `RpcClient` really sends, and of `RpcClient` for
arbitrary replies to those of `RpcServer`, errors of the methods included. Both are proved for
any number of connections and processes (section 6).

`ImplementsChannels` says that nothing but whole documents is ever dispatched, each
once, whatever the stream does: the price is paid by `down`, a process that ended.
`OneAtATimeIsSafe` and `UndisturbedCallsReturn` say under which conditions nobody
pays: one call at a time, no resend that overtakes an answer, documents that fit
the buffer, and a transport that passes them on in one piece.

`AtMostOneSurvivor` is as much as `Stop` achieves: the connection whose
`OnNewConnection` runs while `Stop` closes the others stays open. `StopReturns` and
`EveryClientServed` are read modulo a crash; the crashes are outcomes of
`CloseSockets`, `Returns`, `Released`, `ListenFromServer` and `ConnectFailed`.

Fairness is assumed in the liveness runs only (`FairSpec`): threads that can
run do run, posted sends and armed timers complete, a message that is there and a
posted `Receive` meet. All of it is weak fairness, justified by
`io_context::run` on dedicated threads. Nothing forces a failure, a loss, a
restart, a new call, or that an application starts, stops or lets go of anything;
in `MCRpcClient_plain` nothing forces an answer either, so every loss is included.
In `Sessions` no process can go on for ever without new calls and connections, so one
weak fairness condition on everything that has begun (`GoesOn`) is enough; in
`FiberPool` a thread that waits for a future takes it. The faults are bounded, so "every call returns" holds
under finitely many of them. It is read modulo a crash of either process.

## 5. Where code and words differ

Three runs are expected to end in a violation. Each checks one thing the README, a
comment or a build option says; `PROJECT.json` quotes it under `findings`.

* `MCRpcClient_uaf` - a handler with a raw `Caller` pointer loses against `GotPdu`.
* `MCRpcSystem_restart` - `nonce_` is the first value of an unseeded `random()`
  (`rpc_server.cpp:13`), the same in every server process. So the old-instance test
  does not notice that the process was replaced, and a call that was run and not
  answered is run again when it is resent (`AtMostOnceAcrossRestarts`).
* `MCRpcSystem_forgotten` - a refusal has no result, and extracting it throws
  (`rpc_client.cpp:131`). It takes no failure to meet one: a reply is acknowledged before
  its `Caller` is taken (`rpc_client.cpp:93-107`). While one io thread is between the two, the
  next call acknowledges the reply, the server forgets it, answers a retransmission with
  `ATMOST_ONCE_FAILURE`, and another io thread takes the `Caller` with that. An error a
  method returned comes with a result and reaches its callback.

More limits lie just outside the bounds of the passing runs. They are seen
by changing one of them and checking the property named, or by an action the
passing runs take:

* `OneCallback` is violated with the constants of `MCRpcClient_plain`: without
  retransmission `OnSendFinished` ignores `done_` (`rpc_client.cpp:224-231`), and a
  call that was answered or timed out is called back a second time.
* `MaxLosses = 2` in `MCRpcSystem_live` violates `EveryCallReturns`: the timer is
  started once, in `Call` (`rpc_client.cpp:64`), and `OnTimerExpired` resends without
  starting it again, so a second silent loss leaves the call waiting for ever.
* Two calls in flight on a real TCP connection: when the second request is sent
  before the server has read the first, both arrive in one read, parsing throws and
  the server ends (`OneAtATimeIsSafe` without its `pipelined`). The repository's
  tests with many calls in flight run over the mock transport, which keeps messages
  apart.
* A document longer than 1024 bytes is never read as one (`marshall.h:14`; the same
  property with `Sizes` left out). `rpc_test.cpp:306` asks for up to 2000 characters,
  over the mock transport.
* `Stop` calls `Close` on the `Socket`s of connections that have ended
  (`rpc_server.h:77`): the outcome "use after free" of `CloseSockets`.
* A connection accepted while `Stop` runs stays open (`AtMostOneSurvivor` with 0).
* A server or client that is let go of while handlers hold it may be destroyed on
  its own io thread and join itself (`rpc_server.h:35`, `rpc_client.h:84`).
* `Dispatch` reads `*rep_buf` after the unlock (`rpc_server.cpp:98-102`). With a
  broken connection and a second one the entry may be trimmed first: this is the action
  `SendDangling`, which `MCRpcSystem_once` takes and exactly-once survives; the
  read itself is undefined behaviour.
* `DiesOnlyOfRepBuf` needs its `OwnNonce`: a process that took over the nonce of the one
  before it accepts requests for procedures the application has not registered yet, and
  throws (`rpc_server.cpp:54-56`), or runs what the client has acknowledged since
  and finds no entry in `AddReply`.
* `MaxBinds = 2` in `MCRpcClient_retrans` violates `AckSound`: the first reply is
  taken for the front of the window even when it is not that of xid 2
  (`rpc_client.cpp:262`).
* `MaxFaults = 3` in `MCRpcSystem_live` violates `RepliesAreHeard`: receives are
  posted per successful send (`rpc_client.cpp:235`), and a send that "failed" but went
  through is answered into silence. Two failures are still covered by the first
  `Receive` and the resend of the timer (proved: `WaitingRepliesAreHeard`, section 6);
  without retransmission (`CltNonce = 0`) two are one too many. With two connections and
  no losses, a failing send and a break are two failures and hold, and so do a
  failing send and a replaced process; one more of any of them
  (`MaxFaults = 2` and a break, `MaxFaults = 2` and a replaced process, or all three once)
  is violated.
* If server processes had distinct nonces, `OLDSERVER_FAILURE` would be such a refusal too:
  as a what-if, `SrvNonces <- SeededTwo` in `MCRpcSystem_restart` keeps
  `AtMostOnceAcrossRestarts` and violates `ErrorRepliesReachCallback` when a resent call
  reaches the second process.

## 6. What is proved

The proofs are checked by TLAPS and hold for every value of the constants that
satisfies the named `ASSUME`s of the module proved about. In `RpcServer`: nonces are
naturals, xids and server nonces are positive, `BIND` is a procedure. In `Sessions`:
those that leave are clients, and `None` is not one. In `FiberPool`: the pool is
finite and the constructing thread is not in it. In `RpcClient` and `RpcSystem`: bounds
are naturals, send errors are the two the socket reports, results are positive,
`BIND` is not a procedure of the application, and `"OK"` is among what methods return
(in `RpcServer` too); in `RpcSystem` the bounds on breaks and losses are naturals, and no
method returns `"none"` or `"pending"`, which `Outcome` uses for calls without an
outcome. No theorem assumes that nonces differ or that methods succeed. In `Wire`: documents and the buffer have
at least one byte. Hypotheses a theorem needs beyond these are in its statement, and
named below with their reason.

`WindowProofs` has the lemmas about both windows, for windows of any length. The
server's: where the scan stops (`FirstAtLeastStops`, from the least element of a set
of naturals), what trim, insertion and `AddReply` keep, and the two summaries
`DupStateMeans` and `CheckedWindowKeeps`. The client's: what insertion and compression
leave in the list, and that the loop which compresses it in place computes the closed
form the model uses (`LoopIsCompressed`): after each turn the list is what is left of it
beyond the last element of the run found so far (`FrontAt`). That a recursive function
over a list of any length exists (`LoopRuns`) is shown by a least counterexample, for
want of an induction theorem.

`RpcServerProofs` has three layers of inductive invariants.

1. `Shape` = types, sorted and trimmed windows, and a request behind every
   chain. Types alone are not inductive: that a remembered reply exists when
   the state is `DONE` needs the order of the window. Gives `TypeCorrect` and
   `WindowStaysTrimmed`.
2. `Memory`. At-most-once is not inductive by itself: one has to know that
   whatever ran is acknowledged or has an entry (`RanIsCovered`), that a handler
   about to run is for a request that has not run but is already covered
   (`DueIsFresh`), that no two chains are about to run the same request
   (`DueIsAlone`), and that a chain before `AddReply` holds the result of the one run
   (`HandledRan`). The step that matters is `MemoryTracked`: the check
   says `NEW` only for an xid that is not covered and covers it in the same
   critical section. Gives `RunsAtMostOnce` and `ReplaysAreResults`.
3. `Bound`. A request that ran in a process, other than BIND, carries that process's
   nonce (`RanIsBound`), because a client issues one request per xid and the
   old-instance test runs before the handler. Gives `CallsRunUnderOneNonce`, for any
   nonces. That no call runs in two processes would follow from distinct ones, which the
   unseeded `random()` does not give (section 5).

`HonestReplies` builds on the third layer and gives `RepliesAreHonest`: what is
kept or on its way with a result is what a method returned in a run of that request, an
error or not, what is without one is a refusal, and a BIND is answered the nonce of a
process that was started. The composition rests on it.

`ReceivedRepliesProofs`: the list is sorted, its front ends an unbroken run that
starts at the first reply, and what follows is what was received beyond a gap. Gives
`ListSaysWhatCame`, and with `LoopIsCompressed` that at every reply the code's loop
leaves that list (`LoopIsTheClosedForm`).

`RpcClientProofs`, for any number of calls, workers, failing sends and answers.

1. `Shape` = types, plus that every handler works on a call that was made, with an
   error it can have (`HandlersWork`), and that nothing is there for an xid not yet
   handed out (`Fresh`). Gives `TypeCorrect`.
2. `Outcome` is no invariant but a summary of what a step may do to the calls: one is
   made, given up, timed out, taken from `callers_`, claimed, found too late, reported
   as failed or called back, or nothing happens. It is proved once from the actions,
   and the invariants that follow are proved from it.
3. `Settled`: a call that was told its outcome cannot be told the other. Gives
   `OneWinner`.
4. `Taken` (with retransmission): a call is in `callers_`, or with exactly one worker, or
   was called back once. Gives `EveryCallTakenOnce` and `CalledBackOnce`. Without
   retransmission `OnSendFinished` ignores `done_`, and the statement is false
   (section 5).
5. `AckInv` (with retransmission and at most one `Bind` of the application): the list
   claims only what was received, and before the first reply there is only BIND.
   Gives `AcknowledgesReceived`. One `Bind`, because the list starts at the first reply
   that arrives and claims every xid below it; with one `Bind` no second call is made
   before that reply. With two the property is false (section 5).
6. `Orderly`: sends, timers and handlers are of calls that were sent, and no call but
   BIND is made before a BIND was answered; used by the composition.
7. `Waits` (with retransmission): a call in `callers_` whose `Call` has returned has a
   timer that runs or whose handler ran. With it, what a step does to what a call has
   under way (`OwnMoves`): nothing, one more send, its timer's handler, or that handler
   becomes a send; used by the composition to count receives.

`RpcSystemProofs` instantiates both proof modules (`CP`, `SP`). `SysInv` is the
invariants of the two sides (`Parts`) and what ties them together (`Agreed`): what
the server was asked is what the client sent, and every reply in the network or in a
handler's hands is honest. Each action of the system is shown to be an action of one
side, or of neither. Gives `ServerIsImplemented` and `ClientIsImplemented`, through
which all of the above holds in the system, whatever the methods return and however
often the process is replaced. `ForgottenIsReceived` adds one `Bind`, as above.
`RunsExactlyOnce`, the refinement of `ExactlyOnce`, assumes a client nonce and nothing
else. Its invariant `OnceInv` = `SysInv`, the server's `Memory`, the client's `Taken`,
and `Told`: nobody is called back with an outcome for a call that no process ran.

Three more theorems of the composition are about what may kill or silence it.

1. `NothingKillsTheServer`, for one connection. `Alone` says that processes after the
   first are out of the client's reach (`OutOfReach`), that what is called is registered
   (`CallsRegistered`), and that the entry a chain works on or answers from is in the
   window (`SP!Held`). One connection, because with two the next acknowledgement may
   remove the entry a duplicate is being answered from (section 5).
2. `DeathIsRepBuf`, for any number of connections: that read is the only way to die.
   What a handler works on is *not settled*: neither answered nor covered by the
   acknowledgement nor turned away as meant for another process (`ChainInv`); and what
   was answered, sent, or received is settled (`HeardInv`). Since the client
   acknowledges only what it received (`AckInv`), no acknowledgement trims an entry that
   `AddReply` will look for, nor does the window accept its xid a second time. It is
   said of processes whose nonce none before them had (`OwnNonce`), the first in any
   case, because another one does not turn away what was meant for the one before it
   (section 5); `CrowdInv` is conditional on that, and a restart settles it anew
   (`RestartSettles`). One
   `Bind`, because with two the later reply may open the list of received xids and
   acknowledge the earlier Bind, which a handler still works on (TLC finds this with
   `MaxBinds = 2`, `MaxXid = 4`, two connections and a break).
3. `WaitingRepliesAreHeard` counts, for the connection the client is on. On the first
   one a `Receive` is posted for every send that succeeded, and every message to come
   was started by a send. `CoveredFor(y)`, seen from a call `y` that waits or was not
   made yet:

       receives posted + successful sends not yet completed + faults + breaks
         + what y has under way
       >= requests, working chains and replies for other calls
         + sends y was started with + 1

   The 1 is the `Receive` posted at start. The sends `y` was started with are counted and
   not its messages: those may be lost, but each of them posts a `Receive` when it
   succeeds and is a fault when it does not. `Gains` and `KeepsUp` are the two sides of
   the step: for every action, what `y` has under way and what is posted together lose
   no more than what is to come. When the client is quiet nothing is under way or
   uncompleted, and `y` was started with two sends (its timer has run, `Waits`), or one
   without retransmission. So `2` (or `1`) is the number of failing sends and breaks the
   theorem allows. A later connection begins with nothing posted and nothing in the network
   (`NetFresh`), and has cost two failures by then: the failed send that reconnected
   (`Faultless`: none before a send reported an error), and the break or the replaced
   process it failed on. So there, with messages for everybody counted (`Reopened`),

       receives posted + successful sends not yet completed + faults + breaks + instance
       >= requests, working chains and replies + 3

   and, since the three numbers at the left are 3 at most, each message has its
   `Receive` posted or about to be. The bounds are tight: TLC violates `RepliesAreHeard` with
   one failure more (section 5). Silent losses, connections, calls and `Bind`s are not
   bounded.

`WireProofs` proves, for values and numbers of values of any kind, that what
was put into a `Marshall` is what an `Unmarshall` extracts, in order
(`ReadsBackInOrder`); that the one value and one header of every RPC message come
back whichever is extracted first (`OneValueOneHeader`); and that `Reset` makes an object that was
used before unreadable, because it counts on (`ResetKeepsCounting`). The argument is
one predicate, `Wrote(m, s)`, kept by `<<`: the keys of `m` are `0..Len(s)-1` and hold `s`.

It goes on to the byte stream, for any number of calls, resends and faults and
documents of any size. What a step does to one direction has seven forms (`Moves`:
rests, sends now, defers, flushes, aborts, reads, takes), again proved once.

1. `Typed`, `AllOwned`: every document is a request or the reply to one, and
   bytes on their way are bytes of documents that were sent. Gives `AnswersAreMatched`.
2. `InOnePlace`: the *first* byte of a document is in the stream, in one chunk, or the
   document was dispatched. Later bytes say nothing, since documents may be cut and
   spoilt, but no chunk parses without its first. Gives "at most once".
3. `InOrder`, while the server is up: its chain is one of a pending `Receive`, a chunk, a
   deferred reply or a finished send (`Chain`), and the chunk followed by the stream is a
   `Line` of documents that continues what was dispatched and, while the client is up,
   ends where the waiting ones begin (`Complete`). Taking a document shortens the line
   by exactly it, since the byte after its last can only be one of the next document.
   With 2 it gives `ChannelsAreImplemented`.
4. `StaysCalm`: undisturbed, nothing is on its way, or one request, or one reply, whole
   and alone, of the one call that waits. Gives `OneCallIsSafe`.

`SessionsProofs` has one inductive invariant per side, which the steps of the other
side leave alone. `CltInv`: how far the application got says what was established
(`Established`), a destructor runs only after the application has let go
(`LetGo`), and a destroyed client has no io thread (`Ended`). It gives
`ConnectHandlerIsOutlived` and `CallersAreConnected`. `SrvInv`: an accepted
connection is in `client_sockets_` or in the hands of the one handler that will
put it there (`Accepting`, `Tracked`), so after `CloseSockets` at most that one is open
(`Alone`), and nothing is accepted any more. It gives `StopLeavesAtMostOne`.

`FiberPoolProofs`: `BarrierInv` says that the barrier has counted exactly the threads
that came to it and that either all threads are past it or none is. The step that
matters is `BarrierInvArrive`: a set of threads of as many members as the barrier counts
is all of them (`EveryThreadCounts`). It gives `StartsTogether`.

Every invariant and action property a passing run checks is stated by one of these
theorems. Only model-checked: all liveness (`EveryCallReturns`, `UndisturbedCallsReturn`,
`StopReturns`, `EveryClientServed`, `ThreadsEnd`, `TasksRun`), which is out of the prover's
reach, as is `ENABLED`.

## 7. Plan

Done: every component of section 1 that has state of its own is modelled, and its
safety properties are proved. What could follow: a bound on the receives posted for a
client that is *not* quiet, as a function of the sends it has under way. `CoveredFor`
gives one; no run asks for it yet.

Not modelled, and not planned: what asio does when two threads start operations
on one socket without a lock (`rpc_client.cpp:61`), which has no source here to
translate; what becomes of the `Receive`s of a connection between its end and the next
`Connect` beyond that they fail; JSON text, logging, `ToString`, the scope guard itself (its effect is in `CheckedWindow`), the mock
transport, `main.cpp`, vendored code.
