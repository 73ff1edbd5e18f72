---------------------------- MODULE MCRpcClient ----------------------------
(* Small instances of RpcClient for TLC. *)
EXTENDS RpcClient, TLC

CONSTANTS w1, w2

WorkerSymmetry == Permutations({w1, w2})

\* Bound: a third xid is handed out where nothing has failed, and one handler
\* runs at a time from there on.  Two calls meet everything; the third is there
\* for replies that leave a gap.
Smooth ==
    /\ faults = 0 /\ crashed = "no"
    /\ Cardinality({w \in Workers : io[w] # Idle}) <= 1
    /\ \A w \in Workers : io[w].err = "OK"
    /\ \A x \in Xids : cbs[x] \in {<<>>, <<"OK">>}
ThirdCallIsSmooth == xid_ > 4 => Smooth
=============================================================================
