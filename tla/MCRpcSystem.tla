---------------------------- MODULE MCRpcSystem ----------------------------
(* Small instances of RpcSystem for TLC. *)
EXTENDS RpcSystem, TLC

CONSTANTS w1, w2

OneServer   == <<71>>

\* Two processes that take the first value of an unseeded random(), and, as a
\* what-if, two of which the second was seeded.
UnseededTwo == <<71, 71>>
SeededTwo   == <<71, 72>>

WorkerSymmetry == Permutations({w1, w2})
=============================================================================
