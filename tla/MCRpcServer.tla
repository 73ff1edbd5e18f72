---------------------------- MODULE MCRpcServer ----------------------------
(* Small instances of RpcServer for TLC. *)
EXTENDS RpcServer, TLC

CONSTANTS k1, k2

\* Three processes: the first two take the first value of an unseeded random(),
\* the third one's is another, as when it comes after a client seeded random().
UnseededThenSeeded == <<71, 71, 72>>

ConnSymmetry == Permutations({k1, k2})
=============================================================================
