---------------------------- MODULE Connections ----------------------------
(* What the two ends of one TCP connection per client see of each other. *)
EXTENDS Naturals, FiniteSets

CONSTANT Clients     \* client processes, each with one connection

VARIABLES
    clt,      \* per client: its end of the connection
    srv,      \* per client: the server's end of it
    data      \* per client: the message on its way, if any

connVars == <<clt, srv, data>>

ConnInit ==
    /\ clt = [c \in Clients |-> "none"]
    /\ srv = [c \in Clients |-> "none"]
    /\ data = [c \in Clients |-> "none"]

Set(f, c, v) == [f EXCEPT ![c] = v]
=============================================================================
