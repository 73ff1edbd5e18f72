---------------------------- MODULE ExactlyOnce ----------------------------
(***************************************************************************)
(* What the README promises a caller, as far as a server keeps it that     *)
(* remembers its replies in memory: a call that was made is run once by    *)
(* one server process, and its callback is given the outcome of a run,     *)
(* once.  With one process that is exactly once; a process that replaces   *)
(* it has forgotten the call and may run it once more.                     *)
(***************************************************************************)
EXTENDS Naturals

CONSTANTS Calls, Outcomes, Processes

VARIABLES
    process,      \* the server process
    runs,         \* how often each process ran a call
    outcome       \* "none", "pending", or what the callback was given

vars == <<process, runs, outcome>>

Init ==
    /\ process = 1
    /\ runs = [c \in Calls |-> [p \in Processes |-> 0]]
    /\ outcome = [c \in Calls |-> "none"]

Start(c) ==
    /\ outcome[c] = "none"
    /\ outcome' = [outcome EXCEPT ![c] = "pending"]
    /\ UNCHANGED <<process, runs>>

Run(c) ==
    /\ outcome[c] # "none" /\ runs[c][process] = 0
    /\ runs' = [runs EXCEPT ![c][process] = 1]
    /\ UNCHANGED <<process, outcome>>

Finish(c, o) ==
    /\ outcome[c] = "pending" /\ \E p \in Processes : runs[c][p] = 1
    /\ outcome' = [outcome EXCEPT ![c] = o]
    /\ UNCHANGED <<process, runs>>

Replace ==
    /\ process + 1 \in Processes
    /\ process' = process + 1
    /\ UNCHANGED <<runs, outcome>>

Next ==
    \/ \E c \in Calls : Start(c) \/ Run(c) \/ \E o \in Outcomes : Finish(c, o)
    \/ Replace

Spec == Init /\ [][Next]_vars
=============================================================================
