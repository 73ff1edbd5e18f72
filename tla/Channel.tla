------------------------------ MODULE Channel ------------------------------
(***************************************************************************)
(* What the two ends take Send and Receive for: messages arrive whole and  *)
(* at most once, and in order when there is one reader.                    *)
(***************************************************************************)
EXTENDS Naturals, Sequences, SequencesExt

CONSTANT Ordered

VARIABLES
    sent,      \* number of messages handed to Send
    got        \* the messages dispatched, by their position among the sent

Init == sent = 0 /\ got = <<>>

Send == sent' = sent + 1 /\ UNCHANGED got

Deliver(n) ==
    /\ n \in 1..sent /\ ~Contains(got, n)
    /\ Ordered => n = Len(got) + 1
    /\ got' = Append(got, n) /\ UNCHANGED sent

Next == Send \/ \E n \in 1..sent : Deliver(n)

Spec == Init /\ [][Next]_<<sent, got>>
=============================================================================
