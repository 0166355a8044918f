------------------------------- MODULE Channel -------------------------------
(***************************************************************************)
(* What a user of a producer object is promised: per type, a lossless      *)
(* first-in first-out channel that never holds more than Capacity items.   *)
(* Items are numbered in the order of sending, so the channel's content is *)
(* the interval taken+1 .. sent and need not be stored.                    *)
(***************************************************************************)
EXTENDS Naturals

CONSTANTS Types, Capacity

VARIABLES sent, taken

Init ==
    /\ sent = [t \in Types |-> 0]
    /\ taken = [t \in Types |-> 0]

Send(t) ==
    /\ sent[t] - taken[t] < Capacity
    /\ sent' = [sent EXCEPT ![t] = @ + 1]
    /\ UNCHANGED taken

Take(t) ==
    /\ taken[t] < sent[t]
    /\ taken' = [taken EXCEPT ![t] = @ + 1]
    /\ UNCHANGED sent

Next == \E t \in Types : Send(t) \/ Take(t)

Spec == Init /\ [][Next]_<<sent, taken>>

=============================================================================
