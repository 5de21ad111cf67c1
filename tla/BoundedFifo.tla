---------------------------- MODULE BoundedFifo ----------------------------
(***************************************************************************)
(* What a FrVmChannel promises its two ends: put appends while fewer than  *)
(* Capacity messages are queued, get takes the oldest message of a queue   *)
(* that is not empty, and every message a producer stamps reaches the      *)
(* queue once and in the producer's order.  No locks, waiting or waking.   *)
(***************************************************************************)
EXTENDS Naturals, Sequences

CONSTANTS Producers, Consumers, Capacity, Stamps, NoThread

VARIABLES queue, nextPut, got

Init ==
    /\ queue = <<>>
    /\ nextPut = [t \in Producers |-> 0]
    /\ got = [t \in Consumers |-> [from |-> NoThread, stamp |-> 0]]

Put(t) ==
    /\ Len(queue) < Capacity
    /\ queue' = Append(queue, [from |-> t, stamp |-> nextPut[t]])
    /\ nextPut' = [nextPut EXCEPT ![t] = (@ + 1) % Stamps]
    /\ UNCHANGED got

Get(t) ==
    /\ queue # <<>>
    /\ got' = [got EXCEPT ![t] = Head(queue)]
    /\ queue' = Tail(queue)
    /\ UNCHANGED nextPut

Next == (\E t \in Producers : Put(t)) \/ (\E t \in Consumers : Get(t))

Spec == Init /\ [][Next]_<<queue, nextPut, got>>
=============================================================================
