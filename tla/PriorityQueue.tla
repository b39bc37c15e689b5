---------------------------- MODULE PriorityQueue ----------------------------
(***************************************************************************)
(* What the heap of timers promises: a bag of keys, from which the least   *)
(* key is taken.                                                           *)
(***************************************************************************)
EXTENDS Integers

CONSTANT Keys

VARIABLE bag  \* how often a key is in the queue

PQInit == bag = [k \in Keys |-> 0]

Insert(k) == bag' = [bag EXCEPT ![k] = @ + 1]

Least(k) == bag[k] > 0 /\ \A j \in Keys : bag[j] > 0 => k <= j

Pop(k) == Least(k) /\ bag' = [bag EXCEPT ![k] = @ - 1]

PQSpec == PQInit /\ [][\E k \in Keys : Insert(k) \/ Pop(k)]_bag
=============================================================================
