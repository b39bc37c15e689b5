------------------------------ MODULE TimeHeap ------------------------------
(***************************************************************************)
(* The heap of timers of src/version1.0: heap.cpp.  The loops of up and    *)
(* down are steps, so that the order of the heap can be stated while it is *)
(* being restored.  A node is its key.  An insertion does not ask whether  *)
(* there is room: what the program does after it has written beyond the    *)
(* array is undefined, and the model ends there.                           *)
(***************************************************************************)
EXTENDS Integers, FiniteSets

CONSTANTS
  Keys,      \* the times at which timers run out
  HEAPSIZE   \* the length of the array, whose first element is not used

ASSUME HeapAssumption ==
  /\ Keys \subseteq Int
  /\ Keys # {}
  /\ HEAPSIZE \in Nat \ {0}

VARIABLES
  heap,  \* the array
  size,  \* how many nodes there are
  pos,   \* the node that may be out of order
  loop   \* which loop is running: up, down or none, or the array is overrun

heapVars == <<heap, size, pos, loop>>

Places == 1 .. HEAPSIZE - 1

HeapTypeOK ==
  /\ heap \in [Places -> Keys]
  /\ size \in 0 .. HEAPSIZE - 1
  /\ pos \in 0 .. HEAPSIZE - 1
  /\ loop \in {"none", "up", "down", "overrun"}
  /\ loop \in {"up", "down"} => pos >= 1
  /\ loop = "up" => pos <= size

\* The array is not initialized.
HeapInit ==
  /\ heap \in {[p \in Places |-> k] : k \in Keys}
  /\ size = 0
  /\ pos = 0
  /\ loop = "none"

Swapped(p, q) == [heap EXCEPT ![p] = heap[q], ![q] = heap[p]]

\* pq_insert.
pq_insert(k) ==
  /\ loop = "none"
  /\ \/ /\ size + 1 \in Places
        /\ size' = size + 1
        /\ heap' = [heap EXCEPT ![size + 1] = k]
        /\ pos' = size + 1
        /\ loop' = "up"
     \/ /\ size + 1 \notin Places
        /\ loop' = "overrun"
        /\ UNCHANGED <<heap, size, pos>>

\* Mutant: the node is compared with its neighbour.
NeighbourOf(p) == p - 1

ParentOf(p) == p \div 2

up ==
  /\ loop = "up"
  /\ \/ /\ pos > 1 /\ heap[pos] < heap[ParentOf(pos)]
        /\ heap' = Swapped(pos, ParentOf(pos))
        /\ pos' = ParentOf(pos)
        /\ UNCHANGED <<size, loop>>
     \/ /\ ~(pos > 1 /\ heap[pos] < heap[ParentOf(pos)])
        /\ loop' = "none"
        /\ UNCHANGED <<heap, size, pos>>

\* pq_pop, which is called when the heap is not empty.
pq_pop ==
  /\ loop = "none" /\ size > 0
  /\ heap' = [heap EXCEPT ![1] = heap[size]]
  /\ size' = size - 1
  /\ pos' = 1
  /\ loop' = "down"

\* Mutant: the left child is taken whatever the right one is.
LeftChild(p) == 2 * p

\* The child with the smaller key.
SmallerChild(p) ==
  IF 2 * p < size /\ heap[2 * p] > heap[2 * p + 1] THEN 2 * p + 1 ELSE 2 * p

down ==
  /\ loop = "down"
  /\ \/ /\ 2 * pos <= size /\ heap[SmallerChild(pos)] < heap[pos]
        /\ heap' = Swapped(SmallerChild(pos), pos)
        /\ pos' = SmallerChild(pos)
        /\ UNCHANGED <<size, loop>>
     \/ /\ ~(2 * pos <= size /\ heap[SmallerChild(pos)] < heap[pos])
        /\ loop' = "none"
        /\ UNCHANGED <<heap, size, pos>>

HeapNext == (\E k \in Keys : pq_insert(k)) \/ up \/ pq_pop \/ down

HeapSpec == HeapInit /\ [][HeapNext]_heapVars

-----------------------------------------------------------------------------

\* Between two calls no key is smaller than the one above it, as long as the array
\* has not been overrun.
HeapOrdered ==
  loop = "none" => \A p \in 2 .. size : heap[p \div 2] <= heap[p]

\* The loops of up and down read and exchange only nodes that are in use, which
\* are in the array: up a node and its parent, down a node and its children.
InsideArray ==
  /\ 1 .. size \subseteq Places
  /\ loop = "up" /\ pos > 1 => {pos, ParentOf(pos)} \subseteq 1 .. size
  /\ loop = "down" /\ 2 * pos <= size => {pos, 2 * pos, SmallerChild(pos)} \subseteq 1 .. size

\* The heap is a queue from which the least key is taken: nothing is lost or
\* taken twice when nodes change their places, until the array is overrun.
Queue ==
  INSTANCE PriorityQueue WITH
    bag <- [k \in Keys |-> Cardinality({p \in 1 .. size : heap[p] = k})]

TakesTheLeast == Queue!PQSpec
=============================================================================
