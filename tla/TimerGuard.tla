------------------------------ MODULE TimerGuard ------------------------------
(***************************************************************************)
(* TimerGuard and TimerNode (src/timer): a min-heap of nodes, each with a  *)
(* shared_ptr to the object (a connection) whose time it measures.  An     *)
(* object that is used again gets another node; the timer lets go of it    *)
(* when the last of its nodes is popped.                                   *)
(*                                                                         *)
(* Times are milliseconds modulo 10000 seconds.  One thread uses the       *)
(* timer; the clock ticks between its calls.  The heap is the set of its   *)
(* nodes: which of several smallest ones is on top is left open.           *)
(***************************************************************************)
EXTENDS Integers

CONSTANTS
  Nodes,     \* the TimerNodes; each is added at most once
  Data,      \* the objects they share
  Timeouts,  \* the arguments of add_time_node
  Wrap       \* where the time of day starts again (the code: 10000 seconds)

ASSUME ConstantsAssumption ==
  /\ Wrap \in Nat \ {0}
  /\ Timeouts \subseteq Nat

VARIABLES
  clock,       \* what gettimeofday gives, modulo Wrap
  heap,        \* the nodes in timer_node_heap
  data_,       \* the object of a node
  over_time_,  \* when the node expires
  is_deleted_, \* whether the node has been marked
  left,        \* history: the real time until the node's deadline
  added        \* history: the nodes ever added

node == <<data_, over_time_>>
vars == <<clock, heap, node, is_deleted_, left, added>>

TypeOK ==
  /\ clock \in 0 .. Wrap - 1
  /\ heap \subseteq added
  /\ added \subseteq Nodes
  /\ data_ \in [Nodes -> Data]
  /\ over_time_ \in [Nodes -> Nat]
  /\ is_deleted_ \in [Nodes -> BOOLEAN]
  /\ left \in [Nodes -> Nat]

\* An empty timer at any time of the day; nodes not added yet have no meaning.
Init ==
  /\ clock \in 0 .. Wrap - 1
  /\ heap = {}
  /\ data_ \in {[n \in Nodes |-> d] : d \in Data}
  /\ over_time_ = [n \in Nodes |-> 0]
  /\ is_deleted_ = [n \in Nodes |-> FALSE]
  /\ left = [n \in Nodes |-> 0]
  /\ added = {}

\* The milliseconds of a time, as TimerNode and is_valid take them.
TimeOfDay(t) == t % Wrap

\* A millisecond passes.
Tick ==
  /\ clock' = TimeOfDay(clock + 1)
  /\ left' = [n \in Nodes |-> IF left[n] = 0 THEN 0 ELSE left[n] - 1]
  /\ UNCHANGED <<heap, node, is_deleted_, added>>

AddTimeNode(n, d, timeout) ==
  /\ n \notin added
  /\ heap' = heap \cup {n}
  /\ data_' = [data_ EXCEPT ![n] = d]
  /\ over_time_' = [over_time_ EXCEPT ![n] = clock + timeout]
  /\ left' = [left EXCEPT ![n] = timeout]
  /\ added' = added \cup {n}
  /\ UNCHANGED <<clock, is_deleted_>>

\* Mutants: a millisecond early, a millisecond late.
ExpiredEarly(n) == clock + 1 >= over_time_[n]
ExpiredLate(n) == clock > over_time_[n]

\* The test of is_valid, which marks the node then.
Expired(n) == clock >= over_time_[n]

\* The nodes of R leave a heap of the nodes h before all others can.
PoppedFirst(R, h) == \A m \in R, n \in h \ R : over_time_[m] <= over_time_[n]

\* One call pops marked nodes R from the top until it meets an empty heap or a
\* node that is not marked.  That one it marks if it has expired, and leaves:
\* is_valid returns false in either case.
HandleOvertime ==
  \E R \in SUBSET {n \in heap : is_deleted_[n]} :
    /\ PoppedFirst(R, heap)
    /\ heap' = heap \ R
    /\ \/ heap' = {} /\ UNCHANGED is_deleted_
       \/ \E top \in heap \ R :
            /\ PoppedFirst({top}, heap \ R)
            /\ ~is_deleted_[top]
            /\ is_deleted_' = [is_deleted_ EXCEPT ![top] = Expired(top)]
    /\ UNCHANGED <<clock, node, left, added>>

Next ==
  \/ Tick
  \/ \E n \in Nodes, d \in Data, timeout \in Timeouts : AddTimeNode(n, d, timeout)
  \/ HandleOvertime

\* The user of the timer calls handle_overtime in a loop (timer/test/test.cc),
\* so that calls fall in every millisecond of the day again and again.
Fairness ==
  /\ WF_vars(Tick)
  /\ \A t \in 0 .. Wrap - 1 : SF_vars(clock = t /\ HandleOvertime)

Spec == Init /\ [][Next]_vars /\ Fairness

-----------------------------------------------------------------------------

\* The object is held by the timer.
Held(d) == \E n \in heap : data_[n] = d

\* The timer lets go of an object only when the deadlines of all its nodes have
\* passed in real time: an object that is used again outlives its first node,
\* and the wrap of the time of day makes nothing expire early.
NoEarlyRelease ==
  [][\A d \in Data : Held(d) /\ ~Held(d)' => \A n \in heap : data_[n] = d => left[n] = 0]_vars

\* Every node whose time lies in the day it was set is popped in the end, by the
\* one or two calls that it takes, however many nodes have expired; those of the
\* next day, which are not, stay behind it in the heap.
ExpiresInTheEnd == \A n \in Nodes : n \in heap /\ over_time_[n] < Wrap ~> n \notin heap

\* Every node is popped in the end: the timer keeps no object for ever
\* (designTimer.md:25).
AllExpireInTheEnd == \A n \in Nodes : n \in heap ~> n \notin heap
=============================================================================
