-------------------------- MODULE TimerGuardProofs --------------------------
(***************************************************************************)
(* TLAPS proofs about TimerGuard, for any nodes, objects, timeouts and     *)
(* length of the day, nodes set across the wrap included.                  *)
(***************************************************************************)
EXTENDS TimerGuard, TLAPS

\* The time of day cannot run ahead: it gains at most the millisecond that
\* every deadline loses, and the wrap sets it back.  So a node that is not due
\* is not marked, and nothing else is popped.
DeadlineInv ==
  \A n \in heap :
    /\ left[n] > 0 => clock + left[n] <= over_time_[n]
    /\ is_deleted_[n] => left[n] = 0

\* A node that was never added is not marked.
FreshInv == \A n \in Nodes \ added : ~is_deleted_[n]

Inv == TypeOK /\ DeadlineInv /\ FreshInv

-----------------------------------------------------------------------------

\* The time of day lies in the day and is never later than the time.
LEMMA TimeOfDayBounds ==
  ASSUME NEW t \in Nat
  PROVE  /\ TimeOfDay(t) \in 0 .. Wrap - 1
         /\ TimeOfDay(t) <= t
<1>1. CASE t < Wrap
  BY <1>1, ConstantsAssumption DEF TimeOfDay
<1>2. CASE t >= Wrap
  BY <1>2, ConstantsAssumption DEF TimeOfDay
<1> QED
  BY <1>1, <1>2, ConstantsAssumption

LEMMA InitInv == Init => Inv
BY ConstantsAssumption DEF Init, Inv, TypeOK, DeadlineInv, FreshInv

LEMMA TickInv == Inv /\ Tick => Inv'
<1> SUFFICES ASSUME Inv, Tick PROVE Inv'
  OBVIOUS
<1> USE DEF Inv, TypeOK, Tick, node
<1>1. clock + 1 \in Nat
  BY ConstantsAssumption
<1>2. clock' \in 0 .. Wrap - 1 /\ clock' <= clock + 1
  BY <1>1, TimeOfDayBounds
<1>3. TypeOK'
  BY <1>2
<1>4. DeadlineInv'
  BY <1>2, ConstantsAssumption DEF DeadlineInv
<1>5. FreshInv'
  BY DEF FreshInv
<1> QED
  BY <1>3, <1>4, <1>5

LEMMA AddInv ==
  ASSUME NEW n \in Nodes, NEW d \in Data, NEW timeout \in Timeouts
  PROVE  Inv /\ AddTimeNode(n, d, timeout) => Inv'
<1> SUFFICES ASSUME Inv, AddTimeNode(n, d, timeout) PROVE Inv'
  OBVIOUS
<1> USE DEF Inv, TypeOK, AddTimeNode
<1>1. timeout \in Nat /\ clock + timeout \in Nat
  BY ConstantsAssumption
<1>2. TypeOK'
  BY <1>1
<1>3. DeadlineInv'
  <2> SUFFICES ASSUME NEW m \in heap'
               PROVE  /\ left[m]' > 0 => clock' + left[m]' <= over_time_[m]'
                      /\ is_deleted_[m]' => left[m]' = 0
    BY DEF DeadlineInv
  <2>1. CASE m = n
    BY <1>1, <2>1 DEF FreshInv
  <2>2. CASE m # n
    BY <2>2 DEF DeadlineInv
  <2> QED
    BY <2>1, <2>2
<1>4. FreshInv'
  BY DEF FreshInv
<1> QED
  BY <1>2, <1>3, <1>4

\* What handle_overtime pops was due, and what it marks is.
LEMMA HandleInv ==
  Inv /\ HandleOvertime => /\ Inv'
                           /\ heap' \subseteq heap
                           /\ \A n \in heap \ heap' : left[n] = 0
<1> SUFFICES ASSUME Inv, HandleOvertime
             PROVE  /\ Inv'
                    /\ heap' \subseteq heap
                    /\ \A n \in heap \ heap' : left[n] = 0
  OBVIOUS
<1> USE DEF Inv, TypeOK, node
<1>1. PICK R \in SUBSET {n \in heap : is_deleted_[n]} :
        /\ heap' = heap \ R
        /\ \/ UNCHANGED is_deleted_
           \/ \E top \in heap : is_deleted_' = [is_deleted_ EXCEPT ![top] = Expired(top)]
  BY DEF HandleOvertime
<1>2. UNCHANGED <<clock, node, left, added>>
  BY DEF HandleOvertime
<1>3. heap' \subseteq heap /\ \A n \in heap \ heap' : left[n] = 0
  BY <1>1 DEF DeadlineInv
<1>4. CASE UNCHANGED is_deleted_
  BY <1>2, <1>3, <1>4 DEF DeadlineInv, FreshInv
<1>5. ASSUME NEW top \in heap,
             is_deleted_' = [is_deleted_ EXCEPT ![top] = Expired(top)]
      PROVE  Inv'
  <2>1. Expired(top) \in BOOLEAN
    BY DEF Expired
  <2>2. TypeOK'
    BY <1>2, <1>3, <1>5, <2>1
  <2>3. Expired(top) => left[top] = 0
    BY ConstantsAssumption DEF Expired, DeadlineInv
  <2>4. DeadlineInv'
    BY <1>2, <1>3, <1>5, <2>3 DEF DeadlineInv
  <2>5. FreshInv'
    BY <1>2, <1>5 DEF FreshInv
  <2> QED
    BY <2>2, <2>4, <2>5
<1> QED
  BY <1>1, <1>3, <1>4, <1>5

LEMMA StutterInv == Inv /\ UNCHANGED vars => Inv'
BY DEF Inv, TypeOK, DeadlineInv, FreshInv, vars, node

LEMMA NextInv == Inv /\ [Next]_vars => Inv'
BY TickInv, AddInv, HandleInv, StutterInv DEF Next

THEOREM Invariance == Spec => []Inv
BY InitInv, NextInv, PTL DEF Spec

\* Every variable of the timer keeps its type; the time of day stays in the day.
THEOREM TypeCorrect == Spec => []TypeOK
<1>1. Inv => TypeOK
  BY DEF Inv
<1> QED
  BY Invariance, <1>1, PTL

-----------------------------------------------------------------------------

\* No step but handle_overtime makes the timer let go of an object.
LEMMA ReleaseStep ==
  ASSUME Inv, [Next]_vars, NEW d \in Data, Held(d), ~Held(d)',
         NEW n \in heap, data_[n] = d
  PROVE  left[n] = 0
<1>1. CASE Tick
  BY <1>1 DEF Tick, Held, node
<1>2. CASE \E m \in Nodes, e \in Data, timeout \in Timeouts : AddTimeNode(m, e, timeout)
  <2>1. n \in heap' /\ data_'[n] = d
    BY <1>2 DEF AddTimeNode, Inv, TypeOK
  <2> QED
    BY <2>1 DEF Held
<1>3. CASE HandleOvertime
  <2>1. data_'[n] = d
    BY <1>3 DEF HandleOvertime, node
  <2>2. n \notin heap'
    BY <2>1 DEF Held
  <2> QED
    BY <1>3, <2>2, HandleInv
<1>4. CASE UNCHANGED vars
  BY <1>4 DEF vars, Held, node
<1> QED
  BY <1>1, <1>2, <1>3, <1>4 DEF Next

\* The timer lets go of an object only after the deadlines of all its nodes.
THEOREM NoEarlyReleaseCorrect == Spec => NoEarlyRelease
<1>1. Inv /\ [Next]_vars =>
        [\A d \in Data : Held(d) /\ ~Held(d)' => \A n \in heap : data_[n] = d => left[n] = 0]_vars
  BY ReleaseStep
<1> QED
  BY Invariance, <1>1, PTL DEF Spec, NoEarlyRelease
=============================================================================
