------------------------- MODULE ThreadStartProofs --------------------------
(***************************************************************************)
(* TLAPS proofs about ThreadStart, for a pool of any size and with or      *)
(* without failures of pthread_create.                                     *)
(***************************************************************************)
EXTENDS ThreadStart, TLAPS

\* loop_ is set, to the thread's own loop, only when the thread is in loop(),
\* and by then the callback has run; a latch is shut until its thread runs.
ThreadInv ==
  \A t \in Threads :
    /\ loop_[t] # nullptr => loop_[t] = t /\ tpc[t] = "loop"
    /\ tpc[t] \in {"publish", "loop"} => t \in set_up
    /\ tpc[t] \in {"none", "started"} => count[t] = 1

\* Threads are created in their order.
OrderInv ==
  /\ mpc \notin {"create", "running"} => cur \in Threads
  /\ \A t \in Threads : t > cur \/ (t = cur /\ mpc = "create") => tpc[t] = "none"

Inv == TypeOK /\ ThreadInv /\ OrderInv /\ NoLostNotify /\ LoopsRunning

-----------------------------------------------------------------------------

LEMMA InitInv == Init => Inv
BY ConstantsAssumption
   DEF Init, Inv, TypeOK, ThreadInv, OrderInv, NoLostNotify, LoopsRunning, Threads, nullptr, FreshLatch

\* What the starting thread and the spurious wake-ups do.
LEMMA StarterInv == Inv /\ (Starter \/ Spurious) => Inv'
<1> SUFFICES ASSUME Inv, Starter \/ Spurious PROVE Inv'
  OBVIOUS
<1> USE ConstantsAssumption
    DEF Inv, TypeOK, ThreadInv, OrderInv, NoLostNotify, LoopsRunning, Threads, nullptr
<1>1. CASE PoolStarted
  BY <1>1 DEF PoolStarted
<1>2. CASE CreateThread
  BY <1>2 DEF CreateThread
<1>3. CASE CreateFails
  BY <1>3 DEF CreateFails
<1>4. CASE LatchWait
  BY <1>4 DEF LatchWait
<1>5. CASE LoopWait
  <2>1. CASE loop_[cur] = nullptr
    BY <1>5, <2>1 DEF LoopWait
  <2>2. CASE loop_[cur] # nullptr
    <3>1. /\ cur \in Threads
          /\ loop_[cur] = cur
          /\ tpc[cur] = "loop"
          /\ cur \in set_up
      BY <1>5, <2>2 DEF LoopWait
    <3>2. /\ mpc' = "create"
          /\ cur' = cur + 1
          /\ loops_' = Append(loops_, cur)
          /\ UNCHANGED <<tpc, count, loop_, set_up>>
      BY <1>5, <2>2, <3>1 DEF LoopWait
    <3>3. loops_' \in Seq(Threads) /\ cur' \in 1 .. NumThreads + 1
      BY <3>1, <3>2
    <3>4. TypeOK'
      BY <3>2, <3>3
    <3>5. ThreadInv' /\ NoLostNotify'
      BY <3>2
    <3>6. OrderInv'
      BY <1>5, <3>1, <3>2 DEF LoopWait
    <3>7. LoopsRunning'
      BY <3>1, <3>2
    <3> QED
      BY <3>4, <3>5, <3>6, <3>7
  <2> QED
    BY <2>1, <2>2
<1>6. CASE Spurious
  BY <1>6 DEF Spurious
<1> QED
  BY <1>1, <1>2, <1>3, <1>4, <1>5, <1>6 DEF Starter

\* What a new thread does; its notifications come with the conditions they are
\* about, under one lock.
LEMMA StartingInv ==
  ASSUME NEW t \in Threads
  PROVE  Inv /\ Starting(t) => Inv'
<1> SUFFICES ASSUME Inv, Starting(t) PROVE Inv'
  OBVIOUS
<1> USE ConstantsAssumption
    DEF Inv, TypeOK, ThreadInv, OrderInv, NoLostNotify, LoopsRunning, Threads, nullptr
<1>1. CASE CountDown(t)
  BY <1>1 DEF CountDown, Opened
<1>2. CASE RunCallback(t)
  BY <1>2 DEF RunCallback
<1>3. CASE Publish(t)
  BY <1>3 DEF Publish, MayPublish, Notified
<1> QED
  BY <1>1, <1>2, <1>3 DEF Starting

\* Every variable keeps its type and the handshakes their meaning.
THEOREM InvCorrect == Spec => []Inv
<1>1. Inv /\ UNCHANGED vars => Inv'
  BY DEF vars, Inv, TypeOK, ThreadInv, OrderInv, NoLostNotify, LoopsRunning
<1>2. Inv /\ [Next]_vars => Inv'
  BY <1>1, StarterInv, StartingInv DEF Next
<1> QED
  BY InitInv, <1>2, PTL DEF Spec

\* No wait of the start-up (Thread::start, start_loop) misses its notification.
THEOREM NoLostNotifyCorrect == Spec => []NoLostNotify
<1>1. Inv => NoLostNotify
  BY DEF Inv
<1> QED
  BY InvCorrect, <1>1, PTL

\* The pool holds running, set-up loops only, in the order of their threads
\* (EventLoopPool::start).
THEOREM LoopsRunningCorrect == Spec => []LoopsRunning
<1>1. Inv => LoopsRunning
  BY DEF Inv
<1> QED
  BY InvCorrect, <1>1, PTL

\* Every variable keeps its type.
THEOREM TypeCorrect == Spec => []TypeOK
<1>1. Inv => TypeOK
  BY DEF Inv
<1> QED
  BY InvCorrect, <1>1, PTL
=============================================================================
