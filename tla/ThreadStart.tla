----------------------------- MODULE ThreadStart -----------------------------
(***************************************************************************)
(* EventLoopPool::start and the threads it starts one after the other: two *)
(* handshakes per thread, the latch of Thread::start and the condition of  *)
(* EventLoopThread::start_loop, before the loop is handed out.             *)
(*                                                                         *)
(* What is done under one mutex is one action: mutex_lock.h has the lock   *)
(* for the scope, and no scope here calls another.  A condition variable   *)
(* may wake its waiter without a signal.                                   *)
(***************************************************************************)
EXTENDS Integers, Sequences

CONSTANTS
  NumThreads,  \* thread_num_
  MayFail      \* whether pthread_create may fail

ASSUME ConstantsAssumption ==
  /\ NumThreads \in Nat
  /\ MayFail \in BOOLEAN

Threads == 1 .. NumThreads
nullptr == 0

VARIABLES
  mpc,     \* where the starting thread is: in start, in one of the waits, at the end
  cur,     \* the thread it starts (i + 1)
  tpc,     \* where each new thread is
  count,   \* the count of each thread's latch
  loop_,   \* loop_ of each EventLoopThread: its loop, which has its number
  loops_,  \* what the pool has been given
  set_up   \* history: the loops the callback has run on, 0 for the base loop

vars == <<mpc, cur, tpc, count, loop_, loops_, set_up>>

TypeOK ==
  /\ mpc \in {"create", "latch", "latch_asleep", "loop", "loop_asleep", "running"}
  /\ cur \in 1 .. NumThreads + 1
  /\ tpc \in [Threads -> {"none", "started", "init", "publish", "loop"}]
  /\ count \in [Threads -> 0 .. 1]
  /\ loop_ \in [Threads -> Threads \cup {nullptr}]
  /\ loops_ \in Seq(Threads)
  /\ set_up \subseteq Threads \cup {0}

\* The latch of a Thread opens after one count_down.
FreshLatch == 1

Init ==
  /\ mpc = "create"
  /\ cur = 1
  /\ tpc = [t \in Threads |-> "none"]
  /\ count = [t \in Threads |-> FreshLatch]
  /\ loop_ = [t \in Threads |-> nullptr]
  /\ loops_ = <<>>
  /\ set_up = {}

\* The program goes to the end when every thread has been started; a pool of no
\* threads runs the callback on the base loop.
PoolStarted ==
  /\ mpc = "create" /\ cur = NumThreads + 1
  /\ mpc' = "running"
  /\ set_up' = IF NumThreads = 0 THEN {0} ELSE set_up
  /\ UNCHANGED <<cur, tpc, count, loop_, loops_>>

CreateThread ==
  /\ mpc = "create" /\ cur \in Threads
  /\ mpc' = "latch"
  /\ tpc' = [tpc EXCEPT ![cur] = "started"]
  /\ UNCHANGED <<cur, count, loop_, loops_, set_up>>

\* Thread::start says nothing of the failure: start_loop goes on to its wait.
CreateFails ==
  /\ MayFail
  /\ mpc = "create" /\ cur \in Threads
  /\ mpc' = "loop"
  /\ UNCHANGED <<cur, tpc, count, loop_, loops_, set_up>>

LatchWait ==
  /\ mpc = "latch"
  /\ mpc' = IF count[cur] > 0 THEN "latch_asleep" ELSE "loop"
  /\ UNCHANGED <<cur, tpc, count, loop_, loops_, set_up>>

LoopWait ==
  /\ mpc = "loop"
  /\ IF loop_[cur] = nullptr
     THEN mpc' = "loop_asleep" /\ UNCHANGED <<cur, loops_>>
     ELSE /\ mpc' = "create"
          /\ cur' = cur + 1
          /\ loops_' = Append(loops_, loop_[cur])
  /\ UNCHANGED <<tpc, count, loop_, set_up>>

\* A wait in a while tests its condition again.
Spurious ==
  /\ \/ mpc = "latch_asleep" /\ mpc' = "latch"
     \/ mpc = "loop_asleep" /\ mpc' = "loop"
  /\ UNCHANGED <<cur, tpc, count, loop_, loops_, set_up>>

\* Mutant: the count is tested before it is decremented.
OpenedBefore(c) == c = 0

\* Whether a count_down from c wakes the waiters.
Opened(c) == c - 1 = 0

\* The new thread's first act (start_thread).
CountDown(t) ==
  /\ tpc[t] = "started"
  /\ tpc' = [tpc EXCEPT ![t] = "init"]
  /\ count' = [count EXCEPT ![t] = @ - 1]
  /\ mpc' = IF Opened(count[t]) /\ mpc = "latch_asleep" /\ cur = t THEN "latch" ELSE mpc
  /\ UNCHANGED <<cur, loop_, loops_, set_up>>

\* thread_func has a loop on its stack and hands it to the callback.
RunCallback(t) ==
  /\ tpc[t] = "init"
  /\ tpc' = [tpc EXCEPT ![t] = "publish"]
  /\ set_up' = set_up \cup {t}
  /\ UNCHANGED <<mpc, cur, count, loop_, loops_>>

\* Mutant: the loop is shown before the callback has seen it.
PublishedFirst(pc) == pc \in {"init", "publish"}

\* When thread_func comes to the second scope.
MayPublish(pc) == pc = "publish"

\* Mutant: nobody is notified.
NoNotify(t) == mpc

\* Where the starting thread is after cond_.notify().
Notified(t) == IF mpc = "loop_asleep" /\ cur = t THEN "loop" ELSE mpc

Publish(t) ==
  /\ MayPublish(tpc[t])
  /\ tpc' = [tpc EXCEPT ![t] = "loop"]
  /\ loop_' = [loop_ EXCEPT ![t] = t]
  /\ mpc' = Notified(t)
  /\ UNCHANGED <<cur, count, loops_, set_up>>

Starter == PoolStarted \/ CreateThread \/ CreateFails \/ LatchWait \/ LoopWait

Starting(t) == CountDown(t) \/ RunCallback(t) \/ Publish(t)

Next == Starter \/ Spurious \/ \E t \in Threads : Starting(t)

\* Threads are scheduled; nothing wakes a waiter but the notifications.
Spec ==
  /\ Init /\ [][Next]_vars
  /\ WF_vars(Starter)
  /\ \A t \in Threads : WF_vars(Starting(t))

-----------------------------------------------------------------------------

\* No wait misses its notification: whoever sleeps on a latch or on loop_
\* sleeps on a condition that does not hold yet.
NoLostNotify ==
  /\ mpc = "latch_asleep" => count[cur] > 0
  /\ mpc = "loop_asleep" => loop_[cur] = nullptr

\* Every loop in the pool is the loop of a thread that has run the callback on
\* it and is in loop() or about to be, and the pool has them in their order: no
\* wake-up, spurious or from the wrong handshake, hands out anything else.
LoopsRunning ==
  /\ cur = Len(loops_) + 1
  /\ \A i \in DOMAIN loops_ : loops_[i] = i /\ tpc[i] = "loop" /\ i \in set_up

\* pthread_create has failed for the thread being started.
Failed == mpc \in {"loop", "loop_asleep"} /\ tpc[cur] = "none"

\* The pool is started in the end, every loop handed over, unless a thread could
\* not be created: then start_loop waits for ever.
PoolStarts == <>(mpc = "running" \/ Failed)
=============================================================================
