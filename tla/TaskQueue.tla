------------------------------ MODULE TaskQueue ------------------------------
(***************************************************************************)
(* task_queue_t and Thread_pool (src/version1.0): one thread adds tasks,   *)
(* the workers take them.  A worker runs its task while it holds the       *)
(* mutex, and the condition is signalled after the mutex is released.      *)
(*                                                                         *)
(* close is never set, so that no worker ever ends.  The dummy head of the *)
(* list is left out, and size is Len(tasks).                               *)
(***************************************************************************)
EXTENDS Integers, Sequences

CONSTANTS
  Workers,  \* the threads that thread_init has created
  Tasks,    \* what can be added
  Resubmit  \* whether a task can be added again once it has run

ASSUME QueueAssumption ==
  /\ Workers # {}
  /\ Resubmit \in BOOLEAN

VARIABLES
  tasks,       \* the list behind the dummy node
  wpc,         \* where each worker is: before the lock, waiting, in its task
  running,     \* the task each worker runs or has run last
  signalling,  \* whether the adder is between unlock and signal
  pending,     \* history: the tasks added that have not been finished
  added        \* history: the tasks ever added

queue == <<tasks, wpc, running, signalling, pending, added>>

NoTask == "no task"

QueueTypeOK ==
  /\ tasks \in Seq(Tasks)
  /\ wpc \in [Workers -> {"top", "asleep", "run"}]
  /\ running \in [Workers -> Tasks \cup {NoTask}]
  /\ signalling \in BOOLEAN
  /\ pending \subseteq added
  /\ added \subseteq Tasks

QueueInit ==
  /\ tasks = <<>>
  /\ wpc = [w \in Workers |-> "top"]
  /\ running = [w \in Workers |-> NoTask]
  /\ signalling = FALSE
  /\ pending = {}
  /\ added = {}

\* Only a running task holds the mutex beyond one action.
MutexFree == \A w \in Workers : wpc[w] # "run"

\* The list with a new task.
Linked(t) == <<t>> \o tasks

\* Mutant: the signal is left out for the first task of a list.
SignalsNext == tasks # <<>>

\* Whether add comes to its signal.
Signals == TRUE

\* add, up to its unlock.
Add(t) ==
  /\ ~signalling
  /\ MutexFree
  /\ tasks' = Linked(t)
  /\ signalling' = Signals
  /\ pending' = pending \cup {t}
  /\ added' = added \cup {t}
  /\ UNCHANGED <<wpc, running>>

\* A task is added when it is not there already (RequestServer shows that the
\* server's one-shot events see to that).
Submit(t) ==
  /\ t \notin pending
  /\ Resubmit \/ t \notin added
  /\ Add(t)

Woken(w) == [wpc EXCEPT ![w] = "top"]

\* pthread_cond_signal wakes one of the waiters, if there are any.
Signal ==
  /\ signalling
  /\ signalling' = FALSE
  /\ \/ \E w \in Workers : wpc[w] = "asleep" /\ wpc' = Woken(w)
     \/ (\A w \in Workers : wpc[w] # "asleep") /\ UNCHANGED wpc
  /\ UNCHANGED <<tasks, running, pending, added>>

Spurious(w) ==
  /\ wpc[w] = "asleep"
  /\ wpc' = Woken(w)
  /\ UNCHANGED <<tasks, running, signalling, pending, added>>

\* Mutant: the task stays linked.
StillLinked(s) == s

\* The list without its first task.
Unlinked(s) == Tail(s)

\* The test of the worker's while.
MustWait == tasks = <<>>

\* The worker takes the mutex and waits, or takes a task and keeps the mutex.
Take(w) ==
  /\ wpc[w] = "top"
  /\ MutexFree
  /\ IF MustWait
     THEN /\ wpc' = [wpc EXCEPT ![w] = "asleep"]
          /\ UNCHANGED <<tasks, running>>
     ELSE /\ wpc' = [wpc EXCEPT ![w] = "run"]
          /\ running' = [running EXCEPT ![w] = Head(tasks)]
          /\ tasks' = Unlinked(tasks)
  /\ UNCHANGED <<signalling, pending, added>>

\* The task has returned: it is deleted and the mutex released.
Done(w) ==
  /\ wpc[w] = "run"
  /\ wpc' = [wpc EXCEPT ![w] = "top"]
  /\ pending' = pending \ {running[w]}
  /\ UNCHANGED <<tasks, running, signalling, added>>

QueueNext ==
  \/ \E t \in Tasks : Submit(t)
  \/ Signal
  \/ \E w \in Workers : Spurious(w) \/ Take(w) \/ Done(w)

\* The adder gets to its signal, tasks end and some worker that is awake gets
\* the mutex; which one is up to the scheduler.
QueueSpec ==
  /\ QueueInit /\ [][QueueNext]_queue
  /\ WF_queue(Signal)
  /\ WF_queue(\E w \in Workers : Take(w) \/ Done(w))

-----------------------------------------------------------------------------

InQueue == {tasks[i] : i \in DOMAIN tasks}
Running == {running[w] : w \in {v \in Workers : wpc[v] = "run"}}

\* Nobody is left to sleep on a task: with tasks in the list some worker is on
\* its way to the mutex, or will be woken by the signal after the unlock.
NoTaskStranded ==
  tasks # <<>> => signalling \/ \E w \in Workers : wpc[w] # "asleep"

\* What was added and is not finished is in the list once or with one worker,
\* and nothing else is: no task is lost or run twice.
EachTaskOnce ==
  /\ \A i, j \in DOMAIN tasks : tasks[i] = tasks[j] => i = j
  /\ \A v, w \in Workers : wpc[v] = "run" /\ wpc[w] = "run" => v = w
  /\ InQueue \cap Running = {}
  /\ pending = InQueue \cup Running
=============================================================================
