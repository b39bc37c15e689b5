----------------------------- MODULE FunctorQueue -----------------------------
(***************************************************************************)
(* What an EventLoop promises the threads that hand it functors, whatever  *)
(* the wake-up protocol underneath: a functor that was queued waits its    *)
(* turn, every functor runs once, in the order of the queue, and a functor *)
(* given to run_in_loop by the loop's own thread runs at once.             *)
(***************************************************************************)
EXTENDS Sequences

CONSTANT Functors   \* the closures that can be handed to the loop

VARIABLES
  waiting,   \* queued and not started yet, oldest first
  ran,       \* the queued functors that have started, in order
  inlined    \* the functors run_in_loop ran in the loop's own thread

vars == <<waiting, ran, inlined>>

Init ==
  /\ waiting = <<>>
  /\ ran = <<>>
  /\ inlined = {}

Enqueue(f) ==
  /\ waiting' = Append(waiting, f)
  /\ UNCHANGED <<ran, inlined>>

RunNext ==
  /\ waiting # <<>>
  /\ ran' = Append(ran, Head(waiting))
  /\ waiting' = Tail(waiting)
  /\ UNCHANGED inlined

RunInline(f) ==
  /\ inlined' = inlined \cup {f}
  /\ UNCHANGED <<waiting, ran>>

Next ==
  \/ RunNext
  \/ \E f \in Functors : Enqueue(f) \/ RunInline(f)

Safety == Init /\ [][Next]_vars

Spec == Safety /\ WF_vars(RunNext)
===============================================================================
