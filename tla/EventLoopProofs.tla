--------------------------- MODULE EventLoopProofs ---------------------------
(***************************************************************************)
(* TLAPS proofs about EventLoop, for any callers, functors and channels.   *)
(***************************************************************************)
EXTENDS EventLoop, SequenceTheorems, TLAPS

-----------------------------------------------------------------------------
(* The inductive invariant *)

\* The epoll set and the places a registered channel can be in.  A deaf one is
\* not armed, and none becomes deaf while its callback runs.
ChannelInv ==
  /\ \A c \in Watched :
       status[c] = "ADD" <=> \/ c \in armed
                             \/ c \in active_vector
                             \/ pc = "handler" /\ cur = c
                             \/ c \in deaf
  /\ armed \cap (active_vector \cup deaf) = {}
  /\ pc = "handler" => cur \notin armed \cup deaf
  /\ status[Wake] = "ADD"
  /\ active_vector # {} => pc \in {"handle", "handler"}
  /\ pc = "handler" => cur \notin active_vector

\* The loop is before the swap, or the eventfd counts, or somebody who has
\* pushed will write it: a caller always, the loop thread when it pushed from a
\* functor, because handle_pending_functions is set around all of them.  The
\* swap finds nothing left of the previous round.
WakeInv ==
  /\ pending_functions_ # <<>> =>
       \/ pc \in {"handle", "handler", "swap"}
       \/ efd > 0
       \/ \E t \in notifying : t # LoopThread \/ pc = "functor"
  /\ LoopThread \in notifying => pc \in {"handler", "functor"}
  /\ handle_pending_functions <=> pc \in {"swap", "run", "functor"}
  /\ functors # <<>> => pc \in {"run", "functor"}

Inv == TypeOK /\ ChannelInv /\ WakeInv

-----------------------------------------------------------------------------

LEMMA InitInv == Init => Inv
<1> SUFFICES ASSUME Init PROVE Inv
  OBVIOUS
<1> USE ConstantsAssumption DEF Init, Watched, Threads
<1>1. TypeOK
  <2>1. status \in [Watched -> {"NEW", "ADD"}] /\ pc \in {"start", "poll"}
    OBVIOUS
  <2>2. pending_functions_ \in Seq(Functors) /\ functors \in Seq(Functors) /\ ran \in Seq(Functors)
    OBVIOUS
  <2> QED
    BY <2>1, <2>2 DEF TypeOK
<1>2. ChannelInv
  BY DEF ChannelInv
<1>3. WakeInv
  BY DEF WakeInv
<1> QED
  BY <1>1, <1>2, <1>3 DEF Inv

LEMMA TypeStep == TypeOK /\ [Next]_vars => TypeOK'
<1> SUFFICES ASSUME TypeOK, [Next]_vars PROVE TypeOK'
  OBVIOUS
<1> USE DEF TypeOK, Watched, Threads, loopVars, sockets, epollVars, history
<1>1. CASE StartLoop
  BY <1>1 DEF StartLoop
<1>2. CASE Poll
  BY <1>2, ConstantsAssumption DEF Poll, Reportable, WithoutRead, Readable, SizeAfter
<1>3. ASSUME NEW c \in Watched, HandleEvents(c) PROVE TypeOK'
  BY <1>3 DEF HandleEvents
<1>4. CASE EnableRead
  BY <1>4 DEF EnableRead, Rearmed
<1>5. CASE BeginPending
  BY <1>5 DEF BeginPending
<1>6. CASE SwapPending
  BY <1>6 DEF SwapPending, SwappedIn
<1>7. CASE StartFunctor
  BY <1>7 DEF StartFunctor
<1>8. CASE FinishFunctor
  BY <1>8 DEF FinishFunctor
<1>9. CASE EndPending
  BY <1>9 DEF EndPending
<1>10. ASSUME NEW t \in Threads, WakeUp(t) PROVE TypeOK'
  BY <1>10 DEF WakeUp
<1>11. ASSUME NEW f \in Functors, RunInLoop(f) PROVE TypeOK'
  BY <1>11 DEF RunInLoop
<1>12. ASSUME NEW f \in Functors, NEW t \in Threads, QueueInLoop(t, f) PROVE TypeOK'
  BY <1>12 DEF QueueInLoop
<1>13. ASSUME NEW c \in Channels, IOReady(c) PROVE TypeOK'
  BY <1>13 DEF IOReady
<1>14. ASSUME NEW c \in Channels, AddChannel(c) PROVE TypeOK'
  BY <1>14 DEF AddChannel
<1>15. ASSUME NEW c \in Channels, RemoveChannel(c) PROVE TypeOK'
  BY <1>15 DEF RemoveChannel, Unwatched, StatusAfterRemove
<1>16. CASE UNCHANGED vars
  BY <1>16 DEF vars
<1>17. ASSUME NEW c \in Watched, IgnoreEvents(c) PROVE TypeOK'
  BY <1>17 DEF IgnoreEvents
<1>18. CASE ReturnUnarmed
  BY <1>18 DEF ReturnUnarmed
<1>19. ASSUME NEW c \in Channels, UrgentReady(c) PROVE TypeOK'
  BY <1>19 DEF UrgentReady
<1> QED
  BY <1>1, <1>2, <1>3, <1>4, <1>5, <1>6, <1>7, <1>8, <1>9, <1>10, <1>11, <1>12,
     <1>13, <1>14, <1>15, <1>16, <1>17, <1>18, <1>19 DEF Next, LoopStep, Submit

LEMMA ChannelStep == TypeOK /\ ChannelInv /\ [Next]_vars => ChannelInv'
<1> SUFFICES ASSUME TypeOK, ChannelInv, [Next]_vars PROVE ChannelInv'
  OBVIOUS
<1> USE ConstantsAssumption DEF TypeOK, ChannelInv, Watched
<1>1. CASE StartLoop
  BY <1>1 DEF StartLoop, epollVars, loopVars
<1>2. CASE Poll
  BY <1>2 DEF Poll, Reportable, WithoutRead, epollVars, loopVars
<1>3. ASSUME NEW c \in Watched, HandleEvents(c) PROVE ChannelInv'
  BY <1>3 DEF HandleEvents
<1>4. CASE EnableRead
  BY <1>4 DEF EnableRead, Rearmed, loopVars
<1>5. CASE BeginPending
  BY <1>5 DEF BeginPending, epollVars
<1>6. CASE SwapPending
  BY <1>6 DEF SwapPending, SwappedIn, epollVars
<1>7. CASE StartFunctor
  BY <1>7 DEF StartFunctor, epollVars
<1>8. CASE FinishFunctor
  BY <1>8 DEF FinishFunctor, epollVars, loopVars
<1>9. CASE EndPending
  BY <1>9 DEF EndPending, epollVars
<1>10. ASSUME NEW t \in Threads, WakeUp(t) PROVE ChannelInv'
  BY <1>10 DEF WakeUp, epollVars, loopVars
<1>11. ASSUME NEW f \in Functors, RunInLoop(f) PROVE ChannelInv'
  BY <1>11 DEF RunInLoop, epollVars, loopVars
<1>12. ASSUME NEW f \in Functors, NEW t \in Threads, QueueInLoop(t, f) PROVE ChannelInv'
  BY <1>12 DEF QueueInLoop, epollVars, loopVars
<1>13. ASSUME NEW c \in Channels, IOReady(c) PROVE ChannelInv'
  BY <1>13 DEF IOReady, epollVars, loopVars
<1>14. ASSUME NEW c \in Channels, AddChannel(c) PROVE ChannelInv'
  BY <1>14 DEF AddChannel, loopVars
<1>15. ASSUME NEW c \in Channels, RemoveChannel(c) PROVE ChannelInv'
  BY <1>15 DEF RemoveChannel, Unwatched, StatusAfterRemove, loopVars
<1>16. CASE UNCHANGED vars
  BY <1>16 DEF vars, epollVars, loopVars
<1>17. ASSUME NEW c \in Watched, IgnoreEvents(c) PROVE ChannelInv'
  BY <1>17 DEF IgnoreEvents, loopVars
<1>18. CASE ReturnUnarmed
  BY <1>18 DEF ReturnUnarmed, loopVars
<1>19. ASSUME NEW c \in Channels, UrgentReady(c) PROVE ChannelInv'
  BY <1>19 DEF UrgentReady, epollVars, loopVars
<1> QED
  BY <1>1, <1>2, <1>3, <1>4, <1>5, <1>6, <1>7, <1>8, <1>9, <1>10, <1>11, <1>12,
     <1>13, <1>14, <1>15, <1>16, <1>17, <1>18, <1>19 DEF Next, LoopStep, Submit

LEMMA WakeStep == TypeOK /\ WakeInv /\ [Next]_vars => WakeInv'
<1> SUFFICES ASSUME TypeOK, WakeInv, [Next]_vars PROVE WakeInv'
  OBVIOUS
<1> USE DEF TypeOK, WakeInv, Watched, loopVars
<1>1. CASE StartLoop
  BY <1>1 DEF StartLoop
<1>2. CASE Poll
  BY <1>2 DEF Poll
<1>3. ASSUME NEW c \in Watched, HandleEvents(c) PROVE WakeInv'
  BY <1>3 DEF HandleEvents
<1>4. CASE EnableRead
  BY <1>4 DEF EnableRead, Rearmed
<1>5. CASE BeginPending
  BY <1>5 DEF BeginPending
<1>6. CASE SwapPending
  BY <1>6 DEF SwapPending, SwappedIn
<1>7. CASE StartFunctor
  BY <1>7 DEF StartFunctor
<1>8. CASE FinishFunctor
  BY <1>8 DEF FinishFunctor
<1>9. CASE EndPending
  BY <1>9 DEF EndPending
<1>10. ASSUME NEW t \in Threads, WakeUp(t) PROVE WakeInv'
  BY <1>10 DEF WakeUp, MustWake
<1>11. ASSUME NEW f \in Functors, RunInLoop(f) PROVE WakeInv'
  BY <1>11 DEF RunInLoop
<1>12. ASSUME NEW f \in Functors, NEW t \in Threads, QueueInLoop(t, f) PROVE WakeInv'
  BY <1>12 DEF QueueInLoop, MaySubmit, InCallback
<1>13. ASSUME NEW c \in Channels, IOReady(c) PROVE WakeInv'
  BY <1>13 DEF IOReady
<1>14. ASSUME NEW c \in Channels, AddChannel(c) PROVE WakeInv'
  BY <1>14 DEF AddChannel
<1>15. ASSUME NEW c \in Channels, RemoveChannel(c) PROVE WakeInv'
  BY <1>15 DEF RemoveChannel, InCallback
<1>16. CASE UNCHANGED vars
  BY <1>16 DEF vars
<1>17. ASSUME NEW c \in Watched, IgnoreEvents(c) PROVE WakeInv'
  BY <1>17 DEF IgnoreEvents
<1>18. CASE ReturnUnarmed
  BY <1>18 DEF ReturnUnarmed
<1>19. ASSUME NEW c \in Channels, UrgentReady(c) PROVE WakeInv'
  BY <1>19 DEF UrgentReady
<1> QED
  BY <1>1, <1>2, <1>3, <1>4, <1>5, <1>6, <1>7, <1>8, <1>9, <1>10, <1>11, <1>12,
     <1>13, <1>14, <1>15, <1>16, <1>17, <1>18, <1>19 DEF Next, LoopStep, Submit

THEOREM Invariance == Spec => []Inv
<1>1. Inv /\ [Next]_vars => Inv'
  BY TypeStep, ChannelStep, WakeStep DEF Inv
<1> QED
  BY InitInv, <1>1, PTL DEF Spec, Safety

-----------------------------------------------------------------------------
(* What the invariant says *)

\* Type correctness.
THEOREM TypeCorrect == Spec => []TypeOK
  BY Invariance, PTL DEF Inv

\* The loop is never asleep in epoll_wait on a queued functor that nobody will
\* wake it for, however callers interleave with it (EventLoop.cc:94-129).
THEOREM NoLostWakeupCorrect == Spec => []NoLostWakeup
<1>1. Inv => NoLostWakeup
  BY ConstantsAssumption DEF Inv, TypeOK, ChannelInv, WakeInv, NoLostWakeup, Threads, Watched
<1> QED
  BY Invariance, <1>1, PTL

\* Every registered channel is armed, reported or in its callback, but for those
\* that were reported without EPOLLIN or whose callback returned before enable_read;
\* the wake-up channel is never one of these.
THEOREM NoChannelForgottenCorrect == Spec => []NoChannelForgotten
<1>1. Inv => NoChannelForgotten
  BY ConstantsAssumption DEF Inv, TypeOK, ChannelInv, NoChannelForgotten
<1> QED
  BY Invariance, <1>1, PTL

\* Every channel the loop may dereference is a registered one.
THEOREM NoStaleEventCorrect == Spec => []NoStaleEvent
<1>1. Inv => NoStaleEvent
  BY DEF Inv, TypeOK, ChannelInv, NoStaleEvent
<1> QED
  BY Invariance, <1>1, PTL

-----------------------------------------------------------------------------
(* The loop implements FunctorQueue *)

\* A push, the swap and taking the next functor, on the queue seen whole:
\* what was swapped out followed by what is still pending.
LEMMA PushIsEnqueue ==
  ASSUME NEW s \in Seq(Functors), NEW p \in Seq(Functors), NEW f \in Functors
  PROVE  s \o Append(p, f) = Append(s \o p, f)
  OBVIOUS

LEMMA TakeIsDequeue ==
  ASSUME NEW s \in Seq(Functors), NEW p \in Seq(Functors), s # <<>>
  PROVE  /\ s \o p # <<>>
         /\ Head(s \o p) = Head(s)
         /\ Tail(s \o p) = Tail(s) \o p
  OBVIOUS

LEMMA SwapIsInvisible ==
  ASSUME NEW p \in Seq(Functors)
  PROVE  <<>> \o p = p \o <<>>
  OBVIOUS

\* Functors reach the queue in the order of the lock, leave it in that order
\* and run once: every step of the loop and its callers is an Enqueue, a
\* RunNext or a RunInline of the abstract queue, or changes nothing it sees.
THEOREM ImplementsQueue == Spec => Queue!Safety
<1>1. Init => Queue!Init
  BY DEF Init, Queue!Init
<1>2. Inv /\ [Next]_vars => [Queue!Next]_Queue!vars
  <2> SUFFICES ASSUME TypeOK, WakeInv, [Next]_vars
               PROVE  Queue!Next \/ UNCHANGED Queue!vars
    BY DEF Inv
  <2> USE DEF TypeOK, history, loopVars, Queue!vars
  <2>1. ASSUME UNCHANGED <<pending_functions_, functors, ran, inlined>>
        PROVE  UNCHANGED Queue!vars
    BY <2>1
  <2>2. CASE SwapPending
    BY <2>2, SwapIsInvisible DEF SwapPending, SwappedIn, WakeInv
  <2>3. CASE StartFunctor
    BY <2>3, TakeIsDequeue DEF StartFunctor, Queue!Next, Queue!RunNext
  <2>4. ASSUME NEW f \in Functors, RunInLoop(f) PROVE Queue!Next
    BY <2>4 DEF RunInLoop, Queue!Next, Queue!RunInline
  <2>5. ASSUME NEW f \in Functors, NEW t \in Threads, QueueInLoop(t, f) PROVE Queue!Next
    BY <2>5, PushIsEnqueue DEF QueueInLoop, Queue!Next, Queue!Enqueue
  <2> QED
    BY <2>1, <2>2, <2>3, <2>4, <2>5
    DEF Next, LoopStep, Submit, StartLoop, Poll, HandleEvents, EnableRead, BeginPending,
        FinishFunctor, EndPending, WakeUp, IOReady, AddChannel, RemoveChannel, IgnoreEvents,
        ReturnUnarmed, UrgentReady, vars
<1> QED
  BY Invariance, <1>1, <1>2, PTL DEF Spec, Safety, Queue!Safety
=============================================================================
