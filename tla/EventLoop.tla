------------------------------ MODULE EventLoop ------------------------------
(***************************************************************************)
(* One EventLoop, the Epoll it polls and the Channels it watches           *)
(* (src/net/EventLoop.cc, Epoll.cc, Channel.cc), with the other threads    *)
(* that hand it functors.                                                  *)
(*                                                                         *)
(* The loop thread is sequential: pc says where in loop() it stands.  The  *)
(* pending queue is the only state it shares with the callers, under       *)
(* mutex_; a caller pushes under the lock and writes the eventfd after it  *)
(* has let the lock go, so a step of anybody fits between the two.         *)
(* Every channel is EPOLLONESHOT: an event that epoll_wait reports disarms *)
(* the channel, and its callback arms it again with enable_read.  But not  *)
(* every event leads to a callback, and not every callback gets as far as  *)
(* enable_read: a channel may stay registered and never be armed again.    *)
(*                                                                         *)
(* quit() has an empty body, so loop() does not end.                       *)
(***************************************************************************)
EXTENDS Naturals, Sequences, FiniteSets

CONSTANTS
  Callers,      \* the threads, other than the loop's own, that queue functors
  LoopThread,   \* cur_thread_id_
  Functors,     \* the closures; each is submitted at most once
  Channels,     \* connections and listener: every channel but the wake-up one
  MayUrge,      \* the channels whose peers may send urgent data
  Wake,         \* wake_up_channel_
  EVENT_SUM     \* the initial length of event_array_

ASSUME ConstantsAssumption ==
  /\ LoopThread \notin Callers
  /\ Wake \notin Channels /\ MayUrge \subseteq Channels
  /\ EVENT_SUM \in Nat \ {0}

Threads == Callers \cup {LoopThread}
Watched == Channels \cup {Wake}

VARIABLES
  pc,                        \* where the loop thread is
  pending_functions_,        \* the queue the threads share, under mutex_
  handle_pending_functions,  \* read and written by the loop thread only
  functors,                  \* what do_pending_functions swapped out and has not run
  notifying,                 \* the threads between the push and the test of queue_in_loop
  efd,                       \* the counter of the eventfd
  ready,                     \* the channels whose descriptor has something to read (EPOLLIN)
  urgent,                    \* those with urgent data, and no more, before it (EPOLLPRI)
  status,                    \* channelStatus: NEW, or ADD while the epoll set holds it
  armed,                     \* the channels whose one shot has not fired
  deaf,                      \* those it has fired for in vain: nothing will arm them
  active_vector,             \* the channels epoll_wait returned, not handled yet
  cur,                       \* the channel handle_events was last called on
  array_size,                \* event_array_.size()
  submitted, ran, inlined    \* history: functors handed over, run from the queue, run at once

loopVars  == <<handle_pending_functions, functors, cur>>
sockets   == <<ready, urgent>>
epollVars == <<status, armed, deaf, active_vector, array_size>>
history   == <<submitted, ran, inlined>>
vars == <<pc, pending_functions_, loopVars, notifying, efd, sockets, epollVars, history>>

TypeOK ==
  /\ pc \in {"start", "poll", "handle", "handler", "swap", "run", "functor"}
  /\ pending_functions_ \in Seq(Functors)
  /\ handle_pending_functions \in BOOLEAN
  /\ functors \in Seq(Functors)
  /\ notifying \subseteq Threads
  /\ efd \in Nat
  /\ ready \subseteq Channels
  /\ urgent \subseteq MayUrge
  /\ status \in [Watched -> {"NEW", "ADD"}]
  /\ armed \subseteq Watched
  /\ deaf \subseteq Channels
  /\ active_vector \subseteq Watched
  /\ cur \in Watched
  /\ array_size \in Nat \ {0}
  /\ submitted \subseteq Functors
  /\ ran \in Seq(Functors)
  /\ inlined \subseteq Functors

\* The constructor has registered the wake-up channel; loop() is not entered yet.
Init ==
  /\ pc = "start"
  /\ pending_functions_ = <<>>
  /\ handle_pending_functions = FALSE
  /\ functors = <<>>
  /\ notifying = {}
  /\ efd = 0
  /\ ready = {}
  /\ urgent = {}
  /\ status = [c \in Watched |-> IF c = Wake THEN "ADD" ELSE "NEW"]
  /\ armed = {Wake}
  /\ deaf = {}
  /\ active_vector = {}
  /\ cur = Wake
  /\ array_size = EVENT_SUM
  /\ submitted = {}
  /\ ran = <<>>
  /\ inlined = {}

-----------------------------------------------------------------------------
(* The environment *)

\* A peer connects, sends or closes; the channel may not be registered yet.
IOReady(c) ==
  /\ c \notin ready
  /\ ready' = ready \cup {c}
  /\ UNCHANGED <<pc, pending_functions_, loopVars, notifying, efd, urgent, epollVars, history>>

\* A peer sends a byte of urgent data.  read does not return it, and EPOLLPRI is
\* among the events of read_event.
UrgentReady(c) ==
  /\ c \in MayUrge \ urgent
  /\ urgent' = urgent \cup {c}
  /\ UNCHANGED <<pc, pending_functions_, loopVars, notifying, efd, ready, epollVars, history>>

-----------------------------------------------------------------------------
(* queue_in_loop and run_in_loop *)

\* The loop thread runs the user's code: a channel's read callback or a functor.
InCallback ==
  /\ \/ pc = "functor"
     \/ pc = "handler" /\ cur # Wake
  /\ LoopThread \notin notifying

MaySubmit(t, f) ==
  /\ t \notin notifying
  /\ t = LoopThread => InCallback
  /\ f \notin submitted

\* The push, under mutex_.
QueueInLoop(t, f) ==
  /\ MaySubmit(t, f)
  /\ pending_functions_' = Append(pending_functions_, f)
  /\ notifying' = notifying \cup {t}
  /\ submitted' = submitted \cup {f}
  /\ UNCHANGED <<pc, loopVars, efd, sockets, epollVars, ran, inlined>>

\* Mutant: the test without its first half.
WakeIfPending(t) == handle_pending_functions

\* Who writes the eventfd: is_in_cur_loop is tested first, so that only the
\* loop's own thread reads handle_pending_functions.
MustWake(t) == t # LoopThread \/ handle_pending_functions

\* The test after the lock, and wake_up_cur_thread.
WakeUp(t) ==
  /\ t \in notifying
  /\ notifying' = notifying \ {t}
  /\ efd' = IF MustWake(t) THEN efd + 1 ELSE efd
  /\ UNCHANGED <<pc, pending_functions_, loopVars, sockets, epollVars, history>>

\* run_in_loop in the loop's own thread; in another one it is QueueInLoop.
RunInLoop(f) ==
  /\ MaySubmit(LoopThread, f)
  /\ submitted' = submitted \cup {f}
  /\ inlined' = inlined \cup {f}
  /\ UNCHANGED <<pc, pending_functions_, loopVars, notifying, efd, sockets, epollVars, ran>>

-----------------------------------------------------------------------------
(* update_channel and remove_channel, called from the loop's own callbacks *)

\* enable_read on a channel the epoll set does not hold: EPOLL_CTL_ADD.
AddChannel(c) ==
  /\ InCallback
  /\ c # cur
  /\ status[c] = "NEW"
  /\ status' = [status EXCEPT ![c] = "ADD"]
  /\ armed' = armed \cup {c}
  /\ UNCHANGED <<pc, pending_functions_, loopVars, notifying, efd, sockets, deaf,
                 active_vector, array_size, history>>

\* Mutant: the handler does not return after the close and arms the channel.
StillWatched(c) == armed \cup {c}

\* What epoll_del leaves of the watched channels.
Unwatched(c) == armed \ {c}

StatusAfterRemove == "NEW"

\* disalbel_all and remove, by the channel's own handler (a closed connection).
RemoveChannel(c) ==
  /\ InCallback
  /\ pc = "handler"
  /\ cur = c
  /\ status' = [status EXCEPT ![c] = StatusAfterRemove]
  /\ armed' = Unwatched(c)
  /\ ready' = ready \ {c}
  /\ urgent' = urgent \ {c}
  /\ pc' = "handle"
  /\ UNCHANGED <<pending_functions_, loopVars, notifying, efd, deaf, active_vector,
                 array_size, history>>

-----------------------------------------------------------------------------
(* loop() *)

StartLoop ==
  /\ pc = "start"
  /\ pc' = "poll"
  /\ UNCHANGED <<pending_functions_, loopVars, notifying, efd, sockets, epollVars, history>>

Readable(c) == c \in ready \/ (c = Wake /\ efd > 0)

Reportable == {c \in armed : Readable(c) \/ c \in urgent}

\* Mutant: the array keeps its size.
SizeKept(events) == array_size

\* A full array is doubled.
SizeAfter(events) == IF events = array_size THEN 2 * array_size ELSE array_size

\* The channels whose revent_ is without EPOLLIN: what handle_events does for them
\* does not arm them.
WithoutRead(A) == {c \in A : ~Readable(c)}

\* epoll_wait blocks until something is reportable and then fills at most the
\* whole array; which events, when they do not all fit, is the kernel's choice.
Poll ==
  /\ pc = "poll"
  /\ Reportable # {}
  /\ \E A \in SUBSET Reportable :
       /\ A = Reportable \/ Cardinality(A) = array_size
       /\ Cardinality(A) <= array_size
       /\ active_vector' = A
       /\ armed' = armed \ A
       /\ deaf' = deaf \cup WithoutRead(A)
       /\ array_size' = SizeAfter(Cardinality(A))
  /\ pc' = "handle"
  /\ UNCHANGED <<pending_functions_, loopVars, notifying, efd, sockets, status, history>>

\* handle_events calls the read callback.  The wake-up one reads the eventfd,
\* which resets it; another takes all or only some of what there is to read, and
\* reading on behind the place of urgent data discards that.
HandleEvents(c) ==
  /\ pc = "handle"
  /\ c \in active_vector \ deaf
  /\ active_vector' = active_vector \ {c}
  /\ cur' = c
  /\ efd' = IF c = Wake THEN 0 ELSE efd
  /\ ready' \in {ready, ready \ {c}}
  /\ urgent' \in {urgent, urgent \ {c}}
  /\ pc' = "handler"
  /\ UNCHANGED <<pending_functions_, handle_pending_functions, functors, notifying,
                 status, armed, deaf, array_size, history>>

\* handle_events calls nothing for EPOLLPRI alone.
IgnoreEvents(c) ==
  /\ pc = "handle"
  /\ c \in active_vector \cap deaf
  /\ active_vector' = active_vector \ {c}
  /\ UNCHANGED <<pc, pending_functions_, loopVars, notifying, efd, sockets, status,
                 armed, deaf, array_size, history>>

\* Mutant: wake_up_response only reads.
RearmedIO == IF cur = Wake THEN armed ELSE armed \cup {cur}

\* EPOLL_CTL_MOD on the channel that was handled.
Rearmed == armed \cup {cur}

\* A callback ends with enable_read, an EPOLL_CTL_MOD, which arms the shot again.
EnableRead ==
  /\ pc = "handler"
  /\ LoopThread \notin notifying
  /\ armed' = Rearmed
  /\ pc' = "handle"
  /\ UNCHANGED <<pending_functions_, loopVars, notifying, efd, sockets, status, deaf,
                 active_vector, array_size, history>>

\* Or it returns before that, as handle_new_conn does when set_non_blocking fails.
ReturnUnarmed ==
  /\ pc = "handler" /\ cur # Wake
  /\ LoopThread \notin notifying
  /\ deaf' = deaf \cup {cur}
  /\ pc' = "handle"
  /\ UNCHANGED <<pending_functions_, loopVars, notifying, efd, sockets, status, armed,
                 active_vector, array_size, history>>

BeginPending ==
  /\ pc = "handle"
  /\ active_vector = {}
  /\ handle_pending_functions' = TRUE
  /\ pc' = "swap"
  /\ UNCHANGED <<pending_functions_, functors, cur, notifying, efd, sockets, epollVars, history>>

\* Mutant: a copy instead of a swap.
CopyLeft == pending_functions_

\* The queue after the swap with the empty local vector.
SwappedIn == <<>>

SwapPending ==
  /\ pc = "swap"
  /\ functors' = pending_functions_
  /\ pending_functions_' = SwappedIn
  /\ pc' = "run"
  /\ UNCHANGED <<handle_pending_functions, cur, notifying, efd, sockets, epollVars, history>>

StartFunctor ==
  /\ pc = "run"
  /\ functors # <<>>
  /\ ran' = Append(ran, Head(functors))
  /\ functors' = Tail(functors)
  /\ pc' = "functor"
  /\ UNCHANGED <<pending_functions_, handle_pending_functions, cur, notifying, efd,
                 sockets, epollVars, submitted, inlined>>

FinishFunctor ==
  /\ pc = "functor"
  /\ LoopThread \notin notifying
  /\ pc' = "run"
  /\ UNCHANGED <<pending_functions_, loopVars, notifying, efd, sockets, epollVars, history>>

EndPending ==
  /\ pc = "run"
  /\ functors = <<>>
  /\ handle_pending_functions' = FALSE
  /\ pc' = "poll"
  /\ UNCHANGED <<pending_functions_, functors, cur, notifying, efd, sockets, epollVars, history>>

-----------------------------------------------------------------------------

Submit ==
  \E f \in Functors : RunInLoop(f) \/ \E t \in Threads : QueueInLoop(t, f)

\* What loop() does whenever it can.
LoopStep ==
  \/ StartLoop
  \/ Poll
  \/ \E c \in Watched : HandleEvents(c) \/ IgnoreEvents(c)
  \/ EnableRead \/ ReturnUnarmed
  \/ BeginPending
  \/ SwapPending
  \/ StartFunctor
  \/ FinishFunctor
  \/ EndPending

Next ==
  \/ LoopStep
  \/ \E t \in Threads : WakeUp(t)
  \/ Submit
  \/ \E c \in Channels : IOReady(c) \/ UrgentReady(c) \/ AddChannel(c) \/ RemoveChannel(c)

Safety == Init /\ [][Next]_vars

\* The scheduler runs every thread that can run, and callbacks return, whether or
\* not they have armed their channel; nothing makes a peer send or a thread submit.
Fairness ==
  /\ WF_vars(LoopStep)
  /\ \A t \in Threads : WF_vars(WakeUp(t))

Spec == Safety /\ Fairness

-----------------------------------------------------------------------------
(* Properties *)

\* The loop is never asleep on a functor: when it waits in epoll_wait
\* (Epoll.cc:66) and the queue is not empty, the wake-up channel is armed and
\* the eventfd counts, or a caller has still to write it (EventLoop.cc:94-102).
NoLostWakeup ==
  pc = "poll" /\ pending_functions_ # <<>> =>
    \/ notifying \cap Callers # {}
    \/ efd > 0 /\ Wake \in armed

\* No channel is forgotten but in the two ways the code has: a registered one is
\* armed, or reported and not handled, or its callback is running; or it was
\* reported without EPOLLIN (Channel.cc:52-81), or its callback returned without
\* enable_read (TcpServer.cc:63-66).  So at epoll_wait all the others are armed,
\* the wake-up channel among them.
NoChannelForgotten ==
  \A c \in Watched : status[c] = "ADD" =>
    \/ c \in armed
    \/ c \in active_vector
    \/ pc = "handler" /\ cur = c
    \/ c \in deaf /\ c # Wake

\* No event for a channel that was removed: whatever epoll may report or has
\* reported, and so whatever Channel* the loop will dereference
\* (EventLoop.cc:48-50), is a registered channel.  It says nothing of the channel
\* whose handle_events is running, which Channel.cc:75 reads after its callback.
NoStaleEvent ==
  \A c \in armed \cup active_vector : status[c] = "ADD"

\* A readable channel is handled in the end, even when there are more events
\* than event_array_ has room for (Epoll.cc:76-79), unless it is not registered or
\* was left unarmed before it became readable.
EventsServed ==
  \A c \in Channels :
    (c \in ready \ deaf /\ status[c] = "ADD") ~> (pc = "handler" /\ cur = c)

\* The loop implements the queue it promises: order, once each, and in the end.
Queue == INSTANCE FunctorQueue WITH waiting <- functors \o pending_functions_

QueueSpec == Queue!Spec
=============================================================================
