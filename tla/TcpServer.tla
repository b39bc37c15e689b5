------------------------------- MODULE TcpServer -------------------------------
(***************************************************************************)
(* TCPServer, EventLoopPool and the life of a TCPConnection                *)
(* (src/net/TcpServer.cc, EventLoopPool.cc, TcpConnection.cc and the map   *)
(* of connections in EventLoop.cc).                                        *)
(*                                                                         *)
(* The main loop accepts, picks a sub loop in turn and hands it new_event  *)
(* through run_in_loop; the sub loop keeps the connection in its map,      *)
(* answers what it reads and, when the peer has closed, unregisters the    *)
(* channel and erases the map entry.  The descriptor is closed by the      *)
(* destructor, in whatever thread drops the last shared_ptr.               *)
(*                                                                         *)
(* Each loop is used as EventLoop specifies it: the functors of a loop run *)
(* in order, and a readable registered channel that is armed is handled in *)
(* the end.                                                                *)
(*                                                                         *)
(* What a client sends is counted in segments, of which a read takes no    *)
(* more than its buffer holds; where a request ends plays no part in the   *)
(* code.                                                                   *)
(***************************************************************************)
EXTENDS Naturals, Sequences, FiniteSets, Functions

CONSTANTS
  Clients,    \* the peers; each connects at most once
  Main,       \* the main thread and its loop
  SubLoops,   \* the loops of the pool, in order; <<>> when thread_num is 0
  FDs,        \* the numbers the process limit leaves for connections
  MAXFDS,     \* TcpServer.hpp:31
  BufSegs,    \* the segments that the buffer of handle_read holds: 4096 bytes
  MaxSegs,    \* bound: segments a client sends
  MayReset,   \* the clients that may reset their connection
  MayUrge,    \* the clients that may send urgent data
  None

Loops == IF SubLoops = <<>> THEN {Main} ELSE Range(SubLoops)

ASSUME ConstantsAssumption ==
  /\ SubLoops \in Seq(Range(SubLoops)) /\ Main \notin Range(SubLoops)
  /\ FDs \subseteq Nat \ {0} /\ IsFiniteSet(FDs)
  /\ MAXFDS \in Nat
  /\ BufSegs \in Nat \ {0} /\ MaxSegs \in Nat
  /\ MayReset \subseteq Clients
  /\ MayUrge \subseteq Clients
  /\ None \notin Clients \cup Loops \cup FDs

VARIABLES
  mpc,           \* the main thread: in poll, or where in handle_new_conn
  cur,           \* the connection handle_new_conn is making
  listening,     \* the listener's one shot is armed
  backlog,       \* the kernel's queue of established, not accepted connections
  next_,         \* EventLoopPool, from 0
  stage,         \* of a client: away, backlog, live, destroyed or refused
  shut,          \* the peer has closed its side
  broken,        \* the connections that were reset: what is written to them is lost
  urgent,        \* those with urgent data that was not read past
  fd, loop_,     \* of a TCPConnection
  refs,          \* who holds a shared_ptr to it: main, functor, map
  registered,    \* the connections whose channel is in an epoll set
  connections_,  \* the map of each EventLoop, from descriptor to connection
  pending,       \* the new_event functors queued to a loop
  batch,         \* those that have run and are destroyed when the round ends
  handling,      \* the connection whose handle_events is running, after its callback
  inbox,         \* segments that arrived and were not read
  taken,         \* segments read
  answers,       \* responses written
  deaf           \* the registered connections whose one shot is spent and not armed again

mainVars == <<mpc, cur, listening, next_>>
objVars  == <<stage, fd, loop_, refs>>
loopVars == <<registered, connections_, pending, batch>>
serving  == <<loopVars, handling>>
ioVars   == <<inbox, taken, answers, deaf>>
peerVars == <<shut, broken, urgent>>
vars == <<mainVars, backlog, peerVars, objVars, serving, ioVars>>

TypeOK ==
  /\ mpc \in {"poll", "handler", "created", "queued"}
  /\ cur \in Clients \cup {None}
  /\ listening \in BOOLEAN
  /\ backlog \in Seq(Clients)
  /\ next_ \in Nat /\ (next_ = 0 \/ next_ < Len(SubLoops))
  /\ stage \in [Clients -> {"away", "backlog", "live", "destroyed", "refused"}]
  /\ shut \in [Clients -> BOOLEAN]
  /\ fd \in [Clients -> FDs \cup {None}]
  /\ loop_ \in [Clients -> Loops \cup {None}]
  /\ refs \in [Clients -> SUBSET {"main", "functor", "map"}]
  /\ registered \subseteq Clients
  /\ connections_ \in [Loops -> [FDs -> Clients \cup {None}]]
  /\ pending \in [Loops -> Seq(Clients)]
  /\ batch \in [Loops -> SUBSET Clients]
  /\ handling \in [Loops -> Clients \cup {None}]
  /\ {inbox, taken, answers} \subseteq [Clients -> 0..MaxSegs]
  /\ broken \subseteq Clients /\ urgent \subseteq Clients /\ deaf \subseteq Clients

\* start() has armed the listener and the sub loops are running.
Init ==
  /\ mpc = "poll"
  /\ cur = None
  /\ listening = TRUE
  /\ backlog = <<>>
  /\ next_ = 0
  /\ stage = [c \in Clients |-> "away"]
  /\ shut = [c \in Clients |-> FALSE]
  /\ fd = [c \in Clients |-> None]
  /\ loop_ = [c \in Clients |-> None]
  /\ refs = [c \in Clients |-> {}]
  /\ registered = {}
  /\ connections_ = [l \in Loops |-> [f \in FDs |-> None]]
  /\ pending = [l \in Loops |-> <<>>]
  /\ batch = [l \in Loops |-> {}]
  /\ handling = [l \in Loops |-> None]
  /\ inbox = [c \in Clients |-> 0]
  /\ taken = [c \in Clients |-> 0]
  /\ answers = [c \in Clients |-> 0]
  /\ broken = {} /\ urgent = {} /\ deaf = {}

-----------------------------------------------------------------------------
(* The peers *)

Connect(c) ==
  /\ stage[c] = "away"
  /\ stage' = [stage EXCEPT ![c] = "backlog"]
  /\ backlog' = Append(backlog, c)
  /\ UNCHANGED <<mainVars, peerVars, fd, loop_, refs, serving, ioVars>>

Send(c) ==
  /\ stage[c] \in {"backlog", "live"}
  /\ ~shut[c]
  /\ inbox[c] + taken[c] < MaxSegs
  /\ inbox' = [inbox EXCEPT ![c] = @ + 1]
  /\ UNCHANGED <<mainVars, backlog, peerVars, objVars, serving, taken, answers, deaf>>

Shut(c) ==
  /\ stage[c] \in {"backlog", "live"}
  /\ ~shut[c]
  /\ shut' = [shut EXCEPT ![c] = TRUE]
  /\ UNCHANGED <<mainVars, backlog, broken, urgent, objVars, serving, ioVars>>

\* What was sent before a reset can still be read; then the stream ends.
Reset(c) ==
  /\ c \in MayReset \ broken
  /\ stage[c] \in {"backlog", "live"}
  /\ shut' = [shut EXCEPT ![c] = TRUE]
  /\ broken' = broken \cup {c}
  /\ UNCHANGED <<mainVars, backlog, urgent, objVars, serving, ioVars>>

Urge(c) ==
  /\ c \in MayUrge \ urgent
  /\ stage[c] \in {"backlog", "live"} /\ ~shut[c]
  /\ urgent' = urgent \cup {c}
  /\ UNCHANGED <<mainVars, backlog, shut, broken, objVars, serving, ioVars>>

-----------------------------------------------------------------------------
(* shared_ptr<TCPConnection> *)

\* A thread drops the reference h to each of S; ~TCPConnection closes the
\* descriptor when it was the last one.
Drop(S, h) ==
  LET dead == {c \in S : refs[c] = {h}}
  IN /\ refs' = [c \in Clients |-> IF c \in S THEN refs[c] \ {h} ELSE refs[c]]
     /\ stage' = [c \in Clients |-> IF c \in dead THEN "destroyed" ELSE stage[c]]
   
Live == {c \in Clients : stage[c] = "live"}

FreeFDs == FDs \ {fd[c] : c \in Live}

\* accept returns the lowest free number.
Lowest == {f \in FreeFDs : \A g \in FreeFDs : f <= g}

-----------------------------------------------------------------------------
(* The main loop: handle_new_conn *)

\* epoll_wait reports the listener, which disarms it.
ReportListener ==
  /\ mpc = "poll" /\ (Main \in Loops => handling[Main] = None)
  /\ listening
  /\ backlog # <<>>
  /\ listening' = FALSE
  /\ mpc' = "handler"
  /\ UNCHANGED <<cur, next_, backlog, peerVars, objVars, serving, ioVars>>

\* get_next_loop.
NextLoop == IF SubLoops = <<>> THEN Main ELSE SubLoops[next_ + 1]

AdvanceNext == next_' = IF SubLoops = <<>> THEN next_ ELSE (next_ + 1) % Len(SubLoops)

\* The connection is made, for the next loop.
Accept ==
  /\ mpc = "handler"
  /\ \E f \in Lowest : f < MAXFDS /\ fd' = [fd EXCEPT ![Head(backlog)] = f]
  /\ cur' = Head(backlog)
  /\ backlog' = Tail(backlog)
  /\ AdvanceNext
  /\ stage' = [stage EXCEPT ![Head(backlog)] = "live"]
  /\ loop_' = [loop_ EXCEPT ![Head(backlog)] = NextLoop]
  /\ refs' = [refs EXCEPT ![Head(backlog)] = {"main"}]
  /\ mpc' = "created"
  /\ UNCHANGED <<listening, peerVars, serving, ioVars>>

\* A descriptor that is too large is closed; set_non_blocking then fails on it
\* and handle_new_conn returns before its last line, enable_read.
AcceptTooMany ==
  /\ mpc = "handler"
  /\ \E f \in Lowest : f >= MAXFDS
  /\ backlog' = Tail(backlog)
  /\ AdvanceNext
  /\ stage' = [stage EXCEPT ![Head(backlog)] = "refused"]
  /\ mpc' = "poll"
  /\ UNCHANGED <<cur, listening, peerVars, fd, loop_, refs, serving, ioVars>>

\* Mutant: a failed accept returns at once, too.
AcceptFailsReturns ==
  /\ mpc = "handler"
  /\ FreeFDs = {}
  /\ mpc' = "poll"
  /\ UNCHANGED <<cur, listening, next_, backlog, peerVars, objVars, serving, ioVars>>

\* accept fails (EMFILE): the listener is armed again, and is still readable.
AcceptFails ==
  /\ mpc = "handler"
  /\ FreeFDs = {}
  /\ listening' = TRUE
  /\ mpc' = "poll"
  /\ UNCHANGED <<cur, next_, backlog, peerVars, objVars, serving, ioVars>>

\* Mutant: new_event does not call enable_read.
NotEnabled(c) == registered

Enabled(c) == registered \cup {c}

\* put (which does not replace an entry) and enable_read.
NewEvent(l, c) ==
  /\ connections_' = IF connections_[l][fd[c]] = None
                       THEN [connections_ EXCEPT ![l][fd[c]] = c]
                       ELSE connections_
  /\ registered' = Enabled(c)

Held(l, c) == IF connections_'[l][fd[c]] = c THEN {"map"} ELSE {}

\* Mutant: the functor is bound to a bare pointer.
BoundToPointer == {}

\* The functor is bound to conn_ptr and holds it.
Bound == {"functor"}

\* run_in_loop(new_event): queued to a sub loop, or run at once by the main one.
RunInLoop ==
  /\ mpc = "created"
  /\ LET l == loop_[cur] IN
       IF l = Main
         THEN /\ NewEvent(l, cur)
              /\ refs' = [refs EXCEPT ![cur] = @ \cup Held(l, cur)]
              /\ UNCHANGED pending
         ELSE /\ pending' = [pending EXCEPT ![l] = Append(@, cur)]
              /\ refs' = [refs EXCEPT ![cur] = @ \cup Bound]
              /\ UNCHANGED <<connections_, registered>>
  /\ mpc' = "queued"
  /\ UNCHANGED <<cur, listening, next_, backlog, peerVars, stage, fd, loop_,
                 batch, handling, ioVars>>

\* conn_ptr goes out of scope, then enable_read.
EndNewConn ==
  /\ mpc = "queued"
  /\ Drop({cur}, "main")
  /\ cur' = None
  /\ listening' = TRUE
  /\ mpc' = "poll"
  /\ UNCHANGED <<next_, backlog, peerVars, fd, loop_, serving, ioVars>>

-----------------------------------------------------------------------------
(* A loop that has connections: a sub loop, or the main one without a pool *)

\* The thread of the loop is not in a handler.
LoopIsFree(l) == handling[l] = None /\ (l = Main => mpc = "poll")

RunFunctor(l) ==
  /\ LoopIsFree(l)
  /\ pending[l] # <<>>
  /\ LET c == Head(pending[l]) IN
       /\ NewEvent(l, c)
       /\ refs' = [refs EXCEPT ![c] = @ \cup Held(l, c)]
       /\ batch' = [batch EXCEPT ![l] = @ \cup {c}]
  /\ pending' = [pending EXCEPT ![l] = Tail(@)]
  /\ UNCHANGED <<mainVars, backlog, peerVars, stage, fd, loop_, handling, ioVars>>

\* do_pending_functions ends: its local vector is destroyed.
EndBatch(l) ==
  /\ LoopIsFree(l)
  /\ batch[l] # {}
  /\ Drop(batch[l], "functor")
  /\ batch' = [batch EXCEPT ![l] = {}]
  /\ UNCHANGED <<mainVars, backlog, peerVars, fd, loop_, registered, connections_, pending,
                 handling, ioVars>>

Readable(l, c) ==
  /\ LoopIsFree(l)
  /\ batch[l] = {}
  /\ c \in registered \ deaf /\ loop_[c] = l

\* Mutant: handle_read calls handle_write as well as handle_err.
AnsweredTwice(c) == answers[c] + 2

\* The result of write is not looked at; SIGPIPE is ignored.
Answered(c) == IF c \in broken THEN answers[c] ELSE answers[c] + 1

\* The callback has returned; handle_events, which called it, goes on.
GoesOn(l, c) == handling' = [handling EXCEPT ![l] = c]

\* What one read takes.
Take(c) == IF inbox[c] <= BufSegs THEN inbox[c] ELSE BufSegs

\* handle_read with something to read: there is one read, one response is written,
\* and the channel is armed again.  For a connection that was reset the error
\* callback writes a response before, which is lost.
HandleRead(l, c) ==
  /\ Readable(l, c)
  /\ inbox[c] > 0
  /\ taken' = [taken EXCEPT ![c] = @ + Take(c)]
  /\ inbox' = [inbox EXCEPT ![c] = @ - Take(c)]
  /\ answers' = [answers EXCEPT ![c] = Answered(c)]
  /\ urgent' \in {urgent, urgent \ {c}}
  /\ GoesOn(l, c)
  /\ UNCHANGED <<mainVars, backlog, shut, broken, objVars, loopVars, deaf>>

\* EPOLLPRI alone: no callback of Channel::handle_events is for it, and so
\* nothing arms the channel again.
HandleUrgent(l, c) ==
  /\ Readable(l, c)
  /\ inbox[c] = 0 /\ ~shut[c]
  /\ c \in urgent
  /\ deaf' = deaf \cup {c}
  /\ UNCHANGED <<mainVars, backlog, peerVars, objVars, serving, inbox, taken, answers>>

\* Mutant: destroy_conn does not call erase.
NotErased(l, c) == connections_

\* The map after erase.
Erased(l, c) == [connections_ EXCEPT ![l][fd[c]] = None]

\* Mutant: the erased entry is kept alive somewhere else.
NothingReleased(l, c) == {}

\* The connection whose shared_ptr erase destroys.
Released(l, c) == {connections_[l][fd[c]]} \ {None}

\* handle_read at the end of the stream: handle_close and destroy_conn, which
\* erases whatever the map holds at the descriptor.
HandleClose(l, c) ==
  /\ Readable(l, c)
  /\ inbox[c] = 0 /\ shut[c]
  /\ registered' = registered \ {c}
  /\ connections_' = Erased(l, c)
  /\ Drop(Released(l, c), "map")
  /\ GoesOn(l, c)
  /\ UNCHANGED <<mainVars, backlog, peerVars, fd, loop_, pending, batch, ioVars>>

\* The rest of handle_events reads revent_ again.  After a close this is a member
\* of a Channel that erase may have destroyed, and what is read is undefined; the
\* model takes the outcome in which no callback is called: none is set for EPOLLOUT.
EndHandle(l) ==
  /\ handling[l] # None
  /\ handling' = [handling EXCEPT ![l] = None]
  /\ UNCHANGED <<mainVars, backlog, peerVars, objVars, loopVars, ioVars>>

-----------------------------------------------------------------------------

MainStep ==
  \/ ReportListener \/ Accept \/ AcceptTooMany \/ AcceptFails \/ RunInLoop \/ EndNewConn

LoopStep(l) == RunFunctor(l) \/ EndBatch(l) \/ EndHandle(l)

Handle(l, c) == HandleRead(l, c) \/ HandleUrgent(l, c) \/ HandleClose(l, c)

Next ==
  \/ MainStep
  \/ \E l \in Loops : LoopStep(l) \/ \E c \in Clients : Handle(l, c)
  \/ \E c \in Clients : Connect(c) \/ Send(c) \/ Shut(c) \/ Reset(c) \/ Urge(c)

\* The threads are scheduled, and a loop handles every readable channel in the
\* end, also one that is busy with others: EventLoop!EventsServed.
Fairness ==
  /\ WF_vars(MainStep)
  /\ \A l \in Loops : WF_vars(LoopStep(l)) /\ \A c \in Clients : SF_vars(Handle(l, c))

Spec == Init /\ [][Next]_vars /\ Fairness

-----------------------------------------------------------------------------
(* Properties *)

\* While a channel is registered its connection is alive and in the map of its
\* own loop under its own descriptor, and the map holds nothing else: a number
\* that the kernel reuses never meets the entry of its previous owner, whose put
\* would be ignored and whose erase would hit the wrong connection
\* (EventLoop.cc:145-153, TcpConnection.cc:173-193).
MapMatchesChannels ==
  \A l \in Loops, c \in Clients :
    /\ c \in registered /\ loop_[c] = l => stage[c] = "live" /\ connections_[l][fd[c]] = c
    /\ \A f \in FDs : connections_[l][f] = c =>
         c \in registered /\ loop_[c] = l /\ fd[c] = f

\* A descriptor has one owner, and no connection is owned by nobody: a live one
\* is in the hands of handle_new_conn, of a functor or of a map, so none leaks
\* (TcpServer.cc:68-78, TcpConnection.cc:31-35).
OneOwner ==
  /\ \A c, d \in Live : fd[c] = fd[d] => c = d
  /\ \A c \in Live :
       \/ c = cur
       \/ \E l \in Loops : c \in Range(pending[l]) \cup batch[l] \cup Range(connections_[l])

\* Where the server can come upon a connection.
InUse(c) ==
  \/ c = cur \/ c \in registered
  \/ \E l \in Loops : c \in Range(pending[l]) \cup batch[l] \cup Range(connections_[l])

\* The destructor runs once, whichever of handle_new_conn, the functors and the
\* map of two threads lets go last, and no thread can come upon the connection any
\* more (TcpServer.cc:66-80, TcpConnection.cc:31-35).  One that had come upon it
\* before is not done with it: the handle_events that has closed it, in its own
\* loop, which goes on to read the destroyed Channel (Channel.cc:75).  There is
\* no other, and none begins.
DestroyedIsOver ==
  [][\A c \in Clients : stage[c] = "destroyed" =>
       /\ ~InUse(c) /\ stage'[c] = "destroyed"
       /\ \A l \in Loops : handling'[l] = c => handling[l] = c /\ l = loop_[c]]_vars

\* The listener is watched whenever the main loop polls (TcpServer.cc:81).
ListenerArmed == mpc = "poll" => listening

\* Reads are answered, not requests (TcpConnection.cc:42-57): a client gets no more
\* answers than it has sent segments, and, unless it resets the connection, one
\* at least for as much as a buffer holds.  So one that sends more than that at
\* once gets several answers.
AnswersRequests ==
  \A c \in Clients :
    /\ answers[c] <= taken[c]
    /\ taken[c] <= BufSegs * answers[c] \/ c \in broken

\* A connection in the backlog is accepted unless descriptors run out.
AcceptedInTheEnd ==
  \A c \in Clients : stage[c] = "backlog" ~> (stage[c] # "backlog" \/ FreeFDs = {})

\* All that a live peer sends is read, and its descriptor is closed after it has
\* closed or reset the connection: nothing in the hand-over between the loops
\* loses a connection but the peer's own urgent data, which leaves the channel
\* disarmed for good (Channel.cc:53-81).
AnsweredInTheEnd ==
  \A c \in Clients, n \in 1 .. MaxSegs :
    (stage[c] = "live" /\ inbox[c] + taken[c] >= n) ~> (taken[c] >= n \/ c \in deaf)

ReclaimedInTheEnd ==
  \A c \in Clients : (stage[c] = "live" /\ shut[c]) ~> (stage[c] = "destroyed" \/ c \in deaf)
================================================================================
