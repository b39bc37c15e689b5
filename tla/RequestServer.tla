---------------------------- MODULE RequestServer ----------------------------
(***************************************************************************)
(* The server of src/version1.0: the main thread waits for events, lets    *)
(* expired timers close connections and then handles the events; workers   *)
(* (TaskQueue) read and answer the requests.  Who closes a descriptor, and *)
(* who deletes a request, while others hold the number and the pointer?    *)
(*                                                                         *)
(* A client has one connection and one request object.  What a request     *)
(* says is left out: there is data to be read or not, and it leads to an   *)
(* answer or not (HttpRequest has the rest).  The descriptors that a       *)
(* worker opens for a file while it parses are left out.  All timers have  *)
(* the same timeout, so that they run out in the order they were added     *)
(* (TimeHeap has the heap); a timer may run out whatever its connection,   *)
(* the main thread and the workers are doing.                              *)
(***************************************************************************)
EXTENDS TaskQueue

CONSTANTS
  FDs,        \* the descriptor numbers that connections can get
  MayFin,     \* the clients that may close their connection
  MayReset    \* the clients that may reset their connection

Clients == Tasks
Listener == "listener"
Nobody == "nobody"

ASSUME ServerAssumption ==
  /\ FDs \subseteq Nat
  /\ MayFin \subseteq Tasks
  /\ MayReset \subseteq Tasks
  /\ {Listener, Nobody} \cap Clients = {}

VARIABLES
  peer,     \* what the client has done with its connection
  unread,   \* the connections with data in the socket buffer
  backlog,  \* the connections that wait for accept
  edge,     \* whether the listener has news for epoll (it is edge-triggered)
  table,    \* the kernel's descriptors: whose connection a number stands for
  armed,    \* the connections epoll watches (they are one-shot)
  req,      \* the request object of a client
  fd,       \* request->fd
  timers,   \* the nodes of the heap in their order, by their request
  due,      \* how many of them have expired
  mpc,      \* where the main thread is in its round
  events,   \* the events of this round that are not handled
  hups,     \* those of them that say EPOLLERR or EPOLLHUP
  step,     \* where a worker's task is
  answers,  \* the requests whose answers were written, in part at least, to a connection
  status,   \* of the process: up, killed, or undefined (a deleted request was used)
  caught    \* history: the requests deleted while their event or task was in hand

net == <<peer, unread, backlog, edge>>
fds == <<table, armed, req, fd>>
rounds == <<mpc, events, hups>>
vars == <<queue, net, fds, timers, due, rounds, step, answers, status, caught>>

TypeOK ==
  /\ QueueTypeOK
  /\ peer \in [Clients -> {"away", "open", "fin", "rst"}]
  /\ unread \subseteq Clients
  /\ backlog \in Seq(Clients)
  /\ edge \in BOOLEAN
  /\ table \in [FDs -> Clients \cup {Nobody}]
  /\ armed \subseteq Clients
  /\ req \in [Clients -> {"none", "live", "deleted"}]
  /\ fd \in [Clients -> FDs \cup {-1}]
  /\ timers \in Seq(Clients \cup {Nobody})
  /\ due \in 0 .. Len(timers)
  /\ mpc \in {"wait", "expire", "handle"}
  /\ events \subseteq Clients \cup {Listener}
  /\ hups \subseteq events \cap Clients
  /\ step \in [Workers -> {"read", "write", "done"}]
  /\ answers \in [Clients -> SUBSET Clients]
  /\ status \in {"up", "killed", "undefined"}
  /\ caught \subseteq Clients

Init ==
  /\ QueueInit
  /\ peer = [c \in Clients |-> "away"]
  /\ unread = {}
  /\ backlog = <<>>
  /\ edge = FALSE
  /\ table = [f \in FDs |-> Nobody]
  /\ armed = {}
  /\ req = [c \in Clients |-> "none"]
  /\ fd = [c \in Clients |-> -1]
  /\ timers = <<>>
  /\ due = 0
  /\ mpc = "wait"
  /\ events = {}
  /\ hups = {}
  /\ step = [w \in Workers |-> "done"]
  /\ answers = [c \in Clients |-> {}]
  /\ status = "up"
  /\ caught = {}

-----------------------------------------------------------------------------
(* The peers and the clock. *)

Connect(c) ==
  /\ peer[c] = "away"
  /\ peer' = [peer EXCEPT ![c] = "open"]
  /\ backlog' = Append(backlog, c)
  /\ edge' = TRUE
  /\ UNCHANGED <<queue, unread, fds, timers, due, rounds, step, answers, status, caught>>

Send(c) ==
  /\ peer[c] = "open" /\ c \notin unread
  /\ unread' = unread \cup {c}
  /\ UNCHANGED <<queue, peer, backlog, edge, fds, timers, due, rounds, step, answers, status, caught>>

Leave(c) ==
  /\ peer[c] = "open"
  /\ \/ c \in MayFin /\ peer' = [peer EXCEPT ![c] = "fin"]
     \/ c \in MayReset /\ peer' = [peer EXCEPT ![c] = "rst"]
  /\ UNCHANGED <<queue, unread, backlog, edge, fds, timers, due, rounds, step, answers, status, caught>>

\* The next timer runs out.
TimerDue ==
  /\ due < Len(timers)
  /\ due' = due + 1
  /\ UNCHANGED <<queue, net, fds, timers, rounds, step, answers, status, caught>>

\* Nothing is said of what follows the use of a deleted request.
Up == status = "up"

-----------------------------------------------------------------------------
(* The main thread. *)

\* One-shot: a connection is not watched once it has been reported.
Disarmed(C) == armed \ C

Ready(c) == c \in unread \/ peer[c] \in {"fin", "rst"}

\* epoll_wait has no timeout; the event array has room for all.
EpollWait ==
  LET ready == {c \in armed : Ready(c)}
  IN  /\ Up /\ mpc = "wait"
      /\ ready # {} \/ edge
      /\ events' = ready \cup (IF edge THEN {Listener} ELSE {})
      /\ hups' = {c \in ready : peer[c] = "rst"}
      /\ armed' = Disarmed(ready)
      /\ edge' = FALSE
      /\ mpc' = "expire"
      /\ UNCHANGED <<queue, peer, unread, backlog, table, req, fd, timers, due,
                     step, answers, status, caught>>

\* close(f): whosever connection has the number is gone, from epoll too.
Close(f) ==
  IF f \in FDs
  THEN table' = [table EXCEPT ![f] = Nobody] /\ armed' = armed \ {table[f]}
  ELSE UNCHANGED <<table, armed>>

\* Mutant: the node stays on the heap.
NotPopped(s) == s

\* The heap without its first node.
Popped(s) == Tail(s)

\* The requests that the main thread or a worker has still to use.
InHand == events \cup pending

\* An expired timer calls close_conn, which closes and deletes.
Expire ==
  /\ Up /\ mpc = "expire" /\ due > 0
  /\ LET c == Head(timers)
     IN  IF c = Nobody
         THEN UNCHANGED <<table, armed, req, status, caught>>
         ELSE /\ Close(fd[c])
              /\ req' = [req EXCEPT ![c] = "deleted"]
              /\ status' = IF req[c] = "deleted" THEN "undefined" ELSE status
              /\ caught' = caught \cup (InHand \cap {c})
  /\ timers' = Popped(timers)
  /\ due' = due - 1
  /\ UNCHANGED <<queue, net, fd, rounds, step, answers>>

EndExpire ==
  /\ Up /\ mpc = "expire" /\ due = 0
  /\ mpc' = "handle"
  /\ UNCHANGED <<queue, net, fds, timers, due, events, hups, step, answers, status, caught>>

FreeFDs == {f \in FDs : table[f] = Nobody}

\* The kernel gives out the lowest free number.
Lowest == {f \in FreeFDs : \A g \in FreeFDs : f <= g}

\* Each event of the listener accepts one connection.  A failed accept is
\* given a request and a timer as well, with the descriptor -1.
Accept ==
  /\ Up /\ mpc = "handle" /\ Listener \in events /\ ~signalling
  /\ events' = events \ {Listener}
  /\ \/ /\ FreeFDs = {}
        /\ timers' = Append(timers, Nobody)
        /\ UNCHANGED <<backlog, fds>>
     \/ LET c == Head(backlog)
        IN  \E f \in Lowest :
              /\ backlog' = Tail(backlog)
              /\ table' = [table EXCEPT ![f] = c]
              /\ fd' = [fd EXCEPT ![c] = f]
              /\ req' = [req EXCEPT ![c] = "live"]
              /\ armed' = armed \cup {c}
              /\ timers' = Append(timers, c)
  /\ UNCHANGED <<queue, peer, unread, edge, due, mpc, hups, step, answers, status, caught>>

\* An event of a connection: a hang-up closes the descriptor and leaves the
\* request and its timer; input gives a task to the workers.
HandleEvent(c) ==
  /\ Up /\ mpc = "handle" /\ c \in events /\ ~signalling
  /\ events' = events \ {c}
  /\ hups' = hups \ {c}
  /\ \/ /\ req[c] = "deleted"
        /\ status' = "undefined"
        /\ UNCHANGED <<queue, table, armed>>
     \/ /\ req[c] = "live" /\ c \in hups
        /\ Close(fd[c])
        /\ UNCHANGED <<queue, status>>
     \/ /\ req[c] = "live" /\ c \notin hups
        /\ Add(c)
        /\ UNCHANGED <<table, armed, status>>
  /\ UNCHANGED <<net, req, fd, timers, due, mpc, step, answers, caught>>

EndHandle ==
  /\ Up /\ mpc = "handle" /\ events = {} /\ ~signalling
  /\ mpc' = "wait"
  /\ UNCHANGED <<queue, net, fds, timers, due, events, hups, step, answers, status, caught>>

MainStep == EpollWait \/ Expire \/ EndExpire \/ Accept \/ EndHandle \/ \E c \in Clients : HandleEvent(c)

-----------------------------------------------------------------------------
(* The queue, and do_request in a worker. *)

NotQueue == <<net, fds, timers, due, rounds, answers, status, caught>>

SignalTask == Up /\ Signal /\ UNCHANGED <<NotQueue, step>>

WakeUp(w) == Up /\ Spurious(w) /\ UNCHANGED <<NotQueue, step>>

TakeTask(w) ==
  /\ Up /\ Take(w)
  /\ step' = IF wpc'[w] = "run" THEN [step EXCEPT ![w] = "read"] ELSE step
  /\ UNCHANGED NotQueue

\* Whose connection the task of w reads from and writes to.
Owner(w) == IF fd[running[w]] \in FDs THEN table[fd[running[w]]] ELSE Nobody

InStep(w, s) == Up /\ wpc[w] = "run" /\ step[w] = s

\* Mutant: the descriptor is closed when the request has been read.
ClosedAfterRead(w) == [table EXCEPT ![fd[running[w]]] = Nobody]

\* The descriptors once the request has been read: http_parse keeps its own open.
AfterRead(w) == table

\* read_ and the parsing.  The end of the stream, an error and a request that is
\* not there, not complete or not good lead to no answer.
ReadRequest(w) ==
  /\ InStep(w, "read")
  /\ IF req[running[w]] = "deleted"
     THEN status' = "undefined" /\ UNCHANGED <<unread, step, table>>
     ELSE LET o == Owner(w)
          IN  /\ \E s \in {"write", "done"} :
                   /\ s = "write" => o \in unread /\ peer[o] = "open"
                   /\ step' = [step EXCEPT ![w] = s]
              /\ unread' = unread \ {o}
              /\ table' = AfterRead(w)
              /\ UNCHANGED status
  /\ UNCHANGED <<queue, peer, backlog, edge, armed, req, fd, timers, due, rounds,
                 answers, caught>>

\* Some writes of the loop in write_ succeed, to whoever has the number.  The loop
\* goes on with the rest or ends: everything is written, or the socket is full and
\* the rest is never sent.
Written(w, o) ==
  /\ o # Nobody /\ peer[o] # "rst"
  /\ answers' = [answers EXCEPT ![o] = @ \cup {running[w]}]
  /\ \E s \in {"write", "done"} : step' = [step EXCEPT ![w] = s]
  /\ UNCHANGED status

\* A write fails: nobody has the number (EBADF); the connection was reset
\* (ECONNRESET); or it was reset and that has been reported, or it was closed by a
\* peer that answers what is written with a reset: then SIGPIPE, which is not
\* ignored, kills the process.
NotWritten(w, o) ==
  /\ \/ o = Nobody /\ UNCHANGED status
     \/ /\ o # Nobody
        /\ peer[o] = "rst" \/ (peer[o] = "fin" /\ running[w] \in answers[o])
        /\ status' \in {status, "killed"}
  /\ step' = [step EXCEPT ![w] = "done"]
  /\ UNCHANGED answers

\* http_write: each time round its loop, write_ uses the request and the number.
WriteReply(w) ==
  /\ InStep(w, "write")
  /\ \/ /\ req[running[w]] = "deleted"
        /\ status' = "undefined"
        /\ UNCHANGED <<step, answers>>
     \/ /\ req[running[w]] # "deleted"
        /\ Written(w, Owner(w)) \/ NotWritten(w, Owner(w))
  /\ UNCHANGED <<queue, net, fds, timers, due, rounds, caught>>

\* Mutant: do_request closes the connection in the end, as http.cpp:146 has it,
\* commented out.
DeletedInTheEnd(w) == Close(fd[running[w]]) /\ req' = [req EXCEPT ![running[w]] = "deleted"]

\* What do_request does with the request when it is done: nothing.
LeftOpen(w) == UNCHANGED <<table, armed, req>>

EndTask(w) ==
  /\ InStep(w, "done")
  /\ Done(w)
  /\ LeftOpen(w)
  /\ UNCHANGED <<net, fd, timers, due, rounds, step, answers, status, caught>>

WorkerStep == \E w \in Workers : TakeTask(w) \/ ReadRequest(w) \/ WriteReply(w) \/ EndTask(w)

-----------------------------------------------------------------------------

Next ==
  \/ \E c \in Clients : Connect(c) \/ Send(c) \/ Leave(c)
  \/ TimerDue
  \/ MainStep
  \/ SignalTask
  \/ \E w \in Workers : WakeUp(w)
  \/ WorkerStep

Spec == Init /\ [][Next]_vars

-----------------------------------------------------------------------------

\* A deleted request is used only when its timer ran out after epoll_wait had
\* reported its event and before the task was over (handle_expire_time_ns comes
\* between the two).  A request deleted at any other time is neither watched nor
\* in anybody's hands, so that its data.ptr never comes back, although its number
\* may be another connection's by now; and none is deleted twice.
OnlyCaughtAreUsed ==
  /\ status = "undefined" => caught # {}
  /\ \A c \in Clients :
       req[c] = "deleted" => c \notin armed /\ (c \in InHand => c \in caught)

\* A live request has exactly one timer and a deleted one has none, whatever was
\* reset or caught: nothing is deleted twice or forgotten (http.cpp:142 fears for
\* both).
OneTimerPerRequest ==
  \A c \in Clients :
    /\ req[c] = "live" <=> \E i \in DOMAIN timers : timers[i] = c
    /\ \A i, j \in DOMAIN timers : timers[i] = c /\ timers[j] = c => i = j

\* The connection of x was reset and x has the number no longer.
Lost(x) == peer[x] = "rst" /\ fd[x] \in FDs /\ table[fd[x]] # x

\* An answer goes to another connection than its request came from in one way
\* only: a third connection that had the same number was reset, so that a hang-up
\* closed it and later its timer the number once more.  No timer by itself,
\* however early, and no client that closes leads there.
AnswersGoHome ==
  \A o, c \in Clients :
    c \in answers[o] /\ c # o =>
      \E x \in Clients \ {o, c} : Lost(x) /\ fd[x] = fd[c] /\ fd[x] = fd[o]
=============================================================================
