------------------------- MODULE RequestServerProofs -------------------------
(***************************************************************************)
(* TLAPS proofs about RequestServer and the TaskQueue in it, for any       *)
(* number of clients, workers and descriptors.  The invariant is the       *)
(* conjunction of parts; each is shown to be kept by the steps from itself *)
(* and the other parts it names.                                           *)
(***************************************************************************)
EXTENDS RequestServer, TLAPS

\* The queue: what keeps a task from being lost is that all of this holds together.
QueueInv == QueueTypeOK /\ NoTaskStranded /\ EachTaskOnce

\* Whoever is to accept a connection finds one in the backlog.
NewsInv ==
  /\ mpc = "wait" => events = {}
  /\ Len(backlog) >= (IF edge THEN 1 ELSE 0) + (IF Listener \in events THEN 1 ELSE 0)

\* A connection is accepted once, reported once and added once.
FreshInv ==
  /\ \A i, j \in DOMAIN backlog : backlog[i] = backlog[j] => i = j
  /\ \A i \in DOMAIN backlog : peer[backlog[i]] # "away" /\ req[backlog[i]] = "none"
  /\ \A c \in Clients :
       /\ peer[c] = "away" => req[c] = "none"
       /\ req[c] = "none" => c \notin armed /\ c \notin events /\ c \notin added
       /\ req[c] # "none" => fd[c] \in FDs
       /\ c \in armed => c \notin events /\ c \notin added
       /\ c \in events => c \notin added

\* A number that is in use stands for a live request that has this number, and a
\* connection that is watched has its own.  A live request that has lost its number
\* shared it with a connection that was reset: itself, when its hang-up was handled,
\* and otherwise another one.
NumberInv ==
  /\ \A f \in FDs : table[f] # Nobody => fd[table[f]] = f /\ req[table[f]] = "live"
  /\ \A c \in armed : table[fd[c]] = c
  /\ \A c \in hups : peer[c] = "rst"
  /\ \A c \in Clients : req[c] = "none" => fd[c] = -1
  /\ \A c \in Clients :
       req[c] = "live" /\ table[fd[c]] # c =>
         \E x \in Clients : Lost(x) /\ fd[x] = fd[c] /\ (c \in armed \cup events \cup added => x # c)

Inv == TypeOK /\ QueueInv /\ NewsInv /\ FreshInv /\ OneTimerPerRequest
  /\ NumberInv /\ OnlyCaughtAreUsed /\ AnswersGoHome

-----------------------------------------------------------------------------
(* Lists. *)

\* What Append does, element by element.
LEMMA AppendFacts ==
  ASSUME NEW S, NEW s \in Seq(S), NEW e \in S
  PROVE  /\ Append(s, e) \in Seq(S)
         /\ Len(s) \in Nat /\ DOMAIN s = 1 .. Len(s)
         /\ Len(Append(s, e)) = Len(s) + 1
         /\ DOMAIN Append(s, e) = 1 .. Len(s) + 1
         /\ \A i \in DOMAIN s : Append(s, e)[i] = s[i]
         /\ Append(s, e)[Len(s) + 1] = e
  OBVIOUS

\* What Tail does, element by element.
LEMMA TailFacts ==
  ASSUME NEW S, NEW s \in Seq(S), Len(s) > 0
  PROVE  /\ Tail(s) \in Seq(S)
         /\ Len(s) \in Nat /\ DOMAIN s = 1 .. Len(s) /\ 1 \in DOMAIN s
         /\ Head(s) = s[1] /\ Head(s) \in S
         /\ Len(Tail(s)) = Len(s) - 1
         /\ DOMAIN Tail(s) = 1 .. Len(s) - 1
         /\ \A i \in DOMAIN Tail(s) : i + 1 \in DOMAIN s /\ Tail(s)[i] = s[i + 1]
  OBVIOUS

\* A list with a new first element has one element more, and stays without
\* repetitions when the element was not in it.
LEMMA LinkedList ==
  ASSUME NEW s \in Seq(Tasks), NEW t \in Tasks,
         \A i, j \in DOMAIN s : s[i] = s[j] => i = j,
         \A i \in DOMAIN s : s[i] # t
  PROVE  /\ <<t>> \o s \in Seq(Tasks)
         /\ {(<<t>> \o s)[i] : i \in DOMAIN (<<t>> \o s)} = {s[i] : i \in DOMAIN s} \cup {t}
         /\ \A i, j \in DOMAIN (<<t>> \o s) : (<<t>> \o s)[i] = (<<t>> \o s)[j] => i = j
<1> DEFINE l == <<t>> \o s
<1>1. l \in Seq(Tasks) /\ Len(l) = Len(s) + 1 /\ DOMAIN l = 1 .. Len(s) + 1
  OBVIOUS
<1>2. l[1] = t /\ \A i \in 1 .. Len(s) : l[i + 1] = s[i]
  OBVIOUS
<1>3. \A k \in DOMAIN l : k = 1 \/ (k - 1 \in DOMAIN s /\ l[k] = s[k - 1])
  <2> TAKE k \in DOMAIN l
  <2>1. CASE k # 1
    <3>1. k - 1 \in 1 .. Len(s) /\ (k - 1) + 1 = k
      BY <1>1, <2>1
    <3> QED
      BY <1>2, <3>1
  <2> QED
    BY <2>1
<1>4. \A i, j \in DOMAIN l : l[i] = l[j] => i = j
  <2> TAKE i, j \in DOMAIN l
  <2> HAVE l[i] = l[j]
  <2>1. CASE i = 1 \/ j = 1
    BY <1>2, <1>3, <2>1
  <2>2. CASE i # 1 /\ j # 1
    <3>1. i - 1 = j - 1
      BY <1>3, <2>2
    <3> QED
      BY <1>1, <3>1
  <2> QED
    BY <2>1, <2>2
<1>5. \A j \in DOMAIN s : \E i \in DOMAIN l : l[i] = s[j]
  <2> TAKE j \in DOMAIN s
  <2>1. j \in 1 .. Len(s) /\ j + 1 \in DOMAIN l
    BY <1>1
  <2> QED
    BY <1>2, <2>1
<1>6. \E i \in DOMAIN l : l[i] = t
  BY <1>1, <1>2
<1>7. \A i \in DOMAIN l : l[i] = t \/ \E j \in DOMAIN s : l[i] = s[j]
  BY <1>2, <1>3
<1> HIDE DEF l
<1>8. {l[i] : i \in DOMAIN l} = {s[i] : i \in DOMAIN s} \cup {t}
  <2>1. {l[i] : i \in DOMAIN l} \subseteq {s[i] : i \in DOMAIN s} \cup {t}
    BY <1>7
  <2>2. {s[i] : i \in DOMAIN s} \cup {t} \subseteq {l[i] : i \in DOMAIN l}
    BY <1>5, <1>6
  <2> QED
    BY <2>1, <2>2
<1> QED
  BY <1>1, <1>4, <1>8 DEF l

\* A list without repetitions loses exactly its first element.
LEMMA UnlinkedList ==
  ASSUME NEW s \in Seq(Tasks), s # <<>>,
         \A i, j \in DOMAIN s : s[i] = s[j] => i = j
  PROVE  /\ Head(s) \in Tasks
         /\ Tail(s) \in Seq(Tasks)
         /\ {Tail(s)[i] : i \in DOMAIN Tail(s)} = {s[i] : i \in DOMAIN s} \ {Head(s)}
         /\ \A i, j \in DOMAIN Tail(s) : Tail(s)[i] = Tail(s)[j] => i = j
<1> DEFINE l == Tail(s)
<1>1. /\ Len(s) \in Nat /\ Len(s) > 0
      /\ DOMAIN s = 1 .. Len(s)
      /\ Head(s) = s[1] /\ 1 \in DOMAIN s
      /\ l \in Seq(Tasks)
      /\ DOMAIN l = 1 .. Len(s) - 1
  OBVIOUS
<1>2. \A k \in DOMAIN l : k + 1 \in DOMAIN s /\ l[k] = s[k + 1] /\ k + 1 # 1
  BY <1>1
<1>3. \A i, j \in DOMAIN l : l[i] = l[j] => i = j
  <2> TAKE i, j \in DOMAIN l
  <2> HAVE l[i] = l[j]
  <2>1. i + 1 = j + 1
    BY <1>2
  <2> QED
    BY <1>1, <2>1
<1>4. \A i \in DOMAIN s : i # 1 => \E k \in DOMAIN l : l[k] = s[i]
  <2> TAKE i \in DOMAIN s
  <2> HAVE i # 1
  <2>1. i - 1 \in DOMAIN l /\ (i - 1) + 1 = i
    BY <1>1
  <2> QED
    BY <1>2, <2>1
<1>5. {l[i] : i \in DOMAIN l} \subseteq {s[i] : i \in DOMAIN s} \ {s[1]}
  BY <1>1, <1>2
<1>6. {s[i] : i \in DOMAIN s} \ {s[1]} \subseteq {l[i] : i \in DOMAIN l}
  BY <1>4
<1> HIDE DEF l
<1> QED
  BY <1>1, <1>3, <1>5, <1>6 DEF l

-----------------------------------------------------------------------------
(* The queue. *)

LEMMA QueueInitInv == QueueInit => QueueInv
<1> SUFFICES ASSUME QueueInit PROVE QueueInv
  OBVIOUS
<1> USE DEF QueueInit
<1>1. QueueTypeOK /\ NoTaskStranded
  <2>1. tasks \in Seq(Tasks)
    OBVIOUS
  <2>2. wpc \in [Workers -> {"top", "asleep", "run"}]
    OBVIOUS
  <2>3. running \in [Workers -> Tasks \cup {NoTask}]
    OBVIOUS
  <2> QED
    BY <2>1, <2>2, <2>3 DEF QueueTypeOK, NoTaskStranded
<1>2. DOMAIN tasks = {} /\ InQueue = {} /\ Running = {}
  BY DEF InQueue, Running
<1>3. EachTaskOnce
  BY <1>2 DEF EachTaskOnce
<1> QED
  BY <1>1, <1>3 DEF QueueInv

LEMMA AddInv ==
  ASSUME NEW t \in Tasks
  PROVE  QueueInv /\ t \notin pending /\ Add(t) => QueueInv'
<1> SUFFICES ASSUME QueueInv, t \notin pending, Add(t) PROVE QueueInv'
  OBVIOUS
<1> USE DEF QueueInv, QueueTypeOK, Add, Signals, Linked
<1>1. \A i \in DOMAIN tasks : tasks[i] # t
  BY DEF EachTaskOnce, InQueue
<1>2. /\ tasks' \in Seq(Tasks)
      /\ InQueue' = InQueue \cup {t}
      /\ \A i, j \in DOMAIN tasks' : tasks'[i] = tasks'[j] => i = j
  <2>1. tasks \in Seq(Tasks) /\ \A i, j \in DOMAIN tasks : tasks[i] = tasks[j] => i = j
    BY DEF EachTaskOnce
  <2>2. tasks' = <<t>> \o tasks
    OBVIOUS
  <2> HIDE DEF QueueInv, QueueTypeOK, Add, Linked
  <2>3. tasks' \in Seq(Tasks)
    BY <1>1, <2>1, <2>2
  <2>4. {(<<t>> \o tasks)[i] : i \in DOMAIN (<<t>> \o tasks)} = {tasks[i] : i \in DOMAIN tasks} \cup {t}
    BY <1>1, <2>1, LinkedList
  <2>5. \A i, j \in DOMAIN (<<t>> \o tasks) : (<<t>> \o tasks)[i] = (<<t>> \o tasks)[j] => i = j
    BY <1>1, <2>1, LinkedList
  <2>6. \A i, j \in DOMAIN tasks' : tasks'[i] = tasks'[j] => i = j
    BY <2>2, <2>5
  <2>7. InQueue' = {(<<t>> \o tasks)[i] : i \in DOMAIN (<<t>> \o tasks)}
    BY <2>2 DEF InQueue
  <2> QED
    BY <2>3, <2>4, <2>6, <2>7 DEF InQueue
<1>3. Running' = Running /\ Running = {}
  BY DEF Running, MutexFree
<1>4. QueueTypeOK' /\ NoTaskStranded'
  BY <1>2 DEF NoTaskStranded
<1>5. EachTaskOnce'
  BY <1>2, <1>3 DEF EachTaskOnce
<1> QED
  BY <1>4, <1>5

\* The steps that touch neither the list nor who runs.
LEMMA WakeInv ==
  QueueInv /\ (Signal \/ \E w \in Workers : Spurious(w)) => QueueInv'
<1> SUFFICES ASSUME QueueInv, Signal \/ \E w \in Workers : Spurious(w) PROVE QueueInv'
  OBVIOUS
<1> USE DEF QueueInv, QueueTypeOK
<1>1. UNCHANGED <<tasks, running, pending, added>> /\ signalling' \in BOOLEAN
  BY DEF Signal, Spurious
<1>2. \/ UNCHANGED wpc /\ \A w \in Workers : wpc[w] # "asleep"
      \/ \E w \in Workers : wpc[w] = "asleep" /\ wpc' = [wpc EXCEPT ![w] = "top"]
  BY DEF Signal, Spurious, Woken
<1>3. wpc' \in [Workers -> {"top", "asleep", "run"}]
  BY <1>2
<1>4. \A w \in Workers : wpc'[w] = "run" <=> wpc[w] = "run"
  BY <1>2
<1>5. Running' = Running /\ InQueue' = InQueue
  BY <1>1, <1>4 DEF Running, InQueue
<1>6. NoTaskStranded'
  <2>1. \E w \in Workers : wpc'[w] # "asleep"
    BY <1>2, QueueAssumption
  <2> QED
    BY <2>1 DEF NoTaskStranded
<1>7. EachTaskOnce'
  BY <1>1, <1>4, <1>5 DEF EachTaskOnce
<1> QED
  BY <1>1, <1>3, <1>6, <1>7

LEMMA TakeInv ==
  ASSUME NEW w \in Workers
  PROVE  QueueInv /\ Take(w) => QueueInv'
<1> SUFFICES ASSUME QueueInv, Take(w) PROVE QueueInv'
  OBVIOUS
<1> USE DEF QueueInv, QueueTypeOK, Take, Unlinked, MustWait
<1>1. CASE tasks = <<>>
  <2>1. Running' = Running /\ InQueue' = InQueue
    BY <1>1 DEF Running, InQueue
  <2> QED
    BY <1>1, <2>1 DEF NoTaskStranded, EachTaskOnce
<1>2. CASE tasks # <<>>
  <2>1. /\ wpc' = [wpc EXCEPT ![w] = "run"]
        /\ running' = [running EXCEPT ![w] = Head(tasks)]
        /\ tasks' = Tail(tasks)
        /\ UNCHANGED <<signalling, pending, added>>
    BY <1>2
  <2>2. /\ Head(tasks) \in Tasks
        /\ tasks' \in Seq(Tasks)
        /\ InQueue' = InQueue \ {Head(tasks)}
        /\ \A i, j \in DOMAIN tasks' : tasks'[i] = tasks'[j] => i = j
    <3>1. tasks \in Seq(Tasks) /\ \A i, j \in DOMAIN tasks : tasks[i] = tasks[j] => i = j
      BY DEF EachTaskOnce
    <3> HIDE DEF QueueInv, QueueTypeOK, Take, Unlinked, MustWait
    <3> QED
      BY <1>2, <2>1, <3>1, UnlinkedList DEF InQueue
  <2>3. Head(tasks) \in InQueue
    BY <1>2 DEF InQueue
  <2>4. Running = {} /\ Running' = {Head(tasks)}
    BY <2>1 DEF Running, MutexFree
  <2>5. QueueTypeOK' /\ NoTaskStranded'
    BY <2>1, <2>2 DEF NoTaskStranded
  <2>6. \A u, v \in Workers : wpc'[u] = "run" /\ wpc'[v] = "run" => u = v
    BY <2>1 DEF MutexFree
  <2>7. EachTaskOnce'
    BY <2>1, <2>2, <2>3, <2>4, <2>6 DEF EachTaskOnce
  <2> QED
    BY <2>5, <2>7
<1> QED
  BY <1>1, <1>2

LEMMA DoneInv ==
  ASSUME NEW w \in Workers
  PROVE  QueueInv /\ Done(w) => QueueInv'
<1> SUFFICES ASSUME QueueInv, Done(w) PROVE QueueInv'
  OBVIOUS
<1> USE DEF QueueInv, QueueTypeOK, Done
<1>1. Running = {running[w]} /\ Running' = {}
  BY DEF Running, EachTaskOnce
<1>2. InQueue' = InQueue
  BY DEF InQueue
<1>3. QueueTypeOK' /\ NoTaskStranded'
  BY DEF NoTaskStranded
<1>4. EachTaskOnce'
  BY <1>1, <1>2 DEF EachTaskOnce
<1> QED
  BY <1>3, <1>4

LEMMA QueueStill == QueueInv /\ UNCHANGED queue => QueueInv'
<1> SUFFICES ASSUME QueueInv, UNCHANGED queue PROVE QueueInv'
  OBVIOUS
<1>1. UNCHANGED <<tasks, wpc, running, signalling, pending, added>>
  BY DEF queue
<1>2. UNCHANGED InQueue /\ UNCHANGED Running
  BY <1>1 DEF InQueue, Running
<1>3. QueueTypeOK' /\ NoTaskStranded'
  BY <1>1 DEF QueueInv, QueueTypeOK, NoTaskStranded
<1>4. EachTaskOnce'
  BY <1>1, <1>2 DEF QueueInv, EachTaskOnce
<1> QED
  BY <1>3, <1>4 DEF QueueInv

\* Any adder that adds no task before its last run has ended will do: the queue
\* by itself keeps its types, its tasks and somebody to run them, however often
\* a task is added again.
THEOREM QueueCorrect == QueueSpec => []QueueInv
<1>1. QueueInv /\ [QueueNext]_queue => QueueInv'
  BY QueueStill, AddInv, WakeInv, TakeInv, DoneInv DEF QueueNext, Submit
<1> QED
  BY QueueInitInv, <1>1, PTL DEF QueueSpec

-----------------------------------------------------------------------------
(* The rest of the invariant, part by part. *)

LEMMA NewsStep == TypeOK /\ NewsInv /\ [Next]_vars => NewsInv'
<1> SUFFICES ASSUME TypeOK, NewsInv, [Next]_vars PROVE NewsInv'
  OBVIOUS
<1>0. /\ backlog \in Seq(Clients) /\ Len(backlog) \in Nat /\ edge \in BOOLEAN
      /\ Listener \notin Clients /\ armed \subseteq Clients
  BY ServerAssumption DEF TypeOK
<1>1. ASSUME NEW c \in Clients, Connect(c) PROVE NewsInv'
  <2>1. Len(backlog') = Len(backlog) + 1
    BY <1>0, <1>1, AppendFacts DEF Connect
  <2> QED
    BY <1>0, <1>1, <2>1 DEF NewsInv, Connect, rounds
<1>2. CASE EpollWait
  <2>1. Listener \in events' <=> edge
    BY <1>0, <1>2 DEF EpollWait
  <2> QED
    BY <1>0, <1>2, <2>1 DEF NewsInv, EpollWait
<1>3. CASE EndExpire
  BY <1>3 DEF NewsInv, EndExpire, net
<1>4. CASE Accept
  <2>1. \/ backlog' = backlog
        \/ backlog' = Tail(backlog)
    BY <1>4 DEF Accept
  <2>2. Len(backlog) > 0 /\ Len(backlog') >= Len(backlog) - 1
    BY <1>0, <1>4, <2>1, TailFacts DEF NewsInv, Accept
  <2>3. mpc' # "wait" /\ Listener \notin events' /\ edge' = edge
    BY <1>4 DEF Accept
  <2>4. Len(backlog') \in Nat
    BY <1>0, <2>1, <2>2, TailFacts
  <2> QED
    BY <1>0, <1>4, <2>2, <2>3, <2>4 DEF NewsInv, Accept
<1>5. ASSUME NEW c \in Clients, HandleEvent(c) PROVE NewsInv'
  BY <1>0, <1>5 DEF NewsInv, HandleEvent, net
<1>6. CASE EndHandle
  BY <1>6 DEF NewsInv, EndHandle, net
<1>7. CASE UNCHANGED <<mpc, events, edge, backlog>>
  BY <1>7 DEF NewsInv
<1> QED
  BY <1>1, <1>2, <1>3, <1>4, <1>5, <1>6, <1>7
  DEF Next, MainStep, WorkerStep, Send, Leave, TimerDue, Expire, SignalTask, WakeUp, TakeTask,
      ReadRequest, WriteReply, EndTask, NotQueue, vars, net, rounds

\* Where an expired timer or a deleted request leaves the descriptors.
LEMMA CloseFacts ==
  ASSUME TypeOK, NEW f \in FDs \cup {-1}, Close(f)
  PROVE  /\ table' \in [FDs -> Clients \cup {Nobody}]
         /\ armed' \subseteq armed
         /\ \A g \in FDs : table'[g] = IF g = f THEN Nobody ELSE table[g]
         /\ f \in FDs => armed' = armed \ {table[f]}
  BY DEF TypeOK, Close

\* The first timer and its request.
LEMMA ExpireFacts ==
  ASSUME TypeOK, OneTimerPerRequest, Expire
  PROVE  /\ timers \in Seq(Clients \cup {Nobody}) /\ Len(timers) > 0 /\ timers' = Tail(timers)
         /\ due \in 1 .. Len(timers) /\ due' = due - 1
         /\ \/ Head(timers) = Nobody /\ UNCHANGED <<fds, status, caught>>
            \/ /\ Head(timers) \in Clients /\ req[Head(timers)] = "live"
               /\ Close(fd[Head(timers)])
               /\ req' = [req EXCEPT ![Head(timers)] = "deleted"]
               /\ UNCHANGED <<fd, status>>
               /\ caught' = caught \cup (InHand \cap {Head(timers)})
<1>1. timers \in Seq(Clients \cup {Nobody}) /\ due \in 1 .. Len(timers) /\ Len(timers) > 0
  BY DEF TypeOK, Expire
<1>2. Head(timers) = timers[1] /\ Head(timers) \in Clients \cup {Nobody} /\ 1 \in DOMAIN timers
  BY <1>1, TailFacts
<1>3. CASE Head(timers) = Nobody
  BY <1>1, <1>3 DEF Expire, Popped, fds
<1>4. CASE Head(timers) # Nobody
  <2>1. Head(timers) \in Clients /\ req[Head(timers)] = "live"
    BY <1>2, <1>4 DEF OneTimerPerRequest
  <2> QED
    BY <1>1, <1>4, <2>1 DEF Expire, Popped
<1> QED
  BY <1>3, <1>4

\* The connection that accept finds.
LEMMA AcceptFacts ==
  ASSUME TypeOK, NewsInv, FreshInv, Accept
  PROVE  \/ UNCHANGED <<backlog, fds>> /\ timers' = Append(timers, Nobody)
         \/ \E c \in Clients, f \in FDs :
              /\ Len(backlog) > 0 /\ c = backlog[1] /\ backlog' = Tail(backlog)
              /\ table[f] = Nobody
              /\ table' = [table EXCEPT ![f] = c]
              /\ fd' = [fd EXCEPT ![c] = f]
              /\ req' = [req EXCEPT ![c] = "live"]
              /\ armed' = armed \cup {c}
              /\ timers' = Append(timers, c)
              /\ req[c] = "none" /\ peer[c] # "away"
<1>1. backlog \in Seq(Clients) /\ Len(backlog) \in Nat /\ edge \in BOOLEAN
  BY DEF TypeOK
<1>2. Len(backlog) > 0
  BY <1>1 DEF NewsInv, Accept
<1>3. Head(backlog) \in Clients /\ Head(backlog) = backlog[1] /\ 1 \in DOMAIN backlog
  BY <1>1, <1>2, TailFacts
<1>4. req[Head(backlog)] = "none" /\ peer[Head(backlog)] # "away"
  BY <1>3 DEF FreshInv
<1>5. CASE UNCHANGED <<backlog, fds>> /\ timers' = Append(timers, Nobody)
  BY <1>5
<1>6. CASE \E f \in Lowest :
              /\ backlog' = Tail(backlog)
              /\ table' = [table EXCEPT ![f] = Head(backlog)]
              /\ fd' = [fd EXCEPT ![Head(backlog)] = f]
              /\ req' = [req EXCEPT ![Head(backlog)] = "live"]
              /\ armed' = armed \cup {Head(backlog)}
              /\ timers' = Append(timers, Head(backlog))
  BY <1>2, <1>3, <1>4, <1>6 DEF Lowest, FreeFDs
<1> QED
  BY <1>5, <1>6 DEF Accept

LEMMA TimerStep ==
  TypeOK /\ NewsInv /\ FreshInv /\ OneTimerPerRequest /\ [Next]_vars => OneTimerPerRequest'
<1> SUFFICES ASSUME TypeOK, NewsInv, FreshInv, OneTimerPerRequest, [Next]_vars
             PROVE  OneTimerPerRequest'
  OBVIOUS
<1>0. timers \in Seq(Clients \cup {Nobody}) /\ req \in [Clients -> {"none", "live", "deleted"}]
  BY DEF TypeOK
<1>1. CASE Expire
  <2>1. /\ Len(timers) \in Nat /\ DOMAIN timers = 1 .. Len(timers) /\ 1 \in DOMAIN timers
        /\ Head(timers) = timers[1]
        /\ DOMAIN timers' = 1 .. Len(timers) - 1
        /\ \A i \in DOMAIN timers' : i + 1 \in DOMAIN timers /\ timers'[i] = timers[i + 1]
    BY <1>1, ExpireFacts, TailFacts
  <2>2. \A i \in DOMAIN timers : i = 1 \/ (i - 1 \in DOMAIN timers' /\ timers'[i - 1] = timers[i])
    BY <2>1
  <2> SUFFICES ASSUME NEW c \in Clients
               PROVE  /\ req'[c] = "live" <=> \E i \in DOMAIN timers' : timers'[i] = c
                      /\ \A i, j \in DOMAIN timers' : timers'[i] = c /\ timers'[j] = c => i = j
    BY DEF OneTimerPerRequest
  <2>3. /\ req[c] = "live" <=> \E i \in DOMAIN timers : timers[i] = c
        /\ \A i, j \in DOMAIN timers : timers[i] = c /\ timers[j] = c => i = j
    BY DEF OneTimerPerRequest
  <2>4. \A i, j \in DOMAIN timers' : timers'[i] = c /\ timers'[j] = c => i = j
    <3> SUFFICES ASSUME NEW i \in DOMAIN timers', NEW j \in DOMAIN timers',
                        timers'[i] = c, timers'[j] = c
                 PROVE  i = j
      OBVIOUS
    <3>1. i + 1 = j + 1
      BY <2>1, <2>3
    <3> QED
      BY <2>1, <3>1
  <2>5. CASE timers[1] = c
    <3>1. \A i \in DOMAIN timers' : timers'[i] # c
      <4> SUFFICES ASSUME NEW i \in DOMAIN timers', timers'[i] = c PROVE FALSE
        OBVIOUS
      <4>1. i + 1 = 1
        BY <2>1, <2>3, <2>5
      <4> QED
        BY <2>1, <4>1
    <3>2. req'[c] = "deleted"
      BY <1>0, <1>1, <2>1, <2>5, ExpireFacts, ServerAssumption
    <3> QED
      BY <2>4, <3>1, <3>2
  <2>6. CASE timers[1] # c
    <3>1. req'[c] = req[c]
      BY <1>0, <1>1, <2>1, <2>6, ExpireFacts DEF fds
    <3>2. (\E i \in DOMAIN timers' : timers'[i] = c) <=> \E i \in DOMAIN timers : timers[i] = c
      BY <2>1, <2>2, <2>6
    <3> QED
      BY <2>3, <2>4, <3>1, <3>2
  <2> QED
    BY <2>5, <2>6
<1>2. CASE Accept
  <2>1. \E e \in Clients \cup {Nobody} :
          /\ timers' = Append(timers, e)
          /\ \/ e = Nobody /\ req' = req
             \/ e \in Clients /\ req[e] = "none" /\ req' = [req EXCEPT ![e] = "live"]
    BY <1>2, AcceptFacts DEF fds
  <2>2. PICK e \in Clients \cup {Nobody} :
          /\ timers' = Append(timers, e)
          /\ \/ e = Nobody /\ req' = req
             \/ e \in Clients /\ req[e] = "none" /\ req' = [req EXCEPT ![e] = "live"]
    BY <2>1
  <2>3. /\ Len(timers) \in Nat /\ DOMAIN timers = 1 .. Len(timers)
        /\ DOMAIN timers' = 1 .. Len(timers) + 1
        /\ \A i \in DOMAIN timers : timers'[i] = timers[i]
        /\ timers'[Len(timers) + 1] = e
    BY <1>0, <2>2, AppendFacts
  <2>4. \A i \in DOMAIN timers' : i \in DOMAIN timers \/ i = Len(timers) + 1
    BY <2>3
  <2>5. Len(timers) + 1 \in DOMAIN timers' /\ \A i \in DOMAIN timers : i \in DOMAIN timers'
    BY <2>3
  <2> SUFFICES ASSUME NEW c \in Clients
               PROVE  /\ req'[c] = "live" <=> \E i \in DOMAIN timers' : timers'[i] = c
                      /\ \A i, j \in DOMAIN timers' : timers'[i] = c /\ timers'[j] = c => i = j
    BY DEF OneTimerPerRequest
  <2>6. /\ req[c] = "live" <=> \E i \in DOMAIN timers : timers[i] = c
        /\ \A i, j \in DOMAIN timers : timers[i] = c /\ timers[j] = c => i = j
    BY DEF OneTimerPerRequest
  <2>7. CASE c = e
    <3>1. req'[c] = "live" /\ \A i \in DOMAIN timers : timers[i] # c
      BY <1>0, <2>2, <2>6, <2>7, ServerAssumption
    <3> QED
      BY <2>3, <2>4, <2>5, <2>7, <3>1
  <2>8. CASE c # e
    <3>1. req'[c] = req[c]
      BY <1>0, <2>2, <2>8
    <3> QED
      BY <2>3, <2>4, <2>5, <2>6, <2>8, <3>1
  <2> QED
    BY <2>7, <2>8
<1>3. CASE UNCHANGED <<req, timers>>
  BY <1>3 DEF OneTimerPerRequest
<1> QED
  BY <1>1, <1>2, <1>3
  DEF Next, MainStep, WorkerStep, Connect, Send, Leave, TimerDue, EpollWait, EndExpire, HandleEvent,
      EndHandle, SignalTask, WakeUp, TakeTask, ReadRequest, WriteReply, EndTask, LeftOpen,
      NotQueue, vars, fds

LEMMA FreshStep ==
  TypeOK /\ NewsInv /\ FreshInv /\ OneTimerPerRequest /\ [Next]_vars => FreshInv'
<1> SUFFICES ASSUME TypeOK, NewsInv, FreshInv, OneTimerPerRequest, [Next]_vars
             PROVE  FreshInv'
  OBVIOUS
<1>0. /\ backlog \in Seq(Clients) /\ Len(backlog) \in Nat /\ DOMAIN backlog = 1 .. Len(backlog)
      /\ \A i \in DOMAIN backlog : backlog[i] \in Clients
      /\ peer \in [Clients -> {"away", "open", "fin", "rst"}]
      /\ req \in [Clients -> {"none", "live", "deleted"}]
      /\ fd \in [Clients -> FDs \cup {-1}]
      /\ armed \subseteq Clients
      /\ Listener \notin Clients /\ Nobody \notin Clients
  BY ServerAssumption DEF TypeOK
<1>1. ASSUME NEW c \in Clients, Connect(c) PROVE FreshInv'
  <2>1. /\ DOMAIN backlog' = 1 .. Len(backlog) + 1
        /\ \A i \in DOMAIN backlog : backlog'[i] = backlog[i]
        /\ backlog'[Len(backlog) + 1] = c
    BY <1>0, <1>1, AppendFacts DEF Connect
  <2>2. \A i \in DOMAIN backlog' : i \in DOMAIN backlog \/ i = Len(backlog) + 1
    BY <1>0, <2>1
  <2>3. /\ peer[c] = "away" /\ peer' = [peer EXCEPT ![c] = "open"]
        /\ UNCHANGED <<req, fd, armed, events, added>>
    BY <1>1 DEF Connect, fds, rounds, queue
  <2>4. req[c] = "none" /\ \A i \in DOMAIN backlog : backlog[i] # c
    BY <2>3 DEF FreshInv
  <2>5. \A i, j \in DOMAIN backlog' : backlog'[i] = backlog'[j] => i = j
    BY <2>1, <2>2, <2>4 DEF FreshInv
  <2>6. \A i \in DOMAIN backlog' : peer'[backlog'[i]] # "away" /\ req'[backlog'[i]] = "none"
    BY <1>0, <2>1, <2>2, <2>3, <2>4 DEF FreshInv
  <2>7. \A d \in Clients : peer'[d] = "away" => peer[d] = "away"
    BY <1>0, <2>3
  <2> QED
    BY <2>3, <2>5, <2>6, <2>7 DEF FreshInv
<1>2. ASSUME NEW c \in Clients, Leave(c) PROVE FreshInv'
  <2>1. \A d \in Clients : peer'[d] = "away" <=> peer[d] = "away"
    BY <1>0, <1>2 DEF Leave
  <2>2. UNCHANGED <<backlog, req, fd, armed, events, added>>
    BY <1>2 DEF Leave, fds, rounds, queue
  <2> QED
    BY <1>0, <2>1, <2>2 DEF FreshInv
<1>3. CASE EpollWait
  <2>1. /\ UNCHANGED <<backlog, peer, req, fd, added>>
        /\ events = {} /\ armed' \subseteq armed
        /\ \A c \in Clients : c \in events' <=> c \in armed /\ c \notin armed'
    BY <1>0, <1>3 DEF EpollWait, NewsInv, queue, Disarmed
  <2> QED
    BY <2>1 DEF FreshInv
<1>4. CASE Expire
  <2>1. UNCHANGED <<backlog, peer, events, added>>
    BY <1>4 DEF Expire, net, rounds, queue
  <2>2. CASE Head(timers) = Nobody
    BY <1>0, <1>4, <2>1, <2>2, ExpireFacts DEF FreshInv, fds
  <2>3. CASE Head(timers) # Nobody
    <3>1. /\ Head(timers) \in Clients /\ req[Head(timers)] = "live" /\ fd' = fd
          /\ req' = [req EXCEPT ![Head(timers)] = "deleted"]
          /\ Close(fd[Head(timers)])
      BY <1>4, <2>3, ExpireFacts DEF fds
    <3>2. armed' \subseteq armed
      BY <1>0, <3>1, CloseFacts
    <3>3. \A c \in Clients : req'[c] = "none" <=> req[c] = "none"
      BY <1>0, <3>1
    <3> QED
      BY <1>0, <2>1, <3>1, <3>2, <3>3 DEF FreshInv
  <2> QED
    BY <2>2, <2>3
<1>5. CASE Accept
  <2>1. UNCHANGED <<peer, added>> /\ events' \subseteq events
    BY <1>5 DEF Accept, queue
  <2>2. CASE UNCHANGED <<backlog, fds>>
    BY <2>1, <2>2 DEF FreshInv, fds
  <2>3. ASSUME NEW c \in Clients, NEW f \in FDs,
               Len(backlog) > 0, c = backlog[1], backlog' = Tail(backlog),
               fd' = [fd EXCEPT ![c] = f], req' = [req EXCEPT ![c] = "live"],
               armed' = armed \cup {c}, req[c] = "none", peer[c] # "away"
        PROVE  FreshInv'
    <3>1. /\ 1 \in DOMAIN backlog
          /\ DOMAIN backlog' = 1 .. Len(backlog) - 1
          /\ \A i \in DOMAIN backlog' : i + 1 \in DOMAIN backlog /\ backlog'[i] = backlog[i + 1]
      BY <1>0, <2>3, TailFacts
    <3>2. \A i \in DOMAIN backlog' : i + 1 # 1 /\ i \in Nat
      BY <1>0, <3>1
    <3>3. \A i \in DOMAIN backlog' : backlog'[i] # c
      BY <2>3, <3>1, <3>2 DEF FreshInv
    <3>4. \A i, j \in DOMAIN backlog' : backlog'[i] = backlog'[j] => i = j
      <4> SUFFICES ASSUME NEW i \in DOMAIN backlog', NEW j \in DOMAIN backlog',
                          backlog'[i] = backlog'[j]
                   PROVE  i = j
        OBVIOUS
      <4>1. i + 1 = j + 1
        BY <3>1 DEF FreshInv
      <4> QED
        BY <3>2, <4>1
    <3>5. \A i \in DOMAIN backlog' : peer'[backlog'[i]] # "away" /\ req'[backlog'[i]] = "none"
      BY <1>0, <2>1, <2>3, <3>1, <3>3 DEF FreshInv
    <3>6. ASSUME NEW d \in Clients
          PROVE  /\ peer'[d] = "away" => req'[d] = "none"
                 /\ req'[d] = "none" => d \notin armed' /\ d \notin events' /\ d \notin added'
                 /\ req'[d] # "none" => fd'[d] \in FDs
                 /\ d \in armed' => d \notin events' /\ d \notin added'
                 /\ d \in events' => d \notin added'
      <4>1. CASE d = c
        BY <1>0, <2>1, <2>3, <4>1 DEF FreshInv
      <4>2. CASE d # c
        BY <1>0, <2>1, <2>3, <4>2 DEF FreshInv
      <4> QED
        BY <4>1, <4>2
    <3> QED
      BY <3>4, <3>5, <3>6 DEF FreshInv
  <2> QED
    BY <1>5, <2>2, <2>3, AcceptFacts
<1>6. ASSUME NEW c \in Clients, HandleEvent(c) PROVE FreshInv'
  <2>1. UNCHANGED <<backlog, peer, req, fd>> /\ c \in events /\ events' = events \ {c}
    BY <1>6 DEF HandleEvent, net
  <2>2. armed' \subseteq armed /\ added' \subseteq added \cup {c}
    BY <1>0, <1>6, CloseFacts DEF HandleEvent, Add, queue
  <2> QED
    BY <2>1, <2>2 DEF FreshInv
<1>7. CASE UNCHANGED <<backlog, peer, req, fd, armed, events, added>>
  BY <1>7 DEF FreshInv
<1> QED
  BY <1>1, <1>2, <1>3, <1>4, <1>5, <1>6, <1>7
  DEF Next, MainStep, WorkerStep, Send, TimerDue, EndExpire, EndHandle, SignalTask, WakeUp, TakeTask,
      ReadRequest, WriteReply, EndTask, LeftOpen, Signal, Spurious, Take, Done,
      NotQueue, vars, net, fds, rounds, queue

-----------------------------------------------------------------------------

LEMMA QueueStep == TypeOK /\ QueueInv /\ FreshInv /\ [Next]_vars => QueueInv'
<1> SUFFICES ASSUME TypeOK, QueueInv, FreshInv, [Next]_vars PROVE QueueInv'
  OBVIOUS
<1>1. ASSUME NEW c \in Clients, HandleEvent(c) PROVE QueueInv'
  <2>1. UNCHANGED queue \/ Add(c)
    BY <1>1 DEF HandleEvent
  <2>2. c \notin pending
    BY <1>1 DEF HandleEvent, FreshInv, QueueInv, QueueTypeOK
  <2> QED
    BY <2>1, <2>2, AddInv, QueueStill DEF Clients
<1>2. CASE UNCHANGED queue
  BY <1>2, QueueStill
<1>3. ASSUME NEW w \in Workers, Take(w) \/ Done(w) PROVE QueueInv'
  BY <1>3, TakeInv, DoneInv
<1>4. CASE Signal \/ \E w \in Workers : Spurious(w)
  BY <1>4, WakeInv
<1> QED
  BY <1>1, <1>2, <1>3, <1>4
  DEF Next, MainStep, WorkerStep, Connect, Send, Leave, TimerDue, EpollWait, Expire, EndExpire,
      Accept, EndHandle, SignalTask, WakeUp, TakeTask, ReadRequest, WriteReply, EndTask, vars

-----------------------------------------------------------------------------

\* Connections that were lost stay lost, and numbers are given out once.
LEMMA LostStays ==
  ASSUME TypeOK, NewsInv, FreshInv, OneTimerPerRequest, NumberInv, [Next]_vars
  PROVE  /\ \A x \in Clients : Lost(x) => Lost(x)'
         /\ \A x \in Clients : fd[x] \in FDs => fd'[x] = fd[x]
<1>0. /\ peer \in [Clients -> {"away", "open", "fin", "rst"}]
      /\ fd \in [Clients -> FDs \cup {-1}]
      /\ table \in [FDs -> Clients \cup {Nobody}]
      /\ Nobody \notin Clients /\ -1 \notin FDs
  BY ServerAssumption DEF TypeOK
<1>1. ASSUME NEW c \in Clients, Connect(c) \/ Leave(c)
      PROVE  /\ \A x \in Clients : peer[x] = "rst" => peer'[x] = "rst"
             /\ UNCHANGED <<fd, table>>
  BY <1>0, <1>1 DEF Connect, Leave, fds
<1>2. ASSUME NEW c \in Clients, Close(fd[c]), UNCHANGED <<peer, fd>>
      PROVE  \A x \in Clients : Lost(x) => Lost(x)'
  <2>1. fd[c] \in FDs \cup {-1}
    BY <1>0
  <2>2. \A g \in FDs : table'[g] = IF g = fd[c] THEN Nobody ELSE table[g]
    BY <1>2, <2>1, CloseFacts
  <2> QED
    BY <1>0, <1>2, <2>2 DEF Lost
<1>3. CASE Expire
  <2>1. UNCHANGED <<peer, fd>>
    BY <1>3 DEF Expire, net
  <2> QED
    BY <1>2, <1>3, <2>1, ExpireFacts DEF Lost, fds
<1>4. CASE Accept
  <2>1. CASE UNCHANGED fds
    BY <1>4, <2>1 DEF Accept, Lost, fds
  <2>2. ASSUME NEW c \in Clients, NEW f \in FDs, table' = [table EXCEPT ![f] = c],
               fd' = [fd EXCEPT ![c] = f], req[c] = "none"
        PROVE  /\ \A x \in Clients : Lost(x) => Lost(x)'
               /\ \A x \in Clients : fd[x] \in FDs => fd'[x] = fd[x]
    <3>1. fd[c] \notin FDs /\ peer' = peer
      BY <1>0, <1>4, <2>2 DEF NumberInv, Accept
    <3>2. \A x \in Clients : fd[x] \in FDs => x # c /\ fd'[x] = fd[x]
      BY <1>0, <2>2, <3>1
    <3> QED
      BY <1>0, <2>2, <3>1, <3>2 DEF Lost
  <2> QED
    BY <1>4, <2>1, <2>2, AcceptFacts
<1>5. ASSUME NEW c \in Clients, HandleEvent(c)
      PROVE  (\A x \in Clients : Lost(x) => Lost(x)') /\ fd' = fd
  <2>1. UNCHANGED <<peer, fd>> /\ (Close(fd[c]) \/ UNCHANGED table)
    BY <1>5 DEF HandleEvent, net
  <2> QED
    BY <1>2, <2>1 DEF Lost
<1>6. CASE UNCHANGED <<peer, fd, table>>
  BY <1>6 DEF Lost
<1> QED
  BY <1>1, <1>3, <1>4, <1>5, <1>6
  DEF Next, MainStep, WorkerStep, Send, TimerDue, EpollWait, EndExpire, EndHandle, SignalTask, WakeUp,
      TakeTask, ReadRequest, AfterRead, WriteReply, EndTask, LeftOpen, NotQueue, Lost, vars, net, fds

\* A live request closes its number, because it hung up or is deleted: whoever
\* had the number may be another, and then a connection that was reset is to blame.
LEMMA CloseStep ==
  ASSUME TypeOK, FreshInv, NumberInv, NEW c \in Clients, req[c] = "live", Close(fd[c]),
         UNCHANGED <<fd, peer, added>>, hups' \subseteq hups,
         \/ req' = req /\ peer[c] = "rst" /\ c \in events /\ events' = events \ {c}
         \/ req' = [req EXCEPT ![c] = "deleted"] /\ events' = events
  PROVE  NumberInv'
<1>0. /\ fd \in [Clients -> FDs \cup {-1}]
      /\ table \in [FDs -> Clients \cup {Nobody}]
      /\ req \in [Clients -> {"none", "live", "deleted"}]
      /\ armed \subseteq Clients
      /\ Nobody \notin Clients
  BY ServerAssumption DEF TypeOK
<1>1. fd[c] \in FDs
  BY DEF FreshInv
<1>2. /\ armed' = armed \ {table[fd[c]]}
      /\ \A g \in FDs : table'[g] = IF g = fd[c] THEN Nobody ELSE table[g]
  BY <1>1, CloseFacts
<1>3. \A d \in Clients : req'[d] = req[d] \/ (d = c /\ req'[d] = "deleted")
  BY <1>0
<1>4. \A d \in Clients : req[d] # "none" => fd[d] \in FDs
  BY DEF FreshInv
<1>5. \A f \in FDs : table'[f] # Nobody => fd'[table'[f]] = f /\ req'[table'[f]] = "live"
  BY <1>0, <1>2, <1>3 DEF NumberInv
<1>6. \A d \in armed' : table'[fd'[d]] = d
  BY <1>0, <1>1, <1>2, <1>4 DEF NumberInv, FreshInv
<1>7. \A d \in hups' : peer'[d] = "rst"
  BY DEF NumberInv
<1>8. \A d \in Clients : req'[d] = "none" => fd'[d] = -1
  BY <1>3 DEF NumberInv
<1>9. \A x \in Clients : Lost(x) => Lost(x)'
  BY <1>0, <1>2 DEF Lost
<1>10. ASSUME NEW d \in Clients, req'[d] = "live", table'[fd'[d]] # d
       PROVE  \E x \in Clients : /\ Lost(x)' /\ fd'[x] = fd'[d]
                                 /\ d \in armed' \cup events' \cup added' => x # d
  <2>1. req[d] = "live" /\ fd[d] \in FDs
    BY <1>3, <1>4, <1>10
  <2>2. CASE table[fd[d]] # d
    <3>1. PICK x \in Clients :
            Lost(x) /\ fd[x] = fd[d] /\ (d \in armed \cup events \cup added => x # d)
      BY <2>1, <2>2 DEF NumberInv
    <3> QED
      BY <1>2, <1>9, <3>1
  <2>3. CASE table[fd[d]] = d /\ d = c
    <3>1. req' = req /\ peer[c] = "rst" /\ c \in events /\ events' = events \ {c}
      BY <1>0, <1>10, <2>3
    <3>2. c \notin armed /\ c \notin added
      BY <3>1 DEF FreshInv
    <3>3. Lost(c)'
      BY <1>0, <1>1, <1>2, <3>1 DEF Lost
    <3> QED
      BY <1>2, <2>3, <3>1, <3>2, <3>3
  <2>4. CASE table[fd[d]] = d /\ d # c
    <3>1. fd[d] = fd[c]
      BY <1>2, <1>10, <2>1, <2>4
    <3>2. PICK x \in Clients : Lost(x) /\ fd[x] = fd[c]
      BY <2>4, <3>1 DEF NumberInv
    <3>3. x # d
      BY <2>4, <3>1, <3>2 DEF Lost
    <3> QED
      BY <1>9, <3>1, <3>2, <3>3
  <2> QED
    BY <2>2, <2>3, <2>4
<1> QED
  BY <1>5, <1>6, <1>7, <1>8, <1>10 DEF NumberInv

LEMMA NumberStep ==
  TypeOK /\ NewsInv /\ FreshInv /\ OneTimerPerRequest /\ NumberInv /\ [Next]_vars => NumberInv'
<1> SUFFICES ASSUME TypeOK, NewsInv, FreshInv, OneTimerPerRequest, NumberInv, [Next]_vars
             PROVE  NumberInv'
  OBVIOUS
<1>0. /\ peer \in [Clients -> {"away", "open", "fin", "rst"}]
      /\ req \in [Clients -> {"none", "live", "deleted"}]
      /\ fd \in [Clients -> FDs \cup {-1}]
      /\ table \in [FDs -> Clients \cup {Nobody}]
      /\ armed \subseteq Clients /\ hups \subseteq Clients
      /\ Listener \notin Clients /\ Nobody \notin Clients /\ -1 \notin FDs
  BY ServerAssumption DEF TypeOK
\* Nobody gets or loses a number.
<1>1. ASSUME UNCHANGED <<table, req, fd>>,
             \A x \in Clients : peer[x] = "rst" => peer'[x] = "rst",
             armed' \subseteq armed, \A c \in hups' : peer'[c] = "rst",
             \A c \in Clients : c \in armed' \cup events' \cup added' => c \in armed \cup events \cup added
      PROVE  NumberInv'
  BY <1>1 DEF NumberInv, Lost
<1>2. ASSUME NEW c \in Clients, Connect(c) \/ Leave(c) PROVE NumberInv'
  <2>1. \A x \in Clients : peer[x] = "rst" => peer'[x] = "rst"
    BY <1>0, <1>2 DEF Connect, Leave
  <2>2. UNCHANGED <<table, req, fd, armed, events, hups, added>>
    BY <1>2 DEF Connect, Leave, fds, rounds, queue
  <2> QED
    BY <1>0, <1>1, <2>1, <2>2 DEF NumberInv
<1>3. CASE EpollWait
  <2>1. UNCHANGED <<table, req, fd, peer, added>> /\ armed' \subseteq armed
    BY <1>3 DEF EpollWait, Disarmed, queue
  <2>2. \A c \in hups' : peer'[c] = "rst"
    BY <1>3 DEF EpollWait
  <2>3. \A c \in Clients : c \in events' => c \in armed
    BY <1>0, <1>3 DEF EpollWait
  <2> QED
    BY <1>1, <2>1, <2>2, <2>3
<1>4. CASE Expire
  <2>1. UNCHANGED <<fd, peer, added, events, hups>>
    BY <1>4 DEF Expire, net, rounds, queue
  <2>2. CASE UNCHANGED fds
    BY <1>1, <2>1, <2>2 DEF fds, NumberInv
  <2>3. ASSUME NEW c \in Clients, req[c] = "live", Close(fd[c]),
               req' = [req EXCEPT ![c] = "deleted"]
        PROVE  NumberInv'
    BY <2>1, <2>3, CloseStep
  <2> QED
    BY <1>4, <2>2, <2>3, ExpireFacts
<1>5. CASE Accept
  <2>1. UNCHANGED <<peer, hups, added>> /\ events' \subseteq events
    BY <1>5 DEF Accept, queue
  <2>2. CASE UNCHANGED fds
    BY <1>1, <2>1, <2>2 DEF fds, NumberInv
  <2>3. ASSUME NEW c \in Clients, NEW f \in FDs,
               table[f] = Nobody, table' = [table EXCEPT ![f] = c],
               fd' = [fd EXCEPT ![c] = f], req' = [req EXCEPT ![c] = "live"],
               armed' = armed \cup {c}, req[c] = "none"
        PROVE  NumberInv'
    <3>1. c \notin armed /\ fd[c] \notin FDs
      BY <1>0, <2>3 DEF FreshInv, NumberInv
    <3>2. \A d \in Clients : d # c => fd'[d] = fd[d] /\ req'[d] = req[d]
      BY <1>0, <2>3
    <3>3. fd'[c] = f /\ req'[c] = "live" /\ table'[f] = c
      BY <1>0, <2>3
    <3>4. \A g \in FDs : g # f => table'[g] = table[g]
      BY <1>0, <2>3
    <3>5. \A g \in FDs : table'[g] # Nobody => fd'[table'[g]] = g /\ req'[table'[g]] = "live"
      <4> TAKE g \in FDs
      <4> HAVE table'[g] # Nobody
      <4>1. CASE g = f
        BY <3>3, <4>1
      <4>2. CASE g # f
        <5>1. table[g] \in Clients /\ fd[table[g]] = g /\ req[table[g]] = "live" /\ table'[g] = table[g]
          BY <1>0, <3>4, <4>2 DEF NumberInv
        <5> QED
          BY <2>3, <3>2, <5>1
      <4> QED
        BY <4>1, <4>2
    <3>6. \A d \in armed' : table'[fd'[d]] = d
      <4> TAKE d \in armed'
      <4>1. CASE d = c
        BY <3>3, <4>1
      <4>2. CASE d # c
        <5>1. d \in Clients /\ table[fd[d]] = d /\ fd[d] \in FDs
          BY <1>0, <2>3, <4>2 DEF NumberInv, FreshInv
        <5> QED
          BY <1>0, <2>3, <3>2, <3>4, <4>2, <5>1
      <4> QED
        BY <4>1, <4>2
    <3>7. \A d \in Clients : req'[d] = "none" => fd'[d] = -1
      BY <3>2, <3>3 DEF NumberInv
    <3>8. ASSUME NEW d \in Clients, req'[d] = "live", table'[fd'[d]] # d
          PROVE  \E x \in Clients : /\ Lost(x)' /\ fd'[x] = fd'[d]
                                    /\ d \in armed' \cup events' \cup added' => x # d
      <4>1. d # c /\ fd'[d] = fd[d] /\ req[d] = "live" /\ fd[d] \in FDs
        BY <3>2, <3>3, <3>8 DEF FreshInv
      <4>2. table[fd[d]] # d
        BY <1>0, <2>3, <3>4, <3>8, <4>1
      <4>3. PICK x \in Clients :
              Lost(x) /\ fd[x] = fd[d] /\ (d \in armed \cup events \cup added => x # d)
        BY <4>1, <4>2 DEF NumberInv
      <4>4. x # c /\ fd'[x] = fd[x]
        BY <3>1, <3>2, <4>1, <4>3
      <4>5. Lost(x)'
        BY <1>0, <2>1, <3>3, <3>4, <4>3, <4>4 DEF Lost
      <4> QED
        BY <2>1, <2>3, <4>1, <4>3, <4>4, <4>5
    <3>9. \A d \in hups' : peer'[d] = "rst"
      BY <2>1 DEF NumberInv
    <3> QED
      BY <3>5, <3>6, <3>7, <3>8, <3>9 DEF NumberInv
  <2> QED
    BY <1>5, <2>2, <2>3, AcceptFacts
<1>6. ASSUME NEW c \in Clients, HandleEvent(c) PROVE NumberInv'
  <2>1. /\ UNCHANGED <<peer, req, fd>>
        /\ c \in events /\ events' = events \ {c} /\ hups' \subseteq hups
    BY <1>6 DEF HandleEvent, net
  <2>2. CASE c \in hups /\ req[c] = "live" /\ Close(fd[c]) /\ UNCHANGED queue
    <3>1. peer[c] = "rst" /\ added' = added
      BY <2>2 DEF NumberInv, queue
    <3> QED
      BY <2>1, <2>2, <3>1, CloseStep
  <2>3. CASE UNCHANGED <<table, armed>> /\ (Add(c) \/ UNCHANGED queue)
    <3>1. added' \subseteq added \cup {c}
      BY <2>3 DEF Add, queue
    <3> QED
      BY <1>1, <2>1, <2>3, <3>1 DEF NumberInv
  <2> QED
    BY <1>6, <2>2, <2>3 DEF HandleEvent
<1>7. CASE UNCHANGED <<table, req, fd, armed, peer, hups, events, added>>
  BY <1>1, <1>7 DEF NumberInv
<1> QED
  BY <1>2, <1>3, <1>4, <1>5, <1>6, <1>7
  DEF Next, MainStep, WorkerStep, Send, TimerDue, EndExpire, EndHandle, SignalTask, WakeUp, TakeTask,
      ReadRequest, AfterRead, WriteReply, EndTask, LeftOpen, Signal, Spurious, Take, Done,
      NotQueue, vars, net, fds, rounds, queue

-----------------------------------------------------------------------------

\* The task of a worker has not ended.
LEMMA RunningIsPending ==
  ASSUME QueueInv, NEW w \in Workers, wpc[w] = "run"
  PROVE  running[w] \in Clients /\ running[w] \in pending /\ running[w] \in added
<1>1. running[w] \in pending
  BY DEF QueueInv, EachTaskOnce, Running
<1> QED
  BY <1>1 DEF QueueInv, QueueTypeOK, Clients

LEMMA HandStep ==
  /\ TypeOK /\ QueueInv /\ NewsInv /\ FreshInv /\ OneTimerPerRequest /\ NumberInv
  /\ OnlyCaughtAreUsed /\ [Next]_vars
  => OnlyCaughtAreUsed'
<1> SUFFICES ASSUME TypeOK, QueueInv, NewsInv, FreshInv, OneTimerPerRequest, NumberInv,
                    OnlyCaughtAreUsed, [Next]_vars
             PROVE  OnlyCaughtAreUsed'
  OBVIOUS
<1>0. /\ req \in [Clients -> {"none", "live", "deleted"}]
      /\ fd \in [Clients -> FDs \cup {-1}]
      /\ armed \subseteq Clients
      /\ Listener \notin Clients /\ Nobody \notin Clients
  BY ServerAssumption DEF TypeOK
<1>1. /\ status = "undefined" => caught # {}
      /\ \A c \in Clients : req[c] = "deleted" => c \notin armed /\ (c \in InHand => c \in caught)
  BY DEF OnlyCaughtAreUsed
\* Nothing is deleted and nobody gets a request in hand.
<1>2. ASSUME UNCHANGED <<req, caught>>, armed' \subseteq armed, InHand' \subseteq InHand,
             status' = "undefined" => status = "undefined" \/ caught # {}
      PROVE  OnlyCaughtAreUsed'
  BY <1>1, <1>2 DEF OnlyCaughtAreUsed
<1>3. CASE EpollWait
  <2>1. /\ UNCHANGED <<req, caught, status, pending>> /\ armed' \subseteq armed
        /\ \A c \in Clients : c \in events' => c \in armed
    BY <1>0, <1>3 DEF EpollWait, Disarmed, queue
  <2>2. \A c \in Clients : c \in InHand' => c \in InHand \/ c \in armed
    BY <2>1 DEF InHand
  <2> QED
    BY <1>1, <2>1, <2>2 DEF OnlyCaughtAreUsed
<1>4. CASE Expire
  <2>1. UNCHANGED <<events, pending, status>> /\ InHand' = InHand
    BY <1>4, ExpireFacts DEF Expire, InHand, rounds, queue
  <2>2. CASE UNCHANGED <<fds, status, caught>>
    BY <1>2, <2>1, <2>2 DEF fds
  <2>3. ASSUME NEW c \in Clients, req[c] = "live", Close(fd[c]),
               req' = [req EXCEPT ![c] = "deleted"], caught' = caught \cup (InHand \cap {c})
        PROVE  OnlyCaughtAreUsed'
    <3>1. fd[c] \in FDs
      BY <2>3 DEF FreshInv
    <3>2. armed' = armed \ {table[fd[c]]}
      BY <1>0, <2>3, <3>1, CloseFacts
    <3>3. c \notin armed'
      BY <3>2 DEF NumberInv
    <3>4. \A d \in Clients : d # c => req'[d] = req[d]
      BY <1>0, <2>3
    <3> QED
      BY <1>1, <2>1, <2>3, <3>2, <3>3, <3>4 DEF OnlyCaughtAreUsed
  <2> QED
    BY <1>4, <2>2, <2>3, ExpireFacts
<1>5. CASE Accept
  <2>1. UNCHANGED <<status, caught, pending>> /\ events' \subseteq events
    BY <1>5 DEF Accept, queue
  <2>2. InHand' \subseteq InHand
    BY <2>1 DEF InHand
  <2>3. CASE UNCHANGED fds
    BY <1>2, <2>1, <2>2, <2>3 DEF fds
  <2>4. ASSUME NEW c \in Clients, req' = [req EXCEPT ![c] = "live"], armed' = armed \cup {c}
        PROVE  OnlyCaughtAreUsed'
    <3>1. \A d \in Clients : req'[d] = "deleted" => d # c /\ req[d] = "deleted"
      BY <1>0, <2>4
    <3> QED
      BY <1>1, <2>1, <2>2, <2>4, <3>1 DEF OnlyCaughtAreUsed
  <2> QED
    BY <1>5, <2>3, <2>4, AcceptFacts
<1>6. ASSUME NEW c \in Clients, HandleEvent(c) PROVE OnlyCaughtAreUsed'
  <2>1. UNCHANGED <<req, caught>> /\ c \in events /\ events' \subseteq events
    BY <1>6 DEF HandleEvent
  <2>2. armed' \subseteq armed
    BY <1>0, <1>6, CloseFacts DEF HandleEvent
  <2>3. pending' \subseteq pending \cup {c}
    BY <1>6 DEF HandleEvent, Add, queue
  <2>4. InHand' \subseteq InHand
    BY <2>1, <2>3 DEF InHand
  <2>5. req[c] = "deleted" => caught # {}
    BY <1>1, <2>1 DEF InHand
  <2>6. status' = status \/ req[c] = "deleted"
    BY <1>6 DEF HandleEvent
  <2> QED
    BY <1>2, <2>1, <2>2, <2>4, <2>5, <2>6
<1>7. ASSUME NEW w \in Workers, ReadRequest(w) \/ WriteReply(w) PROVE OnlyCaughtAreUsed'
  <2>1. UNCHANGED <<req, caught, armed, events, pending>>
    BY <1>7 DEF ReadRequest, WriteReply, fds, rounds, queue
  <2>2. running[w] \in Clients /\ running[w] \in InHand
    BY <1>7, RunningIsPending DEF ReadRequest, WriteReply, InStep, InHand
  <2>3. status' \in {status, "killed"} \/ req[running[w]] = "deleted"
    BY <1>7 DEF ReadRequest, WriteReply, Written, NotWritten
  <2>4. status' = "undefined" => status = "undefined" \/ caught # {}
    BY <1>1, <2>2, <2>3
  <2> QED
    BY <1>2, <2>1, <2>4 DEF InHand
<1>8. ASSUME pending' \subseteq pending, UNCHANGED <<req, caught, armed, events, status>>
      PROVE  OnlyCaughtAreUsed'
  BY <1>2, <1>8 DEF InHand
<1> QED
  BY <1>3, <1>4, <1>5, <1>6, <1>7, <1>8
  DEF Next, MainStep, WorkerStep, Connect, Send, Leave, TimerDue, EndExpire, EndHandle, SignalTask,
      WakeUp, TakeTask, EndTask, LeftOpen, Signal, Spurious, Take, Done, NotQueue, vars, fds, rounds, queue

\* A worker finds its own connection behind the number, or nobody, or somebody who
\* got the number after a connection that was reset.
LEMMA AnswerStep ==
  /\ TypeOK /\ QueueInv /\ NewsInv /\ FreshInv /\ OneTimerPerRequest /\ NumberInv
  /\ AnswersGoHome /\ [Next]_vars
  => AnswersGoHome'
<1> SUFFICES ASSUME TypeOK, QueueInv, NewsInv, FreshInv, OneTimerPerRequest, NumberInv,
                    AnswersGoHome, [Next]_vars,
                    NEW o \in Clients, NEW c \in Clients, c \in answers'[o], c # o
             PROVE  \E x \in Clients \ {o, c} : Lost(x)' /\ fd'[x] = fd'[c] /\ fd'[x] = fd'[o]
  BY DEF AnswersGoHome
<1>0. /\ answers \in [Clients -> SUBSET Clients]
      /\ req \in [Clients -> {"none", "live", "deleted"}]
      /\ Nobody \notin Clients
  BY ServerAssumption DEF TypeOK
<1>1. SUFFICES \E x \in Clients \ {o, c} : Lost(x) /\ fd[x] = fd[c] /\ fd[x] = fd[o]
  <2>1. PICK x \in Clients \ {o, c} : Lost(x) /\ fd[x] = fd[c] /\ fd[x] = fd[o]
    BY <1>1
  <2>2. fd[x] \in FDs
    BY <2>1 DEF Lost
  <2>3. Lost(x)' /\ fd'[x] = fd[x] /\ fd'[c] = fd[c] /\ fd'[o] = fd[o]
    BY <2>1, <2>2, LostStays
  <2> QED
    BY <2>1, <2>3
<1>2. CASE c \in answers[o]
  BY <1>2 DEF AnswersGoHome
<1>3. CASE c \notin answers[o]
  <2>1. answers' # answers
    BY <1>3
  <2>2. PICK w \in Workers : WriteReply(w)
    BY <2>1
    DEF Next, MainStep, WorkerStep, Connect, Send, Leave, TimerDue, EpollWait, Expire, EndExpire,
        Accept, HandleEvent, EndHandle, SignalTask, WakeUp, TakeTask, ReadRequest, EndTask,
        NotQueue, vars
  <2>3. Written(w, Owner(w)) /\ req[running[w]] # "deleted"
    BY <2>1, <2>2 DEF WriteReply, NotWritten
  <2>4. running[w] \in Clients /\ running[w] \in added
    BY <2>2, RunningIsPending DEF WriteReply, InStep
  <2>5. req[running[w]] = "live" /\ fd[running[w]] \in FDs
    BY <1>0, <2>3, <2>4 DEF FreshInv
  <2>6. o = Owner(w) /\ c = running[w]
    BY <1>0, <1>3, <2>3, <2>4 DEF Written
  <2>7. table[fd[c]] = o
    BY <2>5, <2>6 DEF Owner
  <2>8. fd[o] = fd[c]
    BY <1>0, <2>5, <2>6, <2>7 DEF NumberInv
  <2>9. PICK x \in Clients : Lost(x) /\ fd[x] = fd[c] /\ x # c
    BY <2>4, <2>5, <2>6, <2>7 DEF NumberInv
  <2>10. x # o
    BY <2>7, <2>9 DEF Lost
  <2> QED
    BY <2>8, <2>9, <2>10
<1> QED
  BY <1>2, <1>3

-----------------------------------------------------------------------------
(* Types: the queue has its own, and the other variables go in two groups. *)

NetOK ==
  /\ peer \in [Clients -> {"away", "open", "fin", "rst"}]
  /\ unread \subseteq Clients
  /\ backlog \in Seq(Clients)
  /\ edge \in BOOLEAN
  /\ answers \in [Clients -> SUBSET Clients]
  /\ step \in [Workers -> {"read", "write", "done"}]

ServerOK ==
  /\ table \in [FDs -> Clients \cup {Nobody}]
  /\ armed \subseteq Clients
  /\ req \in [Clients -> {"none", "live", "deleted"}]
  /\ fd \in [Clients -> FDs \cup {-1}]
  /\ timers \in Seq(Clients \cup {Nobody})
  /\ due \in 0 .. Len(timers)
  /\ mpc \in {"wait", "expire", "handle"}
  /\ events \subseteq Clients \cup {Listener}
  /\ hups \subseteq events \cap Clients
  /\ status \in {"up", "killed", "undefined"}
  /\ caught \subseteq Clients

LEMMA TypeParts == TypeOK <=> QueueTypeOK /\ NetOK /\ ServerOK
  BY DEF TypeOK, NetOK, ServerOK

LEMMA NetStep == TypeOK /\ QueueInv /\ NewsInv /\ FreshInv /\ [Next]_vars => NetOK'
<1> SUFFICES ASSUME TypeOK, QueueInv, NewsInv, FreshInv, [Next]_vars PROVE NetOK'
  OBVIOUS
<1>0. NetOK
  BY TypeParts
<1>1. ASSUME NEW c \in Clients, Connect(c) PROVE NetOK'
  <2>1. backlog' \in Seq(Clients)
    BY <1>0, <1>1, AppendFacts DEF NetOK, Connect
  <2> QED
    BY <1>0, <1>1, <2>1 DEF NetOK, Connect
<1>2. ASSUME NEW c \in Clients, Send(c) PROVE NetOK'
  BY <1>0, <1>2 DEF NetOK, Send
<1>3. ASSUME NEW c \in Clients, Leave(c) PROVE NetOK'
  BY <1>0, <1>3 DEF NetOK, Leave
<1>4. CASE TimerDue
  BY <1>0, <1>4 DEF NetOK, TimerDue, net
<1>5. CASE EpollWait
  BY <1>0, <1>5 DEF NetOK, EpollWait
<1>6. CASE Accept
  <2>1. backlog' = backlog \/ (Len(backlog) > 0 /\ backlog' = Tail(backlog))
    BY <1>6, AcceptFacts
  <2>2. backlog' \in Seq(Clients)
    <3>1. backlog \in Seq(Clients)
      BY <1>0 DEF NetOK
    <3> QED
      BY <2>1, <3>1, TailFacts
  <2> QED
    BY <1>0, <1>6, <2>2 DEF NetOK, Accept
<1>7. ASSUME NEW w \in Workers, TakeTask(w) PROVE NetOK'
  BY <1>0, <1>7 DEF NetOK, TakeTask, NotQueue, net
<1>8. ASSUME NEW w \in Workers, ReadRequest(w) PROVE NetOK'
  BY <1>0, <1>8 DEF NetOK, ReadRequest
<1>9. ASSUME NEW w \in Workers, WriteReply(w) PROVE NetOK'
  <2>1. running[w] \in Clients
    <3>1. running[w] \in pending
      BY <1>9 DEF WriteReply, InStep, QueueInv, EachTaskOnce, Running
    <3> QED
      BY <3>1 DEF QueueInv, QueueTypeOK, Clients
  <2>2. Owner(w) = Nobody \/ Owner(w) \in Clients
    BY <2>1 DEF Owner, TypeOK
  <2>3. answers' \in [Clients -> SUBSET Clients]
    <3>1. answers \in [Clients -> SUBSET Clients]
      BY <1>0 DEF NetOK
    <3>2. \/ answers' = answers
          \/ /\ Owner(w) \in Clients
             /\ answers' = [answers EXCEPT ![Owner(w)] = @ \cup {running[w]}]
      BY <1>9, <2>2 DEF WriteReply, Written, NotWritten
    <3> QED
      BY <2>1, <3>1, <3>2
  <2>4. step' \in [Workers -> {"read", "write", "done"}]
    BY <1>0, <1>9 DEF NetOK, WriteReply, Written, NotWritten
  <2> QED
    BY <1>0, <1>9, <2>3, <2>4 DEF NetOK, WriteReply, net
<1>10. CASE UNCHANGED <<net, answers, step>>
  BY <1>0, <1>10 DEF NetOK, net
<1> QED
  BY <1>1, <1>2, <1>3, <1>4, <1>5, <1>6, <1>7, <1>8, <1>9, <1>10
  DEF Next, MainStep, WorkerStep, Expire, EndExpire, HandleEvent, EndHandle, SignalTask, WakeUp,
      EndTask, NotQueue, vars

LEMMA ServerStep ==
  TypeOK /\ NewsInv /\ FreshInv /\ OneTimerPerRequest /\ [Next]_vars => ServerOK'
<1> SUFFICES ASSUME TypeOK, NewsInv, FreshInv, OneTimerPerRequest, [Next]_vars
             PROVE  ServerOK'
  OBVIOUS
<1>0. ServerOK /\ Len(timers) \in Nat
  BY TypeParts DEF ServerOK
<1>1. CASE TimerDue
  BY <1>0, <1>1 DEF ServerOK, TimerDue, fds, rounds
<1>2. CASE EpollWait
  BY <1>0, <1>2 DEF ServerOK, EpollWait, Disarmed
<1>3. CASE Expire
  <2>1. /\ timers' \in Seq(Clients \cup {Nobody})
        /\ Len(timers') = Len(timers) - 1 /\ due' = due - 1 /\ due \in 1 .. Len(timers)
    <3>1. /\ timers \in Seq(Clients \cup {Nobody}) /\ Len(timers) > 0 /\ timers' = Tail(timers)
          /\ due \in 1 .. Len(timers) /\ due' = due - 1
      BY <1>3, ExpireFacts, Zenon
    <3>2. Tail(timers) \in Seq(Clients \cup {Nobody}) /\ Len(Tail(timers)) = Len(timers) - 1
      BY <3>1, TailFacts, Zenon
    <3> QED
      BY <3>1, <3>2
  <2>2. /\ table' \in [FDs -> Clients \cup {Nobody}]
        /\ armed' \subseteq Clients
        /\ req' \in [Clients -> {"none", "live", "deleted"}]
        /\ UNCHANGED <<fd, status>>
    <3>1. CASE UNCHANGED <<fds, status>>
      BY <1>0, <3>1 DEF ServerOK, fds
    <3>2. ASSUME NEW c \in Clients, Close(fd[c]), req' = [req EXCEPT ![c] = "deleted"],
                 UNCHANGED <<fd, status>>
          PROVE  /\ table' \in [FDs -> Clients \cup {Nobody}]
                 /\ armed' \subseteq Clients
                 /\ req' \in [Clients -> {"none", "live", "deleted"}]
                 /\ UNCHANGED <<fd, status>>
      <4>1. fd[c] \in FDs \cup {-1}
        BY <1>0 DEF ServerOK
      <4>2. table' \in [FDs -> Clients \cup {Nobody}] /\ armed' \subseteq armed
        BY <3>2, <4>1, CloseFacts
      <4> QED
        BY <1>0, <3>2, <4>2 DEF ServerOK
    <3> QED
      BY <1>3, <3>1, <3>2, ExpireFacts
  <2>3. UNCHANGED rounds
    BY <1>3 DEF Expire
  <2>4. caught' \subseteq Clients
    BY <1>0, <1>3, ExpireFacts DEF ServerOK
  <2> QED
    BY <1>0, <2>1, <2>2, <2>3, <2>4 DEF ServerOK, rounds
<1>4. CASE EndExpire
  BY <1>0, <1>4 DEF ServerOK, EndExpire, fds
<1>5. CASE Accept
  <2>1. CASE UNCHANGED fds /\ timers' = Append(timers, Nobody)
    <3>1. timers' \in Seq(Clients \cup {Nobody}) /\ Len(timers') = Len(timers) + 1
      BY <1>0, <2>1, AppendFacts DEF ServerOK
    <3>2. hups' \subseteq events' \cap Clients /\ events' \subseteq events
      BY <1>0, <1>5, ServerAssumption DEF ServerOK, Accept
    <3>3. due' \in 0 .. Len(timers')
      BY <1>0, <1>5, <3>1 DEF ServerOK, Accept
    <3>4. UNCHANGED <<table, armed, req, fd, mpc, status, caught>>
      BY <1>5, <2>1 DEF Accept, fds
    <3> QED
      BY <1>0, <3>1, <3>2, <3>3, <3>4 DEF ServerOK
  <2>2. ASSUME NEW c \in Clients, NEW f \in FDs, table' = [table EXCEPT ![f] = c],
               fd' = [fd EXCEPT ![c] = f], req' = [req EXCEPT ![c] = "live"],
               armed' = armed \cup {c}, timers' = Append(timers, c)
        PROVE  ServerOK'
    <3>1. timers' \in Seq(Clients \cup {Nobody}) /\ Len(timers') = Len(timers) + 1
      BY <1>0, <2>2, AppendFacts DEF ServerOK
    <3>2. hups' \subseteq events'
      BY <1>0, <1>5, ServerAssumption DEF ServerOK, Accept
    <3> QED
      BY <1>0, <1>5, <2>2, <3>1, <3>2 DEF ServerOK, Accept
  <2> QED
    BY <1>5, <2>1, <2>2, AcceptFacts
<1>6. ASSUME NEW c \in Clients, HandleEvent(c) PROVE ServerOK'
  <2>1. fd[c] \in FDs \cup {-1}
    BY <1>0 DEF ServerOK
  <2>2. table' \in [FDs -> Clients \cup {Nobody}] /\ armed' \subseteq armed
    BY <1>0, <1>6, <2>1, CloseFacts DEF HandleEvent, ServerOK
  <2> QED
    BY <1>0, <1>6, <2>2 DEF ServerOK, HandleEvent
<1>7. CASE EndHandle
  BY <1>0, <1>7 DEF ServerOK, EndHandle, fds
<1>8. ASSUME NEW w \in Workers, ReadRequest(w) PROVE ServerOK'
  BY <1>0, <1>8 DEF ServerOK, ReadRequest, AfterRead, rounds
<1>9. ASSUME NEW w \in Workers, WriteReply(w) PROVE ServerOK'
  <2>1. status' \in {status, "killed", "undefined"}
    BY <1>9 DEF WriteReply, Written, NotWritten
  <2> QED
    BY <1>0, <1>9, <2>1 DEF ServerOK, WriteReply, fds, rounds
<1>10. CASE UNCHANGED <<fds, timers, due, rounds, status, caught>>
  BY <1>0, <1>10 DEF ServerOK, fds, rounds
<1> QED
  BY <1>1, <1>2, <1>3, <1>4, <1>5, <1>6, <1>7, <1>8, <1>9, <1>10
  DEF Next, MainStep, WorkerStep, Connect, Send, Leave, SignalTask, WakeUp, TakeTask, EndTask,
      LeftOpen, NotQueue, vars, fds

-----------------------------------------------------------------------------

LEMMA InitInv == Init => Inv
<1> SUFFICES ASSUME Init PROVE Inv
  OBVIOUS
<1>1. QueueInv
  BY QueueInitInv DEF Init
<1>2. backlog = <<>> /\ timers = <<>> /\ due = 0 /\ events = {} /\ armed = {} /\ added = {}
  BY DEF Init, QueueInit
<1>3. NetOK
  <2>1. backlog \in Seq(Clients)
    BY <1>2
  <2>2. answers \in [Clients -> SUBSET Clients]
    BY DEF Init
  <2>3. /\ peer \in [Clients -> {"away", "open", "fin", "rst"}]
        /\ step \in [Workers -> {"read", "write", "done"}]
    BY DEF Init
  <2> QED
    BY <2>1, <2>2, <2>3 DEF Init, NetOK
<1>4. ServerOK
  <2>1. timers \in Seq(Clients \cup {Nobody}) /\ Len(timers) = 0
    BY <1>2
  <2> QED
    BY <2>1, ServerAssumption DEF Init, ServerOK
<1>5. TypeOK
  BY <1>1, <1>3, <1>4, TypeParts DEF QueueInv
<1>6. NewsInv
  BY DEF Init, NewsInv
<1>7. FreshInv
  BY <1>2 DEF Init, FreshInv
<1>8. OneTimerPerRequest
  BY <1>2 DEF Init, OneTimerPerRequest
<1>9. NumberInv /\ OnlyCaughtAreUsed /\ AnswersGoHome
  BY <1>2 DEF Init, NumberInv, OnlyCaughtAreUsed, AnswersGoHome
<1> QED
  BY <1>1, <1>5, <1>6, <1>7, <1>8, <1>9 DEF Inv

THEOREM InvCorrect == Spec => []Inv
<1>1. Inv /\ [Next]_vars => Inv'
  <2> SUFFICES ASSUME Inv, [Next]_vars PROVE Inv'
    OBVIOUS
  <2>1. /\ TypeOK /\ QueueInv /\ NewsInv /\ FreshInv /\ OneTimerPerRequest
        /\ NumberInv /\ OnlyCaughtAreUsed /\ AnswersGoHome
    BY DEF Inv
  <2>2. QueueInv' /\ NewsInv' /\ FreshInv'
    BY <2>1, QueueStep, NewsStep, FreshStep
  <2>3. OneTimerPerRequest' /\ NumberInv' /\ OnlyCaughtAreUsed' /\ AnswersGoHome'
    BY <2>1, TimerStep, NumberStep, HandStep, AnswerStep
  <2>4. NetOK' /\ ServerOK'
    BY <2>1, NetStep, ServerStep
  <2>5. TypeOK'
    BY <2>2, <2>4 DEF QueueInv, TypeOK, NetOK, ServerOK
  <2> QED
    BY <2>2, <2>3, <2>5 DEF Inv
<1> QED
  BY InitInv, <1>1, PTL DEF Spec

\* Workers of Thread_pool never all sleep on a task of the list.
THEOREM NoTaskStrandedCorrect == Spec => []NoTaskStranded
<1>1. Inv => NoTaskStranded
  BY DEF Inv, QueueInv
<1> QED
  BY InvCorrect, <1>1, PTL

\* task_queue_t loses no task and gives none to two workers, and the server adds
\* none that is still there.
THEOREM EachTaskOnceCorrect == Spec => []EachTaskOnce
<1>1. Inv => EachTaskOnce
  BY DEF Inv, QueueInv
<1> QED
  BY InvCorrect, <1>1, PTL

\* No request is deleted twice or forgotten, whatever the clients and clocks do.
THEOREM OneTimerPerRequestCorrect == Spec => []OneTimerPerRequest
<1>1. Inv => OneTimerPerRequest
  BY DEF Inv
<1> QED
  BY InvCorrect, <1>1, PTL

\* A deleted request is used only when its timer overtook its event or its task: no
\* request deleted at another time is watched, reported or added any more.
THEOREM OnlyCaughtAreUsedCorrect == Spec => []OnlyCaughtAreUsed
<1>1. Inv => OnlyCaughtAreUsed
  BY DEF Inv
<1> QED
  BY InvCorrect, <1>1, PTL

\* An answer goes astray only behind a third connection that had the same number
\* and was reset, however many clients there are and whenever their timers run out.
THEOREM AnswersGoHomeCorrect == Spec => []AnswersGoHome
<1>1. Inv => AnswersGoHome
  BY DEF Inv
<1> QED
  BY InvCorrect, <1>1, PTL

\* Every variable keeps its type.
THEOREM TypeCorrect == Spec => []TypeOK
<1>1. Inv => TypeOK
  BY DEF Inv
<1> QED
  BY InvCorrect, <1>1, PTL

-----------------------------------------------------------------------------
(* The server as a user of the queue. *)

\* What the queue alone may do, without its fairness: when the process is killed
\* no worker goes on.
QueueSafety == QueueInit /\ [][QueueNext]_queue

\* An event of a connection that becomes a task is the first of this connection.
LEMMA EventSubmits ==
  ASSUME NEW c \in Clients, QueueTypeOK, FreshInv, HandleEvent(c)
  PROVE  Submit(c) \/ UNCHANGED queue
<1>1. c \notin added
  BY DEF FreshInv, HandleEvent
<1>2. c \notin pending
  BY <1>1 DEF QueueTypeOK
<1>3. Add(c) \/ UNCHANGED queue
  BY DEF HandleEvent
<1> QED
  BY <1>1, <1>2, <1>3 DEF Submit

\* A step of the server is a step of the queue or leaves the queue alone.
LEMMA QueueRefined == QueueTypeOK /\ FreshInv /\ [Next]_vars => [QueueNext]_queue
<1> SUFFICES ASSUME QueueTypeOK, FreshInv, [Next]_vars PROVE QueueNext \/ UNCHANGED queue
  OBVIOUS
<1>1. ASSUME NEW c \in Clients, Connect(c) \/ Send(c) \/ Leave(c) PROVE UNCHANGED queue
  BY <1>1 DEF Connect, Send, Leave
<1>2. CASE TimerDue \/ EpollWait \/ Expire \/ EndExpire \/ Accept \/ EndHandle
  BY <1>2 DEF TimerDue, EpollWait, Expire, EndExpire, Accept, EndHandle
<1>3. ASSUME NEW c \in Clients, HandleEvent(c) PROVE QueueNext \/ UNCHANGED queue
  BY <1>3, EventSubmits DEF QueueNext, Clients
<1>4. CASE SignalTask
  BY <1>4 DEF SignalTask, QueueNext
<1>5. ASSUME NEW w \in Workers, WakeUp(w) PROVE QueueNext
  BY <1>5 DEF WakeUp, QueueNext
<1>6. ASSUME NEW w \in Workers, TakeTask(w) \/ EndTask(w) PROVE QueueNext
  BY <1>6 DEF TakeTask, EndTask, QueueNext
<1>7. ASSUME NEW w \in Workers, ReadRequest(w) \/ WriteReply(w) PROVE UNCHANGED queue
  BY <1>7 DEF ReadRequest, WriteReply
<1>8. CASE UNCHANGED vars
  BY <1>8 DEF vars
<1> QED
  BY <1>1, <1>2, <1>3, <1>4, <1>5, <1>6, <1>7, <1>8 DEF Next, MainStep, WorkerStep

\* The server keeps to what task_queue_t asks of the thread that adds: it adds one
\* task at a time, after the signal of the last, and none that is still there.  All
\* that a worker or the main thread does to the queue is a step of TaskQueue.
THEOREM ServerUsesQueue == Spec => QueueSafety
<1>1. Init => QueueInit
  BY DEF Init
<1>2. Inv /\ [Next]_vars => [QueueNext]_queue
  BY QueueRefined DEF Inv, QueueInv
<1> QED
  BY InvCorrect, <1>1, <1>2, PTL DEF Spec, QueueSafety
=============================================================================
