--------------------------- MODULE TcpServerProofs ---------------------------
(***************************************************************************)
(* TLAPS proofs about TcpServer, for any clients, loops and descriptors.   *)
(*                                                                         *)
(* refs says who holds a connection.  The invariant relates it to the      *)
(* places where the holders are: the variable of handle_new_conn, the      *)
(* functors, and the maps with their channels.                             *)
(***************************************************************************)
EXTENDS TcpServer, TLAPS

Distinct(s) == \A i, j \in DOMAIN s : s[i] = s[j] => i = j

\* The clients the kernel has for accept; handle_new_conn finds one.
BacklogInv ==
  /\ mpc = "handler" => backlog # <<>>
  /\ Distinct(backlog)
  /\ \A c \in Range(backlog) : stage[c] = "backlog"

\* The connection handle_new_conn is making.
CurInv ==
  /\ cur # None <=> mpc \in {"created", "queued"}
  /\ mpc = "created" => refs[cur] = {"main"}

\* Who holds what; a connection lives as long as somebody holds it.
HolderInv ==
  \A c \in Clients :
    /\ "main" \in refs[c] <=> c = cur
    /\ "functor" \in refs[c] <=> \E l \in Loops : c \in Range(pending[l]) \cup batch[l]
    /\ "map" \in refs[c] <=> c \in registered
    /\ stage[c] = "live" <=> refs[c] # {}

\* Live connections have a loop and a descriptor of their own.
LiveInv ==
  /\ \A c \in Live : fd[c] \in FDs /\ loop_[c] \in Loops
  /\ \A c, d \in Live : fd[c] = fd[d] => c = d

\* A functor is in the queue of its connection's loop and has yet to register it;
\* when it has, it stays to the end of the round.
QueueInv ==
  \A l \in Loops :
    /\ Distinct(pending[l])
    /\ \A c \in Range(pending[l]) : loop_[c] = l /\ c \notin registered \cup batch[l]
    /\ \A c \in batch[l] : loop_[c] = l

\* The maps and the channels.
MapInv ==
  /\ \A c \in registered : connections_[loop_[c]][fd[c]] = c
  /\ \A l \in Loops, f \in FDs : LET c == connections_[l][f]
                                 IN  c # None => c \in registered /\ loop_[c] = l /\ fd[c] = f

\* No more is read than was sent, and answers go with it.
SegInv ==
  \A c \in Clients : inbox[c] + taken[c] <= MaxSegs /\ answers[c] <= taken[c]

Owners == HolderInv /\ LiveInv /\ QueueInv /\ MapInv

\* The handle_events that is running is that of a connection of its loop.
HandlingInv ==
  \A l \in Loops : LET c == handling[l]
                   IN  c # None => loop_[c] = l /\ stage[c] \in {"live", "destroyed"}

Inv == TypeOK /\ BacklogInv /\ CurInv /\ Owners /\ SegInv

-----------------------------------------------------------------------------

LEMMA AppendSeq ==
  ASSUME NEW S, NEW s \in Seq(S), NEW e \in S, Distinct(s), e \notin Range(s)
  PROVE  /\ Append(s, e) \in Seq(S)
         /\ Range(Append(s, e)) = Range(s) \cup {e}
         /\ Distinct(Append(s, e))
<1> DEFINE l == Append(s, e)
<1>1. l \in Seq(S) /\ DOMAIN l = 1 .. Len(s) + 1 /\ Len(s) \in Nat /\ DOMAIN s = 1 .. Len(s)
  OBVIOUS
<1>2. l[Len(s) + 1] = e /\ \A i \in DOMAIN s : i \in DOMAIN l /\ l[i] = s[i]
  BY <1>1
<1>3. \A i \in DOMAIN l : i \in DOMAIN s \/ i = Len(s) + 1
  BY <1>1
<1>4. Range(l) = Range(s) \cup {e}
  <2>1. Range(l) \subseteq Range(s) \cup {e}
    BY <1>2, <1>3 DEF Range
  <2>2. Range(s) \subseteq Range(l) /\ e \in Range(l)
    BY <1>1, <1>2 DEF Range
  <2> QED
    BY <2>1, <2>2
<1>5. Distinct(l)
  <2>1. \A i \in DOMAIN s : s[i] # e
    BY DEF Range
  <2> QED
    BY <1>2, <1>3, <2>1 DEF Distinct
<1> QED
  BY <1>1, <1>4, <1>5

LEMMA TailSeq ==
  ASSUME NEW S, NEW s \in Seq(S), s # <<>>, Distinct(s)
  PROVE  /\ Head(s) \in S /\ Head(s) \in Range(s)
         /\ Tail(s) \in Seq(S)
         /\ Range(Tail(s)) = Range(s) \ {Head(s)}
         /\ Distinct(Tail(s))
<1> DEFINE l == Tail(s)
<1>1. /\ Len(s) \in Nat /\ Len(s) > 0
      /\ DOMAIN s = 1 .. Len(s)
      /\ Head(s) = s[1] /\ 1 \in DOMAIN s /\ s[1] \in S
      /\ l \in Seq(S)
      /\ DOMAIN l = 1 .. Len(s) - 1
  OBVIOUS
<1>2. \A k \in DOMAIN l : k + 1 \in DOMAIN s /\ l[k] = s[k + 1] /\ k + 1 # 1
  BY <1>1
<1>3. Distinct(l)
  <2> SUFFICES ASSUME NEW i \in DOMAIN l, NEW j \in DOMAIN l, l[i] = l[j] PROVE i = j
    BY DEF Distinct
  <2>1. i + 1 = j + 1
    BY <1>2 DEF Distinct
  <2> QED
    BY <1>1, <2>1
<1>4. \A i \in DOMAIN s : i # 1 => \E k \in DOMAIN l : l[k] = s[i]
  <2> TAKE i \in DOMAIN s
  <2> HAVE i # 1
  <2>1. i - 1 \in DOMAIN l /\ (i - 1) + 1 = i
    BY <1>1
  <2> QED
    BY <1>2, <2>1
<1>5. Range(l) \subseteq Range(s) \ {s[1]}
  BY <1>1, <1>2 DEF Distinct, Range
<1>6. Range(s) \ {s[1]} \subseteq Range(l)
  BY <1>4 DEF Range
<1>7. s[1] \in Range(s)
  BY <1>1 DEF Range
<1> QED
  BY <1>1, <1>3, <1>5, <1>6, <1>7

\* A sequence over clients holds clients.
LEMMA InRange ==
  ASSUME NEW S, NEW s \in Seq(S)
  PROVE  Range(s) \subseteq S
BY DEF Range

LEMMA EmptySeq == Range(<<>>) = {} /\ Distinct(<<>>)
BY DEF Range, Distinct

LEMMA NoneIsNone == None \notin Clients /\ None \notin Loops /\ None \notin FDs
BY ConstantsAssumption

LEMMA NextLoopIsLoop == TypeOK => NextLoop \in Loops
<1> SUFFICES ASSUME TypeOK, SubLoops # <<>> PROVE SubLoops[next_ + 1] \in Loops
  BY DEF NextLoop, Loops
<1>1. next_ + 1 \in DOMAIN SubLoops
  <2>1. SubLoops \in Seq(Range(SubLoops)) /\ next_ \in Nat /\ (next_ = 0 \/ next_ < Len(SubLoops))
    BY ConstantsAssumption DEF TypeOK
  <2>2. Len(SubLoops) \in Nat \ {0} /\ DOMAIN SubLoops = 1 .. Len(SubLoops)
    BY <2>1
  <2> QED
    BY <2>1, <2>2
<1> QED
  BY <1>1 DEF Loops, Range

-----------------------------------------------------------------------------

LEMMA InitInv == Init => Inv
<1> SUFFICES ASSUME Init PROVE Inv
  OBVIOUS
<1> USE NoneIsNone, EmptySeq DEF Init
<1>1. TypeOK
  BY ConstantsAssumption DEF TypeOK
<1>2. BacklogInv /\ CurInv /\ SegInv
  BY ConstantsAssumption DEF BacklogInv, CurInv, SegInv
<1>3. HolderInv
  BY DEF HolderInv
<1>4. LiveInv /\ QueueInv /\ MapInv
  BY DEF LiveInv, QueueInv, MapInv, Live
<1> QED
  BY <1>1, <1>2, <1>3, <1>4 DEF Inv, Owners

-----------------------------------------------------------------------------
(* Steps that move no reference. *)

LEMMA OwnersStay ==
  ASSUME Owners, UNCHANGED <<cur, fd, loop_, refs, loopVars>>,
         \A c \in Clients : stage'[c] = "live" <=> stage[c] = "live"
  PROVE  Owners'
<1>1. Live' = Live
  BY DEF Live
<1>2. HolderInv' /\ QueueInv' /\ MapInv'
  BY DEF Owners, HolderInv, QueueInv, MapInv, loopVars
<1>3. LiveInv'
  BY <1>1 DEF Owners, LiveInv, loopVars
<1> QED
  BY <1>2, <1>3 DEF Owners

LEMMA PeerStep ==
  ASSUME Inv, NEW c \in Clients, Connect(c) \/ Send(c) \/ Shut(c) \/ Reset(c) \/ Urge(c)
  PROVE  Inv'
<1> USE DEF Inv, mainVars, objVars, serving, loopVars, ioVars, peerVars
<1>1. CASE Connect(c)
  <2> USE <1>1 DEF Connect
  <2>1. c \notin Range(backlog)
    BY DEF BacklogInv
  <2>2. backlog' \in Seq(Clients) /\ Range(backlog') = Range(backlog) \cup {c} /\ Distinct(backlog')
    BY <2>1, AppendSeq DEF BacklogInv, TypeOK
  <2>3. stage' \in [Clients -> {"away", "backlog", "live", "destroyed", "refused"}]
    BY DEF TypeOK
  <2>4. TypeOK'
    BY <2>2, <2>3 DEF TypeOK
  <2>5. \A d \in Clients : stage'[d] = IF d = c THEN "backlog" ELSE stage[d]
    BY DEF TypeOK
  <2>6. Range(backlog) \subseteq Clients
    BY InRange DEF TypeOK
  <2>7. BacklogInv'
    <3>1. backlog' # <<>>
      BY <2>2, EmptySeq
    <3> QED
      BY <2>2, <2>5, <2>6, <3>1 DEF BacklogInv
  <2>8. CurInv' /\ SegInv'
    BY DEF CurInv, SegInv
  <2>9. Owners'
    BY <2>5, OwnersStay
  <2> QED
    BY <2>4, <2>7, <2>8, <2>9
<1>2. CASE Send(c)
  <2> USE <1>2 DEF Send
  <2>1. TypeOK' /\ SegInv'
    <3>1. inbox[c] \in Nat /\ taken[c] \in Nat /\ inbox[c] + 1 <= MaxSegs
      BY ConstantsAssumption DEF TypeOK
    <3>2. inbox' \in [Clients -> 0 .. MaxSegs]
      BY <3>1, ConstantsAssumption DEF TypeOK
    <3>3. TypeOK'
      BY <3>2 DEF TypeOK
    <3>4. SegInv'
      BY <3>1, ConstantsAssumption DEF SegInv, TypeOK
    <3> QED
      BY <3>3, <3>4
  <2>2. BacklogInv' /\ CurInv'
    BY DEF BacklogInv, CurInv
  <2>3. Owners'
    BY OwnersStay
  <2> QED
    BY <2>1, <2>2, <2>3
<1>3. CASE Shut(c) \/ Reset(c) \/ Urge(c)
  <2> USE <1>3 DEF Shut, Reset, Urge
  <2>1. TypeOK'
    BY DEF TypeOK
  <2>2. BacklogInv' /\ CurInv' /\ SegInv'
    BY DEF BacklogInv, CurInv, SegInv
  <2>3. Owners'
    BY OwnersStay
  <2> QED
    BY <2>1, <2>2, <2>3
<1> QED
  BY <1>1, <1>2, <1>3

LEMMA ReadStep ==
  ASSUME Inv, NEW l \in Loops, NEW c \in Clients, HandleRead(l, c) \/ HandleUrgent(l, c)
  PROVE  Inv'
<1> USE DEF Inv, mainVars, objVars, serving, loopVars, ioVars, peerVars
<1>1. BacklogInv' /\ CurInv'
  BY DEF BacklogInv, CurInv, HandleRead, HandleUrgent
<1>2. Owners'
  BY OwnersStay DEF HandleRead, HandleUrgent
<1>3. TypeOK' /\ SegInv'
  <2>1. CASE HandleRead(l, c)
    <3> USE <2>1 DEF HandleRead
    <3>1. /\ inbox[c] \in Nat /\ taken[c] \in Nat /\ answers[c] \in Nat /\ MaxSegs \in Nat
          /\ inbox[c] > 0 /\ inbox[c] + taken[c] <= MaxSegs /\ answers[c] <= taken[c]
      BY ConstantsAssumption DEF TypeOK, SegInv
    <3> DEFINE n == Take(c)
    <3>0. n \in Nat /\ 0 < n /\ n <= inbox[c]
      BY <3>1, ConstantsAssumption DEF Take
    <3>9. inbox' = [inbox EXCEPT ![c] = @ - n] /\ taken' = [taken EXCEPT ![c] = @ + n]
      BY Zenon
    <3> HIDE DEF n
    <3>2. Answered(c) \in Nat /\ Answered(c) <= taken[c] + n
      BY <3>0, <3>1 DEF Answered
    <3>3. {inbox', taken', answers'} \subseteq [Clients -> 0 .. MaxSegs]
      <4> DEFINE i == inbox[c]
                 m == taken[c]
                 a == Answered(c)
      <4>1. i - n \in 0 .. MaxSegs /\ m + n \in 0 .. MaxSegs /\ a \in 0 .. MaxSegs
        BY <3>0, <3>1, <3>2
      <4>2. {inbox, taken, answers} \subseteq [Clients -> 0 .. MaxSegs]
        BY DEF TypeOK
      <4>3. inbox' = [inbox EXCEPT ![c] = i - n] /\ taken' = [taken EXCEPT ![c] = m + n]
            /\ answers' = [answers EXCEPT ![c] = a]
        BY <3>9, Zenon
      <4> HIDE DEF i, m, a
      <4> QED
        BY <4>1, <4>2, <4>3
    <3>4. TypeOK'
      BY <3>3 DEF TypeOK, GoesOn
    <3>5. \A d \in Clients : d # c =>
             inbox'[d] = inbox[d] /\ taken'[d] = taken[d] /\ answers'[d] = answers[d]
      BY DEF TypeOK
    <3>6. inbox'[c] = inbox[c] - n /\ taken'[c] = taken[c] + n /\ answers'[c] = Answered(c)
      BY <3>9 DEF TypeOK
    <3>7. SegInv'
      BY <3>0, <3>1, <3>2, <3>5, <3>6 DEF SegInv
    <3> QED
      BY <3>4, <3>7
  <2>2. CASE HandleUrgent(l, c)
    BY <2>2 DEF HandleUrgent, TypeOK, SegInv
  <2> QED
    BY <2>1, <2>2
<1> QED
  BY <1>1, <1>2, <1>3

-----------------------------------------------------------------------------
(* The main thread. *)

\* The round robin stays inside the pool.
LEMMA NextStaysInside ==
  ASSUME TypeOK, AdvanceNext
  PROVE  next_' \in Nat /\ (next_' = 0 \/ next_' < Len(SubLoops))
<1>1. CASE SubLoops = <<>>
  BY <1>1 DEF TypeOK, AdvanceNext
<1>2. CASE SubLoops # <<>>
  <2>1. Len(SubLoops) \in Nat \ {0}
    BY <1>2, ConstantsAssumption
  <2> QED
    BY <1>2, <2>1 DEF TypeOK, AdvanceNext
<1> QED
  BY <1>1, <1>2

\* The next in the backlog is a client that nobody holds.
LEMMA NextClient ==
  ASSUME Inv, mpc = "handler"
  PROVE  LET c == Head(backlog)
         IN  /\ c \in Clients /\ stage[c] = "backlog" /\ refs[c] = {}
             /\ c \notin registered /\ \A l \in Loops : c \notin Range(pending[l]) \cup batch[l]
             /\ Tail(backlog) \in Seq(Clients) /\ Distinct(Tail(backlog))
             /\ Range(Tail(backlog)) = Range(backlog) \ {c}
<1> DEFINE c == Head(backlog)
<1>1. /\ c \in Clients /\ c \in Range(backlog)
      /\ Tail(backlog) \in Seq(Clients) /\ Distinct(Tail(backlog))
      /\ Range(Tail(backlog)) = Range(backlog) \ {c}
  BY TailSeq DEF Inv, BacklogInv, TypeOK
<1>2. stage[c] = "backlog"
  BY <1>1 DEF Inv, BacklogInv
<1>3. refs[c] = {}
  BY <1>1, <1>2 DEF Inv, Owners, HolderInv
<1>4. c \notin registered /\ \A l \in Loops : c \notin Range(pending[l]) \cup batch[l]
  BY <1>1, <1>3 DEF Inv, Owners, HolderInv
<1> QED
  BY <1>1, <1>2, <1>3, <1>4

LEMMA ListenStep ==
  ASSUME Inv, ReportListener \/ AcceptFails \/ AcceptTooMany
  PROVE  Inv'
<1> USE DEF Inv, mainVars, objVars, serving, loopVars, ioVars, peerVars
<1>1. CASE ReportListener \/ AcceptFails
  <2> USE <1>1 DEF ReportListener, AcceptFails
  <2>1. TypeOK' /\ SegInv'
    BY DEF TypeOK, SegInv
  <2>2. BacklogInv' /\ CurInv'
    BY DEF BacklogInv, CurInv
  <2>3. Owners'
    BY OwnersStay
  <2> QED
    BY <2>1, <2>2, <2>3
<1>2. CASE AcceptTooMany
  <2> USE <1>2 DEF AcceptTooMany
  <2> DEFINE c == Head(backlog)
  <2>1. /\ c \in Clients /\ stage[c] = "backlog"
        /\ backlog' \in Seq(Clients) /\ Distinct(backlog') /\ Range(backlog') = Range(backlog) \ {c}
    BY NextClient
  <2>2. /\ stage' \in [Clients -> {"away", "backlog", "live", "destroyed", "refused"}]
        /\ \A d \in Clients : stage'[d] = IF d = c THEN "refused" ELSE stage[d]
    BY <2>1 DEF TypeOK
  <2>3. TypeOK'
    BY <2>1, <2>2, NextStaysInside DEF TypeOK
  <2>4. BacklogInv'
    <3>1. Range(backlog) \subseteq Clients
      BY InRange DEF TypeOK
    <3> QED
      BY <2>1, <2>2, <3>1 DEF BacklogInv
  <2>5. CurInv' /\ SegInv'
    BY DEF CurInv, SegInv
  <2>6. Owners'
    BY <2>1, <2>2, OwnersStay
  <2> QED
    BY <2>3, <2>4, <2>5, <2>6
<1> QED
  BY <1>1, <1>2

LEMMA AcceptStep ==
  ASSUME Inv, Accept
  PROVE  Inv'
<1> USE DEF Accept, mainVars, objVars, serving, loopVars, ioVars, peerVars
<1> DEFINE c == Head(backlog)
<1>1. /\ c \in Clients /\ stage[c] = "backlog" /\ refs[c] = {}
      /\ c \notin registered /\ \A l \in Loops : c \notin Range(pending[l]) \cup batch[l]
      /\ backlog' \in Seq(Clients) /\ Distinct(backlog') /\ Range(backlog') = Range(backlog) \ {c}
  BY NextClient
<1>2. PICK f \in Lowest : fd' = [fd EXCEPT ![c] = f]
  OBVIOUS
<1>3. f \in FDs /\ \A d \in Live : fd[d] # f
  BY <1>2 DEF Lowest, FreeFDs
<1>4. NextLoop \in Loops
  BY NextLoopIsLoop DEF Inv
<1>5. cur = None /\ cur' = c /\ mpc' = "created"
  BY DEF Inv, CurInv
<1>6. /\ stage' \in [Clients -> {"away", "backlog", "live", "destroyed", "refused"}]
      /\ fd' \in [Clients -> FDs \cup {None}]
      /\ loop_' \in [Clients -> Loops \cup {None}]
      /\ refs' \in [Clients -> SUBSET {"main", "functor", "map"}]
  BY <1>1, <1>2, <1>3, <1>4 DEF Inv, TypeOK
<1>7. /\ stage'[c] = "live" /\ fd'[c] = f /\ loop_'[c] \in Loops /\ refs'[c] = {"main"}
      /\ \A d \in Clients \ {c} :
           stage'[d] = stage[d] /\ fd'[d] = fd[d] /\ loop_'[d] = loop_[d] /\ refs'[d] = refs[d]
  BY <1>1, <1>2, <1>4 DEF Inv, TypeOK
<1>8. TypeOK'
  BY <1>1, <1>6, NextStaysInside DEF Inv, TypeOK
<1>9. BacklogInv'
  <2>1. Range(backlog) \subseteq Clients
    BY InRange DEF Inv, TypeOK
  <2> QED
    BY <1>1, <1>5, <1>7, <2>1 DEF Inv, BacklogInv
<1>10. CurInv' /\ SegInv'
  BY <1>1, <1>5, <1>7, NoneIsNone DEF Inv, CurInv, SegInv
<1>11. HolderInv'
  <2> SUFFICES ASSUME NEW d \in Clients
               PROVE  /\ "main" \in refs'[d] <=> d = cur'
                      /\ "functor" \in refs'[d] <=> \E l \in Loops : d \in Range(pending[l]) \cup batch[l]
                      /\ "map" \in refs'[d] <=> d \in registered
                      /\ stage'[d] = "live" <=> refs'[d] # {}
    BY DEF HolderInv
  <2>1. CASE d = c
    <3>1. refs'[d] = {"main"} /\ stage'[d] = "live" /\ d = cur'
      BY <1>5, <1>7, <2>1
    <3>2. d \notin registered /\ \A l \in Loops : d \notin Range(pending[l]) \cup batch[l]
      BY <1>1, <2>1
    <3> HIDE DEF c
    <3> QED
      BY <3>1, <3>2
  <2>2. CASE d # c
    BY <1>5, <1>7, <2>2, NoneIsNone DEF Inv, Owners, HolderInv
  <2> QED
    BY <2>1, <2>2
<1>12. Live' = Live \cup {c} /\ c \notin Live
  BY <1>1, <1>7 DEF Live
<1>13. LiveInv'
  BY <1>3, <1>7, <1>12 DEF Inv, Owners, LiveInv, Live
<1>14. QueueInv'
  <2>1. \A l \in Loops : Range(pending[l]) \subseteq Clients /\ batch[l] \subseteq Clients
    BY InRange DEF Inv, TypeOK
  <2> QED
    BY <1>1, <1>7, <2>1 DEF Inv, Owners, QueueInv
<1>15. MapInv'
  BY <1>1, <1>7 DEF Inv, Owners, MapInv, TypeOK
<1> QED
  BY <1>8, <1>9, <1>10, <1>11, <1>13, <1>14, <1>15 DEF Inv, Owners

-----------------------------------------------------------------------------
(* new_event. *)

\* put finds no entry at the descriptor, so the new connection gets into the map,
\* and its channel is registered with it.
LEMMA PutSucceeds ==
  ASSUME Inv, NEW l \in Loops, NEW c \in Clients,
         stage[c] = "live", loop_[c] = l, c \notin registered,
         NewEvent(l, c), UNCHANGED <<fd, loop_>>
  PROVE  /\ fd[c] \in FDs
         /\ connections_' = [connections_ EXCEPT ![l][fd[c]] = c]
         /\ connections_' \in [Loops -> [FDs -> Clients \cup {None}]]
         /\ registered' = registered \cup {c}
         /\ Held(l, c) = {"map"}
         /\ MapInv'
<1> USE DEF NewEvent, Enabled
<1>1. fd[c] \in FDs
  BY DEF Inv, Owners, LiveInv, Live
<1>2. connections_[l][fd[c]] = None
  <2> SUFFICES ASSUME connections_[l][fd[c]] # None PROVE FALSE
    OBVIOUS
  <2> DEFINE d == connections_[l][fd[c]]
  <2>1. d \in Clients /\ d \in registered /\ loop_[d] = l /\ fd[d] = fd[c]
    BY <1>1 DEF Inv, TypeOK, Owners, MapInv
  <2>2. d \in Live /\ c \in Live
    BY <2>1 DEF Inv, Owners, HolderInv, Live
  <2> QED
    BY <2>1, <2>2 DEF Inv, Owners, LiveInv
<1>3. connections_' = [connections_ EXCEPT ![l][fd[c]] = c]
  BY <1>2
<1>4. connections_' \in [Loops -> [FDs -> Clients \cup {None}]]
  BY <1>1, <1>3 DEF Inv, TypeOK
<1>5. /\ connections_'[l][fd[c]] = c
      /\ \A k \in Loops, f \in FDs : (k = l /\ f = fd[c]) \/ connections_'[k][f] = connections_[k][f]
  BY <1>1, <1>3 DEF Inv, TypeOK
<1>6. Held(l, c) = {"map"}
  BY <1>5 DEF Held
<1>7. \A d \in registered : d \in Clients /\ loop_[d] \in Loops /\ fd[d] \in FDs /\ (fd[d] = fd[c] => d = c)
  <2>1. c \in Live /\ \A d \in registered : d \in Live
    BY DEF Inv, TypeOK, Owners, HolderInv, Live
  <2> QED
    BY <2>1 DEF Inv, TypeOK, Owners, LiveInv
<1>8. MapInv'
  <2>1. \A d \in registered' : connections_'[loop_[d]][fd[d]] = d
    BY <1>5, <1>7 DEF Inv, Owners, MapInv
  <2>2. \A k \in Loops, f \in FDs :
          connections_'[k][f] # None =>
            /\ connections_'[k][f] \in registered'
            /\ loop_[connections_'[k][f]] = k /\ fd[connections_'[k][f]] = f
    BY <1>5 DEF Inv, Owners, MapInv
  <2> QED
    BY <2>1, <2>2 DEF MapInv
<1> QED
  BY <1>1, <1>3, <1>4, <1>6, <1>8

LEMMA RunInLoopStep ==
  ASSUME Inv, RunInLoop
  PROVE  Inv'
<1> USE DEF RunInLoop, Bound, mainVars, objVars, serving, loopVars, ioVars, peerVars
<1> DEFINE l == loop_[cur]
<1>1. cur \in Clients /\ refs[cur] = {"main"}
  BY DEF Inv, CurInv, TypeOK
<1>2. /\ stage[cur] = "live" /\ cur \notin registered
      /\ \A k \in Loops : cur \notin Range(pending[k]) \cup batch[k]
  BY <1>1 DEF Inv, Owners, HolderInv
<1>3. l \in Loops
  BY <1>1, <1>2 DEF Inv, Owners, LiveInv, Live
<1>4. BacklogInv' /\ CurInv' /\ SegInv'
  BY DEF Inv, BacklogInv, CurInv, SegInv
<1>5. LiveInv'
  BY DEF Inv, Owners, LiveInv, Live
<1>6. CASE l = Main
  <2>1. /\ NewEvent(l, cur) /\ UNCHANGED <<pending, fd, loop_>>
        /\ refs' = [refs EXCEPT ![cur] = @ \cup Held(l, cur)]
    BY <1>6
  <2>2. /\ connections_' \in [Loops -> [FDs -> Clients \cup {None}]]
        /\ registered' = registered \cup {cur}
        /\ Held(l, cur) = {"map"}
        /\ MapInv'
    BY <1>1, <1>2, <1>3, <2>1, PutSucceeds
  <2>3. /\ refs' \in [Clients -> SUBSET {"main", "functor", "map"}]
        /\ \A d \in Clients : refs'[d] = IF d = cur THEN {"main", "map"} ELSE refs[d]
    BY <1>1, <2>1, <2>2 DEF Inv, TypeOK
  <2>4. TypeOK'
    BY <1>1, <2>1, <2>2, <2>3 DEF Inv, TypeOK
  <2>5. HolderInv'
    BY <1>1, <1>2, <2>1, <2>2, <2>3 DEF Inv, Owners, HolderInv
  <2>6. QueueInv'
    BY <1>2, <2>1, <2>2 DEF Inv, Owners, QueueInv
  <2> QED
    BY <1>4, <1>5, <2>2, <2>4, <2>5, <2>6 DEF Inv, Owners
<1>7. CASE l # Main
  <2>1. /\ pending' = [pending EXCEPT ![l] = Append(@, cur)]
        /\ refs' = [refs EXCEPT ![cur] = @ \cup {"functor"}]
        /\ UNCHANGED <<connections_, registered>>
    BY <1>7
  <2>2. /\ pending' \in [Loops -> Seq(Clients)]
        /\ Range(pending'[l]) = Range(pending[l]) \cup {cur}
        /\ Distinct(pending'[l])
        /\ \A k \in Loops \ {l} : pending'[k] = pending[k]
    <3>1. pending[l] \in Seq(Clients) /\ Distinct(pending[l]) /\ cur \notin Range(pending[l])
      BY <1>2, <1>3 DEF Inv, TypeOK, Owners, QueueInv
    <3>2. /\ Append(pending[l], cur) \in Seq(Clients)
          /\ Range(Append(pending[l], cur)) = Range(pending[l]) \cup {cur}
          /\ Distinct(Append(pending[l], cur))
      BY <1>1, <3>1, AppendSeq
    <3>3. pending \in [Loops -> Seq(Clients)]
      BY DEF Inv, TypeOK
    <3> QED
      BY <1>3, <2>1, <3>2, <3>3
  <2>3. /\ refs' \in [Clients -> SUBSET {"main", "functor", "map"}]
        /\ \A d \in Clients : refs'[d] = IF d = cur THEN {"main", "functor"} ELSE refs[d]
    BY <1>1, <2>1 DEF Inv, TypeOK
  <2>4. TypeOK'
    BY <1>1, <2>1, <2>2, <2>3 DEF Inv, TypeOK
  <2>5. HolderInv'
    <3>1. \A d \in Clients : (\E k \in Loops : d \in Range(pending'[k]) \cup batch[k])
             <=> d = cur \/ \E k \in Loops : d \in Range(pending[k]) \cup batch[k]
      BY <1>3, <2>2
    <3> QED
      BY <1>1, <1>2, <2>1, <2>3, <3>1 DEF Inv, Owners, HolderInv
  <2>6. QueueInv'
    BY <1>2, <2>1, <2>2 DEF Inv, Owners, QueueInv
  <2>7. MapInv'
    BY <2>1 DEF Inv, Owners, MapInv
  <2> QED
    BY <1>4, <1>5, <2>4, <2>5, <2>6, <2>7 DEF Inv, Owners
<1> QED
  BY <1>6, <1>7

LEMMA RunFunctorStep ==
  ASSUME Inv, NEW l \in Loops, RunFunctor(l)
  PROVE  Inv'
<1> USE DEF RunFunctor, mainVars, objVars, serving, loopVars, ioVars, peerVars
<1> DEFINE c == Head(pending[l])
<1>1. /\ c \in Clients /\ c \in Range(pending[l])
      /\ Tail(pending[l]) \in Seq(Clients) /\ Distinct(Tail(pending[l]))
      /\ Range(Tail(pending[l])) = Range(pending[l]) \ {c}
  BY TailSeq DEF Inv, TypeOK, Owners, QueueInv
<1>2. loop_[c] = l /\ c \notin registered /\ c \notin batch[l]
  BY <1>1 DEF Inv, Owners, QueueInv
<1>3. "functor" \in refs[c] /\ stage[c] = "live"
  BY <1>1 DEF Inv, Owners, HolderInv
<1>4. /\ NewEvent(l, c) /\ UNCHANGED <<fd, loop_, stage, cur, mpc, backlog>>
      /\ refs' = [refs EXCEPT ![c] = @ \cup Held(l, c)]
      /\ batch' = [batch EXCEPT ![l] = @ \cup {c}]
      /\ pending' = [pending EXCEPT ![l] = Tail(@)]
  OBVIOUS
<1>5. /\ connections_' \in [Loops -> [FDs -> Clients \cup {None}]]
      /\ registered' = registered \cup {c}
      /\ Held(l, c) = {"map"}
      /\ MapInv'
  BY <1>1, <1>2, <1>3, <1>4, PutSucceeds
<1>6. /\ refs' \in [Clients -> SUBSET {"main", "functor", "map"}]
      /\ \A d \in Clients : refs'[d] = IF d = c THEN refs[d] \cup {"map"} ELSE refs[d]
  <2>1. refs \in [Clients -> SUBSET {"main", "functor", "map"}]
    BY DEF Inv, TypeOK
  <2>2. refs' = [refs EXCEPT ![c] = @ \cup {"map"}]
    BY <1>4, <1>5
  <2> HIDE DEF RunFunctor, c
  <2> QED
    BY <1>1, <2>1, <2>2
<1>7. /\ pending' \in [Loops -> Seq(Clients)]
      /\ pending'[l] = Tail(pending[l])
      /\ \A k \in Loops \ {l} : pending'[k] = pending[k]
  BY <1>1, <1>4 DEF Inv, TypeOK
<1>8. /\ batch' \in [Loops -> SUBSET Clients]
      /\ batch'[l] = batch[l] \cup {c}
      /\ \A k \in Loops \ {l} : batch'[k] = batch[k]
  BY <1>1, <1>4 DEF Inv, TypeOK
<1>9. TypeOK'
  BY <1>1, <1>5, <1>6, <1>7, <1>8 DEF Inv, TypeOK
<1>10. BacklogInv' /\ CurInv' /\ SegInv'
  <2>1. mpc = "created" => cur # c
    BY <1>3 DEF Inv, CurInv
  <2>2. cur # None => cur \in Clients
    BY DEF Inv, TypeOK
  <2>3. CurInv'
    BY <1>6, <2>1, <2>2 DEF Inv, CurInv
  <2> QED
    BY <2>3 DEF Inv, BacklogInv, SegInv
<1>11. LiveInv'
  BY DEF Inv, Owners, LiveInv, Live
<1>12. HolderInv'
  <2>1. \A d \in Clients : (\E k \in Loops : d \in Range(pending'[k]) \cup batch'[k])
           <=> \E k \in Loops : d \in Range(pending[k]) \cup batch[k]
    BY <1>1, <1>7, <1>8
  <2> QED
    BY <1>1, <1>3, <1>4, <1>5, <1>6, <2>1 DEF Inv, Owners, HolderInv
<1>13. QueueInv'
  <2> SUFFICES ASSUME NEW k \in Loops
               PROVE  /\ Distinct(pending'[k])
                      /\ \A d \in Range(pending'[k]) : loop_[d] = k /\ d \notin registered' \cup batch'[k]
                      /\ \A d \in batch'[k] : loop_[d] = k
    BY <1>4 DEF QueueInv
  <2>1. CASE k = l
    BY <1>1, <1>2, <1>5, <1>7, <1>8, <2>1 DEF Inv, Owners, QueueInv
  <2>2. CASE k # l
    BY <1>2, <1>5, <1>7, <1>8, <2>2 DEF Inv, Owners, QueueInv
  <2> QED
    BY <2>1, <2>2
<1> QED
  BY <1>5, <1>9, <1>10, <1>11, <1>12, <1>13 DEF Inv, Owners

-----------------------------------------------------------------------------
(* Steps that drop references. *)

\* Drop takes h away, and whoever has nothing left is destroyed.
LEMMA DropRefs ==
  ASSUME Inv, NEW S \in SUBSET Clients, NEW h, Drop(S, h)
  PROVE  /\ refs' \in [Clients -> SUBSET {"main", "functor", "map"}]
         /\ stage' \in [Clients -> {"away", "backlog", "live", "destroyed", "refused"}]
         /\ \A c \in Clients : refs'[c] = IF c \in S THEN refs[c] \ {h} ELSE refs[c]
         /\ \A c \in Clients : stage'[c] = "live" <=> refs'[c] # {}
         /\ \A c \in Clients : stage'[c] # stage[c] => stage[c] = "live" /\ stage'[c] # "live"
<1> DEFINE dead == {c \in S : refs[c] = {h}}
<1>1. refs' = [c \in Clients |-> IF c \in S THEN refs[c] \ {h} ELSE refs[c]]
  BY DEF Drop
<1>2. stage' = [c \in Clients |-> IF c \in dead THEN "destroyed" ELSE stage[c]]
  BY DEF Drop
<1>3. \A c \in Clients : refs[c] \in SUBSET {"main", "functor", "map"}
  BY DEF Inv, TypeOK
<1>4. refs' \in [Clients -> SUBSET {"main", "functor", "map"}]
  BY <1>1, <1>3
<1>5. stage' \in [Clients -> {"away", "backlog", "live", "destroyed", "refused"}]
  BY <1>2 DEF Inv, TypeOK
<1>6. \A c \in Clients : stage[c] = "live" <=> refs[c] # {}
  BY DEF Inv, Owners, HolderInv
<1> QED
  BY <1>1, <1>2, <1>4, <1>5, <1>6

\* A connection that lives on has what it had, and the backlog is not concerned.
LEMMA DropKeeps ==
  ASSUME Inv, NEW S \in SUBSET Clients, NEW h, Drop(S, h), UNCHANGED <<fd, loop_, backlog>>,
         mpc' # "handler" \/ UNCHANGED mpc
  PROVE  LiveInv' /\ BacklogInv'
<1>1. \A c \in Clients : stage'[c] # stage[c] => stage[c] = "live" /\ stage'[c] # "live"
  BY DropRefs
<1>2. LiveInv'
  BY <1>1 DEF Inv, Owners, LiveInv, Live
<1>3. Range(backlog) \subseteq Clients
  BY InRange DEF Inv, TypeOK
<1>4. BacklogInv'
  BY <1>1, <1>3 DEF Inv, BacklogInv
<1> QED
  BY <1>2, <1>4

LEMMA EndNewConnStep ==
  ASSUME Inv, EndNewConn
  PROVE  Inv'
<1> USE DEF EndNewConn, mainVars, objVars, serving, loopVars, ioVars, peerVars
<1>1. cur \in Clients /\ cur' = None /\ mpc' = "poll"
  BY DEF Inv, CurInv, TypeOK
<1>2. /\ refs' \in [Clients -> SUBSET {"main", "functor", "map"}]
      /\ stage' \in [Clients -> {"away", "backlog", "live", "destroyed", "refused"}]
      /\ \A c \in Clients : refs'[c] = IF c \in {cur} THEN refs[c] \ {"main"} ELSE refs[c]
      /\ \A c \in Clients : stage'[c] = "live" <=> refs'[c] # {}
  BY <1>1, DropRefs
<1>3. LiveInv' /\ BacklogInv'
  BY <1>1, DropKeeps
<1>4. TypeOK'
  BY <1>1, <1>2 DEF Inv, TypeOK
<1>5. CurInv' /\ SegInv'
  BY <1>1 DEF Inv, CurInv, SegInv
<1>6. HolderInv'
  BY <1>1, <1>2, NoneIsNone DEF Inv, Owners, HolderInv
<1>7. QueueInv' /\ MapInv'
  BY DEF Inv, Owners, QueueInv, MapInv
<1> QED
  BY <1>3, <1>4, <1>5, <1>6, <1>7 DEF Inv, Owners

LEMMA EndBatchStep ==
  ASSUME Inv, NEW l \in Loops, EndBatch(l)
  PROVE  Inv'
<1> USE DEF EndBatch, mainVars, objVars, serving, loopVars, ioVars, peerVars
<1>1. batch[l] \in SUBSET Clients
  BY DEF Inv, TypeOK
<1>2. /\ refs' \in [Clients -> SUBSET {"main", "functor", "map"}]
      /\ stage' \in [Clients -> {"away", "backlog", "live", "destroyed", "refused"}]
      /\ \A c \in Clients : refs'[c] = IF c \in batch[l] THEN refs[c] \ {"functor"} ELSE refs[c]
      /\ \A c \in Clients : stage'[c] = "live" <=> refs'[c] # {}
  BY <1>1, DropRefs
<1>3. LiveInv' /\ BacklogInv'
  BY <1>1, DropKeeps
<1>4. /\ batch' \in [Loops -> SUBSET Clients]
      /\ batch'[l] = {}
      /\ \A k \in Loops \ {l} : batch'[k] = batch[k]
  BY DEF Inv, TypeOK
<1>5. TypeOK'
  BY <1>2, <1>4 DEF Inv, TypeOK
<1>6. CurInv' /\ SegInv'
  <2>1. mpc = "created" => cur \notin batch[l]
    BY <1>1 DEF Inv, CurInv, Owners, HolderInv, TypeOK
  <2>2. cur # None => cur \in Clients
    BY DEF Inv, TypeOK
  <2> QED
    BY <1>2, <2>1, <2>2 DEF Inv, CurInv, SegInv
<1>7. HolderInv'
  <2> SUFFICES ASSUME NEW c \in Clients
               PROVE  "functor" \in refs'[c] <=> \E k \in Loops : c \in Range(pending[k]) \cup batch'[k]
    BY <1>2 DEF Inv, Owners, HolderInv
  <2>1. CASE c \in batch[l]
    <3>1. \A k \in Loops : c \notin batch'[k]
      BY <1>4, <2>1 DEF Inv, Owners, QueueInv
    <3>2. \A k \in Loops : c \notin Range(pending[k])
      BY <2>1 DEF Inv, Owners, QueueInv
    <3> QED
      BY <1>2, <2>1, <3>1, <3>2
  <2>2. CASE c \notin batch[l]
    BY <1>2, <1>4, <2>2 DEF Inv, Owners, HolderInv
  <2> QED
    BY <2>1, <2>2
<1>8. QueueInv'
  BY <1>4 DEF Inv, Owners, QueueInv
<1>9. MapInv'
  BY DEF Inv, Owners, MapInv
<1> QED
  BY <1>3, <1>5, <1>6, <1>7, <1>8, <1>9 DEF Inv, Owners

LEMMA CloseStep ==
  ASSUME Inv, NEW l \in Loops, NEW c \in Clients, HandleClose(l, c)
  PROVE  Inv'
<1> USE DEF HandleClose, mainVars, objVars, serving, loopVars, ioVars, peerVars
<1>1. c \in registered /\ loop_[c] = l /\ batch[l] = {}
  BY DEF Readable
<1>2. stage[c] = "live" /\ fd[c] \in FDs /\ "map" \in refs[c]
  BY <1>1 DEF Inv, Owners, HolderInv, LiveInv, Live
<1>3. connections_[l][fd[c]] = c
  BY <1>1 DEF Inv, Owners, MapInv
<1>4. Released(l, c) = {c}
  BY <1>3, NoneIsNone DEF Released
<1>5. Drop({c}, "map")
  BY <1>4
<1>6. /\ refs' \in [Clients -> SUBSET {"main", "functor", "map"}]
      /\ stage' \in [Clients -> {"away", "backlog", "live", "destroyed", "refused"}]
      /\ \A d \in Clients : refs'[d] = IF d \in {c} THEN refs[d] \ {"map"} ELSE refs[d]
      /\ \A d \in Clients : stage'[d] = "live" <=> refs'[d] # {}
  BY <1>5, DropRefs
<1>7. LiveInv' /\ BacklogInv'
  BY <1>5, DropKeeps
<1>8. /\ connections_' = [connections_ EXCEPT ![l][fd[c]] = None]
      /\ connections_' \in [Loops -> [FDs -> Clients \cup {None}]]
      /\ connections_'[l][fd[c]] = None
      /\ \A k \in Loops, f \in FDs : (k = l /\ f = fd[c]) \/ connections_'[k][f] = connections_[k][f]
  BY <1>2 DEF Inv, TypeOK, Erased
<1>9. TypeOK'
  BY <1>6, <1>8 DEF Inv, TypeOK, GoesOn
<1>10. CurInv' /\ SegInv'
  <2>1. mpc = "created" => cur # c
    BY <1>2 DEF Inv, CurInv
  <2>2. cur # None => cur \in Clients
    BY DEF Inv, TypeOK
  <2> QED
    BY <1>6, <2>1, <2>2 DEF Inv, CurInv, SegInv
<1>11. HolderInv'
  BY <1>1, <1>6 DEF Inv, Owners, HolderInv
<1>12. QueueInv'
  BY DEF Inv, Owners, QueueInv
<1>13. MapInv'
  <2>1. \A d \in registered : d \in Clients /\ loop_[d] \in Loops /\ fd[d] \in FDs /\ (fd[d] = fd[c] => d = c)
    <3>1. c \in Live /\ \A d \in registered : d \in Live
      BY <1>2 DEF Inv, TypeOK, Owners, HolderInv, Live
    <3> QED
      BY <3>1 DEF Inv, TypeOK, Owners, LiveInv
  <2>2. \A d \in registered' : connections_'[loop_[d]][fd[d]] = d
    BY <1>8, <2>1 DEF Inv, Owners, MapInv
  <2>3. \A k \in Loops, f \in FDs :
          connections_'[k][f] # None =>
            /\ connections_'[k][f] \in registered'
            /\ loop_[connections_'[k][f]] = k /\ fd[connections_'[k][f]] = f
    BY <1>3, <1>8 DEF Inv, Owners, MapInv
  <2> QED
    BY <2>2, <2>3 DEF MapInv
<1> QED
  BY <1>7, <1>9, <1>10, <1>11, <1>12, <1>13 DEF Inv, Owners

LEMMA EndHandleStep ==
  ASSUME Inv, NEW l \in Loops, EndHandle(l)
  PROVE  Inv'
<1> USE DEF Inv, EndHandle, mainVars, objVars, loopVars, ioVars, peerVars
<1>1. TypeOK' /\ BacklogInv' /\ CurInv' /\ SegInv'
  BY DEF TypeOK, BacklogInv, CurInv, SegInv
<1>2. Owners'
  BY OwnersStay
<1> QED
  BY <1>1, <1>2

LEMMA StutterStep == Inv /\ UNCHANGED vars => Inv'
<1> SUFFICES ASSUME Inv, UNCHANGED vars PROVE Inv'
  OBVIOUS
<1> USE DEF Inv, vars, mainVars, objVars, serving, loopVars, ioVars, peerVars
<1>1. TypeOK' /\ BacklogInv' /\ CurInv' /\ SegInv'
  BY DEF TypeOK, BacklogInv, CurInv, SegInv
<1>2. Owners'
  BY OwnersStay
<1> QED
  BY <1>1, <1>2

LEMMA NextInv == Inv /\ [Next]_vars => Inv'
<1> SUFFICES ASSUME Inv, [Next]_vars PROVE Inv'
  OBVIOUS
<1>1. CASE MainStep
  BY <1>1, ListenStep, AcceptStep, RunInLoopStep, EndNewConnStep DEF MainStep
<1>2. ASSUME NEW l \in Loops, LoopStep(l) PROVE Inv'
  BY <1>2, RunFunctorStep, EndBatchStep, EndHandleStep DEF LoopStep
<1>3. ASSUME NEW l \in Loops, NEW c \in Clients, Handle(l, c) PROVE Inv'
  BY <1>3, ReadStep, CloseStep DEF Handle
<1>4. ASSUME NEW c \in Clients, Connect(c) \/ Send(c) \/ Shut(c) \/ Reset(c) \/ Urge(c) PROVE Inv'
  BY <1>4, PeerStep
<1>5. CASE UNCHANGED vars
  BY <1>5, StutterStep
<1> QED
  BY <1>1, <1>2, <1>3, <1>4, <1>5 DEF Next

\* No connection gets another loop once it has been accepted, and none begins
\* anew.
LEMMA LoopStays ==
  ASSUME Inv, [Next]_vars, NEW c \in Clients, stage[c] \in {"live", "destroyed"}
  PROVE  /\ loop_'[c] = loop_[c] /\ stage'[c] \in {"live", "destroyed"}
         /\ stage[c] = "destroyed" => stage'[c] = "destroyed"
<1> USE DEF objVars
<1>1. /\ stage \in [Clients -> {"away", "backlog", "live", "destroyed", "refused"}]
      /\ loop_ \in [Clients -> Loops \cup {None}]
  BY DEF Inv, TypeOK
<1>2. mpc = "handler" => Head(backlog) \in Clients /\ stage[Head(backlog)] = "backlog"
  BY DEF Inv, TypeOK, BacklogInv, Range
<1>3. CASE Accept \/ AcceptTooMany
  BY <1>1, <1>2, <1>3 DEF Accept, AcceptTooMany
<1>4. ASSUME NEW S, NEW h, Drop(S, h), UNCHANGED loop_
      PROVE  /\ loop_'[c] = loop_[c] /\ stage'[c] \in {"live", "destroyed"}
             /\ stage[c] = "destroyed" => stage'[c] = "destroyed"
  BY <1>4 DEF Drop
<1>5. CASE MainStep
  BY <1>3, <1>4, <1>5 DEF MainStep, ReportListener, AcceptFails, RunInLoop, EndNewConn
<1>6. CASE \E l \in Loops : LoopStep(l)
  BY <1>4, <1>6 DEF LoopStep, RunFunctor, EndBatch, EndHandle
<1>7. CASE \E l \in Loops, d \in Clients : Handle(l, d)
  BY <1>4, <1>7 DEF Handle, HandleRead, HandleUrgent, HandleClose
<1>8. CASE \E d \in Clients : Connect(d)
  BY <1>1, <1>8 DEF Connect
<1>9. CASE \E d \in Clients : Send(d) \/ Shut(d) \/ Reset(d) \/ Urge(d)
  BY <1>9 DEF Send, Shut, Reset, Urge
<1>10. CASE UNCHANGED vars
  BY <1>10 DEF vars
<1> QED
  BY <1>5, <1>6, <1>7, <1>8, <1>9, <1>10 DEF Next

\* handle_events begins for registered connections only.
LEMMA BeginsRegistered ==
  ASSUME Inv, [Next]_vars, NEW l \in Loops
  PROVE  LET c == handling'[l]
         IN  c # None => c = handling[l] \/ (c \in registered /\ loop_[c] = l)
<1>1. handling \in [Loops -> Clients \cup {None}]
  BY DEF Inv, TypeOK
<1>2. CASE UNCHANGED handling
  BY <1>2
<1>3. ASSUME NEW k \in Loops, NEW c \in Clients, HandleRead(k, c) \/ HandleClose(k, c)
      PROVE  handling'[l] = handling[l] \/ (handling'[l] \in registered /\ loop_[handling'[l]] = l)
  BY <1>1, <1>3 DEF HandleRead, HandleClose, GoesOn, Readable
<1>4. ASSUME NEW k \in Loops, EndHandle(k) PROVE handling'[l] \in {handling[l], None}
  BY <1>1, <1>4 DEF EndHandle
<1> USE DEF serving, loopVars
<1>5. CASE MainStep
  BY <1>2, <1>5 DEF MainStep, ReportListener, Accept, AcceptTooMany, AcceptFails, RunInLoop, EndNewConn
<1>6. CASE \E k \in Loops : LoopStep(k)
  BY <1>2, <1>4, <1>6 DEF LoopStep, RunFunctor, EndBatch
<1>7. CASE \E k \in Loops, c \in Clients : Handle(k, c)
  BY <1>2, <1>3, <1>7 DEF Handle, HandleUrgent
<1>8. CASE \E c \in Clients : Connect(c) \/ Send(c) \/ Shut(c) \/ Reset(c) \/ Urge(c)
  BY <1>2, <1>8 DEF Connect, Send, Shut, Reset, Urge
<1>9. CASE UNCHANGED vars
  BY <1>2, <1>9 DEF vars
<1> QED
  BY <1>5, <1>6, <1>7, <1>8, <1>9 DEF Next

LEMMA HandlingStep == Inv /\ HandlingInv /\ [Next]_vars => HandlingInv'
<1> SUFFICES ASSUME Inv, HandlingInv, [Next]_vars, NEW l \in Loops, handling'[l] # None
             PROVE  LET c == handling'[l]
                    IN  loop_'[c] = l /\ stage'[c] \in {"live", "destroyed"}
  BY DEF HandlingInv
<1> DEFINE c == handling'[l]
<1>1. c = handling[l] \/ (c \in registered /\ loop_[c] = l)
  BY BeginsRegistered
<1>2. c \in Clients /\ loop_[c] = l /\ stage[c] \in {"live", "destroyed"}
  <2>1. c \in Clients
    BY <1>1 DEF Inv, TypeOK
  <2>2. CASE c = handling[l]
    BY <2>1, <2>2 DEF HandlingInv
  <2>3. CASE c \in registered /\ loop_[c] = l
    BY <2>1, <2>3 DEF Inv, Owners, HolderInv
  <2> QED
    BY <1>1, <2>1, <2>2, <2>3
<1> HIDE DEF c
<1>3. loop_'[c] = loop_[c] /\ stage'[c] \in {"live", "destroyed"}
  BY <1>2, LoopStays
<1> QED
  BY <1>2, <1>3 DEF c

\* The invariant, in every state.
THEOREM Invariance == Spec => []Inv
<1> QED
  BY InitInv, NextInv, PTL DEF Spec

LEMMA HandlingCorrect == Spec => []HandlingInv
<1>1. Init => HandlingInv
  BY DEF Init, HandlingInv
<1> QED
  BY <1>1, Invariance, HandlingStep, PTL DEF Spec

-----------------------------------------------------------------------------

\* Every variable keeps its type: the round robin never leaves the pool.
THEOREM TypeCorrect == Spec => []TypeOK
<1>1. Inv => TypeOK
  BY DEF Inv
<1> QED
  BY <1>1, Invariance, PTL

\* put never meets an older entry and erase never hits another connection
\* (EventLoop.cc:145-153).
THEOREM MapMatchesChannelsCorrect == Spec => []MapMatchesChannels
<1>1. Inv => MapMatchesChannels
  <2> SUFFICES ASSUME Inv, NEW l \in Loops, NEW c \in Clients
               PROVE  /\ c \in registered /\ loop_[c] = l =>
                           stage[c] = "live" /\ connections_[l][fd[c]] = c
                      /\ \A f \in FDs : connections_[l][f] = c =>
                           c \in registered /\ loop_[c] = l /\ fd[c] = f
    BY DEF MapMatchesChannels
  <2>1. c \in registered => stage[c] = "live"
    BY DEF Inv, Owners, HolderInv
  <2> QED
    BY <2>1, NoneIsNone DEF Inv, Owners, MapInv
<1> QED
  BY <1>1, Invariance, PTL

\* No descriptor has two owners and none leaks (TcpServer.cc:68-78).
THEOREM OneOwnerCorrect == Spec => []OneOwner
<1>1. Inv => OneOwner
  <2> SUFFICES ASSUME Inv, NEW c \in Live, c # cur
               PROVE  \E l \in Loops : c \in Range(pending[l]) \cup batch[l] \cup Range(connections_[l])
    BY DEF OneOwner, Inv, Owners, LiveInv
  <2>1. c \in Clients /\ refs[c] # {} /\ "main" \notin refs[c]
    BY DEF Inv, Owners, HolderInv, Live
  <2>2. CASE "functor" \in refs[c]
    BY <2>1, <2>2 DEF Inv, Owners, HolderInv
  <2>3. CASE "map" \in refs[c]
    <3>1. loop_[c] \in Loops /\ fd[c] \in FDs /\ connections_[loop_[c]][fd[c]] = c
      BY <2>1, <2>3 DEF Inv, Owners, HolderInv, LiveInv, MapInv
    <3>2. c \in Range(connections_[loop_[c]])
      BY <3>1 DEF Inv, TypeOK, Range
    <3> QED
      BY <3>1, <3>2
  <2>4. refs[c] \subseteq {"main", "functor", "map"}
    BY <2>1 DEF Inv, TypeOK
  <2>5. "functor" \in refs[c] \/ "map" \in refs[c]
    BY <2>1, <2>4
  <2> QED
    BY <2>2, <2>3, <2>5
<1> QED
  BY <1>1, Invariance, PTL

LEMMA DestroyedUnused ==
  ASSUME Inv, NEW c \in Clients, stage[c] = "destroyed"
  PROVE  ~InUse(c)
<1>1. refs[c] = {}
  BY DEF Inv, Owners, HolderInv
<1>2. c # cur /\ c \notin registered /\ \A l \in Loops : c \notin Range(pending[l]) \cup batch[l]
  BY <1>1 DEF Inv, Owners, HolderInv
<1>3. \A l \in Loops : c \notin Range(connections_[l])
  <2> SUFFICES ASSUME NEW l \in Loops, NEW f \in DOMAIN connections_[l], connections_[l][f] = c
               PROVE  FALSE
    BY DEF Range
  <2>1. f \in FDs /\ c # None
    BY NoneIsNone DEF Inv, TypeOK
  <2> QED
    BY <1>2, <2>1 DEF Inv, Owners, MapInv
<1> QED
  BY <1>2, <1>3 DEF InUse

\* ~TCPConnection runs once and nobody comes upon the connection afterwards, so
\* that its descriptor is not closed again when the number has another owner; what
\* may still be running for it is the handle_events of its own loop that has closed
\* it (Channel.cc:75), and that only until it returns.
THEOREM DestroyedIsOverCorrect == Spec => DestroyedIsOver
<1> DEFINE Over == \A c \in Clients : stage[c] = "destroyed" =>
                     /\ ~InUse(c) /\ stage'[c] = "destroyed"
                     /\ \A l \in Loops : handling'[l] = c => handling[l] = c /\ l = loop_[c]
<1>1. Inv /\ HandlingInv /\ [Next]_vars => [Over]_vars
  <2> SUFFICES ASSUME Inv, HandlingInv, [Next]_vars, NEW c \in Clients, stage[c] = "destroyed"
               PROVE  /\ ~InUse(c) /\ stage'[c] = "destroyed"
                      /\ \A l \in Loops : handling'[l] = c => handling[l] = c /\ l = loop_[c]
    OBVIOUS
  <2>1. ~InUse(c)
    BY DestroyedUnused
  <2>2. stage'[c] = "destroyed"
    BY LoopStays
  <2>3. ASSUME NEW l \in Loops, handling'[l] = c PROVE handling[l] = c /\ l = loop_[c]
    <3>1. c # None /\ c \notin registered
      BY <2>1, NoneIsNone DEF InUse
    <3>2. handling[l] = c
      BY <2>3, <3>1, BeginsRegistered
    <3> QED
      BY <3>1, <3>2 DEF HandlingInv
  <2> QED
    BY <2>1, <2>2, <2>3
<1> QED
  BY Invariance, HandlingCorrect, <1>1, PTL DEF Spec, DestroyedIsOver

\* As long as every descriptor is below MAXFDS the listener is armed whenever the
\* main loop polls (TcpServer.cc:65, 81).
THEOREM ListenerArmedCorrect ==
  ASSUME \A f \in FDs : f < MAXFDS
  PROVE  Spec => []ListenerArmed
<1>1. Init => ListenerArmed
  BY DEF Init, ListenerArmed
<1>2. ListenerArmed /\ [Next]_vars => ListenerArmed'
  <2> SUFFICES ASSUME ListenerArmed, [Next]_vars PROVE ListenerArmed'
    OBVIOUS
  <2> USE DEF ListenerArmed, mainVars
  <2>1. ~AcceptTooMany
    <3>1. SUFFICES ASSUME AcceptTooMany PROVE FALSE
      OBVIOUS
    <3>2. PICK f \in Lowest : f >= MAXFDS
      BY <3>1 DEF AcceptTooMany
    <3>3. f \in FDs
      BY <3>2 DEF Lowest, FreeFDs
    <3>4. f \in Nat /\ MAXFDS \in Nat /\ f < MAXFDS
      BY <3>3, ConstantsAssumption
    <3> QED
      BY <3>2, <3>4
  <2>2. CASE MainStep
    BY <2>1, <2>2 DEF MainStep, ReportListener, Accept, AcceptFails, RunInLoop, EndNewConn
  <2>3. ASSUME NEW l \in Loops, LoopStep(l) PROVE ListenerArmed'
    BY <2>3 DEF LoopStep, RunFunctor, EndBatch, EndHandle
  <2>4. ASSUME NEW l \in Loops, NEW c \in Clients, Handle(l, c) PROVE ListenerArmed'
    BY <2>4 DEF Handle, HandleRead, HandleUrgent, HandleClose
  <2>5. ASSUME NEW c \in Clients, Connect(c) \/ Send(c) \/ Shut(c) \/ Reset(c) \/ Urge(c) PROVE ListenerArmed'
    BY <2>5 DEF Connect, Send, Shut, Reset, Urge
  <2>6. CASE UNCHANGED vars
    BY <2>6 DEF vars
  <2> QED
    BY <2>2, <2>3, <2>4, <2>5, <2>6 DEF Next
<1> QED
  BY <1>1, <1>2, PTL DEF Spec

\* Every read is answered, once: at most one answer a segment, and one at least a
\* buffer (TcpConnection.cc:42-57).
THEOREM AnswersRequestsCorrect == Spec => []AnswersRequests
<1> DEFINE Replied == \A c \in Clients : taken[c] <= BufSegs * answers[c] \/ c \in broken
<1>1. Init => Replied
  BY ConstantsAssumption DEF Init
<1>2. Inv /\ Replied /\ [Next]_vars => Replied'
  <2> SUFFICES ASSUME Inv, Replied, [Next]_vars PROVE Replied'
    OBVIOUS
  <2> USE DEF ioVars, peerVars
  <2>1. ASSUME NEW l \in Loops, NEW c \in Clients, HandleRead(l, c) PROVE Replied'
    <3>1. taken[c] \in Nat /\ answers[c] \in Nat /\ inbox[c] \in Nat /\ BufSegs \in Nat
      BY ConstantsAssumption DEF Inv, TypeOK
    <3>2. /\ answers'[c] = Answered(c) /\ taken'[c] = taken[c] + Take(c)
          /\ \A d \in Clients \ {c} : answers'[d] = answers[d] /\ taken'[d] = taken[d]
      BY <2>1 DEF HandleRead, Inv, TypeOK
    <3>3. Take(c) \in Nat /\ Take(c) <= BufSegs
      BY <3>1 DEF Take
    <3>4. BufSegs * (answers[c] + 1) = BufSegs * answers[c] + BufSegs /\ BufSegs * answers[c] \in Nat
      BY <3>1
    <3>5. c \in broken \/ taken'[c] <= BufSegs * answers'[c]
      <4> SUFFICES ASSUME c \notin broken PROVE taken'[c] <= BufSegs * answers'[c]
        OBVIOUS
      <4>1. taken[c] <= BufSegs * answers[c] /\ answers'[c] = answers[c] + 1
        BY <3>2 DEF Answered
      <4>2. taken[c] + Take(c) <= BufSegs * answers[c] + BufSegs
        BY <3>1, <3>3, <3>4, <4>1
      <4> QED
        BY <3>2, <3>4, <4>1, <4>2
    <3>6. UNCHANGED broken
      BY <2>1 DEF HandleRead
    <3> QED
      BY <3>2, <3>5, <3>6
  <2>2. CASE MainStep
    BY <2>2 DEF MainStep, ReportListener, Accept, AcceptTooMany, AcceptFails, RunInLoop, EndNewConn
  <2>3. ASSUME NEW l \in Loops, LoopStep(l) PROVE Replied'
    BY <2>3 DEF LoopStep, RunFunctor, EndBatch, EndHandle
  <2>4. ASSUME NEW l \in Loops, NEW c \in Clients, HandleUrgent(l, c) \/ HandleClose(l, c) PROVE Replied'
    BY <2>4 DEF HandleUrgent, HandleClose
  <2>5. ASSUME NEW c \in Clients, Connect(c) \/ Send(c) \/ Shut(c) \/ Reset(c) \/ Urge(c) PROVE Replied'
    BY <2>5 DEF Connect, Send, Shut, Reset, Urge
  <2>6. CASE UNCHANGED vars
    BY <2>6 DEF vars
  <2> QED
    BY <2>1, <2>2, <2>3, <2>4, <2>5, <2>6 DEF Next, Handle
<1>3. Inv /\ Replied => AnswersRequests
  BY DEF Inv, SegInv, AnswersRequests
<1> QED
  BY <1>1, <1>2, <1>3, Invariance, PTL DEF Spec
=============================================================================
