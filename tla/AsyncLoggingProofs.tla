-------------------------- MODULE AsyncLoggingProofs --------------------------
(***************************************************************************)
(* TLAPS proofs about AsyncLogging, for any number and size of buffers,    *)
(* any backlog limit, flush frequency and number of messages.              *)
(***************************************************************************)
EXTENDS AsyncLogging, SequenceTheorems, TLAPS

-----------------------------------------------------------------------------
(* The inductive invariant *)

\* next_buffer_ is used up only by queueing a full buffer, so that the consumer
\* finds two buffers to recycle whenever it has given both of its own away.
SpareInv ==
  /\ owner = "new" <=> cpc = "none"
  /\ cpc = "created" => owner = "starting"
  /\ next_buffer_ = Null => buffers_ # <<>>
  /\ cpc \in {"none", "created", "head", "lock", "waiting"} => buffers_to_write = <<>>
  /\ cpc \in {"head", "lock", "waiting", "tail"} => new_buffer1 # Null /\ new_buffer2 # Null
  /\ cpc \in {"trim", "write", "refill1"} =>
       Len(buffers_to_write) >= (IF new_buffer2 = Null THEN 2 ELSE 1)
  /\ cpc = "refill2" =>
       new_buffer1 # Null /\ (new_buffer2 = Null => Len(buffers_to_write) >= 1)

\* Outside a round of writing everything is flushed.
FlushInv ==
  cpc \notin {"trim", "write", "refill1", "refill2"} => flushed = Len(written)

\* The holders of one buffer.
Singles == {curr_buffer_, next_buffer_, new_buffer1, new_buffer2}

\* NoSharedBuffer for those that hold c, n, a, b, s and t.
Apart(c, n, a, b, s, t) ==
  /\ c \notin {n, a, b}
  /\ n # Null => n \notin {a, b}
  /\ a # Null => a # b
  /\ \A i, j \in 1..Len(s) : s[i] = s[j] => i = j
  /\ \A i, j \in 1..Len(t) : t[i] = t[j] => i = j
  /\ \A i \in 1..Len(s) : s[i] \notin {c, n, a, b}
  /\ \A i \in 1..Len(t) : t[i] \notin {c, n, a, b}
  /\ \A i \in 1..Len(s), j \in 1..Len(t) : s[i] # t[j]

ApartInv ==
  Apart(curr_buffer_, next_buffer_, new_buffer1, new_buffer2, buffers_, buffers_to_write)

\* A spare is empty, and so is, before the consumer starts, what is not allocated.
EmptyInv ==
  /\ \A b \in {next_buffer_, new_buffer1, new_buffer2} \cap Buffers : content[b] = <<>>
  /\ cpc \in {"none", "created"} => \A b \in Unused : content[b] = <<>>

Inv == TypeOK /\ SpareInv /\ FlushInv /\ ApartInv /\ EmptyInv

-----------------------------------------------------------------------------
(* Sequences *)

LEMMA Prefix ==
  ASSUME NEW S, NEW s \in Seq(S), NEW n \in Nat, n <= Len(s)
  PROVE  SubSeq(s, 1, n) \in Seq(S) /\ Len(SubSeq(s, 1, n)) = n
  OBVIOUS

LEMMA LastFront ==
  ASSUME NEW S, NEW s \in Seq(S), Len(s) >= 1
  PROVE  /\ Last(s) \in S
         /\ Front(s) \in Seq(S)
         /\ Len(Front(s)) = Len(s) - 1
<1>1. Last(s) \in S
  BY DEF Last
<1>2. Len(s) - 1 \in Nat /\ Len(s) - 1 <= Len(s)
  OBVIOUS
<1>3. Front(s) \in Seq(S) /\ Len(Front(s)) = Len(s) - 1
  BY <1>2, Prefix DEF Front
<1> QED
  BY <1>1, <1>3

LEMMA QueuedSomething ==
  ASSUME NEW s \in Seq(Buffers), NEW b \in Buffers
  PROVE  Append(s, b) # <<>>
<1>1. Len(Append(s, b)) = Len(s) + 1 /\ Len(s) \in Nat
  OBVIOUS
<1>2. Len(<<>>) = 0
  OBVIOUS
<1> QED
  BY <1>1, <1>2

LEMMA UpdateContent ==
  ASSUME NEW f \in [Buffers -> Seq(Messages)], NEW b, NEW s \in Seq(Messages)
  PROVE  [f EXCEPT ![b] = s] \in [Buffers -> Seq(Messages)]
  OBVIOUS

LEMMA NoMessage == <<>> \in Seq(Messages)
  OBVIOUS

LEMMA OneMessage ==
  ASSUME NEW m \in Messages
  PROVE  <<m>> \in Seq(Messages)
  OBVIOUS

LEMMA FreshPair ==
  ASSUME NEW S, Pairs(S) # {}
  PROVE  Fresh(S)[1] \in S /\ Fresh(S)[2] \in S /\ Fresh(S)[1] # Fresh(S)[2]
  BY DEF Pairs, Fresh

LEMMA Shortened ==
  ASSUME NEW S, NEW s \in Seq(S), NEW n \in Nat, n <= Len(s)
  PROVE  /\ SubSeq(s, 1, n) \in Seq(S) /\ Len(SubSeq(s, 1, n)) = n
         /\ \A i \in 1..n : SubSeq(s, 1, n)[i] = s[i]
  OBVIOUS

LEMMA UnusedIsNotHeld ==
  ASSUME TypeOK, NEW b \in Unused
  PROVE  /\ b \notin Singles
         /\ \A i \in 1..Len(buffers_) : buffers_[i] # b
         /\ \A i \in 1..Len(buffers_to_write) : buffers_to_write[i] # b
<1>1. b \notin Singles /\ b \notin Range(buffers_) /\ b \notin Range(buffers_to_write)
  BY DEF Unused, Held, Singles
<1>2. buffers_ \in Seq(Buffers) /\ buffers_to_write \in Seq(Buffers)
  BY DEF TypeOK
<1> QED
  BY <1>1, <1>2 DEF Range

-----------------------------------------------------------------------------

LEMMA InitInv == Init => Inv
<1> SUFFICES ASSUME Init PROVE Inv
  OBVIOUS
<1> USE ConstantsAssumption DEF Init
<1>1. Pairs(Buffers) # {}
  <2>1. PICK b1 \in Buffers, b2 \in Buffers : b1 # b2
    OBVIOUS
  <2>2. <<b1, b2>> \in Pairs(Buffers)
    BY <2>1 DEF Pairs
  <2> QED
    BY <2>2
<1>2. curr_buffer_ \in Buffers /\ next_buffer_ \in Buffers
  BY <1>1, FreshPair
<1>3. TypeOK
  <2>1. content \in [Buffers -> Seq(Messages)]
    OBVIOUS
  <2>2. buffers_ \in Seq(Buffers) /\ buffers_to_write \in Seq(Buffers) /\ written \in Seq(Messages)
    OBVIOUS
  <2>3. count_ \in 0..(FlushFreq - 1) /\ logged \in 0..MaxMsgs /\ index \in Nat \ {0} /\ flushed \in Nat
    OBVIOUS
  <2> QED
    BY <1>2, <2>1, <2>2, <2>3 DEF TypeOK
<1>4. SpareInv
  BY <1>2 DEF SpareInv
<1>5. FlushInv
  BY DEF FlushInv
<1>6. curr_buffer_ # next_buffer_
  BY <1>1, FreshPair
<1>7. ApartInv
  BY <1>2, <1>6 DEF ApartInv, Apart
<1>8. EmptyInv
  BY <1>2 DEF EmptyInv, Unused
<1> QED
  BY <1>3, <1>4, <1>5, <1>7, <1>8 DEF Inv

LEMMA TypeStep == TypeOK /\ SpareInv /\ [Next]_vars => TypeOK'
<1> SUFFICES ASSUME TypeOK, SpareInv, [Next]_vars PROVE TypeOK'
  OBVIOUS
<1> USE ConstantsAssumption DEF TypeOK, producerVars, consumerVars, fileVars, Messages
<1>1. CASE Start
  BY <1>1 DEF Start
<1>2. CASE StartReturn
  BY <1>2 DEF StartReturn
<1>3. CASE Stop
  BY <1>3 DEF Stop
<1>4. CASE StopReturn
  BY <1>4 DEF StopReturn
<1>5. CASE AppendHere
  BY <1>5 DEF AppendHere, MayAppend
<1>6. CASE AppendNext
  BY <1>6 DEF AppendNext, MayAppend
<1>7. CASE AppendNew
  <2>1. curr_buffer_' \in Buffers
    BY <1>7 DEF AppendNew, Unused
  <2>2. logged' \in Messages /\ logged' \in 0..MaxMsgs
    BY <1>7 DEF AppendNew, MayAppend
  <2>3. content' \in [Buffers -> Seq(Messages)]
    BY <1>7, <2>2, OneMessage, UpdateContent DEF AppendNew
  <2> QED
    BY <1>7, <2>1, <2>2, <2>3 DEF AppendNew
<1>8. CASE ThreadFunc
  <2>1. new_buffer1' \in Buffers /\ new_buffer2' \in Buffers
    <3>1. Fresh(Unused)[1] \in Unused /\ Fresh(Unused)[2] \in Unused
      BY <1>8, FreshPair DEF ThreadFunc
    <3> QED
      BY <1>8, <3>1 DEF ThreadFunc, Unused
  <2> QED
    BY <1>8, <2>1 DEF ThreadFunc
<1>9. CASE TestRunning
  BY <1>9 DEF TestRunning
<1>10. CASE WaitSeconds
  BY <1>10 DEF WaitSeconds
<1>11. CASE Collect
  <2>1. new_buffer1 \in Buffers
    BY <1>11 DEF Collect, Awake, SpareInv
  <2>2. buffers_to_write' \in Seq(Buffers) /\ buffers_' \in Seq(Buffers)
    BY <1>11 DEF Collect, Awake
  <2>3. {next_buffer_', new_buffer1', new_buffer2'} \subseteq Buffers \cup {Null}
    BY <1>11 DEF Collect, Awake
  <2> QED
    BY <1>11, <2>1, <2>2, <2>3 DEF Collect, Awake
<1>12. CASE Trim
  <2>1. buffers_to_write' \in Seq(Buffers)
    <3>1. CASE Len(buffers_to_write) > MaxBacklog
      <4>1. Keep \in Nat /\ Keep <= Len(buffers_to_write)
        BY <3>1 DEF Keep
      <4>2. buffers_to_write' = SubSeq(buffers_to_write, 1, Keep)
        BY <1>12, <3>1 DEF Trim, TooLong
      <4> QED
        BY <4>1, <4>2, Prefix
    <3>2. CASE ~(Len(buffers_to_write) > MaxBacklog)
      BY <1>12, <3>2 DEF Trim, TooLong
    <3> QED
      BY <3>1, <3>2
  <2>2. dropped' \subseteq Messages
    <3>1. ASSUME NEW i \in (Keep + 1)..Len(buffers_to_write)
          PROVE  Range(content[buffers_to_write[i]]) \subseteq Messages
      <4>1. buffers_to_write[i] \in Buffers
        BY DEF Keep
      <4>2. content[buffers_to_write[i]] \in Seq(Messages)
        BY <4>1
      <4> QED
        BY <4>2, RangeOfSeq
    <3> QED
      <4>1. CASE Len(buffers_to_write) > MaxBacklog
        <5>1. dropped' = dropped \cup
                 UNION {Range(content[buffers_to_write[i]]) :
                          i \in (Keep + 1)..Len(buffers_to_write)}
          BY <1>12, <4>1 DEF Trim, TooLong
        <5>2. UNION {Range(content[buffers_to_write[i]]) :
                       i \in (Keep + 1)..Len(buffers_to_write)} \subseteq Messages
          BY <3>1
        <5> QED
          BY <5>1, <5>2
      <4>2. CASE ~(Len(buffers_to_write) > MaxBacklog)
        BY <1>12, <4>2 DEF Trim, TooLong
      <4> QED
        BY <4>1, <4>2
  <2> QED
    BY <1>12, <2>1, <2>2 DEF Trim, TooLong
<1>13. CASE WriteBuffer
  <2>1. count_' \in 0..(FlushFreq - 1) /\ index' \in Nat \ {0}
    BY <1>13 DEF WriteBuffer, NextCount
  <2>2. written' \in Seq(Messages)
    <3>1. index \in 1..Len(buffers_to_write)
      BY <1>13 DEF WriteBuffer, MoreToWrite
    <3>2. content[buffers_to_write[index]] \in Seq(Messages)
      BY <3>1
    <3> QED
      BY <1>13, <3>2 DEF WriteBuffer
  <2>3. flushed' \in Nat
    BY <1>13, <2>2 DEF WriteBuffer
  <2> QED
    BY <1>13, <2>1, <2>2, <2>3 DEF WriteBuffer
<1>14. CASE EndWrite
  <2>1. buffers_to_write' \in Seq(Buffers)
    BY <1>14, Prefix DEF EndWrite, MoreToWrite, Keep
  <2> QED
    BY <1>14, <2>1 DEF EndWrite, MoreToWrite
<1>15. CASE Refill1
  <2>1. Len(buffers_to_write) >= 1
    BY <1>15 DEF Refill1, SpareInv
  <2>2. new_buffer1' \in Buffers \cup {Null} /\ buffers_to_write' \in Seq(Buffers)
    BY <1>15, <2>1, LastFront DEF Refill1, PopBack
  <2>3. content' \in [Buffers -> Seq(Messages)]
    BY <1>15, NoMessage, UpdateContent DEF Refill1
  <2> QED
    BY <1>15, <2>2, <2>3 DEF Refill1
<1>16. CASE Refill2
  <2>1. new_buffer2' \in Buffers \cup {Null}
    BY <1>16, LastFront DEF Refill2, Flush, SpareInv
  <2>2. content' \in [Buffers -> Seq(Messages)]
    BY <1>16, NoMessage, UpdateContent DEF Refill2, Flush
  <2>3. buffers_to_write' \in Seq(Buffers) /\ flushed' \in Nat
    BY <1>16 DEF Refill2, Flush
  <2> QED
    BY <1>16, <2>1, <2>2, <2>3 DEF Refill2, Flush
<1>17. CASE Finish
  BY <1>17 DEF Finish, Flush
<1>18. CASE UNCHANGED vars
  BY <1>18 DEF vars
<1> QED
  BY <1>1, <1>2, <1>3, <1>4, <1>5, <1>6, <1>7, <1>8, <1>9,
     <1>10, <1>11, <1>12, <1>13, <1>14, <1>15, <1>16, <1>17, <1>18
  DEF Next, Consumer, AppendLog

LEMMA SpareStep == TypeOK /\ SpareInv /\ [Next]_vars => SpareInv'
<1> SUFFICES ASSUME TypeOK, SpareInv, [Next]_vars PROVE SpareInv'
  OBVIOUS
<1> USE ConstantsAssumption DEF TypeOK, SpareInv, producerVars, consumerVars
<1>1. CASE Start
  BY <1>1 DEF Start
<1>2. CASE StartReturn
  BY <1>2 DEF StartReturn
<1>3. CASE Stop
  BY <1>3 DEF Stop
<1>4. CASE StopReturn
  BY <1>4 DEF StopReturn
<1>5. CASE AppendHere
  BY <1>5 DEF AppendHere, MayAppend
<1>6. CASE AppendNext
  <2>1. buffers_' # <<>>
    <3>1. buffers_' = Append(buffers_, curr_buffer_)
      BY <1>6 DEF AppendNext
    <3> QED
      BY <3>1, QueuedSomething
  <2> QED
    BY <1>6, <2>1 DEF AppendNext
<1>7. CASE AppendNew
  <2>1. buffers_' # <<>>
    <3>1. buffers_' = Append(buffers_, curr_buffer_)
      BY <1>7 DEF AppendNew
    <3> QED
      BY <3>1, QueuedSomething
  <2> QED
    BY <1>7, <2>1 DEF AppendNew
<1>8. CASE ThreadFunc
  <2>1. new_buffer1' \in Buffers /\ new_buffer2' \in Buffers
    <3>1. Fresh(Unused)[1] \in Unused /\ Fresh(Unused)[2] \in Unused
      BY <1>8, FreshPair DEF ThreadFunc
    <3> QED
      BY <1>8, <3>1 DEF ThreadFunc, Unused
  <2> QED
    BY <1>8, <2>1 DEF ThreadFunc
<1>9. CASE TestRunning
  BY <1>9 DEF TestRunning
<1>10. CASE WaitSeconds
  BY <1>10 DEF WaitSeconds
<1>11. CASE Collect
  BY <1>11 DEF Collect, Awake
<1>12. CASE Trim
  <2>1. Len(buffers_to_write') >= (IF new_buffer2 = Null THEN 2 ELSE 1)
    <3>1. CASE Len(buffers_to_write) > MaxBacklog
      <4>1. Len(SubSeq(buffers_to_write, 1, 2)) = 2
        BY <3>1, Prefix DEF Keep
      <4>2. buffers_to_write' = SubSeq(buffers_to_write, 1, 2)
        BY <1>12, <3>1 DEF Trim, TooLong, Keep
      <4> QED
        BY <4>1, <4>2
    <3>2. CASE ~(Len(buffers_to_write) > MaxBacklog)
      BY <1>12, <3>2 DEF Trim, TooLong
    <3> QED
      BY <3>1, <3>2
  <2> QED
    BY <1>12, <2>1 DEF Trim, TooLong
<1>13. CASE WriteBuffer
  BY <1>13 DEF WriteBuffer, MoreToWrite, NextCount
<1>14. CASE EndWrite
  <2>1. Len(buffers_to_write') >= (IF new_buffer2 = Null THEN 2 ELSE 1)
    BY <1>14, Prefix DEF EndWrite, MoreToWrite, Keep
  <2> QED
    BY <1>14, <2>1 DEF EndWrite, MoreToWrite
<1>15. CASE Refill1
  <2>1. Len(buffers_to_write) >= (IF new_buffer2 = Null THEN 2 ELSE 1)
    BY <1>15 DEF Refill1, PopBack
  <2>2. new_buffer1' # Null
    BY <1>15, <2>1, LastFront DEF Refill1, PopBack
  <2>3. Len(buffers_to_write') >= Len(buffers_to_write) - 1
    BY <1>15, <2>1, LastFront DEF Refill1, PopBack
  <2> QED
    BY <1>15, <2>1, <2>2, <2>3 DEF Refill1
<1>16. CASE Refill2
  <2>1. new_buffer2' # Null
    BY <1>16, LastFront DEF Refill2, Flush
  <2> QED
    BY <1>16, <2>1 DEF Refill2, Flush
<1>17. CASE Finish
  BY <1>17 DEF Finish, Flush
<1>18. CASE UNCHANGED vars
  BY <1>18 DEF vars
<1> QED
  BY <1>1, <1>2, <1>3, <1>4, <1>5, <1>6, <1>7, <1>8, <1>9,
     <1>10, <1>11, <1>12, <1>13, <1>14, <1>15, <1>16, <1>17, <1>18
  DEF Next, Consumer, AppendLog

LEMMA FlushStep == TypeOK /\ SpareInv /\ FlushInv /\ [Next]_vars => FlushInv'
<1> SUFFICES ASSUME TypeOK, SpareInv, FlushInv, [Next]_vars PROVE FlushInv'
  OBVIOUS
<1> USE DEF TypeOK, FlushInv, fileVars
<1>1. CASE Start
  BY <1>1 DEF Start, SpareInv
<1>2. CASE StartReturn
  BY <1>2 DEF StartReturn
<1>3. CASE Stop
  BY <1>3 DEF Stop
<1>4. CASE StopReturn
  BY <1>4 DEF StopReturn
<1>5. CASE AppendHere
  BY <1>5 DEF AppendHere, MayAppend
<1>6. CASE AppendNext
  BY <1>6 DEF AppendNext, MayAppend
<1>7. CASE AppendNew
  BY <1>7 DEF AppendNew, MayAppend
<1>8. CASE ThreadFunc
  BY <1>8 DEF ThreadFunc
<1>9. CASE TestRunning
  BY <1>9 DEF TestRunning
<1>10. CASE WaitSeconds
  BY <1>10 DEF WaitSeconds
<1>11. CASE Collect
  BY <1>11 DEF Collect, Awake
<1>12. CASE Trim
  BY <1>12 DEF Trim
<1>13. CASE WriteBuffer
  BY <1>13 DEF WriteBuffer, MoreToWrite, NextCount
<1>14. CASE EndWrite
  BY <1>14 DEF EndWrite, MoreToWrite
<1>15. CASE Refill1
  BY <1>15 DEF Refill1, PopBack
<1>16. CASE Refill2
  BY <1>16 DEF Refill2, Flush
<1>17. CASE Finish
  BY <1>17 DEF Finish, Flush
<1>18. CASE UNCHANGED vars
  BY <1>18 DEF vars
<1> QED
  BY <1>1, <1>2, <1>3, <1>4, <1>5, <1>6, <1>7, <1>8, <1>9,
     <1>10, <1>11, <1>12, <1>13, <1>14, <1>15, <1>16, <1>17, <1>18
  DEF Next, Consumer, AppendLog

LEMMA Appended ==
  ASSUME NEW S, NEW s \in Seq(S), NEW c \in S
  PROVE  /\ Len(Append(s, c)) = Len(s) + 1 /\ Len(s) \in Nat
         /\ \A i \in 1..Len(s) : Append(s, c)[i] = s[i]
         /\ Append(s, c)[Len(s) + 1] = c
  OBVIOUS

\* append queues c and goes on with d.
LEMMA ApartAppend ==
  ASSUME NEW c \in Buffers, NEW d \in Buffers, NEW n, NEW m, NEW a, NEW b,
         NEW s \in Seq(Buffers), NEW t \in Seq(Buffers),
         Apart(c, n, a, b, s, t),
         (d = n /\ m = Null) \/ (m = n /\ d \notin {c, n, a, b}),
         \A i \in 1..Len(s) : s[i] # d,
         \A i \in 1..Len(t) : t[i] # d
  PROVE  Apart(d, m, a, b, Append(s, c), t)
<1>1. Null \notin Buffers
  BY ConstantsAssumption
<1> DEFINE q == Append(s, c)
<1>2. /\ Len(q) = Len(s) + 1 /\ Len(s) \in Nat
      /\ \A i \in 1..Len(s) : q[i] = s[i]
      /\ q[Len(s) + 1] = c
  BY Appended
<1> HIDE DEF q
<1>3. \A i \in 1..Len(q) : i \in 1..Len(s) \/ i = Len(s) + 1
  BY <1>2
<1>4. d \notin {m, a, b} /\ (m # Null => m \notin {a, b}) /\ (a # Null => a # b)
  BY <1>1 DEF Apart
<1>5. /\ \A i \in 1..Len(s) : s[i] \notin {c, n, a, b}
      /\ \A i, j \in 1..Len(s) : s[i] = s[j] => i = j
      /\ \A i \in 1..Len(t) : t[i] \notin {c, n, a, b}
      /\ c \notin {n, a, b}
      /\ \A i \in 1..Len(s), j \in 1..Len(t) : s[i] # t[j]
      /\ \A i, j \in 1..Len(t) : t[i] = t[j] => i = j
  BY DEF Apart
<1>6. \A i, j \in 1..Len(q) : q[i] = q[j] => i = j
  <2> SUFFICES ASSUME NEW i \in 1..Len(q), NEW j \in 1..Len(q), q[i] = q[j] PROVE i = j
    OBVIOUS
  <2>1. CASE i \in 1..Len(s) /\ j \in 1..Len(s)
    BY <1>2, <1>5, <2>1
  <2>2. CASE i \in 1..Len(s) /\ j = Len(s) + 1
    BY <1>2, <1>5, <2>2
  <2>3. CASE j \in 1..Len(s) /\ i = Len(s) + 1
    BY <1>2, <1>5, <2>3
  <2> QED
    BY <1>3, <2>1, <2>2, <2>3
<1>7. \A i \in 1..Len(s) : s[i] \notin {d, m, a, b}
  <2>1. \A i \in 1..Len(s) : s[i] \in Buffers
    OBVIOUS
  <2> QED
    BY <1>1, <1>5, <2>1
<1>8. \A i \in 1..Len(t) : t[i] \notin {d, m, a, b}
  <2>1. \A i \in 1..Len(t) : t[i] \in Buffers
    OBVIOUS
  <2> QED
    BY <1>1, <1>5, <2>1
<1>9. c \notin {d, m, a, b}
  BY <1>1, <1>5
<1>10. \A i \in 1..Len(q) : q[i] \notin {d, m, a, b}
  BY <1>2, <1>3, <1>7, <1>9
<1>11. \A i \in 1..Len(q), j \in 1..Len(t) : q[i] # t[j]
  BY <1>2, <1>3, <1>5
<1>12. Apart(d, m, a, b, q, t)
  BY <1>4, <1>5, <1>6, <1>8, <1>10, <1>11 DEF Apart
<1> QED
  BY <1>12 DEF q

\* The consumer takes everything and gives its first spare, or both, away.
LEMMA ApartCollect ==
  ASSUME NEW c \in Buffers, NEW n \in Buffers \cup {Null}, NEW a \in Buffers, NEW b \in Buffers,
         NEW s \in Seq(Buffers), Apart(c, n, a, b, s, <<>>)
  PROVE  IF n = Null THEN Apart(a, b, Null, Null, <<>>, Append(s, c))
                     ELSE Apart(a, n, Null, b, <<>>, Append(s, c))
<1>1. Null \notin Buffers
  BY ConstantsAssumption
<1> DEFINE q == Append(s, c)
<1>2. /\ Len(q) = Len(s) + 1 /\ Len(s) \in Nat
      /\ \A i \in 1..Len(s) : q[i] = s[i]
      /\ q[Len(s) + 1] = c
  BY Appended
<1> HIDE DEF q
<1>3. \A i \in 1..Len(q) : i \in 1..Len(s) \/ i = Len(s) + 1
  BY <1>2
<1>4. /\ \A i \in 1..Len(s) : s[i] \notin {c, n, a, b} /\ s[i] # Null
      /\ \A i, j \in 1..Len(s) : s[i] = s[j] => i = j
      /\ c \notin {n, a, b} /\ a # b /\ (n # Null => n \notin {a, b})
  <2>1. \A i \in 1..Len(s) : s[i] \in Buffers
    OBVIOUS
  <2> QED
    BY <1>1, <2>1 DEF Apart
<1>5. \A i, j \in 1..Len(q) : q[i] = q[j] => i = j
  BY <1>2, <1>3, <1>4
<1>6. \A i \in 1..Len(q) : q[i] \notin {n, a, b, Null}
  BY <1>1, <1>2, <1>3, <1>4
<1>7. Len(<<>>) = 0
  OBVIOUS
<1>8. IF n = Null THEN Apart(a, b, Null, Null, <<>>, q) ELSE Apart(a, n, Null, b, <<>>, q)
  BY <1>1, <1>4, <1>5, <1>6, <1>7 DEF Apart
<1> QED
  BY <1>8 DEF q

\* The consumer forgets the end of its vector.
LEMMA ApartPrefix ==
  ASSUME NEW c, NEW n, NEW a, NEW b, NEW s, NEW t \in Seq(Buffers),
         Apart(c, n, a, b, s, t), NEW k \in Nat, k <= Len(t)
  PROVE  Apart(c, n, a, b, s, SubSeq(t, 1, k))
<1> DEFINE q == SubSeq(t, 1, k)
<1>1. Len(q) = k /\ \A i \in 1..k : q[i] = t[i] /\ i \in 1..Len(t)
  OBVIOUS
<1> HIDE DEF q
<1>2. Apart(c, n, a, b, s, q)
  BY <1>1 DEF Apart
<1> QED
  BY <1>2 DEF q

\* The end of the vector becomes a spare.
LEMMA ApartRefill ==
  ASSUME NEW c \in Buffers, NEW n, NEW a, NEW b, NEW s, NEW t \in Seq(Buffers),
         Apart(c, n, a, b, s, t), Len(t) >= 1
  PROVE  /\ a = Null => Apart(c, n, t[Len(t)], b, s, SubSeq(t, 1, Len(t) - 1))
         /\ b = Null => Apart(c, n, a, t[Len(t)], s, <<>>)
<1>1. Null \notin Buffers /\ Len(t) \in 1..Len(t) /\ t[Len(t)] \in Buffers
  BY ConstantsAssumption
<1> DEFINE q == SubSeq(t, 1, Len(t) - 1)
<1>2. Len(q) = Len(t) - 1 /\ \A i \in 1..Len(q) : q[i] = t[i] /\ i \in 1..Len(t) /\ i # Len(t)
  <2>1. Len(t) - 1 \in Nat /\ Len(t) - 1 <= Len(t) /\ Len(t) \in Nat
    OBVIOUS
  <2>2. Len(q) = Len(t) - 1 /\ \A i \in 1..Len(t) - 1 : q[i] = t[i]
    BY <2>1, Shortened
  <2> QED
    BY <2>1, <2>2
<1> HIDE DEF q
<1>3. ASSUME a = Null PROVE Apart(c, n, t[Len(t)], b, s, q)
  <2> DEFINE z == t[Len(t)]
  <2>1. z \notin {c, n, a, b} /\ z \in Buffers /\ \A i \in 1..Len(s) : s[i] # z
    BY <1>1 DEF Apart
  <2>2. \A i \in 1..Len(q) : q[i] # z /\ q[i] \notin {c, n, a, b}
    BY <1>1, <1>2 DEF Apart
  <2>3. \A i, j \in 1..Len(q) : q[i] = q[j] => i = j
    BY <1>2 DEF Apart
  <2>4. \A i \in 1..Len(s), j \in 1..Len(q) : s[i] # q[j]
    BY <1>2 DEF Apart
  <2> HIDE DEF z
  <2>5. Apart(c, n, z, b, s, q)
    BY <1>3, <2>1, <2>2, <2>3, <2>4 DEF Apart
  <2> QED
    BY <2>5 DEF z
<1>4. Len(<<>>) = 0
  OBVIOUS
<1>5. b = Null => Apart(c, n, a, t[Len(t)], s, <<>>)
  BY <1>1, <1>4 DEF Apart
<1> QED
  BY <1>3, <1>5 DEF q

LEMMA ApartStep == TypeOK /\ SpareInv /\ ApartInv /\ [Next]_vars => ApartInv'
<1> SUFFICES ASSUME TypeOK, SpareInv, ApartInv, [Next]_vars PROVE ApartInv'
  OBVIOUS
<1> USE DEF ApartInv, producerVars, consumerVars
<1>0. /\ buffers_ \in Seq(Buffers) /\ buffers_to_write \in Seq(Buffers)
      /\ curr_buffer_ \in Buffers /\ Null \notin Buffers
      /\ {next_buffer_, new_buffer1, new_buffer2} \subseteq Buffers \cup {Null}
  BY ConstantsAssumption DEF TypeOK
<1>1. CASE Start \/ StartReturn \/ Stop \/ StopReturn
  BY <1>1 DEF Start, StartReturn, Stop, StopReturn
<1>2. CASE AppendHere
  BY <1>2 DEF AppendHere
<1>3. CASE AppendNext
  <2>1. next_buffer_ \in Buffers
    BY <1>0, <1>3 DEF AppendNext
  <2>2. /\ \A i \in 1..Len(buffers_) : buffers_[i] # next_buffer_
        /\ \A i \in 1..Len(buffers_to_write) : buffers_to_write[i] # next_buffer_
    BY DEF Apart
  <2>3. Apart(curr_buffer_, next_buffer_, new_buffer1, new_buffer2, buffers_, buffers_to_write)
    OBVIOUS
  <2> HIDE DEF ApartInv
  <2>4. Apart(next_buffer_, Null, new_buffer1, new_buffer2, Append(buffers_, curr_buffer_), buffers_to_write)
    BY <1>0, <2>1, <2>2, <2>3, ApartAppend
  <2> QED
    BY <1>3, <2>4 DEF AppendNext, ApartInv
<1>4. CASE AppendNew
  <2> DEFINE d == CHOOSE b \in Unused : TRUE
  <2>1. d \in Unused
    BY <1>4 DEF AppendNew
  <2>2. curr_buffer_' = d
    BY <1>4 DEF AppendNew
  <2> HIDE DEF d
  <2>3. /\ d \notin Singles /\ d \in Buffers
        /\ \A i \in 1..Len(buffers_) : buffers_[i] # d
        /\ \A i \in 1..Len(buffers_to_write) : buffers_to_write[i] # d
    BY <2>1, UnusedIsNotHeld DEF Unused
  <2>4. Apart(d, next_buffer_, new_buffer1, new_buffer2, Append(buffers_, curr_buffer_), buffers_to_write)
    BY <1>0, <2>3, ApartAppend DEF Singles
  <2> QED
    BY <1>4, <2>2, <2>4 DEF AppendNew
<1>5. CASE ThreadFunc
  <2> DEFINE p == Fresh(Unused)
  <2>1. p[1] \in Unused /\ p[2] \in Unused /\ p[1] # p[2]
    BY <1>5, FreshPair DEF ThreadFunc
  <2> HIDE DEF p
  <2>2. \A b \in {p[1], p[2]} :
          /\ b \notin Singles
          /\ \A i \in 1..Len(buffers_) : buffers_[i] # b
          /\ \A i \in 1..Len(buffers_to_write) : buffers_to_write[i] # b
    BY <2>1, UnusedIsNotHeld
  <2>3. Apart(curr_buffer_, next_buffer_, p[1], p[2], buffers_, buffers_to_write)
    BY <2>1, <2>2 DEF Apart, Singles
  <2> QED
    BY <1>5, <2>3 DEF ThreadFunc, p
<1>6. CASE TestRunning \/ WaitSeconds
  BY <1>6 DEF TestRunning, WaitSeconds
<1>7. CASE Collect
  <2>1. buffers_to_write = <<>> /\ new_buffer1 \in Buffers /\ new_buffer2 \in Buffers
    BY <1>0, <1>7 DEF Collect, Awake, SpareInv
  <2>2. IF next_buffer_ = Null
        THEN Apart(new_buffer1, new_buffer2, Null, Null, <<>>, Append(buffers_, curr_buffer_))
        ELSE Apart(new_buffer1, next_buffer_, Null, new_buffer2, <<>>, Append(buffers_, curr_buffer_))
    BY <1>0, <2>1, ApartCollect
  <2> QED
    BY <1>7, <2>1, <2>2 DEF Collect
<1>8. CASE Trim \/ EndWrite
  <2>1. UNCHANGED <<producerVars, new_buffer1, new_buffer2>>
    BY <1>8 DEF Trim, TooLong, EndWrite
  <2>2. CASE buffers_to_write' = buffers_to_write
    BY <2>1, <2>2
  <2>3. CASE buffers_to_write' = SubSeq(buffers_to_write, 1, Keep) /\ Keep <= Len(buffers_to_write)
    <3>1. Keep \in Nat
      BY DEF Keep
    <3>2. Apart(curr_buffer_, next_buffer_, new_buffer1, new_buffer2, buffers_,
                SubSeq(buffers_to_write, 1, Keep))
      BY <1>0, <2>3, <3>1, ApartPrefix
    <3> QED
      BY <2>1, <2>3, <3>2
  <2> QED
    <3>1. Keep \in Nat /\ MaxBacklog \in Nat /\ MaxBacklog >= Keep /\ Len(buffers_to_write) \in Nat
      BY <1>0, ConstantsAssumption DEF Keep
    <3> QED
      BY <1>8, <2>2, <2>3, <3>1 DEF Trim, TooLong, EndWrite
<1>9. CASE WriteBuffer
  BY <1>9 DEF WriteBuffer
<1>10. CASE Refill1
  <2>1. Len(buffers_to_write) >= 1
    BY <1>0, <1>10 DEF Refill1, SpareInv
  <2>2. UNCHANGED <<producerVars, new_buffer2>>
    BY <1>10 DEF Refill1
  <2>3. CASE new_buffer1 = Null
    <3>1. Apart(curr_buffer_, next_buffer_, buffers_to_write[Len(buffers_to_write)], new_buffer2, buffers_,
                SubSeq(buffers_to_write, 1, Len(buffers_to_write) - 1))
      BY <1>0, <2>1, <2>3, ApartRefill
    <3> QED
      BY <1>10, <2>2, <2>3, <3>1 DEF Refill1, PopBack, Front, Last
  <2>4. CASE new_buffer1 # Null
    BY <1>10, <2>2, <2>4 DEF Refill1
  <2> QED
    BY <2>3, <2>4
<1>11. CASE Refill2
  <2>1. UNCHANGED <<producerVars, new_buffer1>> /\ buffers_to_write' = <<>>
    BY <1>11 DEF Refill2
  <2>2. CASE new_buffer2 = Null
    <3>1. Len(buffers_to_write) >= 1
      BY <1>0, <1>11, <2>2 DEF Refill2, SpareInv
    <3>2. Apart(curr_buffer_, next_buffer_, new_buffer1, buffers_to_write[Len(buffers_to_write)], buffers_, <<>>)
      BY <1>0, <2>2, <3>1, ApartRefill
    <3> QED
      BY <1>11, <2>1, <2>2, <3>2 DEF Refill2, Last
  <2>3. CASE new_buffer2 # Null
    <3>1. Len(<<>>) = 0
      OBVIOUS
    <3>2. Apart(curr_buffer_, next_buffer_, new_buffer1, new_buffer2, buffers_, <<>>)
      BY <3>1 DEF Apart
    <3> QED
      BY <1>11, <2>1, <2>3, <3>2 DEF Refill2
  <2> QED
    BY <2>2, <2>3
<1>12. CASE Finish
  <2>1. \A i \in 1..Len(buffers_) : buffers_[i] # Null
    BY <1>0
  <2>2. \A i \in 1..Len(buffers_to_write) : buffers_to_write[i] # Null
    BY <1>0
  <2>3. Apart(curr_buffer_, next_buffer_, Null, Null, buffers_, buffers_to_write)
    BY <1>0, <2>1, <2>2 DEF Apart
  <2> QED
    BY <1>12, <2>3 DEF Finish
<1>13. CASE UNCHANGED vars
  BY <1>13 DEF vars
<1> QED
  BY <1>1, <1>2, <1>3, <1>4, <1>5, <1>6, <1>7, <1>8, <1>9, <1>10, <1>11, <1>12, <1>13
  DEF Next, Consumer, AppendLog

LEMMA EmptyStep == TypeOK /\ SpareInv /\ ApartInv /\ EmptyInv /\ [Next]_vars => EmptyInv'
<1> SUFFICES ASSUME TypeOK, SpareInv, ApartInv, EmptyInv, [Next]_vars PROVE EmptyInv'
  OBVIOUS
<1> USE ConstantsAssumption DEF TypeOK, EmptyInv, producerVars, consumerVars
<1>1. CASE Start \/ StartReturn \/ Stop \/ StopReturn
  <2>1. UNCHANGED <<producerVars, consumerVars, content>> /\ (cpc' = cpc \/ cpc = "none")
    BY <1>1 DEF Start, StartReturn, Stop, StopReturn, SpareInv
  <2> QED
    BY <2>1 DEF Unused, Held
<1>2. CASE AppendHere \/ AppendNext \/ AppendNew
  <2>1. cpc \notin {"none", "created"}
    BY <1>2 DEF AppendHere, AppendNext, AppendNew, MayAppend, SpareInv
  <2>2. UNCHANGED <<cpc, new_buffer1, new_buffer2>> /\ next_buffer_' \in {next_buffer_, Null}
    BY <1>2 DEF AppendHere, AppendNext, AppendNew
  <2>3. \A b \in {next_buffer_', new_buffer1, new_buffer2} \cap Buffers : content'[b] = content[b]
    <3>1. CASE AppendHere
      BY <3>1 DEF AppendHere, ApartInv, Apart
    <3>2. CASE AppendNext
      BY <3>2 DEF AppendNext, ApartInv, Apart
    <3>3. CASE AppendNew
      <4>1. curr_buffer_' \notin Singles
        BY <3>3, UnusedIsNotHeld DEF AppendNew
      <4>2. \A b \in Buffers : b # curr_buffer_' => content'[b] = content[b]
        BY <3>3 DEF AppendNew
      <4> QED
        BY <2>2, <3>3, <4>1, <4>2 DEF AppendNew, Singles
    <3> QED
      BY <1>2, <3>1, <3>2, <3>3
  <2> QED
    BY <2>1, <2>2, <2>3
<1>3. CASE ThreadFunc
  <2>1. new_buffer1' \in Unused /\ new_buffer2' \in Unused
    BY <1>3, FreshPair DEF ThreadFunc
  <2>2. \A b \in Unused : content[b] = <<>>
    BY <1>3 DEF ThreadFunc
  <2>3. content' = content /\ next_buffer_' = next_buffer_ /\ cpc' = "head"
    BY <1>3 DEF ThreadFunc
  <2> QED
    BY <2>1, <2>2, <2>3
<1>4. CASE TestRunning \/ WaitSeconds \/ Trim \/ WriteBuffer \/ EndWrite
  BY <1>4 DEF TestRunning, WaitSeconds, Trim, WriteBuffer, EndWrite
<1>5. CASE Collect
  BY <1>5 DEF Collect
<1>6. CASE Refill1
  <2>1. CASE new_buffer1 = Null
    <3>1. content' = [content EXCEPT ![new_buffer1'] = <<>>]
      BY <1>6, <2>1 DEF Refill1
    <3>2. \A b \in Buffers : content'[b] = <<>> \/ content'[b] = content[b]
      BY <3>1
    <3>3. content'[new_buffer1'] = <<>> \/ new_buffer1' \notin Buffers
      BY <3>1
    <3> QED
      BY <1>6, <3>2, <3>3 DEF Refill1
  <2>2. CASE new_buffer1 # Null
    BY <1>6, <2>2 DEF Refill1
  <2> QED
    BY <2>1, <2>2
<1>7. CASE Refill2
  <2>1. CASE new_buffer2 = Null
    <3>1. content' = [content EXCEPT ![new_buffer2'] = <<>>]
      BY <1>7, <2>1 DEF Refill2
    <3>2. \A b \in Buffers : content'[b] = <<>> \/ content'[b] = content[b]
      BY <3>1
    <3>3. content'[new_buffer2'] = <<>> \/ new_buffer2' \notin Buffers
      BY <3>1
    <3> QED
      BY <1>7, <3>2, <3>3 DEF Refill2
  <2>2. CASE new_buffer2 # Null
    BY <1>7, <2>2 DEF Refill2
  <2> QED
    BY <2>1, <2>2
<1>8. CASE Finish
  BY <1>8 DEF Finish
<1>9. CASE UNCHANGED vars
  BY <1>9 DEF vars, Unused, Held
<1> QED
  BY <1>1, <1>2, <1>3, <1>4, <1>5, <1>6, <1>7, <1>8, <1>9 DEF Next, Consumer, AppendLog

-----------------------------------------------------------------------------
(* The order of the log *)

LEMMA RangeEmpty == Range(<<>>) = {}
  BY DEF Range

LEMMA RangeAppend ==
  ASSUME NEW S, NEW s \in Seq(S), NEW c \in S
  PROVE  Range(Append(s, c)) = Range(s) \cup {c}
<1> DEFINE q == Append(s, c)
<1>1. /\ Len(q) = Len(s) + 1 /\ Len(s) \in Nat
      /\ \A i \in 1..Len(s) : q[i] = s[i]
      /\ q[Len(s) + 1] = c
  BY Appended
<1>2. DOMAIN q = 1..(Len(s) + 1) /\ DOMAIN s = 1..Len(s)
  OBVIOUS
<1> HIDE DEF q
<1>3. Range(q) = Range(s) \cup {c}
  BY <1>1, <1>2 DEF Range
<1> QED
  BY <1>3 DEF q

LEMMA RangeConcat ==
  ASSUME NEW S, NEW s \in Seq(S), NEW t \in Seq(S)
  PROVE  Range(s \o t) = Range(s) \cup Range(t)
<1> DEFINE q == s \o t
<1>1. /\ Len(q) = Len(s) + Len(t) /\ Len(s) \in Nat /\ Len(t) \in Nat
      /\ \A i \in 1..Len(s) : q[i] = s[i]
      /\ \A i \in 1..Len(t) : q[Len(s) + i] = t[i]
  OBVIOUS
<1>2. DOMAIN q = 1..(Len(s) + Len(t)) /\ DOMAIN s = 1..Len(s) /\ DOMAIN t = 1..Len(t)
  OBVIOUS
<1> HIDE DEF q
<1>3. \A i \in 1..(Len(s) + Len(t)) : i \in 1..Len(s) \/ (i - Len(s) \in 1..Len(t) /\ i = Len(s) + (i - Len(s)))
  BY <1>1
<1>4. \A x \in Range(q) : x \in Range(s) \cup Range(t)
  <2>1. SUFFICES ASSUME NEW i \in 1..(Len(s) + Len(t)) PROVE q[i] \in Range(s) \cup Range(t)
    BY <1>2 DEF Range
  <2>2. CASE i \in 1..Len(s)
    BY <1>1, <1>2, <2>2 DEF Range
  <2>3. CASE i - Len(s) \in 1..Len(t) /\ i = Len(s) + (i - Len(s))
    <3>1. q[i] = t[i - Len(s)]
      BY <1>1, <2>3
    <3> QED
      BY <1>2, <2>3, <3>1 DEF Range
  <2> QED
    BY <1>3, <2>2, <2>3
<1>5. \A x \in Range(s) \cup Range(t) : x \in Range(q)
  <2>1. \A i \in 1..Len(s) : s[i] \in Range(q)
    BY <1>1, <1>2 DEF Range
  <2>2. \A i \in 1..Len(t) : t[i] \in Range(q)
    <3>1. SUFFICES ASSUME NEW i \in 1..Len(t) PROVE t[i] \in Range(q)
      OBVIOUS
    <3>2. q[Len(s) + i] = t[i] /\ Len(s) + i \in 1..(Len(s) + Len(t))
      BY <1>1
    <3> QED
      BY <1>1, <1>2, <3>2 DEF Range
  <2> QED
    BY <1>2, <2>1, <2>2 DEF Range
<1>6. Range(q) = Range(s) \cup Range(t)
  BY <1>4, <1>5
<1> QED
  BY <1>6 DEF q

LEMMA IncreasingAppend ==
  ASSUME NEW s \in Seq(Nat), NEW m \in Nat, Increasing(s), \A x \in Range(s) : x < m
  PROVE  Increasing(Append(s, m))
<1> DEFINE q == Append(s, m)
<1>1. /\ Len(q) = Len(s) + 1 /\ Len(s) \in Nat
      /\ \A i \in 1..Len(s) : q[i] = s[i]
      /\ q[Len(s) + 1] = m
  BY Appended
<1>2. DOMAIN q = 1..(Len(s) + 1) /\ DOMAIN s = 1..Len(s)
  OBVIOUS
<1> HIDE DEF q
<1>3. \A i \in 1..Len(s) : s[i] < m
  BY <1>2 DEF Range
<1>4. Increasing(q)
  BY <1>1, <1>2, <1>3 DEF Increasing
<1> QED
  BY <1>4 DEF q

LEMMA IncreasingConcat ==
  ASSUME NEW s \in Seq(Nat), NEW t \in Seq(Nat), Increasing(s), Increasing(t),
         Before(Range(s), Range(t))
  PROVE  Increasing(s \o t)
<1> DEFINE q == s \o t
<1>1. /\ Len(q) = Len(s) + Len(t) /\ Len(s) \in Nat /\ Len(t) \in Nat
      /\ \A i \in 1..Len(s) : q[i] = s[i]
      /\ \A i \in 1..Len(t) : q[Len(s) + i] = t[i]
  OBVIOUS
<1>2. DOMAIN q = 1..(Len(s) + Len(t)) /\ DOMAIN s = 1..Len(s) /\ DOMAIN t = 1..Len(t)
  OBVIOUS
<1> HIDE DEF q
<1>3. \A i \in 1..Len(s), j \in 1..Len(t) : s[i] < t[j]
  BY <1>2 DEF Range, Before
<1> SUFFICES Increasing(q)
  BY DEF q
<1>4. SUFFICES ASSUME NEW i \in 1..(Len(s) + Len(t)), NEW j \in 1..(Len(s) + Len(t)), i < j
               PROVE  q[i] < q[j]
  BY <1>2 DEF Increasing
<1>5. CASE j \in 1..Len(s)
  <2>1. i \in 1..Len(s)
    BY <1>1, <1>4, <1>5
  <2>2. q[i] = s[i] /\ q[j] = s[j] /\ s[i] < s[j]
    BY <1>1, <1>2, <1>4, <1>5, <2>1 DEF Increasing
  <2> QED
    BY <2>2
<1>6. CASE j \notin 1..Len(s)
  <2>1. j - Len(s) \in 1..Len(t) /\ q[j] = t[j - Len(s)]
    <3>1. j - Len(s) \in 1..Len(t) /\ j = Len(s) + (j - Len(s))
      BY <1>1, <1>2, <1>6
    <3> QED
      BY <1>1, <3>1
  <2>2. CASE i \in 1..Len(s)
    BY <1>1, <1>3, <2>1, <2>2
  <2>3. CASE i \notin 1..Len(s)
    <3>1. i - Len(s) \in 1..Len(t) /\ i = Len(s) + (i - Len(s))
      BY <1>1, <1>2, <2>3
    <3>2. q[i] = t[i - Len(s)] /\ i - Len(s) < j - Len(s)
      BY <1>1, <1>2, <1>4, <3>1
    <3> QED
      BY <1>2, <2>1, <3>1, <3>2 DEF Increasing
  <2> QED
    BY <2>2, <2>3
<1> QED
  BY <1>5, <1>6

\* The sets r[1], ..., r[n] of messages come after W and one after the other, and
\* all these are the messages 1..k but for D.
Ordered(W, r, n, k, D) ==
  /\ \A i \in 1..n : Before(W, r[i])
  /\ \A i, j \in 1..n : i < j => Before(r[i], r[j])
  /\ \A m : (m \in W \/ \E i \in 1..n : m \in r[i]) <=> (m \in 1..k /\ m \notin D)
  /\ D \subseteq 1..k

LEMMA OrderedSame ==
  ASSUME NEW W, NEW r, NEW q, NEW n \in Nat, NEW k, NEW D,
         Ordered(W, r, n, k, D), \A i \in 1..n : q[i] = r[i]
  PROVE  Ordered(W, q, n, k, D)
  BY DEF Ordered

\* The next message joins the last set.
LEMMA OrderedJoin ==
  ASSUME NEW W, NEW r, NEW q, NEW n \in Nat, n >= 1, NEW k \in Nat, NEW D,
         Ordered(W, r, n, k, D),
         \A i \in 1..n : i < n => q[i] = r[i],
         q[n] = r[n] \cup {k + 1}
  PROVE  Ordered(W, q, n, k + 1, D)
<1>1. \A m : m \in W \/ (\E i \in 1..n : m \in r[i]) => m \in 1..k
  BY DEF Ordered
<1>2. \A i \in 1..n : Before(W, q[i])
  BY <1>1 DEF Ordered, Before
<1>3. \A i, j \in 1..n : i < j => Before(q[i], q[j])
  <2>1. SUFFICES ASSUME NEW i \in 1..n, NEW j \in 1..n, i < j,
                        NEW x \in q[i], NEW y \in q[j]
                 PROVE  x < y
    BY DEF Before
  <2>2. x \in r[i] /\ x \in 1..k
    BY <1>1, <2>1
  <2>3. CASE j < n
    BY <2>1, <2>2, <2>3 DEF Ordered, Before
  <2>4. CASE j = n
    <3>1. y \in r[j] \/ y = k + 1
      BY <2>4
    <3> QED
      BY <2>1, <2>2, <3>1 DEF Ordered, Before
  <2> QED
    BY <2>3, <2>4
<1>4. ASSUME NEW m
      PROVE  (m \in W \/ \E i \in 1..n : m \in q[i]) <=> (m \in 1..(k + 1) /\ m \notin D)
  <2>1. (\E i \in 1..n : m \in q[i]) <=> (\E i \in 1..n : m \in r[i]) \/ m = k + 1
    BY n \in 1..n
  <2>2. k + 1 \notin D
    BY DEF Ordered
  <2>3. m \in 1..(k + 1) <=> m \in 1..k \/ m = k + 1
    OBVIOUS
  <2> QED
    BY <2>1, <2>2, <2>3 DEF Ordered
<1>5. D \subseteq 1..(k + 1)
  BY DEF Ordered
<1> QED
  BY <1>2, <1>3, <1>4, <1>5 DEF Ordered

\* A set is added at the end, with no message or with the next one.
LEMMA OrderedAdd ==
  ASSUME NEW W, NEW r, NEW q, NEW n \in Nat, NEW k \in Nat, NEW D,
         Ordered(W, r, n, k, D),
         \A i \in 1..n : q[i] = r[i]
  PROVE  /\ q[n + 1] = {} => Ordered(W, q, n + 1, k, D)
         /\ q[n + 1] = {k + 1} => Ordered(W, q, n + 1, k + 1, D)
<1>1. \A m : m \in W \/ (\E i \in 1..n : m \in r[i]) => m \in 1..k
  BY DEF Ordered
<1>2. \A i \in 1..(n + 1) : i \in 1..n \/ i = n + 1
  OBVIOUS
<1>3. q[n + 1] = {} => Ordered(W, q, n + 1, k, D)
  <2> SUFFICES ASSUME q[n + 1] = {} PROVE Ordered(W, q, n + 1, k, D)
    OBVIOUS
  <2>1. \A i \in 1..(n + 1) : Before(W, q[i])
    BY <1>2 DEF Ordered, Before
  <2>2. \A i, j \in 1..(n + 1) : i < j => Before(q[i], q[j])
    BY <1>2 DEF Ordered, Before
  <2>3. \A m : (\E i \in 1..(n + 1) : m \in q[i]) <=> (\E i \in 1..n : m \in r[i])
    BY <1>2
  <2> QED
    BY <2>1, <2>2, <2>3 DEF Ordered
<1>4. q[n + 1] = {k + 1} => Ordered(W, q, n + 1, k + 1, D)
  <2> SUFFICES ASSUME q[n + 1] = {k + 1} PROVE Ordered(W, q, n + 1, k + 1, D)
    OBVIOUS
  <2>1. \A i \in 1..(n + 1) : Before(W, q[i])
    BY <1>1, <1>2 DEF Ordered, Before
  <2>2. \A i, j \in 1..(n + 1) : i < j => Before(q[i], q[j])
    <3>1. SUFFICES ASSUME NEW i \in 1..(n + 1), NEW j \in 1..(n + 1), i < j,
                          NEW x \in q[i], NEW y \in q[j]
                   PROVE  x < y
      BY DEF Before
    <3>2. i \in 1..n /\ x \in r[i] /\ x \in 1..k
      BY <1>1, <3>1
    <3>3. CASE j \in 1..n
      BY <3>1, <3>2, <3>3 DEF Ordered, Before
    <3>4. CASE j = n + 1
      BY <3>2, <3>4
    <3> QED
      BY <1>2, <3>3, <3>4
  <2>3. \A m : (\E i \in 1..(n + 1) : m \in q[i]) <=> (\E i \in 1..n : m \in r[i]) \/ m = k + 1
    BY <1>2, n + 1 \in 1..(n + 1)
  <2>4. k + 1 \notin D /\ \A m : m \in 1..(k + 1) <=> m \in 1..k \/ m = k + 1
    BY DEF Ordered
  <2>5. D \subseteq 1..(k + 1)
    BY DEF Ordered
  <2> QED
    BY <2>1, <2>2, <2>3, <2>4, <2>5 DEF Ordered
<1> QED
  BY <1>3, <1>4

\* The first set is written.
LEMMA OrderedWrite ==
  ASSUME NEW W, NEW r, NEW q, NEW n \in Nat, n >= 1, NEW k \in Nat, NEW D,
         Ordered(W, r, n, k, D),
         \A i \in 1..(n - 1) : q[i] = r[i + 1]
  PROVE  Ordered(W \cup r[1], q, n - 1, k, D)
<1>1. \A i \in 1..(n - 1) : i + 1 \in 1..n /\ 1 < i + 1
  OBVIOUS
<1>2. 1 \in 1..n
  OBVIOUS
<1>3. \A i \in 1..(n - 1) : Before(W \cup r[1], q[i])
  BY <1>1, <1>2 DEF Ordered, Before
<1>4. \A i, j \in 1..(n - 1) : i < j => Before(q[i], q[j])
  BY <1>1 DEF Ordered, Before
<1>5. \A m : (\E i \in 1..n : m \in r[i]) <=> m \in r[1] \/ (\E i \in 1..(n - 1) : m \in q[i])
  <2>1. \A i \in 1..n : i = 1 \/ (i - 1 \in 1..(n - 1) /\ (i - 1) + 1 = i)
    OBVIOUS
  <2> QED
    BY <1>1, <1>2, <2>1
<1> QED
  BY <1>3, <1>4, <1>5 DEF Ordered

\* The sets from c + 1 to e are dropped.
LEMMA OrderedDrop ==
  ASSUME NEW W, NEW r, NEW q, NEW n \in Nat, NEW k \in Nat, NEW D, NEW E,
         NEW c \in Nat, NEW e \in Nat, c <= e, e <= n,
         Ordered(W, r, n, k, D),
         \A i \in 1..c : q[i] = r[i],
         \A i \in (c + 1)..(n - (e - c)) : q[i] = r[i + (e - c)],
         \A m : m \in E <=> m \in D \/ \E i \in (c + 1)..e : m \in r[i]
  PROVE  Ordered(W, q, n - (e - c), k, E)
<1> DEFINE o(i) == IF i <= c THEN i ELSE i + (e - c)
           n2 == n - (e - c)
<1>1. n2 \in Nat /\ \A i \in 1..n2 : o(i) \in 1..n /\ q[i] = r[o(i)] /\ o(i) \notin (c + 1)..e
  OBVIOUS
<1>2. \A i, j \in 1..n2 : i < j => o(i) < o(j)
  OBVIOUS
<1>3. \A i \in 1..n : i \in (c + 1)..e \/ \E j \in 1..n2 : o(j) = i
  <2>1. SUFFICES ASSUME NEW i \in 1..n, i \notin (c + 1)..e PROVE \E j \in 1..n2 : o(j) = i
    OBVIOUS
  <2>2. CASE i <= c
    BY <2>1, <2>2, i \in 1..n2, o(i) = i
  <2>3. CASE i > e
    <3>1. i - (e - c) \in 1..n2 /\ o(i - (e - c)) = i
      BY <2>1, <2>3
    <3> QED
      BY <3>1
  <2> QED
    BY <2>1, <2>2, <2>3
<1> HIDE DEF o, n2
<1>4. \A i, j \in 1..n : i # j => r[i] \cap r[j] = {}
  <2>1. SUFFICES ASSUME NEW i \in 1..n, NEW j \in 1..n, i < j, NEW x \in r[i], x \in r[j] PROVE FALSE
    OBVIOUS
  <2>2. x \in 1..k
    BY DEF Ordered
  <2>3. x < x
    BY <2>1 DEF Ordered, Before
  <2> QED
    BY <2>2, <2>3
<1>5. \A i \in 1..n : W \cap r[i] = {}
  <2>1. SUFFICES ASSUME NEW i \in 1..n, NEW x \in r[i], x \in W PROVE FALSE
    OBVIOUS
  <2>2. x \in 1..k
    BY DEF Ordered
  <2>3. x < x
    BY <2>1 DEF Ordered, Before
  <2> QED
    BY <2>2, <2>3
<1>6. \A i \in (c + 1)..e : i \in 1..n
  OBVIOUS
<1>7. \A i \in 1..n2 : Before(W, q[i])
  BY <1>1 DEF Ordered, Before
<1>8. \A i, j \in 1..n2 : i < j => Before(q[i], q[j])
  BY <1>1, <1>2 DEF Ordered, Before
<1>9. ASSUME NEW m
      PROVE  (m \in W \/ \E i \in 1..n2 : m \in q[i]) <=> (m \in 1..k /\ m \notin E)
  <2>1. CASE \E i \in (c + 1)..e : m \in r[i]
    <3>1. PICK i \in (c + 1)..e : m \in r[i]
      BY <2>1
    <3>2. m \notin W /\ m \in E
      BY <1>5, <1>6, <3>1
    <3>3. \A j \in 1..n2 : m \notin q[j]
      BY <1>1, <1>4, <1>6, <3>1
    <3> QED
      BY <3>2, <3>3
  <2>2. CASE ~ \E i \in (c + 1)..e : m \in r[i]
    <3>1. m \in E <=> m \in D
      BY <2>2
    <3>2. (\E i \in 1..n : m \in r[i]) <=> (\E i \in 1..n2 : m \in q[i])
      BY <1>1, <1>3, <2>2
    <3> QED
      BY <3>1, <3>2 DEF Ordered
  <2> QED
    BY <2>1, <2>2
<1>10. E \subseteq 1..k
  BY <1>6 DEF Ordered
<1>11. Ordered(W, q, n2, k, E)
  BY <1>7, <1>8, <1>9, <1>10 DEF Ordered
<1> QED
  BY <1>11 DEF n2

-----------------------------------------------------------------------------
(* AllAccountedFor, step by step *)

\* Where the path p has T, s and c: what is taken, filled and current.
Along(T, s, c, p) ==
  /\ p \in Seq(Buffers)
  /\ Len(T) \in Nat /\ Len(s) \in Nat
  /\ Len(p) = Len(T) + Len(s) + 1
  /\ \A i \in 1..Len(T) : p[i] = T[i]
  /\ \A i \in 1..Len(s) : p[Len(T) + i] = s[i]
  /\ p[Len(T) + Len(s) + 1] = c
  /\ \A i \in 1..Len(p) :
        \/ i \in 1..Len(T)
        \/ i - Len(T) \in 1..Len(s) /\ i = Len(T) + (i - Len(T))
        \/ i = Len(T) + Len(s) + 1

LEMMA AlongAppend ==
  ASSUME NEW T \in Seq(Buffers), NEW s \in Seq(Buffers), NEW c \in Buffers
  PROVE  Along(T, s, c, Append(T \o s, c))
  BY DEF Along

Rest(t, m) == SubSeq(t, m, Len(t))

LEMMA RestIndexes ==
  ASSUME NEW t \in Seq(Buffers), NEW m \in Nat \ {0}
  PROVE  /\ Rest(t, m) \in Seq(Buffers)
         /\ Len(Rest(t, m)) = IF m <= Len(t) THEN Len(t) - m + 1 ELSE 0
         /\ \A i \in 1..Len(Rest(t, m)) : Rest(t, m)[i] = t[i + m - 1] /\ i + m - 1 \in 1..Len(t)
  BY DEF Rest

LEMMA TakenType ==
  TypeOK => /\ Taken \in Seq(Buffers)
            /\ \A i \in 1..Len(Taken) : \E j \in 1..Len(buffers_to_write) :
                  Taken[i] = buffers_to_write[j]
<1> SUFFICES ASSUME TypeOK
             PROVE  /\ Taken \in Seq(Buffers)
                    /\ \A i \in 1..Len(Taken) : \E j \in 1..Len(buffers_to_write) :
                          Taken[i] = buffers_to_write[j]
  OBVIOUS
<1>1. buffers_to_write \in Seq(Buffers) /\ index \in Nat \ {0} /\ 1 \in Nat \ {0}
  BY DEF TypeOK
<1>2. CASE cpc = "trim"
  <2>1. Taken = SubSeq(buffers_to_write, 1, Len(buffers_to_write))
    BY <1>2 DEF Taken
  <2> QED
    BY <1>1, <2>1, RestIndexes DEF Rest
<1>3. CASE cpc = "write"
  <2>1. Taken = SubSeq(buffers_to_write, index, Len(buffers_to_write))
    BY <1>3 DEF Taken
  <2> QED
    BY <1>1, <2>1, RestIndexes DEF Rest
<1>4. CASE cpc \notin {"trim", "write"}
  BY <1>4 DEF Taken
<1> QED
  BY <1>2, <1>3, <1>4

LEMMA PathIndexes == TypeOK => Along(Taken, buffers_, curr_buffer_, Path)
<1>1. TypeOK => Taken \in Seq(Buffers) /\ buffers_ \in Seq(Buffers) /\ curr_buffer_ \in Buffers
  BY TakenType DEF TypeOK
<1> QED
  BY <1>1, AlongAppend DEF Path

Sets == [i \in 1..Len(Path) |-> Range(content[Path[i]])]

OrderInv == Ordered(Range(written), Sets, Len(Path), logged, dropped)

IncreasingInv ==
  /\ Increasing(written)
  /\ \A b \in Buffers : Increasing(content[b]) /\ Range(content[b]) \subseteq 1..logged

LEMMA IncreasingStep ==
  TypeOK /\ SpareInv /\ EmptyInv /\ OrderInv /\ IncreasingInv /\ [Next]_vars => IncreasingInv'
<1> SUFFICES ASSUME TypeOK, SpareInv, EmptyInv, OrderInv, IncreasingInv, [Next]_vars
             PROVE  IncreasingInv'
  OBVIOUS
<1> USE ConstantsAssumption DEF IncreasingInv
<1>0. /\ content \in [Buffers -> Seq(Messages)] /\ logged \in Nat /\ written \in Seq(Messages)
      /\ Messages \subseteq Nat
      /\ curr_buffer_ \in Buffers
  BY DEF TypeOK, Messages
<1>a. written \in Seq(Nat) /\ \A b \in Buffers : content[b] \in Seq(Nat)
  <2>1. ASSUME NEW s \in Seq(Messages) PROVE s \in Seq(Nat)
    BY <1>0, SeqMonotonic
  <2> QED
    BY <1>0, <2>1
<1>1. Increasing(<<>>) /\ Range(<<>>) = {}
  BY RangeEmpty DEF Increasing
<1>2. ASSUME NEW d \in Buffers, NEW s, content' = [content EXCEPT ![d] = s],
             logged' \in {logged, logged + 1}, UNCHANGED written,
             Increasing(s), Range(s) \subseteq 1..logged'
      PROVE  IncreasingInv'
  <2>1. ASSUME NEW b \in Buffers
        PROVE  Increasing(content'[b]) /\ Range(content'[b]) \subseteq 1..logged'
    <3>1. CASE b = d
      BY <1>0, <1>2, <3>1
    <3>2. CASE b # d
      <4>1. content'[b] = content[b] /\ 1..logged \subseteq 1..logged'
        BY <1>0, <1>2, <3>2
      <4> QED
        BY <4>1
    <3> QED
      BY <3>1, <3>2
  <2> QED
    BY <1>2, <2>1
<1>3. CASE AppendHere \/ AppendNext
  <2> DEFINE d == IF Fits(curr_buffer_) THEN curr_buffer_ ELSE next_buffer_
             m == logged + 1
  <2>1. /\ d \in Buffers /\ m \in Nat /\ logged' = m
        /\ content' = [content EXCEPT ![d] = Append(content[d], m)] /\ UNCHANGED written
    <3>1. CASE AppendHere
      BY <1>0, <3>1 DEF AppendHere, MayAppend, fileVars
    <3>2. CASE AppendNext
      <4>1. next_buffer_ \in Buffers /\ d = next_buffer_
        BY <3>2 DEF AppendNext, TypeOK
      <4> QED
        BY <1>0, <3>2, <4>1 DEF AppendNext, MayAppend, fileVars
    <3> QED
      BY <1>3, <3>1, <3>2
  <2>2. content[d] \in Seq(Nat) /\ Increasing(content[d]) /\ Range(content[d]) \subseteq 1..logged
    BY <1>a, <2>1
  <2>3. \A x \in Range(content[d]) : x < m
    BY <1>0, <2>2
  <2> HIDE DEF d, m
  <2>4. Increasing(Append(content[d], m)) /\ Range(Append(content[d], m)) = Range(content[d]) \cup {m}
    BY <2>1, <2>2, <2>3, IncreasingAppend, RangeAppend
  <2>5. m = logged + 1
    BY DEF m
  <2>6. Range(Append(content[d], m)) \subseteq 1..logged'
    BY <1>0, <2>1, <2>2, <2>4, <2>5
  <2> QED
    BY <1>2, <2>1, <2>4, <2>5, <2>6
<1>4. CASE AppendNew
  <2> DEFINE d == CHOOSE b \in Unused : TRUE
             m == logged + 1
  <2>1. /\ d \in Buffers /\ m \in Nat /\ logged' = m
        /\ content' = [content EXCEPT ![d] = <<m>>] /\ UNCHANGED written
    BY <1>0, <1>4 DEF AppendNew, MayAppend, fileVars, Unused
  <2>2. Increasing(<<m>>) /\ Range(<<m>>) = {m}
    BY <2>1 DEF Increasing, Range
  <2>3. Range(<<m>>) \subseteq 1..logged'
    <3>1. m \in 1..m
      BY <1>0
    <3> HIDE DEF d, m
    <3> QED
      BY <2>1, <2>2, <3>1
  <2> HIDE DEF d
  <2> QED
    BY <1>0, <1>2, <2>1, <2>2, <2>3
<1>5. CASE Refill1 \/ Refill2
  <2>1. logged' = logged /\ written' = written
    BY <1>5 DEF Refill1, Refill2, fileVars
  <2>2. ASSUME NEW b \in Buffers
        PROVE  content'[b] = content[b] \/ content'[b] = <<>>
    BY <1>0, <1>5 DEF Refill1, Refill2
  <2>3. Range(<<>>) \subseteq 1..logged
    BY <1>1
  <2>4. ASSUME NEW b \in Buffers
        PROVE  Increasing(content'[b]) /\ Range(content'[b]) \subseteq 1..logged
    BY <1>1, <2>2, <2>3
  <2> QED
    BY <2>1, <2>4
<1>6. CASE WriteBuffer
  <2> DEFINE b == buffers_to_write[index]
  <2>1. b \in Buffers /\ written' = written \o content[b] /\ UNCHANGED <<content, logged>>
    BY <1>6 DEF WriteBuffer, MoreToWrite, TypeOK
  <2>2. Taken = Rest(buffers_to_write, index)
    BY <1>6 DEF WriteBuffer, Taken, Rest
  <2>3. index \in Nat \ {0} /\ index <= Len(buffers_to_write) /\ buffers_to_write \in Seq(Buffers)
        /\ buffers_ \in Seq(Buffers)
    BY <1>6 DEF WriteBuffer, MoreToWrite, TypeOK
  <2>4. Len(Taken) >= 1 /\ Taken[1] = b
    BY <2>2, <2>3, RestIndexes
  <2>5. Len(Path) >= 1 /\ Path[1] = b
    <3>1. 1 \in 1..Len(Taken) /\ Len(Taken) \in Nat
      BY <2>4, PathIndexes DEF Along
    <3> QED
      BY <2>4, <3>1, PathIndexes DEF Along
  <2>6. Before(Range(written), Range(content[b]))
    <3>1. 1 \in 1..Len(Path)
      <4>1. Path \in Seq(Buffers)
        BY PathIndexes DEF Along
      <4> QED
        BY <2>5, <4>1
    <3>2. Sets[1] = Range(content[b])
      BY <2>5, <3>1 DEF Sets
    <3> QED
      BY <3>1, <3>2 DEF OrderInv, Ordered
  <2>7. written \in Seq(Nat) /\ content[b] \in Seq(Nat)
    BY <1>a, <2>1
  <2> HIDE DEF b
  <2>8. Increasing(written \o content[b])
    BY <2>1, <2>6, <2>7, IncreasingConcat
  <2> QED
    BY <2>1, <2>8
<1>7. CASE UNCHANGED <<content, written, logged>>
  BY <1>7
<1>8. CASE TestRunning \/ WaitSeconds \/ Collect \/ Trim \/ EndWrite \/ ThreadFunc \/ Finish
  BY <1>7, <1>8 DEF TestRunning, WaitSeconds, Collect, Trim, EndWrite, ThreadFunc, Finish, fileVars
<1>9. CASE Start \/ StartReturn \/ Stop \/ StopReturn \/ UNCHANGED vars
  BY <1>7, <1>9 DEF Start, StartReturn, Stop, StopReturn, vars, fileVars
<1> QED
  BY <1>3, <1>4, <1>5, <1>6, <1>8, <1>9 DEF Next, Consumer, AppendLog

PathOK == Along(Taken, buffers_, curr_buffer_, Path)

SetsOK ==
  /\ Len(Path) \in Nat /\ Len(Path) >= 1
  /\ \A i \in 1..Len(Path) : Path[i] \in Buffers /\ Sets[i] = Range(content[Path[i]])

LEMMA PathFacts == TypeOK => PathOK /\ SetsOK
<1> SUFFICES ASSUME TypeOK PROVE PathOK /\ SetsOK
  OBVIOUS
<1>1. PathOK
  BY PathIndexes DEF PathOK
<1>2. Path \in Seq(Buffers) /\ Len(Path) >= 1
  BY <1>1 DEF PathOK, Along
<1>3. SetsOK
  BY <1>2 DEF SetsOK, Sets
<1> QED
  BY <1>1, <1>3

LEMMA PathFactsNext == TypeOK' => PathOK' /\ SetsOK'
  BY PathFacts, PTL

\* Only its last element is the current buffer, the others are queued or taken.
LEMMA OnPath ==
  ASSUME TypeOK, ApartInv
  PROVE  /\ Path[Len(Path)] = curr_buffer_
         /\ \A i \in 1..Len(Path) :
              i < Len(Path) => \/ \E j \in 1..Len(buffers_) : Path[i] = buffers_[j]
                               \/ \E j \in 1..Len(buffers_to_write) : Path[i] = buffers_to_write[j]
<1>1. PathOK
  BY PathFacts
<1>2. \A i \in 1..Len(Taken) : \E j \in 1..Len(buffers_to_write) : Taken[i] = buffers_to_write[j]
  BY TakenType
<1>3. Path[Len(Path)] = curr_buffer_
  BY <1>1 DEF PathOK, Along
<1>4. ASSUME NEW i \in 1..Len(Path), i < Len(Path)
      PROVE  \/ \E j \in 1..Len(buffers_) : Path[i] = buffers_[j]
             \/ \E j \in 1..Len(buffers_to_write) : Path[i] = buffers_to_write[j]
  <2>1. CASE i \in 1..Len(Taken)
    <3>1. Path[i] = Taken[i]
      BY <1>1, <2>1 DEF PathOK, Along
    <3> QED
      BY <1>2, <2>1, <3>1
  <2>2. CASE i - Len(Taken) \in 1..Len(buffers_) /\ i = Len(Taken) + (i - Len(Taken))
    <3>1. Path[i] = buffers_[i - Len(Taken)]
      BY <1>1, <2>2 DEF PathOK, Along
    <3> QED
      BY <2>2, <3>1
  <2>3. i # Len(Taken) + Len(buffers_) + 1
    BY <1>1, <1>4 DEF PathOK, Along
  <2> QED
    BY <1>1, <2>1, <2>2, <2>3 DEF PathOK, Along
<1> QED
  BY <1>3, <1>4

\* What the producers and the consumer do not have on its way is not on the path.
LEMMA OffPath ==
  ASSUME TypeOK, ApartInv,
         NEW d, d # curr_buffer_,
         \A i \in 1..Len(buffers_) : buffers_[i] # d,
         \A i \in 1..Len(buffers_to_write) : buffers_to_write[i] # d
  PROVE  \A i \in 1..Len(Path) : Path[i] # d
<1>1. Len(Path) \in Nat
  BY PathFacts DEF SetsOK
<1> QED
  BY <1>1, OnPath

\* A step that only moves the same messages along.
LEMMA OrderKept ==
  ASSUME TypeOK, TypeOK', OrderInv,
         UNCHANGED <<written, logged, dropped>>,
         Len(Path') = Len(Path),
         \A i \in 1..Len(Path) : Path'[i] = Path[i] /\ content'[Path[i]] = content[Path[i]]
  PROVE  OrderInv'
<1>1. SetsOK /\ SetsOK'
  BY PathFacts, PathFactsNext
<1>2. \A i \in 1..Len(Path) : Sets'[i] = Sets[i]
  BY <1>1 DEF SetsOK
<1>3. Ordered(Range(written), Sets', Len(Path), logged, dropped)
  BY <1>1, <1>2, OrderedSame DEF OrderInv, SetsOK
<1> QED
  BY <1>3 DEF OrderInv

\* append puts the next message in the current buffer.
LEMMA OrderAppendHere ==
  TypeOK /\ TypeOK' /\ ApartInv /\ OrderInv /\ AppendHere => OrderInv'
<1> SUFFICES ASSUME TypeOK, TypeOK', ApartInv, OrderInv, AppendHere PROVE OrderInv'
  OBVIOUS
<1> DEFINE n == Len(Path)
<1>1. SetsOK /\ SetsOK'
  BY PathFacts, PathFactsNext
<1>2. UNCHANGED <<cpc, index, buffers_to_write, buffers_, curr_buffer_>>
  BY DEF AppendHere, producerVars, consumerVars
<1>3. Path' = Path
  BY <1>2 DEF Path, Taken
<1>4. Path[n] = curr_buffer_ /\ \A i \in 1..n : i < n => Path[i] # curr_buffer_
  <2>1. /\ \A j \in 1..Len(buffers_) : buffers_[j] # curr_buffer_
        /\ \A j \in 1..Len(buffers_to_write) : buffers_to_write[j] # curr_buffer_
    BY DEF ApartInv, Apart
  <2> QED
    BY <2>1, OnPath
<1>5. /\ logged' = logged + 1 /\ logged \in Nat /\ logged' \in Messages
      /\ content \in [Buffers -> Seq(Messages)] /\ curr_buffer_ \in Buffers
      /\ content' = [content EXCEPT ![curr_buffer_] = Append(content[curr_buffer_], logged')]
      /\ UNCHANGED <<written, dropped>>
  BY DEF AppendHere, MayAppend, TypeOK, fileVars, Messages
<1>6. \A i \in 1..n : i < n => Sets'[i] = Sets[i]
  BY <1>1, <1>3, <1>4, <1>5 DEF SetsOK
<1>7. Sets'[n] = Sets[n] \cup {logged + 1}
  <2>1. content'[curr_buffer_] = Append(content[curr_buffer_], logged')
    BY <1>5
  <2>2. Range(content'[curr_buffer_]) = Range(content[curr_buffer_]) \cup {logged'}
    BY <1>5, <2>1, RangeAppend
  <2>3. n \in 1..n
    BY <1>1 DEF SetsOK
  <2>4. Sets'[n] = Range(content'[curr_buffer_]) /\ Sets[n] = Range(content[curr_buffer_])
    BY <1>1, <1>3, <1>4, <2>3 DEF SetsOK
  <2> QED
    BY <1>5, <2>2, <2>4
<1>8. n \in Nat /\ n >= 1
  BY <1>1 DEF SetsOK
<1>9. Ordered(Range(written), Sets, n, logged, dropped)
  BY DEF OrderInv
<1> HIDE DEF n
<1>10. Ordered(Range(written), Sets', n, logged + 1, dropped)
  BY <1>5, <1>6, <1>7, <1>8, <1>9, OrderedJoin
<1> QED
  BY <1>3, <1>5, <1>10 DEF OrderInv, n

\* The path goes on, with one more buffer at its end.
Longer(p, q, d) ==
  Len(q) = Len(p) + 1 /\ (\A i \in 1..Len(p) : q[i] = p[i]) /\ q[Len(p) + 1] = d

LEMMA AlongLonger ==
  ASSUME NEW T, NEW s, NEW s2, NEW c, NEW d, NEW p, NEW q,
         s \in Seq(Buffers), s2 = Append(s, c), c \in Buffers,
         Along(T, s, c, p), Along(T, s2, d, q)
  PROVE  Longer(p, q, d)
<1>1. /\ Len(s2) = Len(s) + 1 /\ Len(s) \in Nat
      /\ \A i \in 1..Len(s) : s2[i] = s[i]
      /\ s2[Len(s) + 1] = c
  BY Appended
<1>2. /\ Len(T) \in Nat
      /\ Len(p) = Len(T) + Len(s) + 1
      /\ Len(q) = Len(T) + Len(s2) + 1
      /\ \A i \in 1..Len(T) : p[i] = T[i] /\ q[i] = T[i]
      /\ \A i \in 1..Len(s) : p[Len(T) + i] = s[i]
      /\ \A i \in 1..Len(s2) : q[Len(T) + i] = s2[i]
      /\ p[Len(T) + Len(s) + 1] = c
      /\ q[Len(T) + Len(s2) + 1] = d
  BY DEF Along
<1>3. Len(q) = Len(p) + 1 /\ q[Len(p) + 1] = d
  BY <1>1, <1>2
<1>4. ASSUME NEW i \in 1..Len(p) PROVE q[i] = p[i]
  <2>1. CASE i \in 1..Len(T)
    BY <1>2, <2>1
  <2>2. CASE i - Len(T) \in 1..Len(s) /\ i = Len(T) + (i - Len(T))
    <3>1. p[i] = s[i - Len(T)] /\ i - Len(T) \in 1..Len(s2)
      BY <1>1, <1>2, <2>2
    <3>2. q[i] = s2[i - Len(T)]
      BY <1>2, <2>2, <3>1
    <3> QED
      BY <1>1, <2>2, <3>1, <3>2
  <2>3. CASE i = Len(T) + Len(s) + 1
    <3>1. Len(s) + 1 \in 1..Len(s2) /\ i = Len(T) + (Len(s) + 1)
      BY <1>1, <1>2, <2>3
    <3>2. q[i] = s2[Len(s) + 1] /\ p[i] = c
      BY <1>2, <2>3, <3>1
    <3> QED
      BY <1>1, <3>2
  <2> QED
    BY <2>1, <2>2, <2>3 DEF Along
<1> QED
  BY <1>3, <1>4 DEF Longer

\* append queues the full buffer and starts another one with the next message.
LEMMA OrderAppendOther ==
  TypeOK /\ TypeOK' /\ ApartInv /\ EmptyInv /\ OrderInv /\ (AppendNext \/ AppendNew) => OrderInv'
<1> SUFFICES ASSUME TypeOK, TypeOK', ApartInv, EmptyInv, OrderInv, AppendNext \/ AppendNew
             PROVE  OrderInv'
  OBVIOUS
<1> DEFINE n == Len(Path)
           d == curr_buffer_'
<1>1. PathOK /\ PathOK' /\ SetsOK /\ SetsOK'
  BY PathFacts, PathFactsNext
<1>2. /\ UNCHANGED <<cpc, index, buffers_to_write, written, dropped>>
      /\ buffers_' = Append(buffers_, curr_buffer_)
      /\ logged' = logged + 1
  BY DEF AppendNext, AppendNew, MayAppend, consumerVars, fileVars
<1>3. Taken' = Taken
  BY <1>2 DEF Taken
<1>4. Longer(Path, Path', d)
  <2>1. Along(Taken, buffers_, curr_buffer_, Path) /\ Along(Taken, buffers_', d, Path')
    BY <1>1, <1>3 DEF PathOK
  <2>2. buffers_ \in Seq(Buffers) /\ curr_buffer_ \in Buffers
    BY DEF TypeOK
  <2> QED
    BY <1>2, <2>1, <2>2, AlongLonger
<1>5. d \in Buffers /\ content \in [Buffers -> Seq(Messages)] /\ logged \in Nat
  <2>1. d \in Buffers
    BY DEF TypeOK
  <2>2. content \in [Buffers -> Seq(Messages)] /\ logged \in Nat
    BY ConstantsAssumption DEF TypeOK
  <2> QED
    BY <2>1, <2>2
<1>6. /\ \A i \in 1..n : Path[i] # d
      /\ \A b \in Buffers : b # d => content'[b] = content[b]
      /\ content'[d] = <<logged + 1>>
  <2>1. CASE AppendNext
    <3>1. /\ d = next_buffer_ /\ next_buffer_ # Null
          /\ content' = [content EXCEPT ![d] = Append(content[d], logged + 1)]
      BY <2>1 DEF AppendNext, MayAppend
    <3>2. content[d] = <<>>
      BY <1>5, <3>1 DEF EmptyInv
    <3>3. Append(<<>>, logged + 1) = <<logged + 1>>
      OBVIOUS
    <3>4. /\ d # curr_buffer_
          /\ \A i \in 1..Len(buffers_) : buffers_[i] # d
          /\ \A i \in 1..Len(buffers_to_write) : buffers_to_write[i] # d
      BY <3>1 DEF ApartInv, Apart
    <3>5. \A i \in 1..n : Path[i] # d
      BY <3>4, OffPath
    <3> QED
      BY <1>5, <3>1, <3>2, <3>3, <3>5
  <2>2. CASE AppendNew
    <3>1. d \in Unused /\ content' = [content EXCEPT ![d] = <<logged + 1>>]
      BY <2>2 DEF AppendNew, MayAppend
    <3>2. /\ d # curr_buffer_
          /\ \A i \in 1..Len(buffers_) : buffers_[i] # d
          /\ \A i \in 1..Len(buffers_to_write) : buffers_to_write[i] # d
      BY <3>1, UnusedIsNotHeld DEF Singles
    <3>3. \A i \in 1..n : Path[i] # d
      BY <3>2, OffPath
    <3> QED
      BY <1>5, <3>1, <3>3
  <2> QED
    BY <2>1, <2>2
<1>7. n \in Nat /\ n + 1 \in 1..(n + 1) /\ \A i \in 1..n : i \in 1..(n + 1)
  BY <1>1 DEF SetsOK
<1>8. \A i \in 1..n : Sets'[i] = Sets[i]
  BY <1>1, <1>4, <1>6, <1>7 DEF SetsOK, Longer
<1>9. Sets'[n + 1] = {logged + 1}
  <2>1. Sets'[n + 1] = Range(content'[d])
    BY <1>1, <1>4, <1>7 DEF SetsOK, Longer
  <2>2. Range(<<logged + 1>>) = {logged + 1}
    BY DEF Range
  <2> QED
    BY <1>6, <2>1, <2>2
<1>10. Ordered(Range(written), Sets, n, logged, dropped)
  BY DEF OrderInv
<1>11. Len(Path') = n + 1
  BY <1>4 DEF Longer
<1> HIDE DEF n, d
<1>12. Ordered(Range(written), Sets', n + 1, logged + 1, dropped)
  BY <1>5, <1>7, <1>8, <1>9, <1>10, OrderedAdd
<1> QED
  BY <1>2, <1>11, <1>12 DEF OrderInv

\* The consumer takes the filled buffers and the current one; its empty spare
\* becomes the current buffer.
LEMMA OrderCollect ==
  TypeOK /\ TypeOK' /\ SpareInv /\ EmptyInv /\ OrderInv /\ Collect => OrderInv'
<1> SUFFICES ASSUME TypeOK, TypeOK', SpareInv, EmptyInv, OrderInv, Collect PROVE OrderInv'
  OBVIOUS
<1> DEFINE n == Len(Path)
           d == curr_buffer_'
<1>1. PathOK /\ PathOK' /\ SetsOK /\ SetsOK'
  BY PathFacts, PathFactsNext
<1>2. /\ cpc \in {"lock", "waiting"} /\ cpc' = "trim"
      /\ buffers_to_write = <<>> /\ buffers_' = <<>>
      /\ buffers_to_write' = Append(buffers_, curr_buffer_)
      /\ d = new_buffer1 /\ new_buffer1 # Null
      /\ UNCHANGED <<content, written, logged, dropped>>
  BY DEF Collect, Awake, SpareInv, fileVars
<1>3. buffers_ \in Seq(Buffers) /\ curr_buffer_ \in Buffers /\ d \in Buffers
      /\ buffers_to_write' \in Seq(Buffers)
      /\ logged \in Nat
  BY DEF TypeOK
<1>4. /\ Len(buffers_to_write') = Len(buffers_) + 1 /\ Len(buffers_) \in Nat
      /\ \A i \in 1..Len(buffers_) : buffers_to_write'[i] = buffers_[i]
      /\ buffers_to_write'[Len(buffers_) + 1] = curr_buffer_
  BY <1>2, <1>3, Appended
<1>5. Len(Taken) = 0
  BY <1>2 DEF Taken
<1>6. /\ Len(Taken') = Len(buffers_) + 1
      /\ \A i \in 1..Len(buffers_) : Taken'[i] = buffers_[i]
      /\ Taken'[Len(buffers_) + 1] = curr_buffer_
  <2>1. Taken' = Rest(buffers_to_write', 1)
    BY <1>2 DEF Taken, Rest
  <2>2. 1 \in Nat \ {0}
    OBVIOUS
  <2>3. /\ Len(Taken') = Len(buffers_to_write')
        /\ \A i \in 1..Len(Taken') : Taken'[i] = buffers_to_write'[i]
    <3>1. /\ Len(Rest(buffers_to_write', 1)) = IF 1 <= Len(buffers_to_write') THEN Len(buffers_to_write') - 1 + 1 ELSE 0
          /\ \A i \in 1..Len(Rest(buffers_to_write', 1)) : Rest(buffers_to_write', 1)[i] = buffers_to_write'[i + 1 - 1]
      BY <1>3, <2>2, RestIndexes
    <3> QED
      BY <1>3, <1>4, <2>1, <3>1
  <2> QED
    BY <1>4, <2>3
<1>7. Longer(Path, Path', d)
  <2>1. /\ Len(Path) = Len(buffers_) + 1
        /\ \A i \in 1..Len(buffers_) : Path[i] = buffers_[i]
        /\ Path[Len(buffers_) + 1] = curr_buffer_
    BY <1>1, <1>4, <1>5 DEF PathOK, Along
  <2>2. /\ Len(Path') = Len(buffers_) + 2
        /\ \A i \in 1..(Len(buffers_) + 1) : Path'[i] = Taken'[i]
        /\ Path'[Len(buffers_) + 2] = d
    <3>1. Len(buffers_') = 0
      BY <1>2
    <3> QED
      BY <1>1, <1>4, <1>6, <3>1 DEF PathOK, Along
  <2>3. \A i \in 1..Len(Path) : i \in 1..Len(buffers_) \/ i = Len(buffers_) + 1
    BY <1>4, <2>1
  <2> QED
    BY <1>4, <1>6, <2>1, <2>2, <2>3 DEF Longer
<1>8. n \in Nat /\ n + 1 \in 1..(n + 1) /\ \A i \in 1..n : i \in 1..(n + 1)
  BY <1>1 DEF SetsOK
<1>9. \A i \in 1..n : Sets'[i] = Sets[i]
  BY <1>1, <1>2, <1>7, <1>8 DEF SetsOK, Longer
<1>10. Sets'[n + 1] = {}
  <2>1. content'[d] = <<>>
    BY <1>2, <1>3 DEF EmptyInv
  <2>2. Sets'[n + 1] = Range(content'[d])
    BY <1>1, <1>7, <1>8 DEF SetsOK, Longer
  <2> QED
    BY <2>1, <2>2, RangeEmpty
<1>11. Ordered(Range(written), Sets, n, logged, dropped)
  BY DEF OrderInv
<1>12. Len(Path') = n + 1
  BY <1>7 DEF Longer
<1> HIDE DEF n, d
<1>13. Ordered(Range(written), Sets', n + 1, logged, dropped)
  BY <1>3, <1>8, <1>9, <1>10, <1>11, OrderedAdd
<1> QED
  BY <1>2, <1>12, <1>13 DEF OrderInv

LEMMA WholeRest ==
  ASSUME NEW t \in Seq(Buffers)
  PROVE  /\ Len(Rest(t, 1)) = Len(t) /\ Len(t) \in Nat
         /\ \A i \in 1..Len(t) : Rest(t, 1)[i] = t[i]
<1>1. 1 \in Nat \ {0}
  OBVIOUS
<1>2. /\ Len(Rest(t, 1)) = IF 1 <= Len(t) THEN Len(t) - 1 + 1 ELSE 0
      /\ \A i \in 1..Len(Rest(t, 1)) : Rest(t, 1)[i] = t[i + 1 - 1]
  BY <1>1, RestIndexes
<1> QED
  BY <1>2

\* The backlog rule drops the buffers from Keep + 1 to the last one taken.
LEMMA OrderTrim ==
  TypeOK /\ TypeOK' /\ OrderInv /\ Trim => OrderInv'
<1> SUFFICES ASSUME TypeOK, TypeOK', OrderInv, Trim PROVE OrderInv'
  OBVIOUS
<1> DEFINE n == Len(Path)
           e == Len(buffers_to_write)
           c == Keep
           w == e - c
<1>1. PathOK /\ PathOK' /\ SetsOK /\ SetsOK'
  BY PathFacts, PathFactsNext
<1>2. /\ cpc = "trim" /\ cpc' = "write" /\ index' = 1
      /\ UNCHANGED <<buffers_, curr_buffer_, content, written, logged>>
      /\ buffers_to_write \in Seq(Buffers) /\ buffers_to_write' \in Seq(Buffers)
      /\ logged \in Nat
  <2>1. cpc = "trim" /\ cpc' = "write" /\ index' = 1
        /\ UNCHANGED <<buffers_, curr_buffer_, content, written, logged>>
    BY DEF Trim, producerVars, fileVars
  <2>2. buffers_to_write \in Seq(Buffers) /\ buffers_to_write' \in Seq(Buffers)
    BY DEF TypeOK
  <2>3. logged \in Nat
    BY ConstantsAssumption DEF TypeOK
  <2> QED
    BY <2>1, <2>2, <2>3
<1>3. Taken = Rest(buffers_to_write, 1) /\ Taken' = Rest(buffers_to_write', 1)
  BY <1>2 DEF Taken, Rest
<1>4. /\ Len(Taken) = e /\ e \in Nat
      /\ \A i \in 1..e : Taken[i] = buffers_to_write[i]
      /\ Len(Taken') = Len(buffers_to_write')
      /\ \A i \in 1..Len(Taken') : Taken'[i] = buffers_to_write'[i]
  BY <1>2, <1>3, WholeRest
<1>5. CASE e > MaxBacklog
  <2>1. c \in Nat /\ c <= e
    BY <1>4, <1>5, ConstantsAssumption DEF Keep
  <2>2. /\ buffers_to_write' = SubSeq(buffers_to_write, 1, c)
        /\ dropped' = dropped \cup UNION {Range(content[buffers_to_write[i]]) : i \in (c + 1)..e}
    BY <1>5 DEF Trim, TooLong
  <2>3. Len(Taken') = c /\ \A i \in 1..c : Taken'[i] = Taken[i]
    <3>1. Len(buffers_to_write') = c /\ \A i \in 1..c : buffers_to_write'[i] = buffers_to_write[i]
      BY <1>2, <2>1, <2>2, Shortened
    <3> QED
      BY <1>4, <2>1, <3>1
  <2>4. /\ n = e + Len(buffers_) + 1 /\ Len(buffers_) \in Nat
        /\ \A i \in 1..e : Path[i] = Taken[i]
        /\ \A i \in 1..Len(buffers_) : Path[e + i] = buffers_[i]
        /\ Path[n] = curr_buffer_
    BY <1>1, <1>4 DEF PathOK, Along
  <2>5. /\ Len(Path') = c + Len(buffers_) + 1
        /\ \A i \in 1..c : Path'[i] = Taken'[i]
        /\ \A i \in 1..Len(buffers_) : Path'[c + i] = buffers_[i]
        /\ Path'[c + Len(buffers_) + 1] = curr_buffer_
    BY <1>1, <1>2, <2>3 DEF PathOK, Along
  <2>6. Len(Path') = n - w /\ n \in Nat /\ e <= n
    BY <1>4, <2>1, <2>4, <2>5
  <2>7. \A i \in 1..c : Path'[i] = Path[i] /\ i \in 1..n /\ i \in 1..(n - w)
    BY <1>4, <2>1, <2>3, <2>4, <2>5
  <2>8. \A i \in (c + 1)..(n - w) : Path'[i] = Path[i + w] /\ i + w \in 1..n /\ i \in 1..(n - w)
    <3>1. SUFFICES ASSUME NEW i \in (c + 1)..(n - w) PROVE Path'[i] = Path[i + w]
      BY <1>4, <2>1, <2>4
    <3>2. CASE i - c \in 1..Len(buffers_) /\ i = c + (i - c) /\ i + w = e + (i - c)
      <4>1. Path'[i] = buffers_[i - c]
        BY <2>5, <3>2
      <4>2. Path[i + w] = buffers_[i - c]
        BY <2>4, <3>2
      <4> QED
        BY <4>1, <4>2
    <3>3. CASE i = c + Len(buffers_) + 1 /\ i + w = n
      BY <2>4, <2>5, <3>3
    <3>4. \/ i - c \in 1..Len(buffers_) /\ i = c + (i - c) /\ i + w = e + (i - c)
          \/ i = c + Len(buffers_) + 1 /\ i + w = n
      <4>1. n - w = c + Len(buffers_) + 1 /\ w \in Nat
        BY <1>4, <2>1, <2>4
      <4>2. i \in (c + 1)..(c + Len(buffers_) + 1)
        BY <4>1
      <4>3. i + w = e + (i - c)
        BY <1>4, <2>1, <4>2
      <4> HIDE DEF w, n, e, c
      <4> QED
        BY <2>1, <2>4, <4>1, <4>2, <4>3
    <3> QED
      BY <3>2, <3>3, <3>4
  <2>9. /\ \A i \in 1..c : Sets'[i] = Sets[i]
        /\ \A i \in (c + 1)..(n - w) : Sets'[i] = Sets[i + w]
    <3>1. \A i \in 1..c : Sets'[i] = Sets[i]
      BY <1>1, <1>2, <2>6, <2>7 DEF SetsOK
    <3>2. \A i \in (c + 1)..(n - w) : Sets'[i] = Sets[i + w]
      BY <1>1, <1>2, <2>6, <2>8 DEF SetsOK
    <3> QED
      BY <3>1, <3>2
  <2>10. \A i \in (c + 1)..e : Sets[i] = Range(content[buffers_to_write[i]])
    <3>1. \A i \in (c + 1)..e : i \in 1..e /\ i \in 1..n
      BY <1>4, <2>1, <2>6
    <3> QED
      BY <1>1, <1>4, <2>4, <3>1 DEF SetsOK
  <2>11. \A m : m \in dropped' <=> m \in dropped \/ \E i \in (c + 1)..e : m \in Sets[i]
    BY <2>2, <2>10
  <2>12. Ordered(Range(written), Sets, n, logged, dropped)
    BY DEF OrderInv
  <2> HIDE DEF n, e, c
  <2>13. Ordered(Range(written), Sets', n - (e - c), logged, dropped')
    BY <1>2, <1>4, <2>1, <2>6, <2>9, <2>11, <2>12, OrderedDrop
  <2> QED
    BY <1>2, <2>6, <2>13 DEF OrderInv
<1>6. CASE ~(e > MaxBacklog)
  <2>1. UNCHANGED <<buffers_to_write, dropped>>
    BY <1>6 DEF Trim, TooLong
  <2>2. Taken' = Taken
    BY <1>3, <2>1
  <2>3. Path' = Path
    BY <1>2, <2>2 DEF Path
  <2> QED
    BY <1>2, <2>1, <2>3, OrderKept
<1> QED
  BY <1>5, <1>6

\* The oldest buffer is written.
LEMMA OrderWrite ==
  TypeOK /\ TypeOK' /\ OrderInv /\ WriteBuffer => OrderInv'
<1> SUFFICES ASSUME TypeOK, TypeOK', OrderInv, WriteBuffer PROVE OrderInv'
  OBVIOUS
<1> DEFINE n == Len(Path)
           b == buffers_to_write[index]
<1>1. PathOK /\ PathOK' /\ SetsOK /\ SetsOK'
  BY PathFacts, PathFactsNext
<1>2. /\ cpc = "write" /\ cpc' = "write" /\ index' = index + 1
      /\ UNCHANGED <<buffers_, curr_buffer_, buffers_to_write, content, logged, dropped>>
      /\ written' = written \o content[b]
      /\ index <= Len(buffers_to_write)
  BY DEF WriteBuffer, MoreToWrite, producerVars
<1>3. /\ buffers_to_write \in Seq(Buffers) /\ index \in Nat \ {0}
      /\ written \in Seq(Messages)
      /\ content[b] \in Seq(Messages)
  BY <1>2 DEF TypeOK
<1>4. Taken = Rest(buffers_to_write, index) /\ Taken' = Rest(buffers_to_write, index + 1)
  BY <1>2 DEF Taken, Rest
<1>5. /\ Len(Taken) >= 1 /\ Len(Taken') = Len(Taken) - 1 /\ Len(Taken) \in Nat
      /\ Taken[1] = b
      /\ \A i \in 1..Len(Taken') : Taken'[i] = Taken[i + 1]
  <2>1. /\ Len(Taken) = Len(buffers_to_write) - index + 1
        /\ \A i \in 1..Len(Taken) : Taken[i] = buffers_to_write[i + index - 1]
    <3>1. /\ Len(Rest(buffers_to_write, index)) =
               IF index <= Len(buffers_to_write) THEN Len(buffers_to_write) - index + 1 ELSE 0
          /\ \A i \in 1..Len(Rest(buffers_to_write, index)) :
               Rest(buffers_to_write, index)[i] = buffers_to_write[i + index - 1]
      BY <1>3, RestIndexes
    <3> QED
      BY <1>2, <1>4, <3>1
  <2>2. /\ Len(Taken') = Len(buffers_to_write) - index
        /\ \A i \in 1..Len(Taken') : Taken'[i] = buffers_to_write[i + (index + 1) - 1]
    <3>1. index + 1 \in Nat \ {0}
      BY <1>3
    <3>2. /\ Len(Rest(buffers_to_write, index + 1)) =
               IF index + 1 <= Len(buffers_to_write)
                 THEN Len(buffers_to_write) - (index + 1) + 1 ELSE 0
          /\ \A i \in 1..Len(Rest(buffers_to_write, index + 1)) :
               Rest(buffers_to_write, index + 1)[i] = buffers_to_write[i + (index + 1) - 1]
      BY <1>3, <3>1, RestIndexes
    <3>3. Len(buffers_to_write) \in Nat
      BY <1>3
    <3> QED
      BY <1>2, <1>3, <1>4, <3>2, <3>3
  <2>3. Len(buffers_to_write) \in Nat
    BY <1>3
  <2>4. 1 \in 1..Len(Taken) /\ 1 + index - 1 = index
    BY <1>2, <1>3, <2>1, <2>3
  <2>5. \A i \in 1..Len(Taken') : i + 1 \in 1..Len(Taken) /\ (i + 1) + index - 1 = i + (index + 1) - 1
    BY <1>3, <2>1, <2>2, <2>3
  <2>6. \A i \in 1..Len(Taken') : Taken'[i] = Taken[i + 1]
    BY <2>1, <2>2, <2>5
  <2>7. Taken[1] = b
    BY <2>1, <2>4
  <2>8. Len(Taken) >= 1 /\ Len(Taken') = Len(Taken) - 1 /\ Len(Taken) \in Nat
    BY <1>2, <1>3, <2>1, <2>2, <2>3
  <2> QED
    BY <2>6, <2>7, <2>8
<1>6. Len(Path') = n - 1 /\ \A i \in 1..(n - 1) : Path'[i] = Path[i + 1] /\ i + 1 \in 1..n
  <2> DEFINE k == Len(Taken)
             l == Len(buffers_)
  <2>1. /\ n = k + l + 1 /\ k \in Nat /\ l \in Nat
        /\ \A i \in 1..k : Path[i] = Taken[i]
        /\ \A i \in 1..l : Path[k + i] = buffers_[i]
        /\ Path[k + l + 1] = curr_buffer_
    BY <1>1 DEF PathOK, Along
  <2>2. /\ Len(Path') = Len(Taken') + l + 1
        /\ \A i \in 1..Len(Taken') : Path'[i] = Taken'[i]
        /\ \A i \in 1..l : Path'[Len(Taken') + i] = buffers_[i]
        /\ Path'[Len(Taken') + l + 1] = curr_buffer_
    BY <1>1, <1>2 DEF PathOK, Along
  <2>3. /\ Len(Path') = (k - 1) + l + 1
        /\ \A i \in 1..(k - 1) : Path'[i] = Taken[i + 1]
        /\ \A i \in 1..l : Path'[(k - 1) + i] = buffers_[i]
        /\ Path'[(k - 1) + l + 1] = curr_buffer_
    BY <1>5, <2>2
  <2>4. k >= 1
    BY <1>5
  <2> HIDE DEF k, l
  <2>5. ASSUME NEW i \in 1..(n - 1) PROVE Path'[i] = Path[i + 1]
    <3>1. CASE i \in 1..(k - 1)
      <4>1. i + 1 \in 1..k
        BY <2>1, <3>1
      <4> QED
        BY <2>1, <2>3, <3>1, <4>1
    <3>2. CASE i - (k - 1) \in 1..l
      <4> DEFINE j == i - (k - 1)
      <4>1. i = (k - 1) + j /\ i + 1 = k + j /\ j \in 1..l
        BY <2>1, <3>2
      <4> HIDE DEF j
      <4>2. Path'[i] = buffers_[j] /\ Path[i + 1] = buffers_[j]
        BY <2>1, <2>3, <4>1
      <4> QED
        BY <4>2
    <3>3. CASE i = (k - 1) + l + 1
      <4>1. i + 1 = k + l + 1
        BY <2>1, <3>3
      <4> QED
        BY <2>1, <2>3, <3>3, <4>1
    <3> QED
      BY <2>1, <2>4, <3>1, <3>2, <3>3
  <2>6. Len(Path') = n - 1 /\ \A i \in 1..(n - 1) : i + 1 \in 1..n
    BY <2>1, <2>3
  <2> QED
    BY <2>5, <2>6
<1>7. n \in Nat /\ n >= 1 /\ 1 \in 1..n
  BY <1>1 DEF SetsOK
<1>8. \A i \in 1..(n - 1) : Sets'[i] = Sets[i + 1]
  BY <1>1, <1>2, <1>6, <1>7 DEF SetsOK
<1>9. Range(written') = Range(written) \cup Sets[1]
  <2>1. Path[1] = b
    <3>1. 1 \in 1..Len(Taken)
      BY <1>5
    <3> QED
      BY <1>1, <1>5, <3>1 DEF PathOK, Along
  <2>2. Sets[1] = Range(content[b])
    BY <1>1, <1>7, <2>1 DEF SetsOK
  <2> QED
    BY <1>2, <1>3, <2>2, RangeConcat
<1>10. Ordered(Range(written), Sets, n, logged, dropped)
  BY DEF OrderInv
<1>11. logged \in Nat
  BY ConstantsAssumption DEF TypeOK
<1> HIDE DEF n
<1>12. Ordered(Range(written) \cup Sets[1], Sets', n - 1, logged, dropped)
  BY <1>7, <1>8, <1>10, <1>11, OrderedWrite
<1> QED
  BY <1>2, <1>6, <1>9, <1>12 DEF OrderInv

\* A buffer that is given back is not on the path.
LEMMA OrderRefill ==
  TypeOK /\ TypeOK' /\ SpareInv /\ ApartInv /\ OrderInv /\ (Refill1 \/ Refill2) => OrderInv'
<1> SUFFICES ASSUME TypeOK, TypeOK', SpareInv, ApartInv, OrderInv, Refill1 \/ Refill2
             PROVE  OrderInv'
  OBVIOUS
<1>1. /\ cpc \in {"refill1", "refill2"} /\ cpc' \in {"refill2", "head"}
      /\ UNCHANGED <<buffers_, curr_buffer_, written, logged, dropped>>
  BY DEF Refill1, Refill2, producerVars, fileVars
<1>2. Path' = Path
  <2>1. Taken = <<>> /\ Taken' = <<>>
    BY <1>1 DEF Taken
  <2> QED
    BY <1>1, <2>1 DEF Path
<1>3. PathOK
  BY PathFacts
<1>4. \A i \in 1..Len(Path) :
        Path[i] = curr_buffer_ \/ \E j \in 1..Len(buffers_) : Path[i] = buffers_[j]
  <2>1. Len(Taken) = 0
    BY <1>1 DEF Taken
  <2> QED
    BY <1>3, <2>1 DEF PathOK, Along
<1>5. ASSUME buffers_to_write # <<>>, NEW i \in 1..Len(Path)
      PROVE  Path[i] # Last(buffers_to_write)
  <2>1. Len(buffers_to_write) \in 1..Len(buffers_to_write)
    BY <1>5 DEF TypeOK
  <2>2. Last(buffers_to_write) = buffers_to_write[Len(buffers_to_write)]
    BY DEF Last
  <2> QED
    BY <1>4, <2>1, <2>2 DEF ApartInv, Apart
<1>6. \A i \in 1..Len(Path) : Path[i] \in Buffers
  BY PathFacts DEF SetsOK
<1>7. \A i \in 1..Len(Path) : content'[Path[i]] = content[Path[i]]
  <2>1. content \in [Buffers -> Seq(Messages)]
    BY DEF TypeOK
  <2>2. content' = content \/ ( /\ buffers_to_write # <<>>
                                /\ content' = [content EXCEPT ![Last(buffers_to_write)] = <<>>] )
    BY DEF Refill1, Refill2, SpareInv
  <2> QED
    BY <1>5, <1>6, <2>1, <2>2
<1> QED
  BY <1>1, <1>2, <1>7, OrderKept

\* The loop is over: nothing taken was left.
LEMMA OrderEndWrite ==
  TypeOK /\ TypeOK' /\ OrderInv /\ EndWrite => OrderInv'
<1> SUFFICES ASSUME TypeOK, TypeOK', OrderInv, EndWrite PROVE OrderInv'
  OBVIOUS
<1>1. /\ cpc = "write" /\ cpc' = "refill1" /\ ~(index <= Len(buffers_to_write))
      /\ UNCHANGED <<buffers_, curr_buffer_, content, written, logged, dropped>>
  BY DEF EndWrite, MoreToWrite, producerVars, fileVars
<1>2. Len(Taken) = 0 /\ Len(Taken') = 0
  <2>1. Taken = Rest(buffers_to_write, index) /\ Taken' = <<>>
    BY <1>1 DEF Taken, Rest
  <2>2. buffers_to_write \in Seq(Buffers) /\ index \in Nat \ {0}
    BY DEF TypeOK
  <2>3. Len(Rest(buffers_to_write, index)) = 0
    BY <1>1, <2>2, RestIndexes
  <2> QED
    BY <2>1, <2>3
<1>3. PathOK /\ PathOK'
  BY PathFacts, PathFactsNext
<1>4. Len(Path') = Len(Path) /\ \A i \in 1..Len(Path) : Path'[i] = Path[i]
  BY <1>1, <1>2, <1>3 DEF PathOK, Along
<1> QED
  BY <1>1, <1>4, OrderKept

LEMMA OrderStep ==
  /\ TypeOK /\ TypeOK' /\ SpareInv /\ ApartInv /\ EmptyInv /\ OrderInv
  /\ [Next]_vars
  => OrderInv'
<1> SUFFICES ASSUME TypeOK, TypeOK', SpareInv, ApartInv, EmptyInv, OrderInv, [Next]_vars
             PROVE  OrderInv'
  OBVIOUS
<1>1. ASSUME UNCHANGED <<buffers_, curr_buffer_, content, written, logged, dropped>>,
             Taken' = Taken
      PROVE  OrderInv'
  <2>1. Path' = Path
    BY <1>1 DEF Path
  <2> QED
    BY <1>1, <2>1, OrderKept
<1>2. CASE Start \/ ThreadFunc \/ TestRunning \/ WaitSeconds \/ Finish
  <2>1. Taken = <<>> /\ Taken' = <<>>
    BY <1>2 DEF Start, ThreadFunc, TestRunning, WaitSeconds, Finish, Taken, SpareInv
  <2> QED
    BY <1>1, <1>2, <2>1
    DEF Start, ThreadFunc, TestRunning, WaitSeconds, Finish, producerVars, fileVars
<1>3. CASE StartReturn \/ Stop \/ StopReturn \/ UNCHANGED vars
  <2>1. UNCHANGED <<cpc, index, buffers_to_write>>
    BY <1>3 DEF StartReturn, Stop, StopReturn, vars, consumerVars
  <2>2. Taken' = Taken
    BY <2>1 DEF Taken
  <2> QED
    BY <1>1, <1>3, <2>2 DEF StartReturn, Stop, StopReturn, vars, producerVars, fileVars
<1> QED
  BY <1>2, <1>3, OrderAppendHere, OrderAppendOther, OrderCollect, OrderTrim, OrderWrite,
     OrderRefill, OrderEndWrite
  DEF Next, Consumer, AppendLog

LEMMA InitOrder == Init => OrderInv /\ IncreasingInv
<1> SUFFICES ASSUME Init PROVE OrderInv /\ IncreasingInv
  OBVIOUS
<1>1. TypeOK
  BY InitInv DEF Inv
<1>2. /\ cpc = "none" /\ buffers_ = <<>> /\ written = <<>> /\ logged = 0 /\ dropped = {}
      /\ \A b \in Buffers : content[b] = <<>>
  BY DEF Init
<1>3. Range(<<>>) = {} /\ Increasing(<<>>)
  BY RangeEmpty DEF Increasing
<1>4. SetsOK
  BY <1>1, PathFacts
<1>5. \A i \in 1..Len(Path) : Sets[i] = {}
  BY <1>2, <1>3, <1>4 DEF SetsOK
<1>6. Ordered({}, Sets, Len(Path), 0, {})
  BY <1>5 DEF Ordered, Before
<1>7. OrderInv
  BY <1>2, <1>3, <1>6 DEF OrderInv
<1>8. IncreasingInv
  BY <1>2, <1>3 DEF IncreasingInv
<1> QED
  BY <1>7, <1>8

-----------------------------------------------------------------------------
(* What the filled buffers hold *)

\* Consecutive messages, no more than fit.
Run(s) ==
  /\ Len(s) <= Capacity
  /\ \A i \in 1..Len(s) : s[i] = s[1] + i - 1

\* The current buffer holds the latest ones.
RunInv ==
  /\ \A b \in Buffers : Run(content[b])
  /\ content[curr_buffer_] # <<>> => content[curr_buffer_][Len(content[curr_buffer_])] = logged

\* The buffers of s were filled one after the other: each starts at least a full
\* buffer later than the one before it, and there is something in the last.
Spaced(f, s) ==
  \A i, j \in 1..Len(s) : i < j =>
    /\ f[s[i]] # <<>> /\ f[s[j]] # <<>>
    /\ f[s[j]][1] >= f[s[i]][1] + (j - i) * Capacity

SpacedInv ==
  /\ Spaced(content, Append(buffers_, curr_buffer_))
  /\ cpc = "trim" => Spaced(content, buffers_to_write)

LEMMA CapacityType == Capacity \in Nat /\ Capacity >= 1
  BY ConstantsAssumption DEF Capacity

LEMMA Multiples ==
  /\ \A a, b, c \in Nat : a <= b => a * c <= b * c
  /\ \A a, c \in Nat : (a + 1) * c = a * c + c
  /\ \A a, c \in Nat : a * c \in Nat
  OBVIOUS

LEMMA RunShort ==
  /\ Run(<<>>)
  /\ \A m \in Nat : Run(<<m>>)
  BY CapacityType DEF Run

LEMMA RunAppend ==
  ASSUME NEW s \in Seq(Nat), NEW m \in Nat,
         Run(s), Len(s) < Capacity, s # <<>> => s[Len(s)] + 1 = m
  PROVE  Run(Append(s, m))
<1> DEFINE q == Append(s, m)
<1>1. /\ Len(q) = Len(s) + 1 /\ Len(s) \in Nat
      /\ \A i \in 1..Len(s) : q[i] = s[i] /\ s[i] \in Nat
      /\ q[Len(s) + 1] = m
  BY Appended
<1> HIDE DEF q
<1>2. Len(q) <= Capacity
  BY <1>1, CapacityType
<1>3. CASE Len(s) = 0
  <2>1. Len(q) = 1
    BY <1>1, <1>3
  <2>2. \A i \in 1..Len(q) : q[i] = q[1] + i - 1
    BY <1>1, <1>3, <2>1
  <2> QED
    BY <1>2, <2>2 DEF Run, q
<1>4. CASE Len(s) # 0
  <2>1. s # <<>> /\ 1 \in 1..Len(s) /\ Len(s) \in 1..Len(s)
    BY <1>1, <1>4
  <2>2. \A i \in 1..Len(s) : s[i] = s[1] + i - 1
    BY DEF Run
  <2>3. s[1] \in Nat /\ s[Len(s)] = s[1] + Len(s) - 1 /\ s[Len(s)] + 1 = m
    BY <1>1, <2>1, <2>2
  <2>4. m = s[1] + Len(s) /\ q[1] = s[1]
    BY <1>1, <2>1, <2>3
  <2>5. ASSUME NEW i \in 1..Len(q) PROVE q[i] = q[1] + i - 1
    <3>1. CASE i \in 1..Len(s)
      BY <1>1, <2>2, <2>4, <3>1
    <3>2. CASE i = Len(s) + 1
      BY <1>1, <2>3, <2>4, <3>2
    <3> QED
      BY <1>1, <2>5, <3>1, <3>2
  <2> QED
    BY <1>2, <2>5 DEF Run, q
<1> QED
  BY <1>1, <1>3, <1>4

\* What an append does, in all its three cases: d is the buffer it fills.
LEMMA Appends ==
  ASSUME TypeOK, EmptyInv, AppendLog
  PROVE  \E d \in Buffers :
           /\ content' = [content EXCEPT ![d] = content'[d]]
           /\ curr_buffer_' = d
           /\ UNCHANGED <<cpc, buffers_to_write, written, flushed, dropped>>
           /\ logged' = logged + 1
           /\ \/ /\ d = curr_buffer_ /\ Fits(d)
                 /\ content'[d] = Append(content[d], logged + 1)
                 /\ buffers_' = buffers_
              \/ /\ ~Fits(curr_buffer_)
                 /\ content'[d] = <<logged + 1>>
                 /\ buffers_' = Append(buffers_, curr_buffer_)
                 /\ \/ d = next_buffer_
                    \/ d \in Unused
<1>0. content \in [Buffers -> Seq(Messages)] /\ curr_buffer_ \in Buffers
  BY DEF TypeOK
<1>1. CASE AppendHere
  BY <1>0, <1>1 DEF AppendHere, MayAppend, producerVars, consumerVars, fileVars
<1>2. CASE AppendNext
  <2>1. next_buffer_ \in Buffers /\ content[next_buffer_] = <<>>
    BY <1>2 DEF AppendNext, TypeOK, EmptyInv
  <2>2. content'[next_buffer_] = <<logged + 1>>
    BY <1>0, <1>2, <2>1 DEF AppendNext, MayAppend
  <2> QED
    BY <1>0, <1>2, <2>1, <2>2 DEF AppendNext, MayAppend, consumerVars, fileVars
<1>3. CASE AppendNew
  <2>1. curr_buffer_' \in Unused /\ curr_buffer_' \in Buffers
    BY <1>3 DEF AppendNew, Unused
  <2>2. content'[curr_buffer_'] = <<logged + 1>>
    BY <1>0, <1>3, <2>1 DEF AppendNew, MayAppend
  <2> QED
    BY <1>0, <1>3, <2>1, <2>2 DEF AppendNew, MayAppend, consumerVars, fileVars
<1> QED
  BY <1>1, <1>2, <1>3 DEF AppendLog

LEMMA RunStep ==
  TypeOK /\ SpareInv /\ EmptyInv /\ RunInv /\ [Next]_vars => RunInv'
<1> SUFFICES ASSUME TypeOK, SpareInv, EmptyInv, RunInv, [Next]_vars
             PROVE  RunInv'
  OBVIOUS
<1>0. /\ content \in [Buffers -> Seq(Messages)] /\ curr_buffer_ \in Buffers
      /\ logged \in Nat /\ SIZE \in Nat
      /\ \A b \in Buffers : content[b] \in Seq(Nat)
  <2>1. Messages \subseteq Nat
    BY DEF Messages
  <2>2. content \in [Buffers -> Seq(Messages)] /\ curr_buffer_ \in Buffers
        /\ logged \in Nat /\ SIZE \in Nat
    BY ConstantsAssumption DEF TypeOK
  <2>3. ASSUME NEW s \in Seq(Messages) PROVE s \in Seq(Nat)
    BY <2>1, SeqMonotonic
  <2> QED
    BY <2>2, <2>3
<1>1. CASE AppendLog
  <2>1. PICK d \in Buffers :
           /\ content' = [content EXCEPT ![d] = content'[d]]
           /\ curr_buffer_' = d
           /\ logged' = logged + 1
           /\ \/ /\ d = curr_buffer_ /\ Fits(d)
                 /\ content'[d] = Append(content[d], logged + 1)
              \/ content'[d] = <<logged + 1>>
    BY <1>1, Appends
  <2>2. /\ Run(content'[d]) /\ content'[d] # <<>>
        /\ content'[d][Len(content'[d])] = logged + 1
    <3>1. CASE d = curr_buffer_ /\ Fits(d) /\ content'[d] = Append(content[d], logged + 1)
      <4>1. content[d] \in Seq(Nat) /\ Run(content[d]) /\ Len(content[d]) \in Nat
        BY <1>0 DEF RunInv
      <4>2. Len(content[d]) < Capacity
        BY <1>0, <3>1, <4>1 DEF Fits, Capacity
      <4>3. content[d] # <<>> => content[d][Len(content[d])] + 1 = logged + 1
        BY <3>1 DEF RunInv
      <4>4. Run(content'[d])
        BY <1>0, <3>1, <4>1, <4>2, <4>3, RunAppend
      <4>5. Len(content'[d]) = Len(content[d]) + 1 /\ content'[d][Len(content[d]) + 1] = logged + 1
        BY <1>0, <3>1, <4>1, Appended
      <4> QED
        BY <4>1, <4>4, <4>5
    <3>2. CASE content'[d] = <<logged + 1>>
      BY <1>0, <3>2, RunShort
    <3> QED
      BY <2>1, <3>1, <3>2
  <2>3. \A b \in Buffers : b # d => content'[b] = content[b]
    BY <1>0, <2>1
  <2> QED
    BY <2>1, <2>2, <2>3 DEF RunInv
<1>2. CASE Collect
  <2>1. content' = content /\ logged' = logged /\ curr_buffer_' = new_buffer1
    BY <1>2 DEF Collect
  <2>2. content[new_buffer1] = <<>>
    BY <1>2 DEF Collect, Awake, EmptyInv, SpareInv, TypeOK
  <2> QED
    BY <2>1, <2>2 DEF RunInv
<1>3. CASE Refill1 \/ Refill2
  <2>1. logged' = logged /\ curr_buffer_' = curr_buffer_
    BY <1>3 DEF Refill1, Refill2, producerVars
  <2>2. ASSUME NEW b \in Buffers
        PROVE  content'[b] = content[b] \/ content'[b] = <<>>
    BY <1>0, <1>3 DEF Refill1, Refill2
  <2>3. \A b \in Buffers : Run(content'[b])
    BY <2>2, RunShort DEF RunInv
  <2> QED
    BY <1>0, <2>1, <2>2, <2>3 DEF RunInv
<1>4. CASE UNCHANGED <<content, logged, curr_buffer_>>
  BY <1>4 DEF RunInv
<1>5. CASE TestRunning \/ WaitSeconds \/ Trim \/ WriteBuffer \/ EndWrite \/ ThreadFunc \/ Finish
  BY <1>4, <1>5
  DEF TestRunning, WaitSeconds, Trim, WriteBuffer, EndWrite, ThreadFunc, Finish, producerVars
<1>6. CASE Start \/ StartReturn \/ Stop \/ StopReturn \/ UNCHANGED vars
  BY <1>4, <1>6 DEF Start, StartReturn, Stop, StopReturn, vars, producerVars
<1> QED
  BY <1>1, <1>2, <1>3, <1>5, <1>6 DEF Next, Consumer

\* What is full is queued before the message that no longer fits, so that the
\* next buffer starts a whole buffer later.
LEMMA SpacedLonger ==
  ASSUME NEW f, NEW g, NEW s \in Seq(Buffers), NEW d \in Buffers,
         NEW n \in Nat \ {0}, NEW m \in Nat,
         Len(s) = n, f[s[n]] # <<>>, m >= f[s[n]][1] + Capacity,
         \A i \in 1..n : g[s[i]] = f[s[i]] /\ (f[s[i]] # <<>> => f[s[i]][1] \in Nat),
         g[d] = <<m>>,
         Spaced(f, s)
  PROVE  Spaced(g, Append(s, d))
<1> DEFINE q == Append(s, d)
<1>1. Len(q) = n + 1 /\ (\A i \in 1..n : q[i] = s[i]) /\ q[n + 1] = d
  BY Appended
<1> HIDE DEF q
<1>2. SUFFICES ASSUME NEW i \in 1..(n + 1), NEW j \in 1..(n + 1), i < j
               PROVE  /\ g[q[i]] # <<>> /\ g[q[j]] # <<>>
                      /\ g[q[j]][1] >= g[q[i]][1] + (j - i) * Capacity
  BY <1>1 DEF Spaced, q
<1>3. i \in 1..n /\ q[i] = s[i] /\ g[q[i]] = f[s[i]] /\ n \in 1..n
  BY <1>1, <1>2
<1>4. CASE j \in 1..n
  <2>1. q[j] = s[j] /\ g[q[j]] = f[s[j]]
    BY <1>1, <1>4
  <2>2. /\ f[s[i]] # <<>> /\ f[s[j]] # <<>>
        /\ f[s[j]][1] >= f[s[i]][1] + (j - i) * Capacity
    BY <1>2, <1>3, <1>4 DEF Spaced
  <2> QED
    BY <1>3, <2>1, <2>2
<1>5. CASE j = n + 1
  <2>1. g[q[j]] = <<m>> /\ g[q[j]] # <<>> /\ g[q[j]][1] = m
    BY <1>1, <1>5
  <2>2. f[s[i]] # <<>> /\ f[s[n]][1] >= f[s[i]][1] + (n - i) * Capacity
    <3>1. CASE i = n
      <4>1. (n - i) * Capacity = 0 /\ f[s[n]][1] \in Nat
        BY <1>3, <3>1, CapacityType
      <4> QED
        BY <3>1, <4>1
    <3>2. CASE i < n
      BY <1>3, <3>2 DEF Spaced
    <3> QED
      BY <1>3, <3>1, <3>2
  <2>3. (j - i) * Capacity = (n - i) * Capacity + Capacity
    <3>1. n - i \in Nat /\ j - i = (n - i) + 1
      BY <1>3, <1>5
    <3> QED
      BY <3>1, CapacityType, Multiples
  <2>4. /\ f[s[i]][1] \in Nat /\ f[s[n]][1] \in Nat /\ (n - i) * Capacity \in Nat
        /\ Capacity \in Nat
    <3>1. n - i \in Nat
      BY <1>3
    <3> QED
      BY <1>3, <2>2, <3>1, CapacityType, Multiples
  <2>5. m >= f[s[i]][1] + ((n - i) * Capacity + Capacity)
    <3> DEFINE x == f[s[i]][1]
               y == f[s[n]][1]
               z == (n - i) * Capacity
    <3>1. m >= y + Capacity /\ y >= x + z /\ x \in Nat /\ y \in Nat /\ z \in Nat
      BY <2>2, <2>4
    <3> HIDE DEF x, y, z
    <3>2. m >= x + (z + Capacity)
      BY <2>4, <3>1
    <3> QED
      BY <3>2 DEF x, z
  <2> QED
    BY <1>3, <2>1, <2>2, <2>3, <2>5
<1> QED
  BY <1>2, <1>4, <1>5

\* The path's second part: what is filled and not taken.
Filled == Append(buffers_, curr_buffer_)

LEMMA FilledIndexes ==
  TypeOK => /\ Filled \in Seq(Buffers)
            /\ Len(Filled) = Len(buffers_) + 1 /\ Len(buffers_) \in Nat
            /\ \A i \in 1..Len(buffers_) : Filled[i] = buffers_[i]
            /\ Filled[Len(buffers_) + 1] = curr_buffer_
            /\ \A i \in 1..Len(Filled) : i \in 1..Len(buffers_) \/ i = Len(buffers_) + 1
<1> SUFFICES ASSUME TypeOK
             PROVE  /\ Filled \in Seq(Buffers)
                    /\ Len(Filled) = Len(buffers_) + 1 /\ Len(buffers_) \in Nat
                    /\ \A i \in 1..Len(buffers_) : Filled[i] = buffers_[i]
                    /\ Filled[Len(buffers_) + 1] = curr_buffer_
                    /\ \A i \in 1..Len(Filled) : i \in 1..Len(buffers_) \/ i = Len(buffers_) + 1
  OBVIOUS
<1>1. buffers_ \in Seq(Buffers) /\ curr_buffer_ \in Buffers
  BY DEF TypeOK
<1> QED
  BY <1>1 DEF Filled

LEMMA FilledMembers ==
  TypeOK => \A i \in 1..Len(Filled) : Filled[i] \in Buffers
<1>1. TypeOK => Filled \in Seq(Buffers)
  BY FilledIndexes
<1> QED
  BY <1>1

LEMMA SpacedSame ==
  ASSUME NEW f, NEW g, NEW s, Spaced(f, s), \A i \in 1..Len(s) : g[s[i]] = f[s[i]]
  PROVE  Spaced(g, s)
  BY DEF Spaced

LEMMA SpacedAppend ==
  TypeOK /\ ApartInv /\ EmptyInv /\ RunInv /\ SpacedInv /\ AppendLog => SpacedInv'
<1> SUFFICES ASSUME TypeOK, ApartInv, EmptyInv, RunInv, SpacedInv, AppendLog
             PROVE  SpacedInv'
  OBVIOUS
<1>0. /\ content \in [Buffers -> Seq(Messages)] /\ curr_buffer_ \in Buffers
      /\ buffers_to_write \in Seq(Buffers) /\ buffers_ \in Seq(Buffers)
      /\ logged \in Nat /\ SIZE \in Nat /\ Messages \subseteq Nat
  BY ConstantsAssumption DEF TypeOK, Messages
<1>1. PICK d \in Buffers :
           /\ content' = [content EXCEPT ![d] = content'[d]]
           /\ curr_buffer_' = d
           /\ UNCHANGED <<cpc, buffers_to_write>>
           /\ \/ /\ d = curr_buffer_ /\ Fits(d)
                 /\ content'[d] = Append(content[d], logged + 1)
                 /\ buffers_' = buffers_
              \/ /\ ~Fits(curr_buffer_)
                 /\ content'[d] = <<logged + 1>>
                 /\ buffers_' = Append(buffers_, curr_buffer_)
                 /\ d = next_buffer_ \/ d \in Unused
  BY Appends
<1>2. \A b \in Buffers : b # d => content'[b] = content[b]
  BY <1>0, <1>1
<1>3. CASE d = curr_buffer_ /\ Fits(d) /\ content'[d] = Append(content[d], logged + 1)
           /\ buffers_' = buffers_
  <2>1. Filled' = Filled
    BY <1>1, <1>3 DEF Filled
  <2>2. \A i \in 1..Len(buffers_) : Filled[i] # d /\ Filled[i] \in Buffers
    <3>1. ASSUME NEW i \in 1..Len(buffers_)
          PROVE  Filled[i] = buffers_[i] /\ i \in 1..Len(Filled)
      BY FilledIndexes
    <3>2. \A i \in 1..Len(buffers_) : buffers_[i] # d
      BY <1>3 DEF ApartInv, Apart
    <3> QED
      BY <3>1, <3>2, FilledMembers
  <2>3. Spaced(content', Filled)
    <3> DEFINE n == Len(buffers_) + 1
    <3>1. Len(Filled) = n /\ n \in Nat /\ Filled[n] = d
          /\ \A i \in 1..n : i < n => i \in 1..Len(buffers_)
      BY <1>3, FilledIndexes
    <3>2. Spaced(content, Filled)
      BY DEF SpacedInv, Filled
    <3>3. content[d] # <<>> => content'[d] # <<>> /\ content'[d][1] = content[d][1]
      <4>1. content[d] \in Seq(Messages)
        BY <1>0
      <4>2. content[d] # <<>> => /\ Append(content[d], logged + 1)[1] = content[d][1]
                                /\ Append(content[d], logged + 1) # <<>>
        <5>1. CASE Len(content[d]) = 0
          BY <4>1, <5>1
        <5>2. CASE Len(content[d]) # 0
          <6>1. 1 \in 1..Len(content[d]) /\ Len(content[d]) \in Nat
            BY <4>1, <5>2
          <6>2. Len(Append(content[d], logged + 1)) = Len(content[d]) + 1
            BY <4>1
          <6>3. Append(content[d], logged + 1)[1] = content[d][1]
            BY <4>1, <6>1
          <6> QED
            BY <6>1, <6>2, <6>3
        <5> QED
          BY <5>1, <5>2
      <4> QED
        BY <1>3, <4>2
    <3> HIDE DEF n
    <3>4. ASSUME NEW i \in 1..n, NEW j \in 1..n, i < j
          PROVE  /\ content'[Filled[i]] # <<>> /\ content'[Filled[j]] # <<>>
                 /\ content'[Filled[j]][1] >= content'[Filled[i]][1] + (j - i) * Capacity
      <4>1. i < n
        BY <3>1, <3>4
      <4>2. content'[Filled[i]] = content[Filled[i]]
        BY <1>2, <2>2, <3>1, <4>1
      <4>3. /\ content[Filled[i]] # <<>> /\ content[Filled[j]] # <<>>
            /\ content[Filled[j]][1] >= content[Filled[i]][1] + (j - i) * Capacity
        BY <3>1, <3>2, <3>4 DEF Spaced
      <4>4. CASE j < n
        <5>1. content'[Filled[j]] = content[Filled[j]]
          BY <1>2, <2>2, <3>1, <4>4
        <5> QED
          BY <4>2, <4>3, <5>1
      <4>5. CASE j = n
        BY <3>1, <3>3, <4>2, <4>3, <4>5
      <4> QED
        BY <3>1, <4>4, <4>5
    <3> QED
      BY <3>1, <3>4 DEF Spaced
  <2>4. \A i \in 1..Len(buffers_to_write) :
          content'[buffers_to_write[i]] = content[buffers_to_write[i]]
    BY <1>0, <1>2, <1>3 DEF ApartInv, Apart
  <2>5. cpc' = "trim" => Spaced(content', buffers_to_write')
    BY <1>1, <2>4, SpacedSame DEF SpacedInv
  <2> QED
    BY <2>1, <2>3, <2>5 DEF SpacedInv, Filled
<1>4. CASE ~Fits(curr_buffer_) /\ content'[d] = <<logged + 1>>
           /\ buffers_' = Append(buffers_, curr_buffer_) /\ (d = next_buffer_ \/ d \in Unused)
  <2>1. /\ d # curr_buffer_ /\ (\A i \in 1..Len(buffers_) : buffers_[i] # d)
        /\ \A i \in 1..Len(buffers_to_write) : buffers_to_write[i] # d
    <3>1. CASE d = next_buffer_
      BY <3>1 DEF ApartInv, Apart
    <3>2. CASE d \in Unused
      BY <3>2, UnusedIsNotHeld DEF Singles
    <3> QED
      BY <1>4, <3>1, <3>2
  <2>2. \A i \in 1..Len(Filled) : Filled[i] # d /\ Filled[i] \in Buffers
    <3>1. \A i \in 1..Len(Filled) : Filled[i] # d
      BY <2>1, FilledIndexes
    <3> QED
      BY <3>1, FilledMembers
  <2>3. \A i \in 1..Len(buffers_to_write) :
          content'[buffers_to_write[i]] = content[buffers_to_write[i]]
    BY <1>0, <1>2, <2>1
  <2>4. cpc' = "trim" => Spaced(content', buffers_to_write')
    BY <1>1, <2>3, SpacedSame DEF SpacedInv
  <2> DEFINE c == content[curr_buffer_]
  <2>5. c # <<>> /\ logged + 1 >= c[1] + Capacity /\ c[1] \in Nat
    <3>1. c \in Seq(Messages) /\ Len(c) \in Nat
      BY <1>0
    <3>2. Len(c) >= Capacity
      BY <1>0, <1>4, <3>1 DEF Fits, Capacity
    <3>3. c # <<>> /\ Len(c) \in 1..Len(c) /\ 1 \in 1..Len(c)
      BY <3>1, <3>2, CapacityType
    <3>4. c[Len(c)] = logged /\ c[Len(c)] = c[1] + Len(c) - 1 /\ c[1] \in Nat
      <4>1. Run(c) /\ c[Len(c)] = logged
        BY <1>0, <3>3 DEF RunInv
      <4> HIDE DEF c
      <4>2. c[1] \in Nat
        <5>1. c[1] \in Messages
          BY <3>1, <3>3
        <5> QED
          BY <1>0, <5>1
      <4> QED
        BY <3>3, <4>1, <4>2 DEF Run
    <3> QED
      BY <1>0, <3>1, <3>2, <3>3, <3>4, CapacityType
  <2>6. Filled' = Append(Filled, d)
    BY <1>1, <1>4 DEF Filled
  <2>7. Filled[Len(Filled)] = curr_buffer_ /\ Len(Filled) \in Nat \ {0} /\ Filled \in Seq(Buffers)
    BY FilledIndexes
  <2>8. \A i \in 1..Len(Filled) :
          /\ content'[Filled[i]] = content[Filled[i]]
          /\ content[Filled[i]] # <<>> => content[Filled[i]][1] \in Nat
    <3>1. ASSUME NEW i \in 1..Len(Filled), content[Filled[i]] # <<>>
          PROVE  content[Filled[i]][1] \in Nat
      <4>1. content[Filled[i]] \in Seq(Messages)
        BY <1>0, <2>2
      <4>2. content[Filled[i]][1] \in Messages
        BY <3>1, <4>1
      <4> QED
        BY <1>0, <4>2
    <3> QED
      BY <1>2, <2>2, <3>1
  <2>9. Spaced(content', Append(Filled, d))
    <3>1. Spaced(content, Filled) /\ logged + 1 \in Nat
      BY <1>0 DEF SpacedInv, Filled
    <3> QED
      BY <1>4, <2>5, <2>7, <2>8, <3>1, SpacedLonger
  <2> QED
    BY <2>4, <2>6, <2>9 DEF SpacedInv, Filled
<1> QED
  BY <1>1, <1>3, <1>4

LEMMA SpacedStep ==
  TypeOK /\ SpareInv /\ ApartInv /\ EmptyInv /\ RunInv /\ SpacedInv /\ [Next]_vars => SpacedInv'
<1> SUFFICES ASSUME TypeOK, SpareInv, ApartInv, EmptyInv, RunInv, SpacedInv, [Next]_vars
             PROVE  SpacedInv'
  OBVIOUS
<1>1. CASE AppendLog
  BY <1>1, SpacedAppend
<1>2. CASE Collect
  <2>1. /\ buffers_to_write' = Append(buffers_, curr_buffer_) /\ content' = content
        /\ buffers_' = buffers_to_write /\ buffers_to_write = <<>>
    BY <1>2 DEF Collect, Awake, SpareInv
  <2>2. Len(Append(buffers_', curr_buffer_')) = 1
    BY <2>1
  <2>3. Spaced(content', Append(buffers_', curr_buffer_'))
    BY <2>2 DEF Spaced
  <2> QED
    BY <2>1, <2>3 DEF SpacedInv
<1>3. CASE Refill1 \/ Refill2
  <2>1. UNCHANGED <<buffers_, curr_buffer_>> /\ cpc' # "trim"
    BY <1>3 DEF Refill1, Refill2, producerVars
  <2>2. \A i \in 1..Len(Filled) : content'[Filled[i]] = content[Filled[i]]
    <3>1. content' = content \/ ( /\ buffers_to_write # <<>>
                                  /\ content' = [content EXCEPT ![Last(buffers_to_write)] = <<>>] )
      BY <1>3 DEF Refill1, Refill2, SpareInv
    <3>2. ASSUME buffers_to_write # <<>>
          PROVE  \A i \in 1..Len(Filled) : Filled[i] # Last(buffers_to_write)
      <4>1. Len(buffers_to_write) \in 1..Len(buffers_to_write)
        BY <3>2 DEF TypeOK
      <4>2. Last(buffers_to_write) = buffers_to_write[Len(buffers_to_write)]
        BY DEF Last
      <4> QED
        BY <4>1, <4>2, FilledIndexes DEF ApartInv, Apart
    <3>3. content \in [Buffers -> Seq(Messages)] /\ \A i \in 1..Len(Filled) : Filled[i] \in Buffers
      BY FilledIndexes DEF TypeOK
    <3> QED
      BY <3>1, <3>2, <3>3
  <2>3. Spaced(content', Filled)
    BY <2>2, SpacedSame DEF SpacedInv, Filled
  <2> QED
    BY <2>1, <2>3 DEF SpacedInv, Filled
<1>4. ASSUME UNCHANGED <<content, buffers_, curr_buffer_>>,
             cpc' # "trim" \/ UNCHANGED <<cpc, buffers_to_write>>
      PROVE  SpacedInv'
  BY <1>4 DEF SpacedInv
<1>5. CASE TestRunning \/ WaitSeconds \/ Trim \/ WriteBuffer \/ EndWrite \/ ThreadFunc \/ Finish
  BY <1>4, <1>5
  DEF TestRunning, WaitSeconds, Trim, WriteBuffer, EndWrite, ThreadFunc, Finish, producerVars
<1>6. CASE Start \/ StartReturn \/ Stop \/ StopReturn \/ UNCHANGED vars
  BY <1>4, <1>6 DEF Start, StartReturn, Stop, StopReturn, vars, producerVars, consumerVars
<1> QED
  BY <1>1, <1>2, <1>3, <1>5, <1>6 DEF Next, Consumer

LEMMA InitRun == Init => RunInv /\ SpacedInv
<1> SUFFICES ASSUME Init PROVE RunInv /\ SpacedInv
  OBVIOUS
<1>1. TypeOK
  BY InitInv DEF Inv
<1>2. /\ \A b \in Buffers : content[b] = <<>>
      /\ buffers_ = <<>> /\ cpc = "none"
  BY DEF Init
<1>3. RunInv
  BY <1>1, <1>2, RunShort DEF RunInv, TypeOK
<1>4. Len(Append(buffers_, curr_buffer_)) = 1
  BY <1>2
<1>5. SpacedInv
  BY <1>2, <1>4 DEF SpacedInv, Spaced
<1> QED
  BY <1>3, <1>5

-----------------------------------------------------------------------------
(* AsyncLogging implements MessageLog, step by step *)

LogInv == Inv /\ OrderInv /\ IncreasingInv /\ RunInv /\ SpacedInv

LEMMA Suffix ==
  ASSUME NEW S, NEW s \in Seq(S), NEW t \in Seq(S)
  PROVE  SubSeq(s \o t, Len(s) + 1, Len(s \o t)) = t
<1> DEFINE q == s \o t
           u == SubSeq(q, Len(s) + 1, Len(q))
<1>1. /\ q \in Seq(S) /\ Len(q) = Len(s) + Len(t) /\ Len(s) \in Nat /\ Len(t) \in Nat
      /\ \A i \in 1..Len(t) : q[Len(s) + i] = t[i]
  OBVIOUS
<1> HIDE DEF q
<1>2. u \in Seq(S) /\ Len(u) = Len(t)
  BY <1>1
<1>3. \A i \in 1..Len(t) : u[i] = t[i]
  <2>1. ASSUME NEW i \in 1..Len(t) PROVE u[i] = q[Len(s) + i]
    BY <1>1
  <2> QED
    BY <1>1, <2>1
<1> HIDE DEF u
<1>4. u = t
  BY <1>1, <1>2, <1>3, SeqEqual
<1> QED
  BY <1>4 DEF u, q

\* What waits is what is on the path.
LEMMA PendingOnPath ==
  ASSUME TypeOK, OrderInv
  PROVE  \A m : m \in Log!Pending <=> \E i \in 1..Len(Path) : m \in Sets[i]
<1>1. Range(written) = Log!Written
  BY DEF TypeOK, Range, Log!Written
<1>2. ASSUME NEW m, m \in Range(written), NEW i \in 1..Len(Path), m \in Sets[i]
      PROVE  FALSE
  <2>1. m < m
    BY <1>2 DEF OrderInv, Ordered, Before
  <2>2. m \in 1..logged
    BY <1>2 DEF OrderInv, Ordered
  <2> QED
    BY <2>1, <2>2
<1> QED
  BY <1>1, <1>2 DEF OrderInv, Ordered, Log!Pending

\* The buffers the consumer has taken begin the path.
LEMMA TakenOnPath ==
  ASSUME TypeOK, cpc = "trim"
  PROVE  /\ Len(buffers_to_write) \in Nat /\ Len(Path) \in Nat
         /\ Len(buffers_to_write) <= Len(Path)
         /\ \A i \in 1..Len(buffers_to_write) :
              /\ i \in 1..Len(Path)
              /\ Sets[i] = Range(content[buffers_to_write[i]])
<1>1. PathOK /\ SetsOK
  BY PathFacts
<1>2. buffers_to_write \in Seq(Buffers)
  BY DEF TypeOK
<1>3. Taken = Rest(buffers_to_write, 1)
  BY DEF Taken, Rest
<1>4. /\ Len(Taken) = Len(buffers_to_write) /\ Len(buffers_to_write) \in Nat
      /\ \A i \in 1..Len(buffers_to_write) : Taken[i] = buffers_to_write[i]
  BY <1>2, <1>3, WholeRest
<1>5. /\ Len(Path) = Len(buffers_to_write) + Len(buffers_) + 1 /\ Len(buffers_) \in Nat
      /\ \A i \in 1..Len(buffers_to_write) : Path[i] = buffers_to_write[i]
  BY <1>1, <1>4 DEF PathOK, Along
<1>6. \A i \in 1..Len(buffers_to_write) : i \in 1..Len(Path)
  BY <1>4, <1>5
<1> QED
  BY <1>1, <1>4, <1>5, <1>6 DEF SetsOK

\* The writing loop hands over the oldest messages that wait.
LEMMA WriteImplements == LogInv /\ WriteBuffer => Log!Write
<1> SUFFICES ASSUME LogInv, WriteBuffer PROVE Log!Write
  OBVIOUS
<1> DEFINE b == buffers_to_write[index]
           t == content[b]
<1>1. /\ cpc = "write" /\ index <= Len(buffers_to_write)
      /\ written' = written \o t
      /\ flushed' \in {flushed, Len(written')}
      /\ UNCHANGED <<logged, dropped>>
  BY DEF WriteBuffer, MoreToWrite
<1>2. /\ TypeOK /\ written \in Seq(Messages) /\ index \in Nat \ {0}
      /\ buffers_to_write \in Seq(Buffers) /\ b \in Buffers /\ t \in Seq(Messages)
  BY <1>1 DEF LogInv, Inv, TypeOK
<1>3. Len(Path) \in Nat /\ 1 \in 1..Len(Path) /\ Sets[1] = Range(t)
  <2>1. Taken = Rest(buffers_to_write, index)
    BY <1>1 DEF Taken, Rest
  <2>2. Len(Taken) >= 1 /\ Taken[1] = b
    BY <1>1, <1>2, <2>1, RestIndexes
  <2>3. PathOK /\ SetsOK
    BY <1>2, PathFacts
  <2>4. 1 \in 1..Len(Taken)
    BY <2>2, <2>3 DEF PathOK, Along
  <2>5. Path[1] = b
    BY <2>2, <2>3, <2>4 DEF PathOK, Along
  <2>6. 1 \in 1..Len(Path)
    BY <2>3 DEF SetsOK
  <2> QED
    BY <2>3, <2>5, <2>6 DEF SetsOK
<1>4. SubSeq(written', Len(written) + 1, Len(written')) = t
  BY <1>1, <1>2, Suffix
<1>5. Increasing(t) /\ Len(t) \in Nat /\ DOMAIN t = 1..Len(t) /\ \A i \in 1..Len(t) : t[i] \in Nat
  <2>1. Messages \subseteq Nat
    BY DEF Messages
  <2>2. Increasing(t)
    BY <1>2 DEF LogInv, IncreasingInv
  <2>3. t \in Seq(Messages)
    BY <1>2
  <2> HIDE DEF t
  <2>4. Len(t) \in Nat /\ DOMAIN t = 1..Len(t) /\ \A i \in 1..Len(t) : t[i] \in Messages
    BY <2>3
  <2> QED
    BY <2>1, <2>2, <2>4
<1> HIDE DEF t, b
<1>6. ASSUME NEW i \in 1..Len(t) PROVE t[i] \in Sets[1]
  BY <1>3, <1>5 DEF Range
<1>7. Log!Oldest(t, Log!Pending)
  <2>1. SUFFICES ASSUME NEW i \in 1..Len(t)
                 PROVE  /\ t[i] \in Log!Pending
                        /\ \A m \in Log!Pending : m < t[i] <=> \E j \in 1..(i - 1) : t[j] = m
    BY DEF Log!Oldest
  <2>2. t[i] \in Log!Pending
    BY <1>2, <1>3, <1>6, PendingOnPath DEF LogInv
  <2>3. ASSUME NEW m \in Log!Pending, m < t[i]
        PROVE  \E j \in 1..(i - 1) : t[j] = m
    <3>1. PICK k \in 1..Len(Path) : m \in Sets[k]
      BY <1>2, PendingOnPath DEF LogInv
    <3>2. m \in Nat
      <4>1. m \in 1..logged
        BY <3>1 DEF LogInv, OrderInv, Ordered
      <4> QED
        BY <4>1
    <3>3. k = 1
      <4>1. SUFFICES ASSUME k # 1 PROVE FALSE
        OBVIOUS
      <4>2. 1 < k
        BY <1>3, <4>1
      <4>3. t[i] < m
        BY <1>3, <1>6, <3>1, <4>2 DEF LogInv, OrderInv, Ordered, Before
      <4> QED
        BY <1>5, <2>3, <3>2, <4>3
    <3>4. PICK j \in 1..Len(t) : t[j] = m
      BY <1>3, <1>5, <3>1, <3>3 DEF Range
    <3>5. ~(i <= j)
      <4>1. i < j => t[i] < t[j]
        BY <1>5 DEF Increasing
      <4> QED
        BY <1>5, <2>3, <3>4, <4>1
    <3> QED
      BY <1>5, <3>4, <3>5
  <2>4. ASSUME NEW m \in Log!Pending, NEW j \in 1..(i - 1), t[j] = m
        PROVE  m < t[i]
    BY <1>5, <2>4 DEF Increasing
  <2> QED
    BY <2>2, <2>3, <2>4
<1> QED
  BY <1>1, <1>4, <1>7 DEF Log!Write

\* The backlog rule discards a stretch of what waits, and only when a message has
\* been waiting for MaxBacklog buffers.
LEMMA TrimImplements == LogInv /\ Trim /\ TooLong => Log!Discard
<1> SUFFICES ASSUME LogInv, Trim, TooLong PROVE Log!Discard
  OBVIOUS
<1> DEFINE e == Len(buffers_to_write)
           n == Len(Path)
           first(i) == content[buffers_to_write[i]][1]
           lost == UNION {Range(content[buffers_to_write[i]]) : i \in (Keep + 1)..e}
           oldest == first(1)
<1>1. /\ cpc = "trim" /\ dropped' = dropped \cup lost
      /\ UNCHANGED <<logged, written, flushed>>
  BY DEF Trim, fileVars
<1>2. /\ TypeOK /\ Ordered(Range(written), Sets, n, logged, dropped)
      /\ Spaced(content, buffers_to_write)
      /\ \A m : m \in Log!Pending <=> \E i \in 1..n : m \in Sets[i]
      /\ \A m \in Log!Pending : m \in Nat
  <2>1. TypeOK /\ OrderInv /\ SpacedInv
    BY DEF LogInv, Inv
  <2>2. \A m : m \in Log!Pending <=> \E i \in 1..n : m \in Sets[i]
    BY <2>1, PendingOnPath
  <2>3. \A m \in Log!Pending : m \in Nat
    BY <2>1, <2>2 DEF OrderInv, Ordered
  <2> QED
    BY <1>1, <2>1, <2>2, <2>3 DEF OrderInv, SpacedInv
<1>3. /\ e \in Nat /\ n \in Nat /\ e <= n /\ Keep \in Nat /\ Keep >= 1
      /\ MaxBacklog \in Nat /\ Keep <= MaxBacklog /\ MaxBacklog + 1 <= e
  BY <1>1, <1>2, TakenOnPath, ConstantsAssumption DEF TooLong, Keep
<1>4. \A i \in 1..e : i \in 1..n /\ Sets[i] = Range(content[buffers_to_write[i]])
  BY <1>1, <1>2, TakenOnPath
<1>5. ASSUME NEW i \in 1..e
      PROVE  /\ first(i) \in Nat /\ first(i) \in Sets[i]
             /\ \A m \in Sets[i] : m >= first(i)
  <2> DEFINE s == content[buffers_to_write[i]]
  <2>1. buffers_to_write[i] \in Buffers
    BY <1>2, <1>5 DEF TypeOK
  <2>2. s \in Seq(Messages) /\ Run(s) /\ Messages \subseteq Nat
    <3>1. s \in Seq(Messages)
      BY <1>2, <2>1 DEF TypeOK
    <3>2. Run(s)
      BY <2>1 DEF LogInv, RunInv
    <3>3. Messages \subseteq Nat
      BY DEF Messages
    <3> QED
      BY <3>1, <3>2, <3>3
  <2>3. s # <<>>
    <3>1. i < e \/ 1 < i
      BY <1>3, <1>5
    <3>2. 1 \in 1..e /\ e \in 1..e
      BY <1>3
    <3> QED
      BY <1>2, <1>5, <3>1, <3>2 DEF Spaced
  <2>4. Sets[i] = Range(s)
    BY <1>4, <1>5
  <2>5. first(i) = s[1]
    OBVIOUS
  <2> HIDE DEF s, first
  <2>6. 1 \in 1..Len(s) /\ DOMAIN s = 1..Len(s) /\ s[1] \in Nat
    <3>1. 1 \in 1..Len(s) /\ DOMAIN s = 1..Len(s)
      BY <2>2, <2>3
    <3>2. s[1] \in Messages
      BY <2>2, <3>1
    <3> QED
      BY <2>2, <3>1, <3>2
  <2>7. s[1] \in Range(s) /\ \A m \in Range(s) : m >= s[1]
    <3>1. \A j \in 1..Len(s) : s[j] = s[1] + j - 1
      BY <2>2 DEF Run
    <3>2. \A j \in 1..Len(s) : s[j] >= s[1]
      BY <2>6, <3>1
    <3> QED
      BY <2>6, <3>2 DEF Range
  <2> QED
    BY <2>4, <2>5, <2>6, <2>7
<1>6. ASSUME NEW i \in 2..e, NEW k \in Nat, k <= i - 1
      PROVE  first(i) >= oldest + k * Capacity
  <2>1. 1 \in 1..e /\ i \in 1..e /\ 1 < i
    BY <1>3, <1>6
  <2>2. first(i) >= first(1) + (i - 1) * Capacity
    BY <1>2, <2>1 DEF Spaced
  <2>3. i - 1 \in Nat /\ k * Capacity <= (i - 1) * Capacity
    BY <1>6, CapacityType, Multiples
  <2>4. first(i) \in Nat /\ first(1) \in Nat /\ k * Capacity \in Nat /\ (i - 1) * Capacity \in Nat
    BY <1>5, <2>1, <2>3, <1>6, CapacityType, Multiples
  <2> DEFINE x == k * Capacity
             y == (i - 1) * Capacity
  <2> HIDE DEF first, x, y
  <2>5. first(i) >= first(1) + y /\ x <= y /\ x \in Nat /\ y \in Nat
    BY <2>2, <2>3, <2>4 DEF x, y
  <2>6. first(i) >= first(1) + x
    BY <2>4, <2>5
  <2> QED
    BY <2>6 DEF x
<1>7. \A x : x \in lost <=> \E i \in (Keep + 1)..e : x \in Sets[i]
  <2>1. \A i \in (Keep + 1)..e : i \in 1..e
    BY <1>3
  <2> QED
    BY <1>4, <2>1
<1>8. \A i \in (Keep + 1)..e : i \in 1..e /\ i \in 2..e /\ i \in 1..n
  BY <1>3
<1>9. 1 \in 1..e /\ 1 \in 1..n /\ e \in (Keep + 1)..e
  BY <1>3
<1> HIDE DEF lost, first, e, n
<1>10. lost \in SUBSET Log!Pending
  BY <1>2, <1>7, <1>8
<1>11. oldest \in Log!Pending /\ oldest \in Nat
  BY <1>2, <1>5, <1>9
<1>12. ASSUME NEW m \in Log!Pending PROVE oldest <= m
  <2>1. PICK k \in 1..n : m \in Sets[k]
    BY <1>2
  <2>2. CASE k = 1
    BY <1>2, <1>5, <1>9, <1>11, <2>1, <2>2
  <2>3. CASE k # 1
    <3>1. 1 < k
      BY <1>3, <2>3
    <3>2. oldest < m
      BY <1>2, <1>5, <1>9, <2>1, <3>1 DEF Ordered, Before
    <3> QED
      BY <1>2, <1>11, <3>2
  <2> QED
    BY <2>2, <2>3
<1>13. ASSUME NEW x \in lost PROVE x >= oldest + Keep * Capacity
  <2>1. PICK i \in (Keep + 1)..e : x \in Sets[i]
    BY <1>7
  <2>2. x >= first(i) /\ first(i) \in Nat /\ x \in Nat
    BY <1>2, <1>5, <1>8, <1>10, <2>1
  <2>3. first(i) >= oldest + Keep * Capacity
    BY <1>3, <1>6, <1>8, <2>1
  <2>4. Keep * Capacity \in Nat
    BY <1>3, CapacityType, Multiples
  <2> QED
    BY <1>11, <2>2, <2>3, <2>4
<1>14. \E x \in lost : x >= oldest + MaxBacklog * Capacity
  <2>1. first(e) \in lost
    BY <1>5, <1>7, <1>8, <1>9
  <2>2. first(e) >= oldest + MaxBacklog * Capacity
    BY <1>3, <1>6, <1>8, <1>9
  <2> QED
    BY <2>1, <2>2
<1>15. ASSUME NEW m \in Log!Pending \ lost
       PROVE  (\A x \in lost : m < x) \/ (\A x \in lost : x < m)
  <2>1. PICK k \in 1..n : m \in Sets[k]
    BY <1>2
  <2>2. k \notin (Keep + 1)..e
    BY <1>7, <2>1
  <2>3. CASE k <= Keep
    <3>1. \A i \in (Keep + 1)..e : k < i
      BY <1>3, <2>3
    <3> QED
      BY <1>2, <1>7, <1>8, <2>1, <3>1 DEF Ordered, Before
  <2>4. CASE k > e
    <3>1. \A i \in (Keep + 1)..e : i < k
      BY <1>3, <2>4
    <3> QED
      BY <1>2, <1>7, <1>8, <2>1, <3>1 DEF Ordered, Before
  <2> QED
    BY <1>3, <2>1, <2>2, <2>3, <2>4
<1> HIDE DEF oldest
<1> QED
  BY <1>1, <1>10, <1>11, <1>12, <1>13, <1>14, <1>15 DEF Log!Discard

LEMMA LogStep == LogInv /\ [Next]_vars => [Log!LogNext]_(Log!log)
<1> SUFFICES ASSUME LogInv, [Next]_vars PROVE Log!LogNext \/ UNCHANGED Log!log
  OBVIOUS
<1>1. CASE AppendLog
  <2>1. logged' = logged + 1 /\ UNCHANGED <<written, flushed, dropped>>
    BY <1>1 DEF AppendLog, AppendHere, AppendNext, AppendNew, MayAppend, fileVars
  <2> QED
    BY <2>1 DEF Log!LogNext, Log!Accept
<1>2. CASE WriteBuffer
  BY <1>2, WriteImplements DEF Log!LogNext
<1>3. CASE Trim /\ TooLong
  BY <1>3, TrimImplements DEF Log!LogNext
<1>4. CASE Trim /\ ~TooLong
  BY <1>4 DEF Trim, fileVars, Log!log
<1>5. CASE Refill2 \/ Finish
  <2>1. flushed' = Len(written) /\ UNCHANGED <<logged, written, dropped>>
    BY <1>5 DEF Refill2, Finish, Flush
  <2> QED
    BY <2>1 DEF Log!LogNext, Log!Flush
<1>6. CASE ThreadFunc \/ TestRunning \/ WaitSeconds \/ Collect \/ EndWrite \/ Refill1
  BY <1>6 DEF ThreadFunc, TestRunning, WaitSeconds, Collect, EndWrite, Refill1, fileVars, Log!log
<1>7. CASE Start \/ StartReturn \/ Stop \/ StopReturn \/ UNCHANGED vars
  BY <1>7 DEF Start, StartReturn, Stop, StopReturn, vars, fileVars, Log!log
<1> QED
  BY <1>1, <1>2, <1>3, <1>4, <1>5, <1>6, <1>7 DEF Next, Consumer

THEOREM Invariance == Spec => []Inv
<1>1. Inv /\ [Next]_vars => Inv'
  BY TypeStep, SpareStep, FlushStep, ApartStep, EmptyStep DEF Inv
<1> QED
  BY InitInv, <1>1, PTL DEF Spec

\* The invariant of the log's order rests on it.
THEOREM OrderInvariance == Spec => [](OrderInv /\ IncreasingInv)
<1>1. /\ Inv /\ Inv' /\ OrderInv /\ IncreasingInv /\ [Next]_vars
      => (OrderInv /\ IncreasingInv)'
  BY OrderStep, IncreasingStep DEF Inv
<1> QED
  BY InitOrder, Invariance, <1>1, PTL DEF Spec

\* Buffers hold stretches of messages, a full buffer apart.
THEOREM SpacedInvariance == Spec => [](RunInv /\ SpacedInv)
<1>1. Inv /\ RunInv /\ SpacedInv /\ [Next]_vars => (RunInv /\ SpacedInv)'
  BY RunStep, SpacedStep DEF Inv
<1> QED
  BY InitRun, Invariance, <1>1, PTL DEF Spec

-----------------------------------------------------------------------------
(* What the invariant says *)

\* Type correctness; above all, append always has a current buffer.
THEOREM TypeCorrect == Spec => []TypeOK
  BY Invariance, PTL DEF Inv

\* The consumer never moves an empty spare to the producers and never takes
\* back() of an empty vector (async_logging.cpp:86, 111-121).
THEOREM SparesSufficeCorrect == Spec => []SparesSuffice
<1>1. Inv => SparesSuffice
  BY DEF Inv, TypeOK, SpareInv, SparesSuffice
<1> QED
  BY Invariance, <1>1, PTL

\* What was written is flushed before the consumer waits and when it has ended.
THEOREM NothingUnflushedCorrect == Spec => []NothingUnflushed
<1>1. Inv => NothingUnflushed
  BY DEF Inv, FlushInv, NothingUnflushed
<1> QED
  BY Invariance, <1>1, PTL

\* Two holders never have the same buffer, and spares are empty
\* (async_logging.cpp:83-91, 111-121).
THEOREM NoSharedBufferCorrect == Spec => []NoSharedBuffer
<1>1. Inv => NoSharedBuffer
  <2> SUFFICES ASSUME Inv PROVE NoSharedBuffer
    OBVIOUS
  <2> USE ConstantsAssumption DEF Inv, TypeOK, ApartInv, Apart, Singles
  <2>1. \A i, j \in DOMAIN Slots : Slots[i] = Slots[j] => i = j \/ Slots[i] = Null
    <3>1. DOMAIN Slots = 1..4
      BY DEF Slots
    <3>2. /\ Slots[1] = curr_buffer_ /\ Slots[2] = next_buffer_
          /\ Slots[3] = new_buffer1 /\ Slots[4] = new_buffer2
      BY DEF Slots
    <3>3. \A i \in 1..4 : i \in {1, 2, 3, 4}
      OBVIOUS
    <3>4. /\ curr_buffer_ \notin {next_buffer_, new_buffer1, new_buffer2}
          /\ next_buffer_ # Null => next_buffer_ \notin {new_buffer1, new_buffer2}
          /\ new_buffer1 # Null => new_buffer1 # new_buffer2
      BY DEF Inv, ApartInv, Apart
    <3> QED
      BY <3>1, <3>2, <3>3, <3>4
  <2>2. DOMAIN buffers_ = 1..Len(buffers_) /\ DOMAIN buffers_to_write = 1..Len(buffers_to_write)
    OBVIOUS
  <2>3. IsInjective(buffers_) /\ IsInjective(buffers_to_write)
    BY <2>2 DEF IsInjective
  <2>4. Range(buffers_) \cap Range(buffers_to_write) = {}
    BY <2>2 DEF Range
  <2>5. Range(Slots) = Singles
    BY DEF Slots, Range
  <2>6. Singles \cap (Range(buffers_) \cup Range(buffers_to_write)) = {}
    BY <2>2 DEF Range
  <2>7. \A b \in {next_buffer_, new_buffer1, new_buffer2} \ {Null} : content[b] = <<>>
    BY DEF EmptyInv
  <2> QED
    BY <2>1, <2>3, <2>4, <2>5, <2>6, <2>7 DEF NoSharedBuffer
<1> QED
  BY Invariance, <1>1, PTL

\* What append was given is written in order, on its way in order, or was discarded
\* by the backlog rule, each message once (async_logging.cpp:41-124).
THEOREM AllAccountedForCorrect == Spec => []AllAccountedFor
<1>1. Inv /\ OrderInv /\ IncreasingInv => AllAccountedFor
  <2> SUFFICES ASSUME TypeOK, OrderInv, IncreasingInv PROVE AllAccountedFor
    BY DEF Inv
  <2>1. SetsOK /\ DOMAIN Path = 1..Len(Path)
    BY PathFacts, PathIndexes DEF Along
  <2>2. \A i \in 1..Len(Path) : Sets[i] = Range(content[Path[i]]) /\ Path[i] \in Buffers
    BY <2>1 DEF SetsOK
  <2>3. \A i \in DOMAIN Path :
          Increasing(content[Path[i]]) /\ Before(Range(written), Range(content[Path[i]]))
    BY <2>1, <2>2 DEF OrderInv, Ordered, IncreasingInv
  <2>4. \A i, j \in DOMAIN Path :
          i < j => Before(Range(content[Path[i]]), Range(content[Path[j]]))
    BY <2>1, <2>2 DEF OrderInv, Ordered
  <2>5. Range(written) \cup UNION {Range(content[Path[i]]) : i \in DOMAIN Path}
          = (1..logged) \ dropped
    <3>1. ASSUME NEW m
          PROVE  m \in Range(written) \cup UNION {Range(content[Path[i]]) : i \in DOMAIN Path}
                   <=> m \in (1..logged) \ dropped
      <4>1. (\E i \in 1..Len(Path) : m \in Sets[i])
              <=> m \in UNION {Range(content[Path[i]]) : i \in DOMAIN Path}
        BY <2>1, <2>2
      <4>2. (m \in Range(written) \/ \E i \in 1..Len(Path) : m \in Sets[i])
              <=> (m \in 1..logged /\ m \notin dropped)
        BY DEF OrderInv, Ordered
      <4> QED
        BY <4>1, <4>2
    <3> QED
      BY <3>1
  <2>6. Increasing(written)
    BY DEF IncreasingInv
  <2> QED
    BY <2>3, <2>4, <2>5, <2>6 DEF AllAccountedFor
<1> QED
  BY Invariance, OrderInvariance, <1>1, PTL

\* The log keeps what MessageLog promises: the file only grows, by the oldest
\* messages that wait; what is discarded is one stretch of them, a message has then
\* been waiting for MaxBacklog buffers, and the Keep oldest buffers are spared
\* (async_logging.cpp:83-104).
THEOREM LogSafetyCorrect == Spec => LogSafety
<1>1. Init => Log!LogInit
  BY DEF Init, Log!LogInit
<1>2. Spec => []LogInv
  BY Invariance, OrderInvariance, SpacedInvariance, PTL DEF LogInv
<1> QED
  BY <1>1, <1>2, LogStep, PTL DEF Spec, LogSafety, Log!LogSpec
===============================================================================
