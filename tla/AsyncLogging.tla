----------------------------- MODULE AsyncLogging -----------------------------
(***************************************************************************)
(* The asynchronous log (src/log/async_logging.cpp): threads append to a   *)
(* current buffer under mutex_, a consumer thread takes the filled buffers *)
(* away, writes them with Log2File and gives two of them back as spares.   *)
(*                                                                         *)
(* Messages are numbered in the order append took the lock.  Buffers have  *)
(* identities, because the code moves and shares pointers to them; what a  *)
(* buffer holds is the sequence of the messages in it, each of length 1.   *)
(*                                                                         *)
(* cond_.wait_seconds is a timed wait: it may end at any moment, whether   *)
(* signalled or not, so notify() changes no state here.  The consumer's    *)
(* steps outside the lock touch only what it owns.                         *)
(***************************************************************************)
EXTENDS Naturals, Sequences, SequencesExt

CONSTANTS
  Buffers,     \* the FixedBuffers that can be allocated
  Null,        \* an empty shared_ptr
  SIZE,        \* the size of a buffer, in messages (large_buffer)
  MaxBacklog,  \* async_logging.cpp:98, 25 in the code
  FlushFreq,   \* Log2File::flush_freq_
  MaxMsgs      \* bound: how many messages are logged

\* Mutant: one buffer is kept.
KeepOne == 1

\* The code keeps the first Keep buffers of a backlog, and as many as spares.
Keep == 2

ASSUME ConstantsAssumption ==
  /\ Null \notin Buffers
  /\ \E b1, b2 \in Buffers : b1 # b2
  /\ SIZE \in Nat /\ SIZE > 1
  /\ MaxBacklog \in Nat /\ MaxBacklog >= Keep
  /\ FlushFreq \in Nat \ {0}
  /\ MaxMsgs \in Nat

VARIABLES
  running,
  owner,             \* the thread that calls start() and stop(): where it is
  cpc,               \* the consumer thread: where in thread_func it is
  curr_buffer_, next_buffer_,
  buffers_,          \* filled and not taken, under mutex_
  new_buffer1, new_buffer2,
  buffers_to_write,  \* taken by the consumer
  index,             \* i of the writing loop
  content,           \* what each buffer holds
  written,           \* the messages handed to stdio, in order
  flushed,           \* how many of them an fflush has pushed to the file
  count_,            \* Log2File: appends since its last own flush
  logged,            \* how many messages append was given
  dropped            \* history: the messages the backlog rule discarded

producerVars == <<curr_buffer_, next_buffer_, buffers_>>
consumerVars == <<new_buffer1, new_buffer2, buffers_to_write, index>>
fileVars     == <<written, flushed, count_>>
vars == <<running, owner, cpc, producerVars, consumerVars, content, fileVars, logged, dropped>>

Messages == 1..MaxMsgs

TypeOK ==
  /\ running \in BOOLEAN
  /\ owner \in {"new", "starting", "started", "stopping", "stopped"}
  /\ cpc \in {"none", "created", "head", "lock", "waiting", "trim", "write",
              "refill1", "refill2", "tail", "done"}
  /\ curr_buffer_ \in Buffers
  /\ {next_buffer_, new_buffer1, new_buffer2} \subseteq Buffers \cup {Null}
  /\ buffers_ \in Seq(Buffers)
  /\ buffers_to_write \in Seq(Buffers)
  /\ index \in Nat \ {0}
  /\ content \in [Buffers -> Seq(Messages)]
  /\ written \in Seq(Messages)
  /\ flushed \in Nat
  /\ count_ \in 0..(FlushFreq - 1)
  /\ logged \in 0..MaxMsgs
  /\ dropped \subseteq Messages

\* Who holds a buffer; the others are not allocated.
Held == {curr_buffer_, next_buffer_, new_buffer1, new_buffer2}
          \cup Range(buffers_) \cup Range(buffers_to_write)

Unused == Buffers \ Held

\* Two fresh buffers.  Which ones the allocator returns makes no difference.
Pairs(S) == {p \in S \X S : p[1] # p[2]}
Fresh(S) == CHOOSE p \in Pairs(S) : TRUE

Init ==
  /\ running = FALSE
  /\ owner = "new"
  /\ cpc = "none"
  /\ curr_buffer_ = Fresh(Buffers)[1]
  /\ next_buffer_ = Fresh(Buffers)[2]
  /\ buffers_ = <<>>
  /\ new_buffer1 = Null
  /\ new_buffer2 = Null
  /\ buffers_to_write = <<>>
  /\ index = 1
  /\ content = [b \in Buffers |-> <<>>]
  /\ written = <<>>
  /\ flushed = 0
  /\ count_ = 0
  /\ logged = 0
  /\ dropped = {}

-----------------------------------------------------------------------------
(* start() and stop() *)

Start ==
  /\ owner = "new"
  /\ running' = TRUE
  /\ cpc' = "created"
  /\ owner' = "starting"
  /\ UNCHANGED <<producerVars, consumerVars, content, fileVars, logged, dropped>>

\* latch_.wait() returns once the thread has counted the latch down.
StartReturn ==
  /\ owner = "starting"
  /\ cpc # "created"
  /\ owner' = "started"
  /\ UNCHANGED <<running, cpc, producerVars, consumerVars, content, fileVars, logged, dropped>>

Stop ==
  /\ owner = "started"
  /\ running' = FALSE
  /\ owner' = "stopping"
  /\ UNCHANGED <<cpc, producerVars, consumerVars, content, fileVars, logged, dropped>>

\* thread_.join().
StopReturn ==
  /\ owner = "stopping"
  /\ cpc = "done"
  /\ owner' = "stopped"
  /\ UNCHANGED <<running, cpc, producerVars, consumerVars, content, fileVars, logged, dropped>>

-----------------------------------------------------------------------------
(* append(), by any thread, under mutex_ *)

\* FixedBuffer::avail() > len: a buffer is never filled to its last byte.
Fits(b) == SIZE - Len(content[b]) > 1

\* Threads log between start() and the end of stop().
MayAppend ==
  /\ owner \in {"started", "stopping"}
  /\ logged < MaxMsgs
  /\ logged' = logged + 1

AppendHere ==
  /\ MayAppend
  /\ Fits(curr_buffer_)
  /\ content' = [content EXCEPT ![curr_buffer_] = Append(@, logged')]
  /\ UNCHANGED <<running, owner, cpc, producerVars, consumerVars, fileVars, dropped>>

\* The full buffer is queued and the spare takes its place.
AppendNext ==
  /\ MayAppend
  /\ ~Fits(curr_buffer_)
  /\ next_buffer_ # Null
  /\ buffers_' = Append(buffers_, curr_buffer_)
  /\ curr_buffer_' = next_buffer_
  /\ next_buffer_' = Null
  /\ content' = [content EXCEPT ![next_buffer_] = Append(@, logged')]
  /\ UNCHANGED <<running, owner, cpc, consumerVars, fileVars, dropped>>

\* There is no spare: a new buffer.
AppendNew ==
  /\ MayAppend
  /\ ~Fits(curr_buffer_)
  /\ next_buffer_ = Null
  /\ Unused # {}
  /\ buffers_' = Append(buffers_, curr_buffer_)
  /\ curr_buffer_' = CHOOSE b \in Unused : TRUE
  /\ content' = [content EXCEPT ![curr_buffer_'] = <<logged'>>]
  /\ UNCHANGED <<running, owner, cpc, next_buffer_, consumerVars, fileVars, dropped>>

-----------------------------------------------------------------------------
(* thread_func(), the consumer *)

ThreadFunc ==
  /\ cpc = "created"
  /\ Pairs(Unused) # {}
  /\ new_buffer1' = Fresh(Unused)[1]
  /\ new_buffer2' = Fresh(Unused)[2]
  /\ cpc' = "head"
  /\ UNCHANGED <<running, owner, producerVars, buffers_to_write, index, content,
                 fileVars, logged, dropped>>

TestRunning ==
  /\ cpc = "head"
  /\ cpc' = IF running THEN "lock" ELSE "tail"
  /\ UNCHANGED <<running, owner, producerVars, consumerVars, content, fileVars, logged, dropped>>

\* Under the lock: the wait, which gives the lock up, or straight on to Collect.
WaitSeconds ==
  /\ cpc = "lock"
  /\ buffers_ = <<>>
  /\ cpc' = "waiting"
  /\ UNCHANGED <<running, owner, producerVars, consumerVars, content, fileVars, logged, dropped>>

\* Mutant: the wait is a while on the empty queue.
AwakeIfFilled == cpc = "waiting" /\ buffers_ # <<>>

\* The wait is left on a signal, on the timeout, or for no reason.
Awake == cpc = "waiting"

\* The rest of the critical section.
Collect ==
  /\ Awake \/ (cpc = "lock" /\ buffers_ # <<>>)
  /\ buffers_to_write' = Append(buffers_, curr_buffer_)
  /\ buffers_' = buffers_to_write
  /\ curr_buffer_' = new_buffer1
  /\ new_buffer1' = Null
  /\ next_buffer_' = IF next_buffer_ = Null THEN new_buffer2 ELSE next_buffer_
  /\ new_buffer2' = IF next_buffer_ = Null THEN Null ELSE new_buffer2
  /\ cpc' = "trim"
  /\ UNCHANGED <<running, owner, index, content, fileVars, logged, dropped>>

\* Mutant: the limit itself counts as too long.
AtLimit == Len(buffers_to_write) >= MaxBacklog

TooLong == Len(buffers_to_write) > MaxBacklog

\* Too long a backlog: all but its first buffers are discarded.
Trim ==
  /\ cpc = "trim"
  /\ IF TooLong
       THEN /\ buffers_to_write' = SubSeq(buffers_to_write, 1, Keep)
            /\ dropped' = dropped \cup
                 UNION {Range(content[buffers_to_write[i]]) :
                          i \in (Keep + 1)..Len(buffers_to_write)}
       ELSE UNCHANGED <<buffers_to_write, dropped>>
  /\ index' = 1
  /\ cpc' = "write"
  /\ UNCHANGED <<running, owner, producerVars, new_buffer1, new_buffer2, content, fileVars, logged>>

\* Mutant: the loop stops one buffer early.
AllButOne == index < Len(buffers_to_write)

MoreToWrite == index <= Len(buffers_to_write)

NextCount == IF count_ + 1 >= FlushFreq THEN 0 ELSE count_ + 1

\* output.append: WriteFile::append hands everything to stdio, and every
\* FlushFreq-th call flushes.
WriteBuffer ==
  /\ cpc = "write"
  /\ MoreToWrite
  /\ written' = written \o content[buffers_to_write[index]]
  /\ index' = index + 1
  /\ count_' = NextCount
  /\ flushed' = IF count_' = 0 THEN Len(written') ELSE flushed
  /\ UNCHANGED <<running, owner, cpc, producerVars, new_buffer1, new_buffer2,
                 buffers_to_write, content, logged, dropped>>

EndWrite ==
  /\ cpc = "write"
  /\ ~MoreToWrite
  /\ buffers_to_write' = IF Len(buffers_to_write) > Keep
                           THEN SubSeq(buffers_to_write, 1, Keep)
                           ELSE buffers_to_write
  /\ cpc' = "refill1"
  /\ UNCHANGED <<running, owner, producerVars, new_buffer1, new_buffer2, index, content,
                 fileVars, logged, dropped>>

\* Mutant: back() without pop_back().
NotPopped(s) == s

PopBack(s) == Front(s)

\* back(), pop_back() and reset(): a written buffer becomes the first spare ...
Refill1 ==
  /\ cpc = "refill1"
  /\ IF new_buffer1 = Null
       THEN /\ new_buffer1' = Last(buffers_to_write)
            /\ buffers_to_write' = PopBack(buffers_to_write)
            /\ content' = [content EXCEPT ![new_buffer1'] = <<>>]
       ELSE UNCHANGED <<new_buffer1, buffers_to_write, content>>
  /\ cpc' = "refill2"
  /\ UNCHANGED <<running, owner, producerVars, new_buffer2, index, fileVars, logged, dropped>>

\* Mutant: no flush.
NotFlushed == flushed

\* Log2File::flush.
Flush == Len(written)

\* ... and another one the second, if that was used; clear() and flush().
Refill2 ==
  /\ cpc = "refill2"
  /\ IF new_buffer2 = Null
       THEN /\ new_buffer2' = Last(buffers_to_write)
            /\ content' = [content EXCEPT ![new_buffer2'] = <<>>]
       ELSE UNCHANGED <<new_buffer2, content>>
  /\ buffers_to_write' = <<>>
  /\ flushed' = Flush
  /\ cpc' = "head"
  /\ UNCHANGED <<running, owner, producerVars, new_buffer1, index, written, count_,
                 logged, dropped>>

\* The flush after the loop; the thread ends and its locals are destroyed.
Finish ==
  /\ cpc = "tail"
  /\ flushed' = Flush
  /\ new_buffer1' = Null
  /\ new_buffer2' = Null
  /\ cpc' = "done"
  /\ UNCHANGED <<running, owner, producerVars, buffers_to_write, index, content,
                 written, count_, logged, dropped>>

-----------------------------------------------------------------------------

AppendLog == AppendHere \/ AppendNext \/ AppendNew

Consumer ==
  \/ ThreadFunc \/ TestRunning \/ WaitSeconds \/ Collect \/ Trim
  \/ WriteBuffer \/ EndWrite \/ Refill1 \/ Refill2 \/ Finish

Next ==
  \/ Consumer
  \/ AppendLog
  \/ Start \/ StartReturn \/ Stop \/ StopReturn

\* The consumer is scheduled, and its timed wait ends; a call in progress
\* goes on.  Nobody has to log or to call start() or stop().
Fairness == WF_vars(Consumer) /\ WF_vars(StartReturn) /\ WF_vars(StopReturn)

Spec == Init /\ [][Next]_vars /\ Fairness

-----------------------------------------------------------------------------
(* Properties *)

\* The buffers on their way to the file, oldest first: those taken and not written
\* yet, the filled ones, the current one.
Taken ==
  IF cpc \in {"trim", "write"}
    THEN SubSeq(buffers_to_write, IF cpc = "write" THEN index ELSE 1, Len(buffers_to_write))
    ELSE <<>>

Path == Append(Taken \o buffers_, curr_buffer_)

Increasing(s) == \A i, j \in DOMAIN s : i < j => s[i] < s[j]

\* Every message of S is older than every one of T.
Before(S, T) == \A m \in S, n \in T : m < n

\* The log is in order, and every message append was given is written, on its
\* way, or was discarded by the backlog rule: the moves of buffers between the
\* threads lose, repeat and reorder nothing (async_logging.cpp:41-124).
AllAccountedFor ==
  LET held(i) == Range(content[Path[i]])
  IN /\ Increasing(written)
     /\ \A i \in DOMAIN Path : Increasing(content[Path[i]]) /\ Before(Range(written), held(i))
     /\ \A i, j \in DOMAIN Path : i < j => Before(held(i), held(j))
     /\ Range(written) \cup UNION {held(i) : i \in DOMAIN Path} = (1..logged) \ dropped

\* Who holds one buffer at most.
Slots == <<curr_buffer_, next_buffer_, new_buffer1, new_buffer2>>

\* No two holders share a buffer, and the spares are empty: append never writes
\* into a buffer the consumer is writing out, although all are shared_ptrs
\* (async_logging.cpp:83-91, 111-121).
NoSharedBuffer ==
  /\ \A i, j \in DOMAIN Slots : Slots[i] = Slots[j] => i = j \/ Slots[i] = Null
  /\ IsInjective(buffers_) /\ IsInjective(buffers_to_write)
  /\ Range(buffers_) \cap Range(buffers_to_write) = {}
  /\ Range(Slots) \cap (Range(buffers_) \cup Range(buffers_to_write)) = {}
  /\ \A b \in {next_buffer_, new_buffer1, new_buffer2} \ {Null} : content[b] = <<>>

\* The consumer never runs out of buffers to recycle: new_buffer1 is there
\* when the critical section moves it to curr_buffer_, and back() is never
\* called on an empty vector (async_logging.cpp:86, 111-121).
SparesSuffice ==
  /\ cpc \in {"head", "lock", "waiting"} => Null \notin {new_buffer1, new_buffer2}
  /\ cpc = "refill1" /\ new_buffer1 = Null => buffers_to_write # <<>>
  /\ cpc = "refill2" /\ new_buffer2 = Null => buffers_to_write # <<>>

\* While the consumer waits, or after stop(), nothing that was written is left
\* in the stdio buffer (async_logging.cpp:123, 125).
NothingUnflushed ==
  cpc \in {"lock", "waiting", "done"} => flushed = Len(written)

\* The messages of a full buffer.
Capacity == SIZE - 1

Log == INSTANCE MessageLog
         WITH Backlog <- MaxBacklog * Capacity, Spared <- Keep * Capacity

\* The log keeps the promises of MessageLog: it only ever appends the oldest
\* messages that wait, and discards some only when more than MaxBacklog buffers
\* had filled up (async_logging.cpp:83-104).
LogSafety == Log!LogSpec

\* A message reaches the file, or is discarded, while the log is running.
Persisted ==
  \A m \in Messages :
    (logged >= m) ~> \/ m \in Range(SubSeq(written, 1, flushed))
                     \/ m \in dropped
                     \/ ~running

\* stop() returns, wherever the consumer is when it is called: the notify is
\* not under the lock, but the wait is timed (async_logging.cpp:24-28, 81).
StopReturns == (owner = "stopping") ~> (owner = "stopped")
===============================================================================
