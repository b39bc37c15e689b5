# Shoot in TLA+

Shoot is a multi-reactor web server in C++11 with its own asynchronous log and
timer (`src/`), next to its first version, a thread pool over one epoll
(`version1.0/`). This directory holds TLA+ models of it, TLC runs that check
them on small instances, and TLAPS proofs. Paths are relative to the repository.

## The system

| Part | State | Operations | What makes it correct |
|---|---|---|---|
| `EventLoop`, `Epoll`, `Channel` (`src/net`) | pending functors under a mutex, a flag, an eventfd, one-shot channels, the event array, a map of connections | `loop`, `queue_in_loop`, `run_in_loop`, `do_pending_functions`, `update_channel`, `remove_channel`, `put`, `erase` | a functor queued by any thread runs once, in order, and the loop never sleeps on it; no channel stays disarmed, but for two ways the code has |
| `TCPServer`, `EventLoopPool`, `TCPConnection` (`src/net`) | the listener, the round-robin index, connections shared by three kinds of `shared_ptr` | `handle_new_conn`, `new_event`, `handle_read`, `handle_close`, `destroy_conn` | a descriptor has one owner and is closed once; map, epoll set and connection agree; everybody is accepted, read, reclaimed |
| `Thread`, `CountDownLatch`, `Condition`, `EventLoopThread` | a latch, a `loop_` pointer under a mutex | `EventLoopPool::start`, `Thread::start`, `start_loop`, `thread_func` | no notification is missed; what is handed out is a loop that runs |
| `AsyncLogging`, `Log2File`, `WriteFile` (`src/log`) | current and next buffer, filled buffers, the consumer's buffers, the stdio stream | `append`, `start`, `stop`, `thread_func` | messages are written once, in order, or dropped only by the backlog rule; no buffer has two holders; `stop` returns |
| `Logger`, `LogStream`, `FixedBuffer` (`src/log`) | one line in a stack buffer | `<<`, `convert`, the destructor | numbers are whole, also the least one; the line stays in its buffer |
| `TimerGuard`, `TimerNode` (`src/timer`) | a heap of nodes that share ownership of a connection | `add_time_node`, `handle_overtime` | nothing expires early, everything expires |
| `tools` (`src/net`) | - | `readn`, `writen` | partial reads and writes are continued |
| thread pool, task queue (`version1.0`) | a list under a mutex, a condition | `add`, `worker` | every task runs once; nobody sleeps on a task |
| server, epoll, requests (`version1.0`) | descriptors, requests, a heap of timers, the events of a round | `start`, `handle_conn`, `handle_expire_time_ns`, `do_request` | who uses a request after a timer has deleted it; whom an answer can reach |
| `http.cpp` (`version1.0`) | the two buffers and the parsing state of a request | `http_parse`, `parse_uri`, `parse_analysis`, `read_`, `write_` | the file that was asked for, as long as announced, or no answer |
| `heap.cpp` (`version1.0`) | an array | `pq_insert`, `pq_pop`, `up`, `down` | a priority queue, until the array is full |

How they interact: the main thread runs one `EventLoop` with the listener. Its
read callback accepts one connection, asks `EventLoopPool` for the next sub
loop and gives that loop, through `run_in_loop`, the functor `new_event`. From
then on the connection belongs to the sub loop's thread: its map holds the
`shared_ptr`, its epoll set the channel. The only state shared between loops is
the functor queue of each loop (with its eventfd) and the reference counts.
Every thread logs through `output` into one `AsyncLogging`, whose consumer
thread writes the file. In `version1.0` the main thread owns epoll and the
timers; a request object is pointed to by an epoll event, a timer, the task
list and a worker, none of which owns it.

What is hard: the wake-up of a sleeping loop from other threads; one-shot
events that have to be armed again on every path; the lifetime of a connection
that two threads hold; the reuse of descriptor numbers as map keys; the
exchange of log buffers between producers and consumer under backlog, quiet and
stop; two handshakes per thread at the start; timers that delete what workers
use; system calls that do a part of what they are asked for. `PROJECT.json`
lists the hazards line by line.

## The modules

**`FunctorQueue`** is the abstract specification of an event loop as its users
see it: a FIFO queue of functors that run once, in order and in the end
(`WF(RunNext)`), and functors run at once by the loop's own thread.

**`EventLoop`** is the protocol that implements it. `pc` is the place of the
loop thread in `loop()`: `poll` (in `epoll_wait`), `handle` (between channels),
`handler` (in a channel's callback), `swap`, `run` and `functor` (in
`do_pending_functions`). `QueueInLoop` is the push under `mutex_`; `WakeUp` is
what `queue_in_loop` does after the lock: the test and the write. The thread is
in `notifying` in between. `Poll`, `HandleEvents` and `EnableRead` are
`epoll_wait` with the doubling of the array, `Channel::handle_events` with the
read, and the re-arming with which a callback ends; `BeginPending`,
`SwapPending`, `StartFunctor`, `FinishFunctor`, `EndPending` are the lines of
`do_pending_functions`. `AddChannel` and `RemoveChannel` are `update_channel`
on a new channel and `remove_channel`. A callback may submit functors, register
channels and remove its own. `quit()` is empty, so the loop has no end.

Two ways lead past the re-arming, and `deaf` holds the channels that took one of
them. `IgnoreEvents` is `handle_events` for urgent data alone
(`UrgentReady`): no branch of it calls anything for `EPOLLPRI`.
`ReturnUnarmed` is a callback that returns early, as `handle_new_conn` does at
`TcpServer.cc:65`. The loop does not know which callback a channel has, so any
one but the wake-up channel's may. (`Channel.cc:57-61` returns for a hang-up
without `EPOLLIN`; it arms nothing either, but a socket reports `EPOLLIN` with
every hang-up.)

**`ThreadStart`** is `EventLoopPool::start`: for each thread the latch of
`Thread::start` and the condition of `start_loop`, with spurious wake-ups and a
`pthread_create` that may fail. A critical section is one action, since the
mutex is held for it.

**`TcpServer`** uses loops as `EventLoop` specifies them (FIFO functors;
every readable registered channel that is not deaf is handled in the end) and
adds the connections: `Accept`/`AcceptTooMany`/`AcceptFails` are the outcomes of
`accept` in `handle_new_conn`, `RunInLoop` and `EndNewConn` its rest (the
`shared_ptr` of the main thread goes before the listener is armed again).
`RunFunctor` is `new_event`, `EndBatch` the destruction of the functors' copies
of the pointer, `HandleRead` and `HandleClose` are `handle_read`: one `read` of
at most a buffer (4096 bytes in the code, `BufSegs` segments in the model), one
response for it, and the re-arming; or the end of the stream. Both return into
`Channel::handle_events`, which goes on until `EndHandle`; `handling` says for
which connection. After a close it reads `revent_` of a channel that may have
been destroyed (`Channel.cc:75`). What it reads is undefined; the model takes
the outcome in which it calls nothing, for no callback is set for `EPOLLOUT`.
`HandleUrgent` is `handle_events` on `EPOLLPRI` alone, which calls nothing and
arms nothing. `refs` says who holds a pointer; `Drop` runs the destructor,
which closes the descriptor, when the last goes. Descriptors are given out
lowest first, as the kernel does, so numbers are used again. Clients may
`Shut`, `Reset` and send urgent data (`Urge`). With `SubLoops = <<>>` the main
loop serves the connections itself, inside its own handler.

**`AsyncLogging`** has the buffers as identities that move between
`curr_buffer_`, `next_buffer_`, `buffers_`, the consumer's vector and its two
spares, and `content`, the numbers of the messages each holds. `AppendHere`,
`AppendNext` and `AppendNew` are the branches of `append`. The consumer's
actions are the lines of `thread_func`: `TestRunning`, `WaitSeconds` or
`Collect` (the critical section), `Trim`, `WriteBuffer` (with `Log2File`'s
counter), `EndWrite`, `Refill1`, `Refill2`, `Finish`. The timed wait may end at
any time, so `notify` only hastens and changes no state.

**`MessageLog`** is what such a log promises its users, without threads and
buffers: messages are given to it, the oldest waiting ones are written, the
stream is flushed, and a stretch of the waiting ones is discarded. `Discard`
spares the first `Spared` messages from the oldest waiting one on and happens
only when a message is `Backlog` later than that one. `AsyncLogging` implements
it with `Spared` and `Backlog` counted in full buffers (`Keep` and `MaxBacklog`
of them); as there, every message has the same length.

**`LogStream`** is one line: `append` of texts, which are put into the buffer
whole or not at all, `format_integer` with `convert` as a loop over a number
whose remainders may be negative, and the parts that the destructor of `Logger`
adds. A text is a length, a digit is a digit, because `LineIsSound` reads the
numbers back.

**`TimerGuard`** is the heap as the set of its nodes, with the order of
`timer_cmp` in `PoppedFirst`; which of several equal nodes is on top is left
open. `AddTimeNode` is `add_time_node` with the constructor of `TimerNode`.
`HandleOvertime` is one call of `handle_overtime`: it pops the marked nodes on
top and then at most marks one, because `is_valid` returns `false` for an
expired node too. `clock` is the time of day modulo `Wrap`; `left` is the real
time to a node's deadline and exists for the properties only.

**`SocketIO`** has the loops around `read` and `write` of both versions
(`readn`, `read_`, `writen`, `write_`, and `writen` for memory): one action is
one system call with one of its outcomes. Of the errors it has `EINTR`, `EAGAIN`
and those that a reset leads to. The kernel's buffer, the peer and the
edge of epoll are beside them.

**`TaskQueue`** is the task list with its workers. `Take` keeps the mutex until
`Done`, as the code does, and `Signal` comes after the unlock.
**`RequestServer`** builds the server of `version1.0` on its actions: a round
of the main thread (`EpollWait`, expired timers, the events), descriptors that
`table` maps to connections, requests that timers delete, and the worker's task
in its steps (read, any number of writes, done). A timer may run out at any
time (`TimerDue`), whatever its connection is doing; `Expire` is the main
thread's handling of it, which comes between `epoll_wait` and the events it has
reported. A task that answers writes to whoever has the number now, and each
write that is not the last may be followed by one that fails: nobody has the
number, the connection was reset, or it was closed by a peer that has already
answered a write with a reset, and then `SIGPIPE` may kill the process. `status`
is `undefined` from the use of a deleted request on, since nothing can be said
of what follows. `caught` is a history: the requests that were deleted while
their event or their task was in hand.

**`HttpRequest`** is what happens to the text of one request: `Read` (a part of
the line may have come), `ParseUri`, `Analysis`, `Open`, `Map`, `EndParse`,
while files change. A line is a sequence of `Words`. The code searches for
substrings, so a text can be found inside a longer word: `Inside` says which
(`GET` in `FORGET`). It compares three characters of the version, so what
follows the dot need only begin with 0 or 1: those are the versions in `Known`
(`15` is one). What `find` returns is unsigned, as in the code.

**`TimeHeap`** is the array heap with the loops of `up` and `down` as steps.
`pq_insert` has no test of the size, as in the code; the one that would write
behind the array leads to `overrun`, where the model ends. **`PriorityQueue`** is
what it implements until then.

The `...Proofs` modules hold the theorems; `PartsProofs` those of the three
sequential parts (`TimeHeap`, `LogStream`, `HttpRequest`). The `MC` modules instantiate
the specifications for TLC; `MCParts` puts the three sequential parts side by side,
one per behaviour. A definition marked *Mutant* is a plausible bug that
replaces the definition after it to show that a property would notice it;
nothing else uses it.

## The runs

| Run | Question | Bounds |
|---|---|---|
| `event_loop` | Is a functor ever slept on, lost, repeated or reordered; is a channel forgotten or a removed one reported? | 2 callers and the loop submit 3 functors; 2 I/O channels, one of which may get urgent data, and callbacks that may return without arming; the array starts at 1 (the code: 4096), so 2 or 3 ready channels overflow it. Two callers are enough for every overlap of push and wake-up with each other and with the loop. |
| `thread_start` | Is a notification missed; is anything but a running loop handed out; does the start end? | 12 threads, one after the other. Each handshake is between two threads, so a larger pool repeats it. |
| `tcp_server` | Do maps, epoll sets and descriptor owners agree in every race? | 3 clients, 2 descriptors, 2 sub loops, 2 segments each, one per read; one client may reset its connection, one may send urgent data. Descriptors run out and are reused by another loop. |
| `tcp_server_live` | Is everybody accepted, read and reclaimed; how do answers relate to what was sent? | 2 clients for 1 descriptor; 3 segments each, at most 2 per read, so that what was sent at once takes one read or two; a reset of one, urgent data of the other. |
| `tcp_server_single` | Is every connection reclaimed without a pool and with a descriptor at `MAXFDS`? (The consistency is proved for every pool, this empty one included.) | 3 clients, descriptors 5 and 6, `MAXFDS` 6. |
| `tcp_server_maxfds` | Are clients accepted after one got a descriptor of `MAXFDS` or more? **No** (finding). | as above, with a pool |
| `async_log` | Are messages written in order and exactly once, or accounted as dropped; are buffers ever shared; is anything discarded too early; does `stop` return? | 7 messages, buffers of 2, backlog limit 3 (25), flush every 3 appends (1024): a batch of 4 buffers is reached, so rotation, allocation, trimming, both refills and a forced flush occur. |
| `timer` | Is an object released before the deadline of its last node; is every node set before the wrap popped? | 3 nodes, 1 object, timeouts 0 to 2 ms, a day of 4 ms (10000 s): nodes on every side of the wrap. |
| `timer_wrap` | And those whose time lies beyond the wrap? **No** (finding). | timeouts 0 and 2 ms |
| `request_server` | When is a deleted request used; how can an answer go astray; is every task run, once? | 3 clients for 1 descriptor number, 2 workers; each client may send late or not at all, close or reset, and each timer may run out at any time. The number is used again by the second and the third client, `accept` fails, one worker waits for the other. An answer goes astray only with three connections on one number, so fewer clients would not show it. Clients and workers are alike (`SYMMETRY`). |
| `socket_io` | Are bytes lost, repeated or left without an event; which calls return? | 5 bytes, 2 per read (4096), 3 in the socket, 2 interruptions, 3 calls: every function needs several system calls. |
| `parts` | Heap, log line, request. | heap of 6 nodes (1023) and 3 keys, three levels; 8-bit integers in a 16-byte line (4000) with 3 items; requests of four methods and versions, cut off anywhere, with queries, an unknown version and one that only begins like a known one, a `GET` inside methods and inside URIs (also where the code takes it for its own) and missing files. The heap is filled and overrun. |

`timer` and `timer_wrap` check deadlock. Elsewhere `CHECK_DEADLOCK FALSE` is set
because the systems may really stop: a loop sleeps for ever when nobody has
anything for it, the log ends after `stop`, clients need not come. Bounds that
exist only in the models are `Functors` (each submitted once), `Nodes` (each
added once), `MaxMsgs`, `MaxSegs`, `MaxSignals`, `MaxCalls`, `MaxItems`,
`MaxNumbers`, `MaxPages`, and one connection a client.

### What the properties say

* `NoLostWakeup`: when the loop is in `epoll_wait` with a non-empty queue, the
  wake-up channel is armed and the eventfd counts, or a caller has yet to
  write. `QueueSpec`: `EventLoop` implements `FunctorQueue` under the mapping
  `waiting <- functors \o pending_functions_`, liveness included.
* `NoChannelForgotten`, `NoStaleEvent`, `EventsServed`: a registered one-shot
  channel is armed, reported or in its handler, or it is one of those that the
  loop has let go: reported for urgent data alone, or returned from without
  arming. The wake-up channel is never one of those. What epoll reports is
  registered; a ready channel that has not been let go is handled although the
  array is too small. The comment "write and read maybe a bug when ET"
  (`EventLoop.cc:121`) is answered by the first two with `NoLostWakeup`:
  re-arming after the read looks at the counter again.
* `NoLostNotify`, `LoopsRunning`, `PoolStarts`: whoever sleeps in a handshake
  sleeps on a condition that does not hold yet; the pool has the loops of
  threads that have shown them; the start ends unless a thread could not be
  created.
* `MapMatchesChannels`, `OneOwner`, `DestroyedIsOver`: a registered connection is
  alive and in its loop's map under its own descriptor, nothing else is; live
  descriptors are distinct and every live connection has a holder.
  `DestroyedIsOver`: no step destroys a connection again, none finds a destroyed
  one in a queue, a round, a map or an epoll set, and the only thread that may
  still be at one is the one whose handler has closed it, which goes on in
  `handle_events` (`Channel.cc:75`). That use of a destroyed channel is real,
  and the property does not deny it: it says that there is no other.
* `AnswersRequests`: the server answers reads, not requests. What a client gets
  is at most one answer for each segment it has sent, and at least one for as
  many as fit a buffer; a request longer than 4096 bytes gets several.
* `ListenerArmed`, `AcceptedInTheEnd`, `AnsweredInTheEnd` and
  `ReclaimedInTheEnd` are about the service. They exempt what the code does not
  promise: a client that came when descriptors had run out, a client that reset,
  and a channel made deaf by urgent data.
* `AllAccountedFor`: the written log followed by the buffers on their way
  (`Path`) is strictly increasing and has all messages but the dropped ones.
  `NoSharedBuffer`, `SparesSuffice`, `NothingUnflushed`, `Persisted`,
  `StopReturns` are about the buffers and the progress of the consumer.
  `LogSafety`: `AsyncLogging` implements `MessageLog`; above all, a message is
  discarded only when another has been waiting while `MaxBacklog` buffers filled
  up, and the oldest `Keep` buffers never are. One buffer less in the test
  (`async_logging.cpp:98`) would break it.
* `NoEarlyRelease`: when the timer lets go of an object, the real deadlines of
  all its nodes have passed, also across the wrap. `ExpiresInTheEnd`: every
  node set before the wrap is popped.
* `NoTaskStranded`, `EachTaskOnce`: no task waits while all workers sleep; a
  task is in one place until it is finished. `OneTimerPerRequest`: a live
  request has one timer, a deleted one none, whatever was reset and however
  early a timer ran out.
* `OnlyCaughtAreUsed` says when a deleted request is used. Requests are deleted
  by timers only, 500 ms after the connection was accepted, and nothing is set
  back when a request arrives. A client that connects and sends its request
  more than 500 ms later wakes the main thread, which handles the expired timer
  first (`Server.cpp:33`), deletes the request and then uses it for the event
  (`:35`); a worker that is still at a request, or has yet to begin with it,
  loses it in the same way. The property says that these are the only ways: a
  request deleted at any other time is no longer watched, reported or queued,
  although its number may belong to another connection by then, and none is
  deleted twice.
* `AnswersGoHome` says how an answer can reach the wrong client. A hang-up closes
  the descriptor and leaves the request with its timer (`Server.cpp:68`); when
  the timer runs out it closes the number again, which may by then be another
  connection's, whose request is still at work; and if the number is given out a
  third time, that request's answer goes to the third client. The run reaches
  this. The property says that nothing less does: an answer goes astray only
  when a third connection with the same number was reset and has lost it. No
  timer by itself, however early, and no client that closes leads there.
* `ReadInOrder`, `WrittenInOrder`, `NothingLeftBehind`, `CallReturns`: no byte
  is lost or repeated; an edge-triggered socket is read until nothing is left,
  so that whatever is there afterwards has come after the last read (for the
  descriptors of `version1.0`, which are one-shot and not armed again, this says
  that the one task gets all that had come); and a call returns, a writer's
  whatever the peer does, a reader's when the peer sends no more. Not
  promised: a reader whose peer goes on sending (`tools.cc:81`, `http.cpp:341`
  loop until `EAGAIN`), and `writen` for memory on a full socket.
* `TakesTheLeast` with `HeapOrdered`: `TimeHeap` implements `PriorityQueue` until
  the array is overrun. `LineIsSound`: what is in the line is in its buffer, and
  its numbers read back. `NoThrow`: `substr` is never called with a position
  behind the end, also when `find` has found nothing, which the code does not
  notice (`http.cpp:154`). `AnswersTheRequest`: an answer goes only to what the
  code takes for a good request (`IsTaken`: a whole line, a `GET` somewhere in
  the method, a version that begins with 1.0 or 1.1), names the right file and
  is as long as it announces, although the file may change between `stat`,
  `open` and `mmap`; and such a request for a file that stays as it is gets its
  answer. So `GET /a HTTP/1.1` is served and `GET /a HTTP/1.2` and a line that is
  cut off are not, but `FORGET /a HTTP/1.15` is: see below. Two exceptions are
  the code's: a `Disguised` request, and `favicon.ico`, whose answer is empty.

### Fairness

* `EventLoop`: weak fairness of the loop thread (`LoopStep`) and of each caller
  between push and write (`WakeUp`): both are straight-line code in a scheduled
  thread, and callbacks return, whether or not they have armed their channel.
  Nothing makes a peer send or a thread submit.
  `epoll_wait` may choose any events when not all fit; only the doubling of
  the array makes `EventsServed` hold.
* `ThreadStart`: weak fairness of the starter and of each new thread. Nothing
  makes a spurious wake-up happen.
* `TcpServer`: weak fairness of each thread; strong fairness of the handling of
  each readable channel, because a loop may be kept busy by others again and
  again (a listener polled with no descriptors left). That is what
  `EventsServed` of `EventLoop` establishes for one loop.
* `AsyncLogging`: weak fairness of the consumer (its wait has a timeout of 3 s)
  and of the returns of `start` and `stop`. No fairness of `append` or `Stop`.
* `RequestServer`: none; its properties are about safety. The list of tasks is
  last in, first out (`task_queue.cpp:29-30`), so that a stream of connections
  may starve a task for ever, and `epoll_wait` has no timeout, so that a timer
  waits for the next event: the code promises no progress that could be stated.
* `SocketIO`: weak fairness of the program; the peer need not do anything.
* `TimerGuard`: weak fairness of the clock, and strong fairness of the calls in
  each millisecond of the day: the only user, `timer/test/test.cc`, calls
  `handle_overtime` in an endless loop. A server that called it less often could
  miss the last milliseconds of every day, and with them the nodes that expire
  there.

## The proofs

All are for arbitrary constants, under the named assumption of each module
(distinct threads and channels, an event array that is not empty; two buffers,
a backlog limit of at least 2; a pool in which a loop is not the main one).
Each follows the same plan: an invariant that is a conjunction of named parts,
a lemma for each part with a step per action, and a temporal theorem that puts
them together.

**EventLoop.** `NoLostWakeup` is not inductive: it speaks of `poll` only.
`WakeInv` says for every place that a non-empty queue implies that the loop is
still before the swap, or the eventfd counts, or a thread in `notifying` will
write. The loop's own thread writes only if `handle_pending_functions` is set,
so the invariant also fixes where the flag is set and where the loop thread may
be in `notifying`. `ChannelInv` says that the registered channels are exactly
those armed, reported, in their handler or deaf, that no deaf one is armed, and
that reported ones exist only between `epoll_wait` and `do_pending_functions`.
`ImplementsQueue` proves the safety part of the refinement: a push is an `Enqueue`, taking a functor a
`RunNext`, the swap a stuttering step because the local vector is empty then.

**TcpServer.** `MapMatchesChannels` needs to know where every connection is.
`HolderInv` ties `stage` to `refs` and names the holder of every live
connection (the handler, a queue, a round's functors, a map), `LiveInv` gives
it its own descriptor and loop, `QueueInv` says that the queues are free of
repetitions and that the connection of a functor that has not run is not
registered yet, and `MapInv` that a map entry and a registered channel come and
go together. So `new_event` finds the place of its descriptor empty: the number
is given out again only after the destructor, and the destructor runs after the
erase. `BacklogInv` and `CurInv` are about the listener and the connection that
`handle_new_conn` holds. `SegInv`, on the counters, is part of
`AnswersRequests`, whose other half is inductive by itself.
`ListenerArmed` is proved for descriptors below `MAXFDS`, which is what the
finding shows to be necessary. `DestroyedIsOver` reads `HolderInv` the other
way round: a connection without references is in no place a loop looks at
(`DestroyedUnused`), and only clients that have never been accepted become live.
`HandlingInv` adds that the handler a loop is in belongs to a connection of that
loop.

**AsyncLogging.** `SpareInv` is the accounting behind the recycling: the spare
`next_buffer_` disappears only when a full buffer is queued, hence the batch has
two buffers whenever both consumer spares were given away, and trimming to two
keeps them. Type correctness needs it, for `Collect` moves `new_buffer1` to
`curr_buffer_` without a test and `back()` is called without one. `FlushInv`
gives `NothingUnflushed`. `ApartInv` (no two holders share a buffer) and
`EmptyInv` (spares are empty) give `NoSharedBuffer`. For `AllAccountedFor`,
`OrderInv` says that the sets of messages in the buffers of `Path` follow each
other and the written ones and make up all messages but the dropped; the lemmas
`OrderedJoin`, `OrderedAdd`, `OrderedWrite` and `OrderedDrop` say what
appending to the last set, adding one, writing the first and dropping a stretch
of them do to that, whatever the buffers are, and one lemma per action finds
its case. `ApartInv` is what makes a change to one buffer change one set only,
`EmptyInv` what makes a spare an empty one.

`LogSafetyCorrect` is the refinement of `MessageLog`. That writing appends the
oldest waiting messages and that what is discarded has no gap follows from
`OrderInv` (`PendingOnPath`: what waits is what is on the path). That nothing is
discarded before its time is a matter of how full buffers are when they are
queued, which no earlier invariant says: `RunInv` (a buffer holds consecutive
messages, no more than fit; the current one ends with the latest) and
`SpacedInv` (of the filled buffers each starts a full buffer later than the one
before). The second holds among the filled buffers and, until `Trim`, among
those taken, but not from the one to the other: the current buffer is taken
half full. `SpacedAppend` is its only hard step: a buffer is queued when the
next message does not fit, so it was full.

**TimerGuard.** `NoEarlyRelease` rests on `DeadlineInv`: `over_time_` of a node
in the heap is at least `clock + left`, and a marked node has nothing left. A
tick adds at most one to the clock and takes one from `left`; the wrap only sets
the clock back (`TimeOfDayBounds`). So the wrap can delay a node, never hasten it.

**ThreadStart.** `ThreadInv` ties the place of the starter to those of the
threads: the latch of a thread is shut until it runs, and `loop_` is set only
when the thread is in its loop, after its callback. `OrderInv` says that the
threads are created in the order of the pool.

**RequestServer.** `NoTaskStranded`, `EachTaskOnce` and the types of the queue
are inductive together (`QueueInv`); the same holds for `TaskQueue` under its
own specification (`QueueCorrect`). That the server is a legal user of it is a
refinement: each of its steps is a step of `TaskQueue` or leaves the queue alone
(`ServerUsesQueue`). Inside the server the queue needs `FreshInv`:
a connection is accepted, reported and added once, because its one-shot event is
never armed again, so `Add` never gets a task that is pending. `NewsInv` counts
the listener's edge and its event against the backlog, so that the `accept`
that an event causes finds somebody. `OneTimerPerRequest` is inductive by
itself. `NumberInv` is about descriptor numbers: a number that is in use
stands for the connection of a live request that has this number, a connection
that is watched has its own, and where a live request has lost its number there
is a connection with that number that was reset and has lost it: itself, when
its hang-up was handled, and before that another one. That is what
`AnswersGoHome` comes from: when a task writes to another connection, its request
is live and not on its own number, so there is such a third one, and it stays
lost (`LostStays`). The number is followed from the accept to the task, because
a request with a task was never reported as a hang-up. `OnlyCaughtAreUsed` is
inductive with it and `FreshInv`.

**SocketIO.** `NothingLeftBehind` is inductive with the type of `fn`: a reader
returns only from an empty socket, and bytes that come later set the edge. For
`ReadInOrder` and `WrittenInOrder` (`ByteInv`) the three sequences are one
concatenation that a step divides in another place: `PieceMoved`,
`PieceMovedAtEnd` and `NextPieceMoved` are the ways to do so, stated for any
sequences. `Cat` names the concatenation and is expanded in the lemmas only.
`LenInv` keeps `count` within the buffer, so that the rest of a string is a
suffix of it.

**TimeHeap.** The heap is in order except at `pos`: during `up` with
the parent, during `down` with the children, where the children of `pos` are in
order with its parent; that makes `HeapOrdered` inductive for every size. What
`up` and `down` compare and exchange are nodes in use, which are in the array
(`InsideArrayCorrect`), so the one step that leaves it is the insertion into a
full one. `TakesTheLeast` counts the places of each
key: an exchange gives up one place for another (`CountMoved`), `pq_insert` adds
one, `pq_pop` removes one of the root's key. That the root has a least key
(`RootIsLeast`) needs an induction over the array, which is made from a library
theorem that needs no operator: finite sets are well-founded under inclusion,
hence so are the intervals up to the places, and among the places smaller than
the root there would be a first one (`LeastNumber`).

**LogStream.** `LineIsSound` needs that what `convert` writes reads back. Both
sides are recursive functions, and for those the prover knows only the `CHOOSE`
they stand for: that a function with such an equation exists, and that it is
unique, is proved by the least counterexample (`LeastNumber` again), for the
numbers up to a bound (`DigitsExist`, `DigitsUnique`) and for the positions of a
sequence (`UptoExists`, `UptoUnique`). `LsdsRead` says that the reversed digits
of a number read as its size, for negative remainders too; so the least integer
needs no case of its own. `LineInv` adds that each number that was put into the
line is still at its place: what is written later goes behind it (`Behind`).
`NumbersFit`, that a number is shorter than the room it asks for, is the
assumption on `number_size_limit` under which no line overruns its buffer; TLC
evaluates it for the run. `LogTypeCorrect` has the bounds: the line leaves a byte
of its buffer free, and the NUL that ends a number is still inside it.

**HttpRequest.** The operations of `std::string` come first: where `find` finds
(`FindAt`, `FindNone`), what `substr` cuts out (`SubstrIs`), and what the
unsigned difference of two positions is (`Wraps`). `RequestLineIs` describes the
part of the line that has come, token by token. Then there are two cases: of a
request with no `GET` in its method nothing passes the parser unless it is
disguised (`OtherMethods`), and one with a `GET` there passes it if and only if
it is whole and of a known version, with the URI without its query
(`GetRequests`). `HttpInv` carries that through
`Analysis`, `Open` and `Map`, together with what is known of the file: the size
from `stat` is compared with the one at `mmap`, and `trouble` remembers
whether a file has changed or a system call has failed. `Positions` says where
`find` may lead the two calls of `substr`, and `NoThrow` follows from it. The
assumption of the module says that the separators are in no method, version or URI, as in a request that a browser
makes, and that no `GET` stands after the URI.

Only model-checked: all liveness, that is the properties with `~>` or `<>` and
the liveness part of `QueueSpec`, since fairness and `ENABLED` are beyond the
prover. Every safety property that a run checks is also a theorem, and the type
invariants are theorems or, for the heap and the request, parts of the inductive
invariant.

## What the code does otherwise than it says

Shown by a run: a descriptor of `MAXFDS` or more silences the listener for good
(`tcp_server_maxfds`), and nodes whose time lies beyond the wrap of the time of
day never expire (`timer_wrap`).

Seen on the way, with no run of their own:

* `http.cpp:159` looks for `GET` anywhere in the request line, so that the
  method is not what stands at its beginning: `PUT /GET/a HTTP/1.1` is served as
  a GET of `a`, a POST likewise, and `FORGET /a HTTP/1.1` too. Of the version
  `:202` compares three characters: `HTTP/1.15` is taken for 1.1.
  `AnswersTheRequest` says so (`Disguised`, `IsTaken`); the proof shows that no
  other requests pass.
* A client that sends its request more than 500 ms after it has connected makes
  the main thread of `version1.0` use a deleted request (`Server.cpp:33-35`,
  `OnlyCaughtAreUsed`).
* A hang-up closes a descriptor that the timer closes again (`Server.cpp:68`,
  `AnswersGoHome`).
* `version1.0` does not ignore `SIGPIPE`: the second part of an answer to a client
  that has gone may kill it (`http.cpp:313`).
* The task list of `version1.0` is a stack (`task_queue.cpp:29-30`).
* `heap.cpp:21` adds a node without a look at `HEAPSIZE`: with 1024 timers the
  array is overrun.
* `async_logging.cpp:95-96` says that a dropped backlog is reported in the log;
  nothing is written (`:98-100`). `dropped` in the model is a history variable,
  not a message.
* `TcpServer.cc:85-86` says that the main thread reclaims connections; the sub
  loop does (`TcpConnection.cc:182`), and `remove_conn` has no caller.
* `TcpConnection.cc:45` assumes that a request can be read in one go: each read
  of at most 4096 bytes is answered as if it were a request (`:48-51`).
* `Channel.cc:75` reads a member of a channel that the callback before may have
  destroyed.
* `readn` for memory returns after its first read, always to the beginning of
  the buffer, and returns nothing at the end of the stream (`tools.cc:50-75`);
  it has no caller.
* `HTTPParse` takes a request for a POST by `buf[1]` (`http_parse.cc:10-15`)
  and builds the file name backwards (`:35`); it has no caller either.
* The newline that ends a log line is dropped like any text when the line is
  full (`logger.cpp:32`).
* A file that shrinks between `stat` and `mmap` kills the server of
  `version1.0` when its pages are read (`http.cpp:292`); `HttpRequest` has it
  as `killed`.

## What is left to do

* The composition of several instances of `EventLoop` with `TcpServer`, in place
  of the loops that `TcpServer` takes as they are specified: out of TLC's reach
  with more than one connection.

## Not modelled, and why

* The destructors of `EventLoopThread`, `EventLoopPool`, `TCPServer` and of the
  log, with their joins: no program reaches them, and `quit()` is empty. The
  end of the process loses what is in the log's buffers.
* `HTTPParse`, `handle_write`, `remove_conn`, `readn` for memory have no
  caller. `BlockingQueue` is not used and does not compile.
* A system time that is set by hand (`gettimeofday` is not monotonic), negative
  timeouts, and the holders of an object outside the timer.
* The content of freed memory: what `Channel.cc:75` reads of a `Channel` that the
  callback before has destroyed (`TcpServer` has that it does, and goes on as
  after no callback), and what `version1.0` does with a deleted request
  (`RequestServer` has that it does, and ends there).
* In `SocketIO`: errors other than those of a reset. In `RequestServer`: the
  descriptors that a worker opens for a file; they take numbers like the
  connections.
* In `TcpServer`: repeated errors of `read` and partial writes of responses,
  whose result the code ignores; lengths of segments and responses.
* Failure of memory; failure of the log's own thread (`start` would wait for
  its latch for ever, as `start_loop` does in `ThreadStart`); a full disk
  (`file2disk.cpp:20`).
* The set-up of sockets, and the header lines that `version1.0` skips.
* The test drivers and build files: they have no assertions and were read for
  how the classes are used.
