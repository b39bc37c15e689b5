------------------------------ MODULE SocketIO ------------------------------
(***************************************************************************)
(* The loops around read and write: readn and writen of net/tools.cc, and  *)
(* read_, write_ and http_write of version1.0/http.cpp.  A step is one     *)
(* system call with its outcome: some bytes, EINTR, EAGAIN, the error of a *)
(* reset, the end of the stream.  The socket is non-blocking and           *)
(* edge-triggered, and the peer goes on while the function runs.  Other    *)
(* errors (ENOBUFS, say) are not modelled.                                 *)
(*                                                                         *)
(* A byte is the number of its place in the message.                       *)
(***************************************************************************)
EXTENDS Integers, SequencesExt

CONSTANTS
  Length,      \* of the message
  BUF_SIZE,    \* how much one read takes at most
  SocketSize,  \* how many bytes the kernel holds
  MaxSignals,  \* bound: how many system calls are interrupted
  MaxCalls     \* bound: how often the function is called

ASSUME SocketAssumption ==
  /\ {Length, BUF_SIZE, SocketSize} \subseteq Nat \ {0}
  /\ {MaxSignals, MaxCalls} \subseteq Nat

Readers == {"readn", "read_"}
Writers == {"writen", "write_", "writenAll"}
Functions == Readers \cup Writers

Message == [i \in 1 .. Length |-> i]

VARIABLES
  fn,       \* the function that is called on this descriptor
  busy,     \* whether a call is going on
  calls,    \* how many calls there have been
  buf,      \* _in_buf, _out_buf, or the memory to be written
  count,    \* read_cnt or write_cnt
  ret,      \* what the last call has returned
  kernel,   \* the bytes in the socket
  far,      \* what the peer has still to send, or has got
  peer,     \* what it has done with the connection
  signals,  \* how many system calls have been interrupted
  edge      \* whether bytes have come since epoll last reported some

io == <<buf, count, kernel>>
world == <<far, peer, edge>>
vars == <<fn, busy, calls, io, ret, world, signals>>

TypeOK ==
  /\ fn \in Functions
  /\ busy \in BOOLEAN
  /\ calls \in 0 .. MaxCalls
  /\ buf \in Seq(1 .. Length)
  /\ count \in 0 .. Length
  /\ ret \in -1 .. Length
  /\ kernel \in Seq(1 .. Length)
  /\ far \in Seq(1 .. Length)
  /\ peer \in {"open", "fin", "rst"}
  /\ signals \in 0 .. MaxSignals
  /\ edge \in BOOLEAN

Init ==
  /\ fn \in Functions
  /\ busy = FALSE
  /\ calls = 0
  /\ buf = IF fn \in Readers THEN <<>> ELSE Message
  /\ count = 0
  /\ ret = 0
  /\ kernel = <<>>
  /\ far = IF fn \in Readers THEN Message ELSE <<>>
  /\ peer = "open"
  /\ signals = 0
  /\ edge = FALSE

First(s, k) == SubSeq(s, 1, k)
From(s, k) == SubSeq(s, k + 1, Len(s))
Least(m, n) == IF m < n THEN m ELSE n

-----------------------------------------------------------------------------
(* The peer. *)

Arrive ==
  /\ fn \in Readers /\ peer = "open"
  /\ \E k \in 1 .. Least(Len(far), SocketSize - Len(kernel)) :
       /\ kernel' = kernel \o First(far, k)
       /\ far' = From(far, k)
  /\ edge' = TRUE
  /\ UNCHANGED <<fn, busy, calls, buf, count, ret, peer, signals>>

PeerReads ==
  /\ fn \in Writers /\ peer = "open"
  /\ \E k \in 1 .. Len(kernel) :
       /\ far' = far \o First(kernel, k)
       /\ kernel' = From(kernel, k)
  /\ UNCHANGED <<fn, busy, calls, buf, count, ret, peer, edge, signals>>

\* What has come can be read before the end, or before the error of a reset;
\* what was to be sent is lost with a reset.
Leave ==
  /\ peer = "open"
  /\ \/ peer' = "fin" /\ fn \in Readers /\ UNCHANGED kernel
     \/ peer' = "rst" /\ kernel' = IF fn \in Readers THEN kernel ELSE <<>>
  /\ edge' = TRUE
  /\ UNCHANGED <<fn, busy, calls, buf, count, ret, far, signals>>

\* The outcomes of a system call.
Interrupted == signals < MaxSignals /\ signals' = signals + 1
ReadBlocks == kernel = <<>> /\ peer = "open" /\ UNCHANGED signals
WriteBlocks == Len(kernel) = SocketSize /\ peer = "open" /\ UNCHANGED signals
Fails == kernel = <<>> /\ peer = "rst" /\ UNCHANGED signals
Ends == kernel = <<>> /\ peer = "fin" /\ UNCHANGED signals

Got(k) ==
  /\ k \in 1 .. Least(Len(kernel), BUF_SIZE)
  /\ kernel' = From(kernel, k)
  /\ UNCHANGED signals

Put(k) ==
  /\ peer = "open"
  /\ k \in 1 .. Least(Len(buf) - count, SocketSize - Len(kernel))
  /\ kernel' = kernel \o SubSeq(buf, count + 1, count + k)
  /\ UNCHANGED signals

-----------------------------------------------------------------------------
(* The program. *)

\* An event, or a second attempt with what is left of the message.
Call ==
  /\ ~busy /\ calls < MaxCalls
  /\ fn \in Readers => edge
  /\ fn = "writenAll" => calls = 0
  /\ busy' = TRUE
  /\ calls' = calls + 1
  /\ count' = 0
  /\ edge' = FALSE
  /\ UNCHANGED <<fn, buf, ret, kernel, far, peer, signals>>

Calling(f) == busy /\ fn = f
Goes == UNCHANGED <<fn, busy, calls, ret, world>>
Return(r) == busy' = FALSE /\ ret' = r /\ UNCHANGED <<fn, calls, world>>

\* Mutant: the loop ends when there has been something to read.
ReadsOnce(k) == Return(count + k)

\* There may be more: read again.
ReadsOn(k) == Goes

\* Mutant: what is read replaces what is in the buffer.
Overwritten(k) == First(kernel, k)

\* What is read goes to the end of the buffer.
Appended(k) == buf \o First(kernel, k)

ReadSome ==
  \E k \in 1 .. Length :
    /\ Got(k)
    /\ buf' = Appended(k)
    /\ count' = count + k
    /\ ReadsOn(k)

\* The end of the stream sets zero, and 0 is returned whatever was read before.
readn ==
  /\ Calling("readn")
  /\ \/ ReadSome
     \/ Interrupted /\ Goes /\ UNCHANGED io
     \/ ReadBlocks /\ Return(count) /\ UNCHANGED io
     \/ Fails /\ Return(-1) /\ UNCHANGED io
     \/ Ends /\ Return(0) /\ UNCHANGED io

\* read_ returns what it has read before the end of the stream.
read_ ==
  /\ Calling("read_")
  /\ \/ ReadSome
     \/ Interrupted /\ Goes /\ UNCHANGED io
     \/ ReadBlocks /\ Return(count) /\ UNCHANGED io
     \/ Fails /\ Return(-1) /\ UNCHANGED io
     \/ Ends /\ Return(count) /\ UNCHANGED io

WriteSome ==
  \E k \in 1 .. Length :
    /\ Put(k)
    /\ count' = count + k
    /\ Goes
    /\ UNCHANGED buf

\* Mutant: the buffer is emptied whether or not everything was written.
DropsRest == buf' = <<>>

\* The buffer keeps what was not written.
KeepsRest == buf' = From(buf, count)

\* Mutant: the string is tried again while the socket is full.
SpinsWhenFull == Goes /\ UNCHANGED io

\* EAGAIN ends the loop as if everything had been written.
StopsWhenFull == KeepsRest /\ Return(count) /\ UNCHANGED <<count, kernel>>

\* The loop for a string: it stops when the socket is full, and an error leaves
\* the string as it was.
WriteString ==
  \/ /\ count < Len(buf)
     /\ \/ WriteSome
        \/ Interrupted /\ Goes /\ UNCHANGED io
        \/ WriteBlocks /\ StopsWhenFull
        \/ Fails /\ Return(-1) /\ UNCHANGED io
  \/ /\ count = Len(buf)
     /\ KeepsRest /\ Return(count)
     /\ UNCHANGED <<count, kernel, signals>>

writen == Calling("writen") /\ WriteString

\* write_, and http_write, which does nothing about a rest or an error.
write_ == Calling("write_") /\ WriteString

\* writen for memory: it tries again while the socket is full.
writenAll ==
  /\ Calling("writenAll")
  /\ \/ /\ count < Len(buf)
        /\ \/ WriteSome
           \/ (Interrupted \/ WriteBlocks) /\ Goes /\ UNCHANGED io
           \/ Fails /\ Return(-1) /\ UNCHANGED io
     \/ /\ count = Len(buf)
        /\ Return(count)
        /\ UNCHANGED <<io, signals>>

Program == readn \/ read_ \/ writen \/ write_ \/ writenAll

Next == Arrive \/ PeerReads \/ Leave \/ Call \/ Program

\* The thread is scheduled; the peer need not do anything.
Spec == Init /\ [][Next]_vars /\ WF_vars(Program)

-----------------------------------------------------------------------------

\* A reader has what the peer has sent, in order and once, but for what is in the
\* socket, also when it was interrupted, blocked, cut off or reset in between.
ReadInOrder ==
  fn \in Readers => buf \o kernel \o far = Message

\* What a writer has still to write.
Rest ==
  IF busy THEN From(buf, count)
  ELSE IF fn = "writenAll" /\ calls > 0 THEN <<>> ELSE buf

\* The peer gets a beginning of the message, and what it has, what is in the
\* socket and what the program still holds are the message: a string that was
\* written in part can be written again, and a full return value is true.  After a
\* reset nothing more is sent; after another error, which is not modelled, a string
\* that was written in part would be as it was, and a second attempt would send
\* that part again.
WrittenInOrder ==
  fn \in Writers =>
    /\ IsPrefix(far, Message)
    /\ peer # "rst" => far \o kernel \o Rest = Message

\* A reader that returns leaves nothing in the socket that epoll has reported:
\* what is there has come since, and is an edge that epoll can still report.
\* TcpConnection arms its descriptor again and gets that event; the descriptor of
\* version1.0 is one-shot and never armed again, so that what read_ did not find
\* stays where it is.
NothingLeftBehind ==
  fn \in Readers /\ ~busy /\ kernel # <<>> => edge

\* The peer sends no more: it has sent everything, has closed or has reset.
SendsNoMore == far = <<>> \/ peer # "open"

\* A call returns: a writer's whatever the peer does, a reader's when the peer
\* sends no more (the readers have no other bound than EAGAIN, and a peer that
\* goes on sending holds them).  But writen for memory spins as long as the
\* socket is full.
CallReturns ==
  busy /\ (fn \in Readers => SendsNoMore)
    ~> ~busy \/ (fn = "writenAll" /\ Len(kernel) = SocketSize)
=============================================================================
