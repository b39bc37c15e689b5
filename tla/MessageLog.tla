------------------------------ MODULE MessageLog ------------------------------
(***************************************************************************)
(* What the asynchronous log promises those who log, with no threads and   *)
(* no buffers in it: the file is appended to and gets the oldest waiting   *)
(* messages first.  Only when a message has been waiting for long is some  *)
(* of what came after it discarded, never itself, and all in one gap.      *)
(*                                                                         *)
(* Messages are numbered as they are given to the log.                     *)
(***************************************************************************)
EXTENDS Naturals, Sequences

CONSTANTS
  Backlog,  \* how many messages later one is logged before any is discarded
  Spared    \* how many messages from the oldest waiting one on are spared

VARIABLES logged, written, flushed, dropped

log == <<logged, written, flushed, dropped>>

Written == {written[i] : i \in 1..Len(written)}

\* The messages that wait.
Pending == ((1..logged) \ dropped) \ Written

LogInit ==
  /\ logged = 0
  /\ written = <<>>
  /\ flushed = 0
  /\ dropped = {}

Accept ==
  /\ logged' = logged + 1
  /\ UNCHANGED <<written, flushed, dropped>>

\* The oldest messages of S, the oldest first.
Oldest(s, S) ==
  \A i \in 1..Len(s) :
    /\ s[i] \in S
    /\ \A m \in S : m < s[i] <=> \E j \in 1..(i - 1) : s[j] = m

\* Some messages are handed to stdio, which may push them out.
Write ==
  LET s == SubSeq(written', Len(written) + 1, Len(written'))
  IN /\ written' = written \o s
     /\ Oldest(s, Pending)
     /\ flushed' \in {flushed, Len(written')}
     /\ UNCHANGED <<logged, dropped>>

Flush ==
  /\ flushed' = Len(written)
  /\ UNCHANGED <<logged, written, dropped>>

\* The log is too far behind: it discards a stretch of what waits.
Discard ==
  \E lost \in SUBSET Pending, oldest \in Pending :
    /\ \A m \in Pending : oldest <= m
    /\ \A x \in lost : x >= oldest + Spared
    /\ \E x \in lost : x >= oldest + Backlog
    /\ \A m \in Pending \ lost : (\A x \in lost : m < x) \/ (\A x \in lost : x < m)
    /\ dropped' = dropped \cup lost
    /\ UNCHANGED <<logged, written, flushed>>

LogNext == Accept \/ Write \/ Flush \/ Discard

LogSpec == LogInit /\ [][LogNext]_log
===============================================================================
