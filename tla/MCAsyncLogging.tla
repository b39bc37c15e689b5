--------------------------- MODULE MCAsyncLogging ---------------------------
(***************************************************************************)
(* AsyncLogging on a small instance: buffers of two messages (a byte stays *)
(* free, so SIZE is 3), seven messages, so that four buffers can be taken  *)
(* at once and exceed a backlog of three (the code: 25).                   *)
(***************************************************************************)
EXTENDS AsyncLogging
=============================================================================
