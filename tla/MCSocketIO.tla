----------------------------- MODULE MCSocketIO -----------------------------
(***************************************************************************)
(* SocketIO on a small instance: a message longer than what one read takes *)
(* and than what the socket holds, so that every function needs several    *)
(* system calls and the string writers several calls.                      *)
(***************************************************************************)
EXTENDS SocketIO
=============================================================================
