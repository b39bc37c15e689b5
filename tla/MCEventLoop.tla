----------------------------- MODULE MCEventLoop -----------------------------
(***************************************************************************)
(* EventLoop on a small instance: two callers and the loop's own thread    *)
(* submit three functors in every interleaving, next to two connection     *)
(* channels, one of which may get urgent data.  event_array_ starts with   *)
(* one slot (the code: 4096), so that two ready channels overflow it and   *)
(* it has to grow.                                                         *)
(***************************************************************************)
EXTENDS EventLoop
=============================================================================
