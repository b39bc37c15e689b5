--------------------------- MODULE MCThreadStart ----------------------------
(***************************************************************************)
(* ThreadStart with a pool of a given size; threads are started one after  *)
(* the other, so that a larger pool only repeats what the first ones do.   *)
(***************************************************************************)
EXTENDS ThreadStart
=============================================================================
