--------------------------- MODULE MCRequestServer ---------------------------
(***************************************************************************)
(* RequestServer on a small instance: three clients for one descriptor     *)
(* number, so that the number is used again, closed once more and accept   *)
(* fails, and two workers, one of which has to wait for the mutex of the   *)
(* other.  Every client may close or reset its connection or stay, and     *)
(* every timer may run out at any time.                                    *)
(***************************************************************************)
EXTENDS RequestServer, TLC

Symmetry == Permutations(Tasks) \cup Permutations(Workers)
=============================================================================
