----------------------------- MODULE MCTcpServer -----------------------------
(***************************************************************************)
(* TcpServer on small instances: three clients and two descriptors, so     *)
(* that accept fails for want of one and that numbers are used again.      *)
(***************************************************************************)
EXTENDS TcpServer

CONSTANTS l1, l2

Pool   == <<l1, l2>>
NoPool == <<>>
=============================================================================
