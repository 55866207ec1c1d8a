------------------------- MODULE MCLamportShutdown -------------------------
(***************************************************************************)
(* Instances of LamportShutdown: all the processes there are.              *)
(***************************************************************************)
EXTENDS LamportShutdown
=============================================================================
