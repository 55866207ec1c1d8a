--------------------------- MODULE MCHelloServer ---------------------------
(***************************************************************************)
(* Instances of HelloServer: clients for two batches, and their names.     *)
(***************************************************************************)
EXTENDS HelloServer

CONSTANTS c1, c2, c3, c4
=============================================================================
