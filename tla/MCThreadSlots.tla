---------------------------- MODULE MCThreadSlots ----------------------------
(***************************************************************************)
(* Instances of ThreadSlots: the names of the connections.                 *)
(***************************************************************************)
EXTENDS ThreadSlots

CONSTANTS c1, c2, c3, c4
=============================================================================
