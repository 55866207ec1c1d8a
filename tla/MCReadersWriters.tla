-------------------------- MODULE MCReadersWriters --------------------------
(***************************************************************************)
(* Instances of ReadersWriters: the names of the requests.                 *)
(***************************************************************************)
EXTENDS ReadersWriters

CONSTANTS r1, r2, w1, w2
=============================================================================
