-------------------------- MODULE MCCounterRestart --------------------------
(***************************************************************************)
(* Instances of CounterRestart: the names of the requests.                 *)
(***************************************************************************)
EXTENDS CounterRestart

CONSTANTS r1, w1, w2, w3
=============================================================================
