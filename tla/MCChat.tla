------------------------------- MODULE MCChat -------------------------------
(***************************************************************************)
(* Instances of Chat.                                                      *)
(***************************************************************************)
EXTENDS Chat
=============================================================================
