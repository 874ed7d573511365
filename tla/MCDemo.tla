------------------------------- MODULE MCDemo -------------------------------
(***************************************************************************)
(* An instance of Demo for TLC: three frames, so that one is read, one is  *)
(* being read and one is on its way, and a poll interval that does not     *)
(* divide the timeout.                                                     *)
(***************************************************************************)
EXTENDS Demo

=============================================================================
