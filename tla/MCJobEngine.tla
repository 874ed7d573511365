---------------------------- MODULE MCJobEngine ----------------------------
(***************************************************************************)
(* Instances of JobEngine for TLC.                                         *)
(***************************************************************************)
EXTENDS JobEngine

CONSTANTS s1, s2, j1

OneSession == {s1}
TwoSessions == {s1, s2}
OneJob == {j1}

=============================================================================
