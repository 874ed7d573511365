---------------------------- MODULE MCLogStream ----------------------------
(***************************************************************************)
(* Instances of LogStream for TLC.                                         *)
(***************************************************************************)
EXTENDS LogStream

CONSTANT c1

OneClient == {c1}

\* From the beginning, and from an offset that is past the end at first.
Offsets == {0, 2}

=============================================================================
