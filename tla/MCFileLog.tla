----------------------------- MODULE MCFileLog -----------------------------
(***************************************************************************)
(* Instances of FileLog for TLC.                                           *)
(***************************************************************************)
EXTENDS FileLog

At(s, n) == [secs |-> s, nanos |-> n]

\* After the epoch, at a full second and within one before it, and the first that
\* there is.
Times == {At(1, 1), At(-1, 0), At(-1, 1), At(-3, 0)}

=============================================================================
