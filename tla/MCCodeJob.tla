----------------------------- MODULE MCCodeJob -----------------------------
(***************************************************************************)
(* An instance of CodeJob for TLC: texts of up to three bytes against a    *)
(* cap of two, so that results and host output fit, fill the cap and pass  *)
(* it.                                                                     *)
(***************************************************************************)
EXTENDS CodeJob

=============================================================================
