----------------------------- MODULE MCRequests -----------------------------
(***************************************************************************)
(* An instance of Requests for TLC: two requests at a time, two sessions,  *)
(* one job.                                                                *)
(***************************************************************************)
EXTENDS Requests, TLC

CONSTANTS c1, c2, j1

TwoClients == {c1, c2}
OneJob == {j1}

Symmetry == Permutations(TwoClients)

=============================================================================
