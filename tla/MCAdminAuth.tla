---------------------------- MODULE MCAdminAuth ----------------------------
(***************************************************************************)
(* Symmetry for the runs of AdminAuth.                                     *)
(***************************************************************************)
EXTENDS AdminAuth, TLC

Symmetry == Permutations(Calls) \cup Permutations(Tokens)
=============================================================================
