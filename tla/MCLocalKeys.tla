---------------------------- MODULE MCLocalKeys ----------------------------
(***************************************************************************)
(* Policies and symmetry for the runs of LocalKeys.                        *)
(***************************************************************************)
EXTENDS LocalKeys, TLC

Policy(day, minute) == [kind \in Kinds |-> IF kind = "day" THEN day ELSE minute]

(* Either window may be the tighter one, or unlimited, and an edit may     *)
(* bring a limit below what has been used already.                         *)
MixedPolicies == {Policy(2, 1), Policy(1, 2), Policy(0, 1)}
OneEach       == {Policy(1, 1)}

Symmetry == Permutations(Requests)
=============================================================================
