---------------------------- MODULE MCWorkspace ----------------------------
(***************************************************************************)
(* Instances of Workspace for TLC: two plans for one framework and a third *)
(* for another, so that a tailoring file can be stale in either way.       *)
(***************************************************************************)
EXTENDS Workspace, TLC

CONSTANTS f1p1, f1p2, f2p1

MCPlans == {f1p1, f1p2, f2p1}
MCFramework == (f1p1 :> "f1") @@ (f1p2 :> "f1") @@ (f2p1 :> "f2")

Symmetry == Permutations({f1p1, f1p2}) \cup Permutations(Shells)
=============================================================================
