---------------------------- MODULE MCElementTree ----------------------------
(* Instances of ElementTree. *)
EXTENDS ElementTree, TLC

ElementSymmetry == Permutations(Elements)

=============================================================================
