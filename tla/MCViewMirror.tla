---------------------------- MODULE MCViewMirror ----------------------------
(* Instances of ViewMirror. *)
EXTENDS ViewMirror, TLC

CONSTANTS root, v1, v2, top, bottom

Symmetry == Permutations(Views \ Roots)

=============================================================================
