--------------------------- MODULE MCEventEmitter ---------------------------
(* Instances of EventEmitter. *)
EXTENDS EventEmitter, TLC

CONSTANTS start, all

OnePrefix == <<all>>

AllCovers == {<<all, start>>}

Symmetry == Permutations(Functions) \cup Permutations(Pages)

=============================================================================
