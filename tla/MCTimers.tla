------------------------------ MODULE MCTimers ------------------------------
(* Instances of Timers. *)
EXTENDS Timers

=============================================================================
