--------------------------- MODULE MCDispatchQueue ---------------------------
(* Instances of DispatchQueue: who calls sync() on whom and who destroys whom. *)
EXTENDS DispatchQueue

CONSTANTS main, qa, qb, f1, f2, f3

\* The main thread waits for both queues, and they for each other.
AllPairs == {<<main, qa>>, <<main, qb>>, <<qa, qb>>, <<qb, qa>>}

\* Only the main thread, which nobody waits for, releases a queue.
MainDrops == {<<main, qa>>, <<main, qb>>}

NoPairs == {}

=============================================================================
