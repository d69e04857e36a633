--------------------------- MODULE MCOutboxWorker ---------------------------
(***************************************************************************)
(* Model values for OutboxWorker.                                          *)
(***************************************************************************)
EXTENDS OutboxWorker, TLC

Symmetry == Permutations(Event) \cup Permutations(Worker)

=============================================================================
