--------------------------- MODULE MCResultWebhook ---------------------------
(***************************************************************************)
(* Model values for ResultWebhook.                                         *)
(***************************************************************************)
EXTENDS ResultWebhook, TLC

Symmetry == Permutations(Publisher) \cup Permutations(Worker) \cup Permutations(Hash)

=============================================================================
