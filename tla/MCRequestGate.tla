---------------------------- MODULE MCRequestGate ----------------------------
(***************************************************************************)
(* Model values for RequestGate.                                           *)
(***************************************************************************)
EXTENDS RequestGate, TLC

Symmetry == Permutations(Grant) \cup Permutations(Request) \cup Permutations(Signer)

=============================================================================
