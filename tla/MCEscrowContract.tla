-------------------------- MODULE MCEscrowContract --------------------------
(***************************************************************************)
(* Model values for EscrowContract.  Accounts play every role, so any      *)
(* permutation of them maps behaviours to behaviours.                      *)
(***************************************************************************)
EXTENDS EscrowContract, TLC

Symmetry == Permutations(Account)

=============================================================================
