----------------------------- MODULE MCPayments -----------------------------
(***************************************************************************)
(* Payments on small instances: prices at the edges of the conversions.    *)
(***************************************************************************)
EXTENDS Payments, TLC

Dec(w, f, p) == [whole |-> w, frac |-> f, places |-> p]

\* 0.0000099 and 0.00001 at the foot of the fee, 12.345 with half a cent,
\* 0.05 with two ties, and a price with eight places.
MCPrice == {Dec(0, 99, 7), Dec(0, 1, 5), Dec(12, 345, 3), Dec(0, 5, 2), Dec(0, 1, 8)}

\* One price, where amounts do not matter.
MCOnePrice == {Dec(0, 5, 2)}

\* The requests, the keys and the instances are alike.
MCSymmetry == Permutations(Request) \cup Permutations(IdemKey) \cup Permutations(Instance)

=============================================================================
