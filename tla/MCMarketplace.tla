--------------------------- MODULE MCMarketplace ---------------------------
(***************************************************************************)
(* Small instances of Marketplace for TLC.                                 *)
(***************************************************************************)
EXTENDS Marketplace, TLC

\* Requests of one kind are interchangeable; bids are told apart by their
\* amounts and times, not by their names.
Symmetry == Permutations(CreateReq) \cup Permutations(BidReq) \cup
            Permutations(SelectReq) \cup Permutations(CompleteReq) \cup Permutations(Sweep)
=============================================================================
