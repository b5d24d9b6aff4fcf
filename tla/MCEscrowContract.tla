-------------------------- MODULE MCEscrowContract --------------------------
(* A small instance of the contract: two investors beside the parties.     *)
EXTENDS EscrowRefinement, TLC

InvestorSymmetry == Permutations(Addr \ {Admin, Farmer, Platform})

\* Two units for every account that is not a party of the deal.
MCInitBalance ==
    [a \in Addr |-> IF a \in {Admin, Farmer, Platform} THEN 0 ELSE 2]
=============================================================================
