--------------------------- MODULE MCDealFunding ----------------------------
(* Small instances of DealFunding: investments are numbered from 1, and the *)
(* first one is twice as large as the others.                               *)
EXTENDS DealFunding

MCAmount == [i \in Investments |-> IF i = 1 THEN 2 ELSE 1]
=============================================================================
