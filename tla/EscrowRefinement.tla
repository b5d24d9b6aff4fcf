-------------------------- MODULE EscrowRefinement --------------------------
(***************************************************************************)
(* The escrow contract, with transfers that hand over control and can      *)
(* trap, implements EscrowLedger, in which every operation is atomic.      *)
(***************************************************************************)
EXTENDS EscrowContract, Functions

\* The contributions recorded add up to TotalFunded at every moment, also
\* between the transfers of a batch refund, so that neither refund entry point
\* can fail with BalanceInsufficient.
BooksBalance == FoldFunction(+, 0, investors) = totalFunded

\* An invocation takes effect when it returns; until then, and if it is
\* rolled back, the ledger shows the state in which it was entered.
Committed == IF Idle THEN Current ELSE call.saved

Ledger == INSTANCE EscrowLedger WITH
    wallet  <- [a \in Addr |-> Committed.balance[a]],
    held    <- Committed.investors,
    settled <- Committed.released

\* The contract, with transfers that call back and trap, behaves like the
\* ledger in which every operation is atomic.
ImplementsLedger == Ledger!LedgerSpec
=============================================================================
