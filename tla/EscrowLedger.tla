---------------------------- MODULE EscrowLedger ----------------------------
(***************************************************************************)
(* What the on-chain escrow of one deal promises its users, with every     *)
(* operation atomic: money is in a wallet or held for the investor that    *)
(* deposited it; a refund returns exactly what is held; one payout splits  *)
(* everything held between the farmer and the platform, and ends it.       *)
(***************************************************************************)
EXTENDS Integers, Functions

CONSTANTS Addr, Farmer, Platform, InitBalance

VARIABLES wallet, held, settled

ledgerVars == <<wallet, held, settled>>

Held == FoldFunction(+, 0, held)

LedgerInit ==
    /\ wallet = InitBalance
    /\ held = [a \in Addr |-> 0]
    /\ settled = FALSE

\* An investor moves part of the wallet into the escrow.
Deposit(a) ==
    /\ ~settled
    /\ \E n \in 1 .. wallet[a] :
          /\ wallet' = [wallet EXCEPT ![a] = @ - n]
          /\ held' = [held EXCEPT ![a] = @ + n]
    /\ UNCHANGED settled

\* Some investors get back everything that is held for them.
Refund(S) ==
    /\ ~settled
    /\ wallet' = [a \in Addr |-> wallet[a] + IF a \in S THEN held[a] ELSE 0]
    /\ held' = [a \in Addr |-> IF a \in S THEN 0 ELSE held[a]]
    /\ UNCHANGED settled

\* Everything held goes to the farmer (98%, rounded down) and the platform.
Settle ==
    /\ ~settled
    /\ Held > 0
    /\ settled' = TRUE
    /\ LET farmer == (Held * 98) \div 100
       IN  wallet' = [wallet EXCEPT ![Farmer]   = @ + farmer,
                                    ![Platform] = @ + (Held - farmer)]
    /\ UNCHANGED held

\* Money sent to the escrow's address outside the protocol is not held for
\* anyone.
Gift(a) ==
    /\ \E n \in 1 .. wallet[a] : wallet' = [wallet EXCEPT ![a] = @ - n]
    /\ UNCHANGED <<held, settled>>

LedgerNext ==
    \/ \E a \in Addr : Deposit(a) \/ Gift(a)
    \/ \E S \in SUBSET Addr : Refund(S)
    \/ Settle

LedgerSpec == LedgerInit /\ [][LedgerNext]_ledgerVars
=============================================================================
