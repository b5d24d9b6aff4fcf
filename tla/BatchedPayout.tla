---------------------------- MODULE BatchedPayout ----------------------------
(***************************************************************************)
(* What a release of the escrow in batches promises, without transactions, *)
(* sequence numbers, trustlines, fees or timeouts: a call pays each batch  *)
(* at most once and only after the one before it, a batch pays nobody but  *)
(* its own investors, the platform has its commission from the last one,   *)
(* no more is paid than is held, and once the payout is recorded, after a  *)
(* last batch, nothing is paid any more.                                   *)
(***************************************************************************)
EXTENDS Integers, FiniteSetsExt

CONSTANTS
    Investors,
    Last,        \* the batches are 0..Last
    Members,     \* the investors of each batch
    Value,       \* held at the beginning
    Commission

VARIABLES
    calls,       \* how often the release was started
    count,       \* how often each batch was paid
    held,
    received,    \* what each investor has received
    commission,  \* what the platform has received
    recorded     \* the payout is recorded

payoutVars == <<calls, count, held, received, commission, recorded>>

Sum(f) == MapThenSumSet(LAMBDA i : f[i], Investors)

PayoutInit ==
    /\ calls = 0
    /\ count = [k \in 0..Last |-> 0]
    /\ held = Value
    /\ received = [i \in Investors |-> 0]
    /\ commission = 0
    /\ recorded = FALSE

Call ==
    /\ ~recorded
    /\ calls' = calls + 1
    /\ UNCHANGED <<count, held, received, commission, recorded>>

Pay(k) ==
    /\ ~recorded
    /\ count[k] < IF k = 0 THEN calls ELSE count[k - 1]
    /\ count' = [count EXCEPT ![k] = @ + 1]
    /\ received' \in [Investors -> Nat]
    /\ \A i \in Investors :
          IF i \in Members[k] THEN received'[i] >= received[i] ELSE received'[i] = received[i]
    /\ commission' = commission + IF k = Last THEN Commission ELSE 0
    /\ held' = Value - commission' - Sum(received')
    /\ held' >= 0
    /\ UNCHANGED <<calls, recorded>>

Record ==
    /\ ~recorded
    /\ count[Last] > 0
    /\ recorded' = TRUE
    /\ UNCHANGED <<calls, count, held, received, commission>>

PayoutNext == Call \/ (\E k \in 0..Last : Pay(k)) \/ Record

PayoutSpec == PayoutInit /\ [][PayoutNext]_payoutVars
=============================================================================
