--------------------------- MODULE StellarRelease ---------------------------
(***************************************************************************)
(* StellarService.releaseEscrow, as EscrowService.processDealDelivered     *)
(* calls it under the lease payment.distribution: the escrow account pays  *)
(* the investors in batches, one transaction per batch, and the platform   *)
(* in the last one.  A rejected fee makes submitWithFeeBumpRetry build the *)
(* transaction again; any other failure ends the call, and the redelivered *)
(* message starts the release from its first batch.                        *)
(*                                                                         *)
(* EscrowRelease has this call as one atomic payout; this module is about  *)
(* what happens inside it.  Money is in stroops.  A payment and a claimable *)
(* balance, for investors without a trustline, both count as paid.         *)
(***************************************************************************)
EXTENDS Integers, Sequences, FiniteSetsExt

CONSTANTS
    Tokens,          \* the token amounts of the investments, in query order
    TotalValue,      \* of the deal
    Drift,           \* stroops by which floating point misses a rounded share
    BatchSize,
    MaxAttempts,     \* of submitWithFeeBumpRetry
    MaxRuns,         \* deliveries of the message
    MaxTrustChanges  \* bound on trustlines opened or removed meanwhile

Investors == 1..Len(Tokens)
BatchCount == (Len(Tokens) + BatchSize - 1) \div BatchSize
Batches == 0..(BatchCount - 1)

ASSUME ReleaseAssumption ==
    /\ Tokens \in Seq(Nat \ {0}) /\ Tokens # <<>>
    /\ {TotalValue, BatchSize, MaxAttempts} \subseteq Nat \ {0}
    /\ {MaxRuns, MaxTrustChanges} \subseteq Nat

VARIABLES
    at,          \* step of the worker that holds the lease
    batch, attempt,
    distributed, \* distributedToInvestors
    trusted,     \* investors found to have a trustline before the first batch
    tx,          \* transaction built; direct are its payments that are no claimable balances
    trust,       \* ledger: investors with a trustline
    seq,         \* ledger: sequence number of the escrow account
    escrow,      \* ledger: USDC of the escrow account
    paid,        \* ledger: what each investor has received
    fee,         \* ledger: what the platform has received
    batchPaid,   \* ledger: how often each batch was paid
    inflight,    \* transactions that timed out and can still be applied
    recorded,    \* the payment_distributions rows are committed
    runs, trustChanges,
    rebuilt      \* history: a transaction was built again for its fee

ledger == <<trust, seq, escrow, paid, fee, batchPaid, trustChanges>>
vars == <<at, batch, attempt, distributed, trusted, tx, inflight, recorded, runs,
          rebuilt, ledger>>

NoTx == [seq |-> 0, batch |-> 0, direct |-> {}, amount |-> [i \in Investors |-> 0]]

Init ==
    /\ at = "idle" /\ batch = 0 /\ attempt = 0 /\ distributed = 0
    /\ trusted = {} /\ tx = NoTx
    /\ trust \in SUBSET Investors
    /\ seq = 0 /\ escrow = TotalValue /\ fee = 0
    /\ paid = [i \in Investors |-> 0]
    /\ batchPaid = [k \in Batches |-> 0]
    /\ inflight = {} /\ recorded = FALSE
    /\ runs = 0 /\ trustChanges = 0 /\ rebuilt = FALSE

-----------------------------------------------------------------------------
(* calculateReleasePlan: 2% for the platform, rounded down, the rest for    *)
(* the investors in proportion to their tokens.                             *)

PlatformStroops == (TotalValue * 2) \div 100
InvestorPool == TotalValue - PlatformStroops
SumOver(S, f) == MapThenSumSet(LAMBDA i : f[i], S)
TotalTokens == SumOver(Investors, Tokens)
ExactShare == [i \in Investors |-> (Tokens[i] * InvestorPool) \div TotalTokens]

\* Math.floor((tokenAmount / totalTokens) * investorPoolStroops), computed in
\* doubles: every build gets the same number, which can be a stroop off.
FloorShare == [i \in Investors |-> ExactShare[i] + Drift[i]]

ASSUME DriftAssumption ==
    /\ Drift \in [Investors -> -1..1]
    /\ \A i \in Investors : FloorShare[i] >= 0

BatchOf(i) == (i - 1) \div BatchSize
InBatch(k) == {i \in Investors : BatchOf(i) = k}
LastBatch == BatchCount - 1

-----------------------------------------------------------------------------
(* One run of the release. *)

StartRelease ==
    /\ at = "idle" /\ runs < MaxRuns /\ ~recorded
    /\ runs' = runs + 1
    /\ at' = "build"
    /\ batch' = 0 /\ attempt' = 0 /\ distributed' = 0
    /\ trusted' = trust
    /\ UNCHANGED <<tx, inflight, recorded, rebuilt, ledger>>

\* distributedToInvestors when the share of investor i is computed.
Distributed(i) ==
    distributed + SumOver({j \in InBatch(batch) : j < i}, FloorShare)

\* Mutant: every share is rounded down.
ShareStroops_Floor(i) == FloorShare[i]

\* The last investor takes what the others leave.
ShareStroops(i) ==
    IF i = Len(Tokens) THEN InvestorPool - Distributed(i) ELSE FloorShare[i]

\* buildTx: the sequence number is loaded and the amounts are computed; a share
\* that is not positive gets no operation.  The running total is a variable of
\* releaseEscrow, so every build of a batch adds to it.
BuildTx ==
    /\ at = "build"
    /\ tx' = [seq |-> seq + 1, batch |-> batch, direct |-> trusted,
              amount |-> [i \in Investors |->
                  IF i \in InBatch(batch) /\ ShareStroops(i) > 0 THEN ShareStroops(i) ELSE 0]]
    /\ distributed' = distributed
          + SumOver(InBatch(batch), [i \in Investors |-> ShareStroops(i)])
    /\ at' = "submit"
    /\ UNCHANGED <<batch, attempt, trusted, inflight, recorded, runs, rebuilt, ledger>>

\* What a transaction takes from the escrow account, and whether the network
\* accepts it: next sequence number, enough USDC, and a trustline for every
\* payment (a claimable balance needs none).
PlatformPart(t) == IF t.batch = LastBatch THEN PlatformStroops ELSE 0
Cost(t) == SumOver(Investors, t.amount) + PlatformPart(t)
Valid(t) ==
    /\ t.seq = seq + 1
    /\ Cost(t) <= escrow
    /\ \A i \in Investors : t.amount[i] > 0 /\ i \in t.direct => i \in trust

Apply(t) ==
    /\ seq' = seq + 1
    /\ escrow' = escrow - Cost(t)
    /\ paid' = [i \in Investors |-> paid[i] + t.amount[i]]
    /\ fee' = fee + PlatformPart(t)
    /\ batchPaid' = [batchPaid EXCEPT ![t.batch] = @ + 1]
    /\ UNCHANGED <<trust, trustChanges>>

Submitted ==
    /\ at = "submit" /\ Valid(tx)
    /\ Apply(tx)
    /\ IF batch = LastBatch THEN at' = "commit" /\ UNCHANGED batch
                            ELSE at' = "build" /\ batch' = batch + 1
    /\ attempt' = 0
    /\ UNCHANGED <<distributed, trusted, tx, inflight, recorded, runs, rebuilt>>

\* Mutant: a batch whose fee was never accepted is skipped.
FeeRejected_Skips ==
    /\ at = "submit" /\ at' = "build"
    /\ IF attempt + 1 < MaxAttempts
         THEN attempt' = attempt + 1 /\ UNCHANGED batch
         ELSE batch < LastBatch /\ batch' = batch + 1 /\ attempt' = 0
    /\ rebuilt' = TRUE
    /\ UNCHANGED <<distributed, trusted, tx, inflight, recorded, runs, ledger>>

\* tx_insufficient_fee: built again with twice the fee, up to MaxAttempts.
FeeRejected ==
    /\ at = "submit"
    /\ IF attempt + 1 < MaxAttempts
         THEN at' = "build" /\ attempt' = attempt + 1 /\ rebuilt' = TRUE
         ELSE at' = "idle" /\ UNCHANGED <<attempt, rebuilt>>
    /\ UNCHANGED <<batch, distributed, trusted, tx, inflight, recorded, runs, ledger>>

\* Mutant: a timeout is retried like a rejected fee.
SubmitThrows_Retried ==
    /\ at = "submit"
    /\ \/ UNCHANGED <<inflight, ledger>>
       \/ Valid(tx) /\ Apply(tx) /\ UNCHANGED inflight
    /\ at' = "build" /\ rebuilt' = TRUE
    /\ UNCHANGED <<batch, attempt, distributed, trusted, tx, recorded, runs>>

\* Any other failure: refused, timed out with the transaction still in flight,
\* or applied with the answer lost.  processDealDelivered releases its lease
\* and the message is delivered again.
SubmitThrows ==
    /\ at = "submit"
    /\ \/ UNCHANGED <<inflight, ledger>>
       \/ inflight' = inflight \cup {tx} /\ UNCHANGED ledger
       \/ Valid(tx) /\ Apply(tx) /\ UNCHANGED inflight
    /\ at' = "idle"
    /\ UNCHANGED <<batch, attempt, distributed, trusted, tx, recorded, runs, rebuilt>>

\* The rows of all recipients and the status 'completed' in one transaction;
\* when it fails the rows are rolled back and the message comes again.
CommitRows ==
    /\ at = "commit"
    /\ recorded' \in BOOLEAN
    /\ at' = IF recorded' THEN "done" ELSE "idle"
    /\ UNCHANGED <<batch, attempt, distributed, trusted, tx, inflight, runs, rebuilt, ledger>>

-----------------------------------------------------------------------------
(* The network and the investors. *)

ApplyLate(t) ==
    /\ t \in inflight
    /\ inflight' = inflight \ {t}
    /\ IF Valid(t) THEN Apply(t) ELSE UNCHANGED ledger
    /\ UNCHANGED <<at, batch, attempt, distributed, trusted, tx, recorded, runs, rebuilt>>

ChangeTrust(i) ==
    /\ trustChanges < MaxTrustChanges
    /\ trustChanges' = trustChanges + 1
    /\ trust' = IF i \in trust THEN trust \ {i} ELSE trust \cup {i}
    /\ UNCHANGED <<at, batch, attempt, distributed, trusted, tx, inflight, recorded,
                   runs, rebuilt, seq, escrow, paid, fee, batchPaid>>

-----------------------------------------------------------------------------
Next ==
    \/ StartRelease \/ BuildTx \/ Submitted \/ FeeRejected \/ SubmitThrows \/ CommitRows
    \/ \E t \in inflight : ApplyLate(t)
    \/ \E i \in Investors : ChangeTrust(i)

Spec == Init /\ [][Next]_vars

-----------------------------------------------------------------------------
\* Type invariant.
TypeOK ==
    /\ at \in {"idle", "build", "submit", "commit", "done"}
    /\ batch \in Batches /\ attempt \in 0..(MaxAttempts - 1)
    /\ distributed \in Int
    /\ trusted \subseteq Investors /\ trust \subseteq Investors
    /\ {seq, escrow, fee, runs, trustChanges} \subseteq Nat
    /\ paid \in [Investors -> Nat] /\ batchPaid \in [Batches -> Nat]
    /\ recorded \in BOOLEAN /\ rebuilt \in BOOLEAN

\* A run pays each batch at most once, whatever times out, arrives late or is
\* built again: the sequence number lets one transaction of a batch through.
OncePerRun == \A k \in Batches : batchPaid[k] <= runs

\* A later batch is never paid more often than an earlier one.  With a single
\* batch the release is all or nothing, which EscrowRelease relies on.
BatchesInOrder ==
    \A k \in Batches : k > 0 => batchPaid[k] <= batchPaid[k - 1]

\* The share of an investor; the last one takes what the others leave, if they
\* leave anything.
LastInvestor == Len(Tokens)
Share(i) ==
    IF i # LastInvestor THEN FloorShare[i]
    ELSE LET rest == InvestorPool - SumOver(Investors \ {i}, FloorShare)
         IN  IF rest > 0 THEN rest ELSE 0

\* A second build counts shares twice in the running total, which only the last
\* investor is paid from.
Settles(i, amount) ==
    amount = Share(i) \/ (rebuilt /\ i = LastInvestor /\ amount \in 0..Share(i))

\* A release that needed one run pays the platform its part and every investor
\* the share, however often a fee was refused: all that can go wrong is that the
\* last investor gets less, which then stays in the escrow.  In particular shares
\* that floating point rounds to more than the pool are never recorded as paid.
SharesOfOneRun ==
    recorded /\ runs = 1
      => /\ \A i \in Investors : Settles(i, paid[i])
         /\ fee = PlatformStroops
         /\ escrow = Share(LastInvestor) - paid[LastInvestor]

\* stellar.service.spec: releaseEscrow "should distribute tokens proportionally
\* among investors".
SharesPaid == recorded => \A i \in Investors : paid[i] >= Share(i)

-----------------------------------------------------------------------------
Payout == INSTANCE BatchedPayout WITH
    Last <- LastBatch, Members <- [k \in Batches |-> InBatch(k)],
    Value <- TotalValue, Commission <- PlatformStroops,
    calls <- runs, count <- batchPaid, held <- escrow, received <- paid, commission <- fee

\* releaseEscrow, with transactions that are refused, time out, are built again
\* or applied late, keeps the promise of BatchedPayout; so nothing that was left
\* in flight is paid after the rows of the payout are recorded.
ImplementsPayout == Payout!PayoutSpec
=============================================================================
