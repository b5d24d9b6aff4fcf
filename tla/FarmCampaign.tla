---------------------------- MODULE FarmCampaign ----------------------------
(***************************************************************************)
(* The FarmCampaign Soroban contract, one instance per farming project: it *)
(* collects USDC from investors, releases it to the farmer by milestones   *)
(* and by partial releases, distributes revenue, refunds what is left when *)
(* the raise is closed, and freezes milestones under dispute until the     *)
(* arbitrators have voted.                                                 *)
(*                                                                         *)
(* An invocation is atomic: a failing guard or transfer reverts it.  Every *)
(* entry point that changes storage is an action; authorization is in who  *)
(* takes it.  Investors are numbered in the order of the contract's maps,  *)
(* which hands out rounding residue one stroop at a time.  Amounts stay    *)
(* far below 2^127, so checked_add and checked_mul never fail.             *)
(***************************************************************************)
EXTENDS Integers, Sequences, FiniteSetsExt

CONSTANTS
    InvestorCount,
    Milestones,      \* the indices below milestone_count
    Arbitrators,     \* addresses that can be on the roster
    Rosters,         \* what set_arbitrator_pool is called with
    FundingTarget, InitMaxFunding, Deadline,
    PlatformFeeBps, PartialReleaseCapBps,
    Amounts,         \* arguments of invest, set_max_funding, revenue
    PartialBps,      \* arguments of partial_release_milestone
    Windows,         \* arguments of set_dispute_voting_window
    MaxTime,         \* bound on the ledger clock
    MaxRevenue       \* bound on the revenue that arrives

\* In the order of the keys of the contract's maps.
Investors == 1..InvestorCount
MilestoneCount == Cardinality(Milestones)

\* What initialize accepts.
ASSUME CampaignAssumption ==
    /\ InvestorCount \in Nat
    /\ \A r \in Rosters : r \in Seq(Arbitrators) /\ r # <<>>
    /\ Arbitrators # {}
    /\ FundingTarget \in Nat \ {0}
    /\ InitMaxFunding \in Nat /\ InitMaxFunding >= FundingTarget
    /\ Deadline \in Nat \ {0}
    /\ PlatformFeeBps \in 0..10000
    /\ IsFiniteSet(Milestones)
    /\ PartialReleaseCapBps \in 1..10000
    /\ Amounts \subseteq Nat /\ PartialBps \subseteq Nat
    /\ Windows # {} /\ Windows \subseteq Nat \ {0}
    /\ {MaxTime, MaxRevenue} \subseteq Nat

VARIABLES
    maxFunding, window, arbitrator, roster,      \* settings the admin changes
    status, totalRaised, raiseEnded, totalReleased, partialTotalBps,
    milestonesReleased,                          \* the fields of State
    investments, refundable, refunded,           \* the three maps
    released,        \* milestones with the MilestoneReleased key
    frozen,          \* milestones with the Dispute key
    dispute,         \* DisputeRecord of each milestone
    distributed,
    now,             \* ledger timestamp
    balance,         \* USDC the contract holds
    paidIn, paidBack,\* history: USDC from and back to each investor
    revenueIn,       \* history: revenue that arrived
    breaches         \* history: events after which the claims may be short

settings == <<maxFunding, window, arbitrator, roster>>
maps     == <<investments, refundable, refunded>>
progress == <<totalReleased, partialTotalBps, milestonesReleased, released>>
disputes == <<frozen, dispute>>
money    == <<balance, paidIn, paidBack, revenueIn>>
vars     == <<settings, status, totalRaised, raiseEnded, progress, maps,
              disputes, distributed, now, money, breaches>>

Statuses == {"Open", "Funded", "Active", "Delivered", "Completed", "Failed",
             "Paused"}
NoDispute == [phase |-> "None", deadline |-> 0, voters |-> {}, release |-> 0,
              refund |-> 0, verdict |-> "None"]

SumOf(f) == MapThenSumSet(LAMBDA i : f[i], Investors)
Bps(amount, bps) == (amount * bps) \div 10000

Init ==
    /\ maxFunding = InitMaxFunding
    /\ window \in Windows
    /\ arbitrator \in Arbitrators
    /\ roster = <<>>
    /\ status = "Open" /\ totalRaised = 0 /\ raiseEnded = FALSE
    /\ totalReleased = 0 /\ partialTotalBps = 0 /\ milestonesReleased = 0
    /\ investments = [i \in Investors |-> 0]
    /\ refundable  = [i \in Investors |-> 0]
    /\ refunded = {} /\ released = {} /\ frozen = {}
    /\ dispute = [m \in Milestones |-> NoDispute]
    /\ distributed = FALSE
    /\ now = 0
    /\ balance = 0 /\ revenueIn = 0
    /\ paidIn = [i \in Investors |-> 0] /\ paidBack = [i \in Investors |-> 0]
    /\ breaches = {}

Breach(b, happened) == breaches' = IF happened THEN breaches \cup {b} ELSE breaches

-----------------------------------------------------------------------------
(* The raise. *)

SetMaxFunding(amount) ==
    /\ amount > 0 /\ amount >= FundingTarget
    /\ ~raiseEnded /\ status = "Open" /\ now <= Deadline
    /\ totalRaised <= amount
    /\ maxFunding' = amount
    /\ UNCHANGED <<window, arbitrator, roster, status, totalRaised, raiseEnded,
                   progress, maps, disputes, distributed, now, money, breaches>>

Invest(i, amount) ==
    /\ ~raiseEnded /\ status \in {"Open", "Funded"}
    /\ amount > 0 /\ now <= Deadline
    /\ amount <= maxFunding - totalRaised
    /\ investments' = [investments EXCEPT ![i] = @ + amount]
    /\ totalRaised' = totalRaised + amount
    /\ status' = IF totalRaised' >= FundingTarget THEN "Funded" ELSE status
    /\ balance' = balance + amount
    /\ paidIn' = [paidIn EXCEPT ![i] = @ + amount]
    /\ UNCHANGED <<settings, raiseEnded, progress, refundable, refunded, disputes,
                   distributed, now, paidBack, revenueIn, breaches>>

Approve ==
    /\ status = "Funded"
    /\ status' = "Active"
    /\ UNCHANGED <<settings, totalRaised, raiseEnded, progress, maps, disputes,
                   distributed, now, money, breaches>>

-----------------------------------------------------------------------------
(* apply_proportional_refund: retain `keep' of the raise, and make the rest *)
(* refundable in proportion to the investments.                            *)

RefundableTotal(keep) ==
    IF totalRaised < keep THEN totalRaised ELSE totalRaised - keep

\* Mutant: the boundary of refundable_amount is not that of refundable_total.
RefundableAmount_AtTarget(i, keep) ==
    IF totalRaised = 0 THEN 0
    ELSE IF totalRaised <= keep THEN investments[i]
    ELSE (investments[i] * (totalRaised - keep)) \div totalRaised

RefundableAmount(i, keep) ==
    IF totalRaised = 0 THEN 0
    ELSE IF totalRaised < keep THEN investments[i]
    ELSE (investments[i] * (totalRaised - keep)) \div totalRaised

Allocated(keep) == SumOf([i \in Investors |-> RefundableAmount(i, keep)])
Residual(keep)  == RefundableTotal(keep) - Allocated(keep)

\* The investors who can take one stroop more, and how many are before i.
Short(keep)     == {i \in Investors : RefundableAmount(i, keep) < investments[i]}
Ahead(i, keep)  == Cardinality({j \in Short(keep) : j < i})

\* The split succeeds: no residue is left over, and none is missing.
CanSplit(keep) == Residual(keep) \in 0..Cardinality(Short(keep))

\* Mutant: the residue is dropped.
Split_NoResidue(keep) == [i \in Investors |-> RefundableAmount(i, keep)]

Split(keep) ==
    [i \in Investors |->
        RefundableAmount(i, keep)
          + IF i \in Short(keep) /\ Ahead(i, keep) < Residual(keep) THEN 1 ELSE 0]

ApplyProportionalRefund(keep) ==
    /\ CanSplit(keep)
    /\ refundable' = Split(keep)
    /\ investments' = [i \in Investors |-> investments[i] - Split(keep)[i]]
    /\ totalRaised' = totalRaised - RefundableTotal(keep)
    /\ raiseEnded' = TRUE
    /\ UNCHANGED refunded

EarlyClose ==
    /\ ~raiseEnded
    /\ status \in {"Open", "Funded", "Paused"}
    /\ ApplyProportionalRefund(FundingTarget)
    /\ UNCHANGED <<settings, status, progress, disputes, distributed, now, money,
                   breaches>>

\* Mutant: everything is refundable, whatever the farmer has been paid.
MarkFailed_All ==
    /\ ~raiseEnded
    /\ status' = "Failed"
    /\ ApplyProportionalRefund(0)
    /\ UNCHANGED <<settings, progress, disputes, distributed, now, money, breaches>>

MarkFailed ==
    /\ ~raiseEnded
    /\ status' = "Failed"
    /\ ApplyProportionalRefund(totalReleased)
    /\ UNCHANGED <<settings, progress, disputes, distributed, now, money, breaches>>

\* refund and refund_by_admin.  An investor already refunded gets Ok and
\* nothing else.
CanRefund ==
    raiseEnded \/ status = "Failed"
      \/ (status \in {"Open", "Paused"} /\ now > Deadline)

Claim(i) == IF i \in refunded THEN 0
            ELSE IF raiseEnded THEN refundable[i] ELSE investments[i]

\* Mutant: before the raise has ended nothing is written but the transfer.
Refund_Unrecorded(i) ==
    /\ CanRefund
    /\ Claim(i) > 0 /\ Claim(i) <= balance
    /\ refundable' = IF raiseEnded THEN [refundable EXCEPT ![i] = 0] ELSE refundable
    /\ refunded' = IF raiseEnded THEN refunded \cup {i} ELSE refunded
    /\ balance' = balance - Claim(i)
    /\ paidBack' = [paidBack EXCEPT ![i] = @ + Claim(i)]
    /\ UNCHANGED <<settings, status, totalRaised, investments, raiseEnded, progress,
                   disputes, distributed, now, paidIn, revenueIn, breaches>>

Refund(i) ==
    /\ CanRefund
    /\ Claim(i) > 0 /\ Claim(i) <= balance
    /\ IF raiseEnded
         THEN /\ refundable' = [refundable EXCEPT ![i] = 0]
              /\ UNCHANGED <<investments, totalRaised>>
         ELSE /\ investments' = [investments EXCEPT ![i] = 0]
              /\ totalRaised' = totalRaised - Claim(i)
              /\ UNCHANGED refundable
    /\ refunded' = refunded \cup {i}
    /\ balance' = balance - Claim(i)
    /\ paidBack' = [paidBack EXCEPT ![i] = @ + Claim(i)]
    /\ UNCHANGED <<settings, status, raiseEnded, progress, disputes, distributed,
                   now, paidIn, revenueIn, breaches>>

\* Neither checks what the status was: pausing and unpausing reopens a
\* campaign that was active, delivered or completed.
Pause ==
    /\ ~raiseEnded
    /\ status' = "Paused"
    /\ Breach("reopened", status \notin {"Open", "Funded", "Paused"})
    /\ UNCHANGED <<settings, totalRaised, raiseEnded, progress, maps, disputes,
                   distributed, now, money>>

Unpause ==
    /\ ~raiseEnded
    /\ status' = "Open"
    /\ Breach("reopened", status \notin {"Open", "Funded", "Paused"})
    /\ UNCHANGED <<settings, totalRaised, raiseEnded, progress, maps, disputes,
                   distributed, now, money>>

-----------------------------------------------------------------------------
(* Releases to the farmer, and revenue. *)

\* USDC leaves the contract for the farmer; a transfer beyond the balance
\* reverts the invocation.  The money of a raise can be promised twice, to
\* partial releases and to milestones.
PayFarmer(amount) ==
    /\ amount <= balance
    /\ balance' = balance - amount
    /\ totalReleased' = totalReleased + amount
    /\ UNCHANGED <<paidIn, paidBack, revenueIn>>

PartialReleaseMilestone(bps) ==
    /\ status = "Active"
    /\ bps > 0 /\ partialTotalBps + bps <= PartialReleaseCapBps
    /\ Bps(totalRaised, bps) > 0
    /\ PayFarmer(Bps(totalRaised, bps))
    /\ partialTotalBps' = partialTotalBps + bps
    /\ Breach("overpaid", totalReleased' > totalRaised)
    /\ UNCHANGED <<settings, status, totalRaised, raiseEnded, milestonesReleased,
                   released, maps, disputes, distributed, now>>

Tranche == (totalRaised - Bps(totalRaised, PlatformFeeBps)) \div MilestoneCount

\* Common to release_milestone and to a dispute resolved for the farmer.
PayTranche(m) ==
    /\ released' = released \cup {m}
    /\ milestonesReleased' = milestonesReleased + 1
    /\ status' = IF milestonesReleased' >= MilestoneCount THEN "Delivered" ELSE status
    /\ PayFarmer(Tranche)

ReleaseMilestone(m) ==
    /\ status = "Active"
    /\ m \notin released
    /\ m \notin frozen
    /\ PayTranche(m)
    /\ Breach("overpaid", totalReleased' > totalRaised)
    /\ UNCHANGED <<settings, totalRaised, raiseEnded, partialTotalBps, maps, disputes,
                   distributed, now>>

\* The buyer pays for the delivered crop by a plain transfer, which the contract
\* does not see; distribute_revenue is told an amount and pays it from the balance.
ReceiveRevenue(amount) ==
    /\ status = "Delivered"
    /\ amount > 0 /\ revenueIn + amount <= MaxRevenue
    /\ balance' = balance + amount
    /\ revenueIn' = revenueIn + amount
    /\ UNCHANGED <<settings, status, totalRaised, raiseEnded, progress, maps,
                   disputes, distributed, now, paidIn, paidBack, breaches>>

RevenueShare(i, amount) ==
    IF totalRaised = 0 THEN 0
    ELSE ((amount - Bps(amount, PlatformFeeBps)) * investments[i]) \div totalRaised

RevenuePaid(amount) ==
    SumOf([i \in Investors |-> RevenueShare(i, amount)]) + Bps(amount, PlatformFeeBps)

DistributeRevenue(amount) ==
    /\ status = "Delivered" /\ ~distributed
    /\ amount > 0
    /\ RevenuePaid(amount) <= balance
    /\ distributed' = TRUE
    /\ status' = "Completed"
    /\ balance' = balance - RevenuePaid(amount)
    /\ Breach("unfunded", RevenuePaid(amount) > revenueIn)
    /\ UNCHANGED <<settings, totalRaised, raiseEnded, progress, maps, disputes, now,
                   paidIn, paidBack, revenueIn>>

-----------------------------------------------------------------------------
(* Disputes. *)

SetDisputeVotingWindow(seconds) ==
    /\ window' = seconds
    /\ UNCHANGED <<maxFunding, arbitrator, roster, status, totalRaised, raiseEnded,
                   progress, maps, disputes, distributed, now, money, breaches>>

SetArbitratorPool(pool) ==
    /\ ~raiseEnded /\ status = "Open"
    /\ roster' = pool
    /\ UNCHANGED <<maxFunding, window, arbitrator, status, totalRaised, raiseEnded,
                   progress, maps, disputes, distributed, now, money, breaches>>

UpdateArbitrator(a) ==
    /\ ~raiseEnded /\ status = "Open"
    /\ arbitrator' = a
    /\ UNCHANGED <<maxFunding, window, roster, status, totalRaised, raiseEnded,
                   progress, maps, disputes, distributed, now, money, breaches>>

\* The roster, or the single arbitrator while none is set.  The quorum counts
\* entries: an address listed twice counts twice but votes once.
ArbitratorPool == IF roster # <<>> THEN roster ELSE <<arbitrator>>
VoteQuorum == Len(ArbitratorPool) \div 2 + 1
OnRoster(a) == \E k \in 1..Len(ArbitratorPool) : ArbitratorPool[k] = a

\* By the admin, the farmer or an investor with a stake.
RaiseDispute(m) ==
    /\ status = "Active"
    /\ m \notin released /\ m \notin frozen
    /\ frozen' = frozen \cup {m}
    /\ dispute' = [dispute EXCEPT ![m] =
                      [NoDispute EXCEPT !.phase = "Open", !.deadline = now + window]]
    /\ UNCHANGED <<settings, status, totalRaised, raiseEnded, progress, maps,
                   distributed, now, money, breaches>>

\* The record after one more vote, decided as soon as a side has the quorum.
Counted(d, a, forFarmer) ==
    LET rel == d.release + (IF forFarmer THEN 1 ELSE 0)
        ref == d.refund + (IF forFarmer THEN 0 ELSE 1)
        verdict == IF rel >= VoteQuorum THEN "Release"
                   ELSE IF ref >= VoteQuorum THEN "Refund" ELSE "None"
    IN  [d EXCEPT !.voters = @ \cup {a}, !.release = rel, !.refund = ref,
                  !.verdict = verdict,
                  !.phase = IF verdict = "None" THEN "Arbitration" ELSE "Verdict"]

\* Mutant: a decided dispute still takes votes.
CastDisputeVote_Decided(a, m, forFarmer) ==
    /\ OnRoster(a)
    /\ dispute[m].phase # "None"
    /\ now <= dispute[m].deadline
    /\ a \notin dispute[m].voters
    /\ dispute' = [dispute EXCEPT ![m] = Counted(@, a, forFarmer)]
    /\ UNCHANGED <<settings, status, totalRaised, raiseEnded, progress, maps, frozen,
                   distributed, now, money, breaches>>

CastDisputeVote(a, m, forFarmer) ==
    /\ OnRoster(a)
    /\ dispute[m].phase # "None" /\ dispute[m].verdict = "None"
    /\ now <= dispute[m].deadline
    /\ a \notin dispute[m].voters
    /\ dispute' = [dispute EXCEPT ![m] = Counted(@, a, forFarmer)]
    /\ UNCHANGED <<settings, status, totalRaised, raiseEnded, progress, maps, frozen,
                   distributed, now, money, breaches>>

\* The verdict once the window has closed: a tie refunds.
Decided(d) ==
    IF d.verdict # "None" THEN d.verdict
    ELSE IF d.release > d.refund THEN "Release" ELSE "Refund"

FinalizeDispute(m) ==
    /\ dispute[m].phase # "None" /\ dispute[m].verdict = "None"
    /\ now > dispute[m].deadline
    /\ dispute' = [dispute EXCEPT ![m].verdict = Decided(dispute[m]),
                                  ![m].phase = "Verdict"]
    /\ UNCHANGED <<settings, status, totalRaised, raiseEnded, progress, maps, frozen,
                   distributed, now, money, breaches>>

\* Executes the verdict, whatever has happened to the raise since the dispute
\* was opened: after a split, a lost dispute splits again.
ResolveDispute(m) ==
    /\ dispute[m].phase \notin {"None", "Resolved"}
    /\ dispute[m].verdict # "None" \/ now > dispute[m].deadline
    /\ frozen' = frozen \ {m}
    /\ dispute' = [dispute EXCEPT ![m].verdict = Decided(dispute[m]),
                                  ![m].phase = "Resolved"]
    /\ \/ /\ Decided(dispute[m]) = "Release"
          /\ PayTranche(m)
          /\ Breach("overpaid", totalReleased' > totalRaised)
          /\ UNCHANGED <<totalRaised, raiseEnded, partialTotalBps, maps>>
       \/ /\ Decided(dispute[m]) = "Refund"
          /\ status' = "Failed"
          /\ ApplyProportionalRefund(totalReleased)
          /\ UNCHANGED <<progress, money, breaches>>
    /\ UNCHANGED <<settings, distributed, now>>

Tick ==
    /\ now < MaxTime
    /\ now' = now + 1
    /\ UNCHANGED <<settings, status, totalRaised, raiseEnded, progress, maps,
                   disputes, distributed, money, breaches>>

-----------------------------------------------------------------------------
Next ==
    \/ \E i \in Investors, n \in Amounts : Invest(i, n)
    \/ \E n \in Amounts : SetMaxFunding(n) \/ ReceiveRevenue(n) \/ DistributeRevenue(n)
    \/ \E i \in Investors : Refund(i)
    \/ Approve \/ EarlyClose \/ MarkFailed \/ Pause \/ Unpause
    \/ \E b \in PartialBps : PartialReleaseMilestone(b)
    \/ \E w \in Windows : SetDisputeVotingWindow(w)
    \/ \E r \in Rosters : SetArbitratorPool(r)
    \/ \E a \in Arbitrators : UpdateArbitrator(a)
    \/ \E m \in Milestones :
          \/ ReleaseMilestone(m) \/ RaiseDispute(m)
          \/ FinalizeDispute(m) \/ ResolveDispute(m)
          \/ \E a \in Arbitrators, forFarmer \in BOOLEAN :
                CastDisputeVote(a, m, forFarmer)
    \/ Tick

Spec == Init /\ [][Next]_vars

-----------------------------------------------------------------------------
DisputeRecords ==
    [phase : {"None", "Open", "Arbitration", "Verdict", "Resolved"},
     deadline : Nat, voters : SUBSET Arbitrators, release : Nat, refund : Nat,
     verdict : {"None", "Release", "Refund"}]

\* Type invariant.
TypeOK ==
    /\ maxFunding \in Nat /\ window \in Nat /\ arbitrator \in Arbitrators
    /\ roster \in Seq(Arbitrators)
    /\ status \in Statuses
    /\ totalRaised \in Nat /\ raiseEnded \in BOOLEAN
    /\ totalReleased \in Nat /\ partialTotalBps \in Nat
    /\ milestonesReleased \in Nat
    /\ investments \in [Investors -> Nat] /\ refundable \in [Investors -> Nat]
    /\ refunded \subseteq Investors
    /\ released \subseteq Milestones /\ frozen \subseteq Milestones
    /\ dispute \in [Milestones -> DisputeRecords]
    /\ distributed \in BOOLEAN
    /\ now \in Nat /\ balance \in Nat /\ revenueIn \in Nat
    /\ paidIn \in [Investors -> Nat] /\ paidBack \in [Investors -> Nat]
    /\ breaches \subseteq {"reopened", "overpaid", "unfunded"}

\* What the refunds promised by a closed raise add up to.
Owed == SumOf([i \in Investors |-> IF raiseEnded THEN Claim(i) ELSE 0])

\* Refunds promised are refunds held: as long as none of the three events has
\* happened that the contract does not guard against, its USDC covers every
\* unclaimed refund of early_close, mark_failed and a lost dispute.
ClaimsCovered == breaches = {} => Owed <= balance

\* mark_failed: refundable shares are "never more than the contract can pay out".
FailedIsCovered == status = "Failed" => Owed <= balance

\* resolve_dispute: a lost dispute turns what is held "into investor refunds".
\* Fails for an investor who has claimed a share of an earlier split.
NothingStranded == \A i \in refunded : refundable[i] = 0

\* The stakes in the Investments map add up to total_raised through every
\* proportional split, rounding residue included.
RaisedIsInvested == SumOf(investments) = totalRaised

\* No investor gets back more principal than was paid in, however the two
\* refund paths and the Refunded flag combine.
RefundsBounded == \A i \in Investors : paidBack[i] + Claim(i) <= paidIn[i]

\* Closing the raise, failing the campaign and a lost dispute never revert on
\* the arithmetic of the split (refundable_total and refundable_amount agree
\* at every boundary).
ClosingSucceeds == CanSplit(FundingTarget) /\ CanSplit(totalReleased)

\* A recorded verdict is never changed, by votes, by finalize, by resolve or by
\* a second dispute on the same milestone.
VerdictStands ==
    \A m \in Milestones :
        dispute[m].verdict # "None" => dispute'[m].verdict = dispute[m].verdict
VerdictIsFinal == [][VerdictStands]_vars
=============================================================================
